SPECIFICATION DeploySpec
CONSTANTS
  Bases <- MCBases
  Tensors = {t1, t2, t3}
  Draft = {t1, t2}
  Files <- MCFiles
  SmallReload = 2
  ModelLengths = {7, 8}
  LmcacheChunk = 2
  MaxPolls = 2
  Contexts <- MCContexts
  EvictTokens = 2
  ChunkTokens = 2
  GpuChunks = 2
  FourContexts = 4
  MaxFills = 2
  Cases <- MCCases
INVARIANTS DeployTypeOK BuiltIsWhole WeightsOnce StartIsSafe LocksReturn PassIsTrue MatrixPasses
PROPERTIES Finishes
CHECK_DEADLOCK FALSE
