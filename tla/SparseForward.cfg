SPECIFICATION ForwardSpec
CONSTANTS
  GroupSizes = {1, 2, 4}
  Run = 2
  PageSize = 4
  MaxNumSeqs = 2
  MaxModelLen = 14
  WorkspaceCap = 8
  HeadAlign = 3
  MaxBatched = 6
  A2aMaxTokens = 2
  MinProject = 2
  WorkspaceMin = 4
  MinGather = 2
  SpecMaxQ = 2
  ProjectRows = 2
  Cases <- MCCases
  Tiles = {t1, t2}
  Width = 2
  Slots = {s1, s2, s3}
  None = None
  Followed <- MCFollowed
INVARIANTS TypeOK EveryKeyOnce HeadsRight RemapTypeOK PrefixExact
PROPERTIES LayerFinishes
CHECK_DEADLOCK FALSE
