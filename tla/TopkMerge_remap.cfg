SPECIFICATION FairSpec
CONSTANTS
  DcpSize = 2
  Interleave = 1
  BlockSize = 2
  MaxTokens = 0
  MaxSeqs = 0
  TopK = 2
  Rows = 1
  MaxLen = 5
  Scores = {0, 1, 2}
  Modes <- MCRemapModes
  DecodeLens <- MCDecodeLens
INVARIANTS RemapShares
CHECK_DEADLOCK FALSE
