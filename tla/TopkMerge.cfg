SPECIFICATION SelectSpec
CONSTANTS
  DcpSize = 2
  Interleave = 1
  BlockSize = 2
  MaxTokens = 0
  MaxSeqs = 0
  TopK = 2
  Rows = 2
  MaxLen = 5
  Scores = {0, 1}
  Modes <- MCModes
  DecodeLens <- MCDecodeLens
  Lags = {0, 3}
INVARIANTS TypeOK RanksAgree NoStaleColumn SelectedOnce
PROPERTIES AllFinish
CHECK_DEADLOCK FALSE
