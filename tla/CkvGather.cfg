SPECIFICATION FairSpec
CONSTANTS
  DcpSize = 2
  Interleave = 2
  BlockSize = 2
  MaxTokens = 2
  MaxSeqs = 2
  Requests <- TwoRows
  Layers = 2
  MinTokens = 1
  MaxQuery = 3
  MaxLen = 6
  MaxBatches = 2
INVARIANTS TypeOK AttendsOwnRecords CallsMatch
CHECK_DEADLOCK FALSE
PROPERTIES BatchesFinish
