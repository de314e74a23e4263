SPECIFICATION RFairSpec
CONSTANTS
  ChainId = "TOP"
  Batch = 1
  Buffer = 2
  Confirms = 1
  Start = 0
  Word = 32
  MaxHeight = 8
INVARIANTS RInv
PROPERTIES ClientKept CatchesUp
