SPECIFICATION HFairSpec
CONSTANTS
  ChainId = "TOP"
  Batch = 2
  Buffer = 4
  Confirms = 0
  Start = 7
  Word = 32
  MaxHeight = 15
  MaxFaults = 2
INVARIANTS IInv NothingSkipped
PROPERTIES StreamProgress
