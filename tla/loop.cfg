SPECIFICATION HFairSpec
CONSTANTS
  ChainId = "TOP"
  Batch = 1
  Buffer = 2
  Confirms = 1
  Start = 6
  Word = 32
  MaxHeight = 13
  MaxFaults = 3
INVARIANTS TypeOK NoMutualBlock ChannelContiguous ConfirmedOnly NothingSkipped
PROPERTIES StreamKept CancelStops StreamProgress FailureRevisited
