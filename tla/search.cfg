SPECIFICATION HSpec
CONSTANTS
  ChainId = "ETH"
  Batch = 1
  Buffer = 2
  Confirms = 2
  Start = 6
  Word = 32
  MaxHeight = 11
  MaxFaults = 1
INVARIANTS ChannelContiguous NothingSkipped
