SPECIFICATION Spec
CONSTANTS
  Kind = "eth"
  ChainId = "ETH"
  Batch = 1
  Genesis = 0
  MaxAttempts = 2
  CheckAfter = 3
  MaxHeight = 3
  MaxErrors = 1
  MaxLost = 0
INVARIANTS NilMeansSubmitted
