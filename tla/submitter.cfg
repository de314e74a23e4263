SPECIFICATION FairSpec
CONSTANTS
  Kind = "eth"
  ChainId = "TOP"
  Batch = 1
  Genesis = 0
  MaxAttempts = 2
  CheckAfter = 3
  MaxHeight = 3
  MaxErrors = 1
  MaxLost = 1
INVARIANTS TypeOK DeliveryInv LastCommitSubmitted NilMeansSubmitted
PROPERTIES CallReturns EffortShrinks PromiseKept
