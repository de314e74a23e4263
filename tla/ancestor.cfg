SPECIFICATION FairSpec
CONSTANTS
  Goal = 5
  Final = 2
  MaxHeight = 6
  MaxForks = 3
  MaxFailures = 1
INVARIANTS AInv NotTooFar HighestFound
PROPERTIES ParentKnown RollsBack Ends
