CONSTANTS
  Topics <- LimitedOnly
  Targets = {"drone1"}
  Unknown = "drone9"
  RateWindow = 1
  Sizes = {1}
  Start = 5
  MaxTime = 3
  MaxRollback = 1
  MaxMessages = 2
  MaxTargets = 0
  MaxRestarts = 0
SPECIFICATION Spec
PROPERTIES
  RollbackIsHarmless
