CONSTANTS
  Topics <- MCTopics
  Targets = {"drone1"}
  Unknown = "drone9"
  RateWindow = 1
  Sizes = {1, 8}
  Start = 5
  MaxTime = 3
  MaxRollback = 1
  MaxMessages = 3
  MaxTargets = 2
  MaxRestarts = 1
SPECIFICATION Spec
INVARIANTS
  TypeOK
  SendAccounted
  OthersAreSent
  WindowIsExact
  LossesExact
  ResetsAreRestarts
PROPERTIES
  RateLimitIsExact
  QualityKeepsRange
