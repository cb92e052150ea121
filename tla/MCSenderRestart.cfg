CONSTANTS
  Topics <- CameraOnly
  Targets = {"drone1"}
  Unknown = "drone9"
  RateWindow = 1
  Sizes = {1}
  Start = 5
  MaxTime = 1
  MaxRollback = 0
  MaxMessages = 2
  MaxTargets = 0
  MaxRestarts = 1
SPECIFICATION Spec
INVARIANTS
  CompleteFramesCounted
