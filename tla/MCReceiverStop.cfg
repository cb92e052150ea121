CONSTANTS
  ReliableCapacity = 2
  Hosts = {"h1"}
  SrcHost = "h1"
  Allowed = {"h1"}
  Topics <- FanoutTopics
  MaxSeq = 1
  MaxGap = 0
  MaxArrived = 1
SPECIFICATION Spec
PROPERTIES
  StopReturns
