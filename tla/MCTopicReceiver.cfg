CONSTANTS
  ReliableCapacity = 2
  Hosts = {"h1", "h2", "h3"}
  SrcHost = "h1"
  Allowed = {"h1", "h2"}
  Topics <- MCTopics
  MaxSeq = 3
  MaxGap = 1
  MaxArrived = 3
SPECIFICATION Spec
INVARIANTS
  TypeOK
  EveryEnvelopeAccounted
  WorkerExitsDrained
  ShutdownAfterWorker
  DecodedWithinComplete
PROPERTIES
  PublishInOrder
  ImplementsMailbox
  QueuedIsTaken
  StopReturnsUnlessParking
