CONSTANTS
  Capacity = 2
  MaxDeltas = 5
  MaxPolls = 3
SPECIFICATION FairSpec
CHECK_DEADLOCK FALSE
INVARIANTS
  TypeOK
  SentinelOnceAndLast
  DeltasIntact
  NothingLeftToClose
PROPERTIES
  ImplementsStream
  ReaderReleased
  WorkerFreed
