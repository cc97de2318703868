CONSTANTS
  Capacity = 3
  MaxDeltas = 2
  MaxPolls = 2
SPECIFICATION FairSpec
CHECK_DEADLOCK FALSE
PROPERTIES
  NothingMissed
