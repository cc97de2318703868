CONSTANTS
  j1 = j1
  j2 = j2
  j3 = j3
  w1 = w1
  w2 = w2
  NoJob = NoJob
  Jobs <- MCJobs
  Workers <- MCWorkers
  Priority <- MCPriority
  MaxSize = 1
  MaxInFlight = 3
  PoolSize = 3
  MaxStops = 1
SPECIFICATION SchedulerSpec
CHECK_DEADLOCK FALSE
SYMMETRY MCSymmetry
INVARIANTS
  SchedulerTypeOK
  RecordsAgree
  InFlightExact
  DoneMeansSettled
PROPERTIES
  DoneIsFinal
  ImplementsJobs
