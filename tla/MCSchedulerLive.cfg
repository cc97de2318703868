CONSTANTS
  j1 = j1
  j2 = j2
  j3 = j3
  w1 = w1
  w2 = w2
  NoJob = NoJob
  Jobs <- MCJobs
  Workers <- MCWorkers
  Priority <- MCPriority
  MaxSize = 2
  MaxInFlight = 2
  PoolSize = 1
  MaxStops = 0
SPECIFICATION SchedulerFairSpec
CHECK_DEADLOCK FALSE
INVARIANT AdmissionBound
PROPERTY JobsSettle
