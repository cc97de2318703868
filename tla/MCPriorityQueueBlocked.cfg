CONSTANTS
  j1 = j1
  j2 = j2
  j3 = j3
  j4 = j4
  w1 = w1
  w2 = w2
  NoJob = NoJob
  Jobs <- MCJobs
  Workers <- MCWorkers
  Priority <- MCPriority
  MaxSize = 1
SPECIFICATION SteadySpec
CHECK_DEADLOCK FALSE
PROPERTY PutReturns
