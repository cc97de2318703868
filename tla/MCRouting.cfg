CONSTANTS
  local = local
  quant = quant
  cloud = cloud
  q1 = q1
  q2 = q2
  Routes <- MCRoutes
  Requests <- MCRequests
  Wanted <- MCWanted
  Default = local
  Providers <- MCProviders
  Quality <- MCQuality
  Cost <- MCCost
  Latency <- MCLatency
  Order <- MCOrder
  Headers <- MCHeaders
  Window = 3
  MaxFallbacks = 1
SPECIFICATION Spec
CHECK_DEADLOCK FALSE
INVARIANTS
  TypeOK
  CooldownMeansFailing
  RetriesBounded
  HintsSteer
PROPERTIES
  GivesUpForCause
