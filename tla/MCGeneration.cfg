CONSTANTS
  j1 = j1
  j2 = j2
  loop = loop
  Jobs <- MCJobs
  Callers <- MCCallers
  MaxTurns = 2
  MaxCalls = 2
SPECIFICATION Spec
SYMMETRY MCSymmetry
CHECK_DEADLOCK FALSE
INVARIANTS
  TypeOK
  LoadsBounded
  InUseLoaded
  TurnBudget
  CallsAnswered
PROPERTY ModelSettles
