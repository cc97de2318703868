CONSTANTS
  key = key
  wrong = wrong
  q1 = q1
  q2 = q2
  q3 = q3
  q4 = q4
  q5 = q5
  Requests <- MCRequests
  Keys <- MCKeys
  Header <- MCHeader
  Kind <- MCKind
  Valid <- MCValid
  MaxRequests = 2
  WindowLen = 1
  MaxTime = 2
  MaxDeltas = 2
SPECIFICATION Spec
CHECK_DEADLOCK FALSE
INVARIANTS
  TypeOK
  WindowBound
  SummaryCoherent
PROPERTY RefusedForCause
