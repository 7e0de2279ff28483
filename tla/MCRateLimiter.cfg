SPECIFICATION Spec
SYMMETRY MCSymmetry
CONSTANTS
  Requests = {r1, r2, r3}
  MaxRequests = 2
  Window = 8
  Second = 4
  Top = 15
  Written <- MCWritten
  MaxDelay = 1
  MaxNow = 10
  MaxAdmitted = 3
INVARIANTS
  TypeOK
  WindowBound
PROPERTIES
  RateErrsOpen
  AdviceAlmostRight
CHECK_DEADLOCK FALSE
