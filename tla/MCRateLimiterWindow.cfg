SPECIFICATION Spec
SYMMETRY MCSymmetry
CONSTANTS
  Requests = {r1, r2}
  MaxRequests = 1
  Window = 3
  Second = 1
  Top = 15
  Written <- MCWritten
  MaxDelay = 1
  MaxNow = 6
  MaxAdmitted = 3
INVARIANTS
  SlidingWindow
CHECK_DEADLOCK FALSE
