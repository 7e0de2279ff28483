SPECIFICATION Spec
SYMMETRY MCSymmetry
CONSTANTS
  Admins = {a1}
  Timers = {t1, t2}
  Caller = caller
  Nil = nil
  Flushes = TRUE
  MaxChanges = 2
  MaxStops = 0
  MaxFailures = 0
INVARIANTS
  FlushWrites
CHECK_DEADLOCK FALSE
