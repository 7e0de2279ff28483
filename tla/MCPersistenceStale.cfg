SPECIFICATION Spec
SYMMETRY MCSymmetry
CONSTANTS
  Admins = {a1}
  Timers = {t1, t2}
  Caller = caller
  Nil = nil
  Flushes = FALSE
  MaxChanges = 2
  MaxStops = 0
  MaxFailures = 0
INVARIANTS
  SettledDiskIsCurrent
CHECK_DEADLOCK FALSE
