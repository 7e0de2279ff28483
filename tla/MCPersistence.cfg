SPECIFICATION FairSpec
CONSTANTS
  Admins = {a1}
  Timers = {t1, t2}
  Caller = caller
  Nil = nil
  Flushes = TRUE
  MaxChanges = 2
  MaxStops = 1
  MaxFailures = 1
INVARIANTS
  TypeOK
  NoLostChange
  QuiescentDisk
  RolesBeforeTokens
PROPERTIES
  ClosedDrains
  ImplementsWriteBehind
  ChangesAreTaken
  CallsReturn
CHECK_DEADLOCK FALSE
