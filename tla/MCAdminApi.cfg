SPECIFICATION Spec
CONSTANTS
  Commands = {c1, c2, c3}
  Requests <- MCRequests
  Users <- MCUsers
  RoleNames = {member, ops}
  DefaultNames = {member}
  FirstRole <- MCFirstRole
  CutTo <- MCCutTo
  Rates = {slow, fast}
  DefaultRate = fast
  Methods <- MCFull
  Full <- MCFull
  Writers = {w1, w2}
  Nil = nil
  MaxStops = 2
  member = member
  ops = ops
  slow = slow
  fast = fast
  wrong = wrong
INVARIANTS
  TypeOK
  UnshownIsKnown
  OldStringsGone
  ToldHolds
  OrphansWereRevoked
CONSTRAINT MCBound
SYMMETRY MCSymmetry
CHECK_DEADLOCK FALSE
