SPECIFICATION Spec
SYMMETRY MCSymmetry
CONSTANTS
  Users = {1, 2}
  admin = admin
  ops = ops
  slow = slow
  fast = fast
  RoleNames = {admin, ops}
  DefaultRoles <- MCDefaultRoles
  Rates = {slow, fast}
  Malformed = malformed
  FallbackRate = slow
  Periods = {3}
  MaxPeriod = 2
  FirstDate = 0
  LastDate = 4
  Nil = nil
  RolesFiles <- MCRolesFiles
  TokensFiles <- MCTokensFiles
  Loaded = 2
  Admins = {a1, a2}
  MaxTokens = 5
  MaxDay = 2
INVARIANTS
  TypeOK
  IndexAgreement
  LimiterFollowsRole
  RoleReferenced
  RotateAllReplaces
PROPERTIES
  RotationKeepsTerms
