SPECIFICATION Spec
SYMMETRY MCSymmetry
CONSTANTS
  Requests = {r1}
  s1 = s1
  s2 = s2
  alice = alice
  Strings = {s1, s2}
  Users = {alice}
  Owner <- MCOwner
  Initial = {s1}
  Expired = {}
  Scores = scores
  Manifest = manifest
  Metadata = metadata
  TopKs = {1, 2}
  Rates = {1, 2}
  Malformed = malformed
  Loaded <- MCLoaded
  Offers <- MCOffers
  Unknown = unknown
  Nil = nil
  ScoreValues = {1, 2}
  ShardNumbers = {0, 1, 5}
  MaxShards = 2
  MaxRows = 2
  Agents = {a1, a2}
  Texts = {t1}
  Garbage = garbage
  Broken = broken
  MaxEnvelopes = 3
  MaxCalls = 1
  MaxUpdates = 1
INVARIANTS
  JudgedByOneRole
CHECK_DEADLOCK FALSE
