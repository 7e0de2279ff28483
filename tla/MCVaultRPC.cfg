SPECIFICATION Spec
SYMMETRY MCSymmetry
CONSTANTS
  Requests = {r1, r2}
  s1 = s1
  s2 = s2
  alice = alice
  Strings = {s1, s2}
  Users = {alice}
  Owner <- MCOwner
  Initial = {s1}
  Expired = {}
  Scores = scores
  Manifest = manifest
  Metadata = metadata
  TopKs = {1, 2}
  Rates = {1, 2}
  Malformed = malformed
  Loaded <- MCLoaded
  Offers <- MCOffers
  Unknown = unknown
  Nil = nil
  ScoreValues = {1, 2}
  ShardNumbers = {0, 1, 5}
  MaxShards = 2
  MaxRows = 2
  Agents = {a1, a2}
  Texts = {t1, t2}
  Garbage = garbage
  Broken = broken
  MaxEnvelopes = 3
  MaxCalls = 3
  MaxUpdates = 2
INVARIANTS
  TypeOK
  NamesTheOwner
  QuotaPerLimiter
  JudgedSinceFound
  TopKIsNLargest
  PlacesAreTrue
  ListAllOrNothing
CHECK_DEADLOCK FALSE
