\* A rancher whose counter stands at zero and four buyers; nothing fails.
SPECIFICATION Spec
CONSTANTS
  Referrals = {r1, r2, r3, r4}
  Workers = {w1, w2, w3}
  Closers = {}
  Jobs = {"match"}
  None = None
  Floor = 0
  MaxRefs = 5
  Ceiling = 6
  Warm = TRUE
  RedisReliable = TRUE
  MaxFaults = 0
  MaxRequests = 4
SYMMETRY Symmetry
CHECK_DEADLOCK FALSE
INVARIANTS DistinctClaims
