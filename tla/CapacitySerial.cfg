\* A rancher with a standing deal, Redis answering, one close at a time: claims,
\* bounces, roll-backs and closes of three rows interleave with failed writes.
SPECIFICATION Spec
CONSTANTS
  Referrals = {r1, r2, r3}
  Workers = {w1, w2, w3}
  Closers = {w3}
  Jobs = {"match", "writeFirst", "view"}
  None = None
  Floor = 1
  MaxRefs = 1
  Ceiling = 2
  Warm = TRUE
  RedisReliable = TRUE
  MaxFaults = 1
  MaxRequests = 5
SYMMETRY Symmetry
\* The bounded requests run out and everything stops.
CHECK_DEADLOCK FALSE
INVARIANTS TypeOK CountsEverySlot NeverOverCeiling
