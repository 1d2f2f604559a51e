\* Everything that can drift: cold key, Redis errors, key loss, approvals, both
\* orders of a close, racing closes; and the nightly repair.
SPECIFICATION FairSpec
CONSTANTS
  Referrals = {r1}
  Workers = {w1, w2}
  Closers = {w1, w2}
  Jobs = {"match", "approve", "adminApprove", "decrFirst", "writeFirst", "view", "heal"}
  None = None
  Floor = 1
  MaxRefs = 2
  Ceiling = 2
  Warm = FALSE
  RedisReliable = FALSE
  MaxFaults = 2
  MaxRequests = 3
PROPERTIES DriftHeals
