\* One session, one refund: does a redelivery still find the deposit settled?
CONSTANTS
  Sessions = {s1}
  deal = d1
  Referrals = {d1}
  RefOf <- OneDeal
  Rows = {r1}
  Endpoints = {platform, connect}
  Workers = {w1}
  None = None
  RedisReliable = TRUE
  MaxFaults = 0
  MaxRefunds = 1
  MaxEffects = 2
SPECIFICATION Spec
INVARIANTS NotifiedOnce
CHECK_DEADLOCK FALSE
