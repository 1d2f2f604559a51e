\* An old session that expired and a new one that is paid, one deal.
CONSTANTS
  Sessions = {s1, s2}
  deal = d1
  Referrals = {d1}
  RefOf <- OneDeal
  Rows = {r1, r2}
  Endpoints = {connect}
  Workers = {w1, w2}
  None = None
  RedisReliable = TRUE
  MaxFaults = 0
  MaxRefunds = 0
  MaxEffects = 0
SPECIFICATION Spec
PROPERTIES SettleWinsRace
CHECK_DEADLOCK FALSE
