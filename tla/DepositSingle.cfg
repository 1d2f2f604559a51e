\* One checkout session, delivered to both endpoints, with crashes.
CONSTANTS
  Sessions = {s1}
  deal = d1
  Referrals = {d1}
  RefOf <- OneDeal
  Rows = {r1}
  Endpoints = {platform, connect}
  Workers = {w1, w2}
  None = None
  RedisReliable = TRUE
  MaxFaults = 2
  MaxRefunds = 0
  MaxEffects = 2
SPECIFICATION FairSpec
INVARIANTS NotifiedOnce NotifiedIsBooked SettlesAlone
PROPERTIES PaidSurfaces SettleWinsRace
CHECK_DEADLOCK FALSE
