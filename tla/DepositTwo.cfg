\* Two sessions of one deal (a re-quote), two ledger rows, a refund.
CONSTANTS
  Sessions = {s1, s2}
  deal = d1
  Referrals = {d1}
  RefOf <- OneDeal
  Rows = {r1, r2}
  Endpoints = {connect}
  Workers = {w1, w2}
  None = None
  RedisReliable = TRUE
  MaxFaults = 1
  MaxRefunds = 1
  MaxEffects = 0
SYMMETRY Symmetry
SPECIFICATION Spec
INVARIANTS TypeOK BookedIsCharged
PROPERTIES ImplementsMoneyTruth
CHECK_DEADLOCK FALSE
