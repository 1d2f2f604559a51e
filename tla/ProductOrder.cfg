\* One purchase of the last unit but one, refunded, disputed, shipped or cancelled
\* by two invocations at a time, with a fault.
SPECIFICATION FairSpec
CONSTANTS
  Workers = {w1, w2}
  None = None
  Stock = 1
  MaxRequests = 1
  MaxFaults = 1
\* The bounded requests run out and everything stops.
CHECK_DEADLOCK FALSE
INVARIANTS TypeOK StoreStopped ReturnedIsOver StockExact
PROPERTIES PaidIsRecorded RecordedReachesStore
