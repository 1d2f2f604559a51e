\* A charge of three units, refunded whole or in parts from the console and
\* the dashboard, with a fault.
SPECIFICATION FairSpec
CONSTANTS
  Captured = 3
  Endpoints = {connect}
  Workers = {w1, w2}
  None = None
  MaxRequests = 3
  MaxFaults = 1
\* The bounded requests run out and everything stops.
CHECK_DEADLOCK FALSE
INVARIANTS TypeOK LedgerNotAhead RevertedIsWhole WholeIsOwed
PROPERTIES WholeRefundLands
