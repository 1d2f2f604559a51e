\* One deal, two sessions of its balance, two invocations at a time, one move of
\* the rancher, a fault.
SPECIFICATION Spec
CONSTANTS
  Workers = {w1, w2}
  Sessions = {s1, s2}
  None = None
  MaxMoves = 1
  MaxFaults = 1
SYMMETRY Symmetry
\* The buyer may never come back.
CHECK_DEADLOCK FALSE
INVARIANTS TypeOK OneCharge PaidOnce DunnedOwes PaidStands InvoicedIsChased PaidInReach
PROPERTIES RefundedOwesNothing ClosedIsLoud
