\* Three buyers of a batch of three, two of whom want two units; the store sells
\* one; with a fault.
SPECIFICATION Spec
CONSTANTS
  Big = {b1, b2}
  Small = {b3}
  Buyers = {b1, b2, b3}
  Qty <- Wants
  Stock = 3
  StoreSales = 1
  MaxFaults = 1
SYMMETRY Symmetry
\* Buyers come once and everything stops.
CHECK_DEADLOCK FALSE
INVARIANTS TypeOK NoOversell HoldsAreMints OversellRings
