\* A charge of four units: the operator refunds one, one again, then two.
SPECIFICATION Spec
CONSTANTS
  Captured = 4
  Endpoints = {connect}
  Workers = {w1, w2}
  None = None
  MaxRequests = 3
  MaxFaults = 0
SYMMETRY Symmetry
CHECK_DEADLOCK FALSE
INVARIANTS Whole
