SPECIFICATION Spec
CONSTANTS
  Keys = {k1, k2}
  Clients = {c1, c2}
  Worker = w
  TTLs = {0, 1, 3}
  Resolution = 2
  Buckets = 2
  MaxNow = 6
  MaxCalls = 3
  Nobody = nobody
INVARIANTS NeverForgotten
SYMMETRY Symmetry
CHECK_DEADLOCK FALSE
