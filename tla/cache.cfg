SPECIFICATION Spec
CONSTANTS
  Keys = {k1, k2}
  Clients = {c1, c2}
  Worker = w
  Flusher = f
  Offers <- MCOffers
  ClockStep = 2
  MaxCost = 1
  MaxEntries = 0
  QueueCap = 2
  BatchMax = 1
  MaxNow = 3
  MaxCalls = 3
  MaxRounds = 1
  AnyKey = any
  NoKey = none
INVARIANTS TypeOK LenExact CostExact StructuresAgree LastWriteWins
PROPERTIES NoEarlyExpiry
SYMMETRY Symmetry
CHECK_DEADLOCK FALSE
