SPECIFICATION PolicySpec
CONSTANTS
  k1 = k1
  k2 = k2
  k3 = k3
  k4 = k4
  Key <- MCKey
  Cost = {1, 2}
  MaxCost = 3
  MaxEntries = 1
  Hashes = {1, 2}
  HashOf <- MCHashOf
  Clash <- MCClash
  MaxFreq = 2
  ResetAt = 5
  SampleAll = 3
  SampleSize = 2
  NoKey = none
INVARIANTS TypeOK DenseArray CountersExact NeverUnderestimates EvictsBackToLimit

SYMMETRY Symmetry
