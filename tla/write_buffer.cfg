SPECIFICATION Spec
CONSTANTS
  Producers = {p1, p2}
  Items = {1, 2, 3}
  Waiters = {w1}
  Closer = closer
  Capacity = 2
  BatchSize = 1
  RetryLimit = 1
  SyncCap = 1
  NoItem = NoItem
INVARIANTS TypeOK FlushedInOrder
PROPERTIES FlushedBeforeReturn
CHECK_DEADLOCK FALSE
