SPECIFICATION Spec
CONSTANTS
  Producers = {p1, p2}
  Items = {1, 2}
  Waiters = {w1}
  Closer = closer
  Capacity = 2
  BatchSize = 1
  RetryLimit = 0
  SyncCap = 1
  NoItem = NoItem
CHECK_DEADLOCK FALSE
PROPERTIES EventuallyFlushed CallersReturn
