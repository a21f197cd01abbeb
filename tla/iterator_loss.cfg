SPECIFICATION IteratorSpec
CONSTANTS
  IterKeys = {0, 1, 2}
  NumShards = 1
  Calls = {"Scan"}
  Counts = {2}
  MaxChanges = 0
  MaxFalse = 1
INVARIANT NextExhausts
CHECK_DEADLOCK FALSE
