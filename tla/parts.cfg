SPECIFICATION Spec
CONSTANTS
  Kinds = {"tree", "swiss", "cuckoo", "gcfree", "glob", "lockfree", "iterator"}
  TreeKeys <- MCTreeKeys
  Limits = {0, 2}
  NoHash = NoHash
  SwissHashes <- MCSwissHashes
  SwissCosts = {1, 2}
  Capacities = {1, 3}
  GroupSize = 2
  H2Range = 4
  CuckooKeys <- MCCuckooKeys
  IndexBits = 2
  BucketSize = 2
  MaxKicks = 3
  MaxFailed = 1
  GcKeys <- MCGcKeys
  ValueLens = {1, 13}
  Expiries = {0, 1}
  HeaderSize = 2
  ShardSize = 4
  MaxGcNow = 2
  MaxArray = 8
  MaxLeaks = 1
  MaxLate = 2
  Alphabet <- MCAlphabet
  Pieces <- MCPieces
  MaxPieces = 3
  KeyChars = {"*", "a", "b"}
  MaxKey = 3
  Threads = {t1, t2}
  LfHashes = {"g", "h"}
  Rows = {1, 2}
  CounterOf <- MCCounterOf
  WordSize = 2
  MaxCounter = 3
  DoorBits <- MCDoorBits
  DoorWordSize = 2
  LfResetAt = 5
  Batches <- MCBatches
  MaxBatches = 4
  IterKeys = {0, 1, 2, 4}
  NumShards = 2
  Calls = {"Scan", "ScanMatch"}
  Counts = {0, 1}
  MaxChanges = 1
  MaxFalse = 1
INVARIANTS TreeIsKeySet SwissIsMap FingerprintsKept MissesOnlyMoved ReadsLastSet SpaceAccounted LenAccounted PatternMeaning ResetNotLost CountsEveryAccess SteadyServedOnce
CHECK_DEADLOCK FALSE
