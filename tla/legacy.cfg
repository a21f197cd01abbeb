SPECIFICATION Spec
CONSTANTS
  Keys = {k1, k2}
  Clients = {c1, c2}
  TTLs <- MCTTLs
  Poll = 3
  Lag = 1
  MaxNow = 3
  MaxCalls = 2
  AnyKey = any
INVARIANTS TypeOK NeverOversleeps ForgottenOnlyByTie
PROPERTIES ExpiredIsRemoved
CHECK_DEADLOCK FALSE
