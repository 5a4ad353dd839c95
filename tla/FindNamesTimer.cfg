\* "set names" waits, then fails with error 1146.
CONSTANTS
  Requests = {r1}
  NumPeers = 1
  Conns = {c1}
  MaxCached = 0
  Single = FALSE
  Reject = FALSE
  HasCharset = {0}
  NamesMayMiss = TRUE
  BodyInFile = FALSE
  None = None
  Fd0 = Fd0
SPECIFICATION Spec
CHECK_DEADLOCK FALSE
INVARIANTS
  WaitIsTimed
