\* A full pool and a full connection table.
CONSTANTS
  Requests = {r1, r2}
  NumPeers = 1
  Conns = {c1}
  MaxCached = 1
  Single = FALSE
  Reject = TRUE
  HasCharset = {}
  NamesMayMiss = FALSE
  BodyInFile = FALSE
  None = None
  Fd0 = Fd0
SPECIFICATION Spec
CHECK_DEADLOCK FALSE
INVARIANTS
  NoNullConnection
