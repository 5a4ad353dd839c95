\* A full pool, and a rejected request whose body is in a file.
CONSTANTS
  Requests = {r1, r2, r3}
  NumPeers = 1
  Conns = {c1, c2}
  MaxCached = 1
  Single = FALSE
  Reject = TRUE
  HasCharset = {}
  NamesMayMiss = FALSE
  BodyInFile = TRUE
  None = None
  Fd0 = Fd0
SPECIFICATION Spec
CHECK_DEADLOCK FALSE
INVARIANTS
  RejectKeepsMax
