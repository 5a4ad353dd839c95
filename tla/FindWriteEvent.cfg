\* A connection that was paused once comes back from the pool without its
\* write event.
CONSTANTS
  Requests = {r1, r2}
  NumPeers = 1
  Conns = {c1}
  MaxCached = 1
  Single = FALSE
  Reject = FALSE
  HasCharset = {}
  NamesMayMiss = FALSE
  BodyInFile = FALSE
  None = None
  Fd0 = Fd0
SPECIFICATION Spec
CHECK_DEADLOCK FALSE
INVARIANTS
  WaitIsRegistered
