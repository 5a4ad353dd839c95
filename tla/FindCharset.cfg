\* mode=single with two servers, one of them with charset=: a second attempt
\* takes a pooled connection to the other.
CONSTANTS
  Requests = {r1, r2}
  NumPeers = 2
  Conns = {c1, c2}
  MaxCached = 1
  Single = TRUE
  Reject = FALSE
  HasCharset = {0}
  NamesMayMiss = FALSE
  BodyInFile = FALSE
  None = None
  Fd0 = Fd0
SPECIFICATION Spec
CHECK_DEADLOCK FALSE
INVARIANTS
  CharsetMatchesServer
