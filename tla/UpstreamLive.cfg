\* Two requests over two servers, one of them with charset=, with one slot and a
\* pool of one, under fairness; no symmetry, which is unsound for liveness.
\* The run ends when every request is finished.
CONSTANTS
  Requests = {r1, r2}
  NumPeers = 2
  Conns = {c1}
  MaxCached = 1
  Single = FALSE
  Reject = FALSE
  HasCharset = {0}
  NamesMayMiss = FALSE
  BodyInFile = FALSE
  None = None
  Fd0 = Fd0
SPECIFICATION FairSpec
CHECK_DEADLOCK FALSE
PROPERTIES
  EveryRequestFinishes
