\* mode=multi overflow=ignore: two servers, one of them with charset=, two
\* requests and a pool of one, so that a connection saved by one request is used
\* by the other, evicted, closed, or missed because it leads elsewhere.
\* The run ends when every request is finished.
CONSTANTS
  Requests = {r1, r2}
  NumPeers = 2
  Conns = {c1, c2}
  MaxCached = 1
  Single = FALSE
  Reject = FALSE
  HasCharset = {0}
  NamesMayMiss = FALSE
  BodyInFile = TRUE
  None = None
  Fd0 = Fd0
SPECIFICATION Spec
SYMMETRY Symmetry
CHECK_DEADLOCK FALSE
INVARIANTS
  TypeOK
  PooledConnsQuiet
  CharsetMatchesServer
  CharsetBeforeQuery
  SubmittedOnce
  OneAttemptPerAddress
  RetryStillSafe
  WaitIsTimed
  ConnectedWhileActive
  AnswerIsHeard
  RowsBelongToQuery
  NothingRunsFreed
PROPERTIES
  ImplementsKeepalive
