\* mode=single overflow=reject: two requests compete for a pool of one; the
\* second slot is what the fake connection of a rejected request takes.  The
\* first of the two servers has charset= and may answer "set names" with error 1146.
\* The run ends when every request is finished.
CONSTANTS
  Requests = {r1, r2}
  NumPeers = 2
  Conns = {c1, c2}
  MaxCached = 1
  Single = TRUE
  Reject = TRUE
  HasCharset = {0}
  NamesMayMiss = TRUE
  BodyInFile = FALSE
  None = None
  Fd0 = Fd0
SPECIFICATION Spec
SYMMETRY Symmetry
CHECK_DEADLOCK FALSE
INVARIANTS
  ConnectedWhileActive
PROPERTIES
  ImplementsKeepalive
