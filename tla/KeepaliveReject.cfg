\* mode=single overflow=reject: a pool of one and a second slot, for the fake
\* connection of a rejected request; three requests, so that one holds the
\* connection, one is rejected, and one finds no slot at all.
CONSTANTS
  Requests = {r1, r2, r3}
  Peers = {p1, p2}
  Conns = {c1, c2}
  MaxCached = 1
  Single = TRUE
  Reject = TRUE
  None = None
  Fd0 = Fd0
SPECIFICATION Spec
SYMMETRY Symmetry
INVARIANTS
  ActiveConnsExact
  RejectBoundsConns
PROPERTIES
  ImplementsConnPool
