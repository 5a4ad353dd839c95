\* mode=multi overflow=ignore: two servers, a pool of two, three connections
\* at most, so that a full pool meets a third connection to be saved.
CONSTANTS
  Requests = {r1, r2}
  Peers = {p1, p2}
  Conns = {c1, c2, c3}
  MaxCached = 2
  Single = FALSE
  Reject = FALSE
  None = None
  Fd0 = Fd0
SPECIFICATION Spec
SYMMETRY Symmetry
INVARIANTS
  TypeOK
  QueuesConserveItems
  ExclusiveOwner
  PooledItemsFaithful
  FreeSlotsClean
  ActiveConnsExact
PROPERTIES
  ImplementsConnPool
