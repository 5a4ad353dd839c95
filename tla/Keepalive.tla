----------------------------- MODULE Keepalive ------------------------------
(***************************************************************************)
(* The connection pool of one upstream block in one worker:                *)
(* ngx_http_drizzle_keepalive.c with the parts of                          *)
(* ngx_http_drizzle_upstream.c that create, count and free connections.    *)
(* One action is one call of the event-loop code, so it is atomic.  What   *)
(* decides between the calls (the database protocol) is in Upstream.tla;   *)
(* here Next lets requests make them in any order the code allows.         *)
(*                                                                         *)
(* A member of Conns is a slot of nginx's connection table (struct         *)
(* ngx_connection_t) together with the drizzle_con_st that is created and  *)
(* freed with it.  item->used, pc->cached and the log pointers are left    *)
(* out: only the status page, or nothing, reads them.                      *)
(***************************************************************************)
EXTENDS Integers, FiniteSets, SequencesExt

CONSTANTS
  Requests,    \* HTTP requests (each with its peer data, dp)
  Peers,       \* addresses of the upstream block's servers
  Conns,       \* slots of the worker's connection table
  MaxCached,   \* dscf->max_cached, 0: no pool
  Single,      \* dscf->single: mode=single
  Reject,      \* dscf->overflow: overflow=reject
  None,        \* NULL
  Fd0          \* what the fake connection of a rejected request is open to

ASSUME KeepaliveAssumption ==
  /\ MaxCached \in Nat
  /\ Single \in BOOLEAN
  /\ Reject \in BOOLEAN
  /\ IsFiniteSet(Conns)
  /\ None \notin Conns \cup Peers
  /\ Fd0 \notin Peers \cup {None}

Items == 1..MaxCached

VARIABLES
  cache,         \* dscf->cache: the items that hold an idle connection
  free,          \* dscf->free: the other items
  item,          \* the contents of each item
  active_conns,  \* dscf->active_conns
  conn,          \* each slot of the connection table
  peer           \* pc and dp of each request, as far as the pool uses them

vars == <<cache, free, item, active_conns, conn, peer>>

TimerSets == SUBSET {"read", "write"}

ItemType == [connection : Conns \cup {None}, sockaddr : Peers \cup {None},
             has_set_names : BOOLEAN]
\* server: what the socket is connected to.  idle: the close handler is
\* installed.  data: c->data.  timers: those of c->read and c->write.
\* posted: the write event waits in nginx's queue of posted events.
ConnType == [server : Peers \cup {None, Fd0}, idle : BOOLEAN,
             data : Items \cup Requests \cup {None}, timers : TimerSets,
             posted : BOOLEAN]
PeerType == [connection : Conns \cup {None}, sockaddr : Peers \cup {None},
             has_set_names : BOOLEAN, failed : BOOLEAN]

TypeOK ==
  /\ cache \in Seq(Items)
  /\ free \in Seq(Items)
  /\ item \in [Items -> ItemType]
  /\ active_conns \in Nat
  /\ conn \in [Conns -> ConnType]
  /\ peer \in [Requests -> PeerType]

\* What ngx_http_upstream_drizzle_free_connection leaves of a slot: timers and
\* posted events are deleted with it.
FreeSlot == [server |-> None, idle |-> FALSE, data |-> None, timers |-> {},
             posted |-> FALSE]
FreshPeer == [connection |-> None, sockaddr |-> None, has_set_names |-> FALSE,
              failed |-> FALSE]

\* The slots ngx_get_connection() may hand out.
FreeSlots == {c \in Conns : conn[c].server = None}

\* ngx_http_drizzle_keepalive_init: insert_head of items 1, 2, ... in turn.
Init ==
  /\ cache = <<>>
  /\ free = [i \in Items |-> MaxCached + 1 - i]
  /\ item = [q \in Items |-> [connection |-> None, sockaddr |-> None,
                              has_set_names |-> FALSE]]
  /\ active_conns = 0
  /\ conn = [c \in Conns |-> FreeSlot]
  /\ peer = [r \in Requests |-> FreshPeer]

-----------------------------------------------------------------------------
(* A request's peer data between the calls.                                *)

\* ngx_http_upstream_drizzle_init_peer: a zeroed dp for a new request.
InitPeer(r) ==
  /\ peer' = [peer EXCEPT ![r] = FreshPeer]
  /\ UNCHANGED <<cache, free, item, active_conns, conn>>

\* The fields ngx_http_upstream_drizzle_next resets before another attempt.
ResetPeer(r) ==
  /\ peer' = [peer EXCEPT ![r].has_set_names = FALSE]
  /\ UNCHANGED <<cache, free, item, active_conns, conn>>

\* dp->has_set_names = 1: the connection's character set has been set.
SetNames(r) ==
  /\ peer' = [peer EXCEPT ![r].has_set_names = TRUE]
  /\ UNCHANGED <<cache, free, item, active_conns, conn>>

\* ngx_add_timer and ngx_del_timer on the request's connection.
SetTimers(r, timers) ==
  /\ conn' = [conn EXCEPT ![peer[r].connection].timers = timers]
  /\ UNCHANGED <<cache, free, item, active_conns, peer>>

-----------------------------------------------------------------------------
(* ngx_http_upstream_drizzle_get_peer, and what dbd_connect then does to   *)
(* the connection it got: c->data = r and, while connecting, the write     *)
(* timer.                                                                  *)

\* Mutant of TakeItem: the item stays in the cache queue.
TakeItemPeeking(r, i) ==
  LET q == cache[i]
      c == item[q].connection
  IN  /\ conn' = [conn EXCEPT ![c].idle = FALSE, ![c].data = r]
      /\ peer' = [peer EXCEPT ![r] =
                    [connection |-> c, sockaddr |-> item[q].sockaddr,
                     has_set_names |-> item[q].has_set_names,
                     failed |-> FALSE]]
      /\ UNCHANGED <<cache, free, item, active_conns>>

\* The i-th cached item gives its connection to r and becomes free.
TakeItem(r, i) ==
  LET q == cache[i]
      c == item[q].connection
  IN  /\ cache' = RemoveAt(cache, i)
      /\ free' = Cons(q, free)
      /\ conn' = [conn EXCEPT ![c].idle = FALSE, ![c].data = r]
      /\ peer' = [peer EXCEPT ![r] =
                    [connection |-> c, sockaddr |-> item[q].sockaddr,
                     has_set_names |-> item[q].has_set_names,
                     failed |-> FALSE]]
      /\ UNCHANGED <<item, active_conns>>

\* mode=single: the most recently cached connection, whatever its address.
GetPeerSingle(r) ==
  /\ Single
  /\ cache # <<>>
  /\ TakeItem(r, 1)

\* Mutant of CachedAt: any cached connection will do.
CachedAnywhere(i, p) == TRUE

CachedAt(i, p) == item[cache[i]].sockaddr = p

\* mode=multi: the first cached connection to the address p.
GetPeerMulti(r, p) ==
  /\ ~Single
  /\ \E i \in DOMAIN cache :
       /\ CachedAt(i, p)
       /\ \A j \in 1..(i - 1) : ~CachedAt(j, p)
       /\ TakeItem(r, i)

\* No cached connection suits a request for p.
Missed(p) ==
  IF Single THEN cache = <<>> ELSE \A i \in DOMAIN cache : ~CachedAt(i, p)

\* Mutant of PoolFull: off by one.
PoolOverfull ==
  /\ MaxCached > 0
  /\ Reject
  /\ active_conns > MaxCached

\* overflow=reject with a full pool.  active_conns is unsigned: what would be
\* negative is a number beyond any max.
PoolFull ==
  /\ MaxCached > 0
  /\ Reject
  /\ active_conns \notin 0..(MaxCached - 1)

\* dp after a get_peer that chose p and did not find p in the cache.
ChosenPeer(r, p, c) ==
  [peer[r] EXCEPT !.connection = c, !.sockaddr = p, !.failed = FALSE]

\* The fake connection, fd 0, by which get_peer reports that the pool is full.
RejectPeer(r, p) ==
  /\ Missed(p)
  /\ PoolFull
  /\ \E c \in FreeSlots :
       /\ conn' = [conn EXCEPT ![c].server = Fd0, ![c].data = r,
                               ![c].timers = @ \cup {"write"}]
       /\ peer' = [peer EXCEPT ![r] = ChosenPeer(r, p, c)]
  /\ UNCHANGED <<cache, free, item, active_conns>>

\* The same when ngx_get_connection() returns NULL: the slots are shared with
\* the rest of nginx, which may have taken them all.
RejectPeerNoSlot(r, p) ==
  /\ Missed(p)
  /\ PoolFull
  /\ peer' = [peer EXCEPT ![r] = ChosenPeer(r, p, None)]
  /\ UNCHANGED <<cache, free, item, active_conns, conn>>

\* A new connection to p, still connecting or already connected.
OpenPeer(r, p, connecting) ==
  /\ Missed(p)
  /\ ~PoolFull
  /\ \E c \in FreeSlots :
       /\ conn' = [conn EXCEPT ![c].server = p, ![c].data = r,
                               ![c].timers =
                                 IF connecting THEN @ \cup {"write"} ELSE @]
       /\ peer' = [peer EXCEPT ![r] = ChosenPeer(r, p, c)]
  /\ active_conns' = active_conns + 1
  /\ UNCHANGED <<cache, free, item>>

\* No connection: drizzle_con_connect() failed before anything was counted,
\* or a step after it did and free_connection took the count back.
OpenFails(r, p) ==
  /\ Missed(p)
  /\ ~PoolFull
  /\ peer' = [peer EXCEPT ![r] = ChosenPeer(r, p, None)]
  /\ UNCHANGED <<cache, free, item, active_conns, conn>>

-----------------------------------------------------------------------------
(* ngx_http_upstream_drizzle_free_peer                                     *)

\* dp->failed, as keepalive_free_peer leaves it when the caller's state has
\* the NGX_PEER_FAILED flag iff failing.
Failed(r, failing) == peer[r].failed \/ (failing /\ MaxCached > 0)

\* Mutant of IdleConn: the timers of the last request keep running.
IdleConnTimed(c, q) == [conn[c] EXCEPT !.idle = TRUE, !.data = q]

\* The idle connection an item now holds.
IdleConn(c, q) == [conn[c] EXCEPT !.idle = TRUE, !.data = q, !.timers = {}]

\* The item's new contents.
FilledItem(r) ==
  [connection |-> peer[r].connection, sockaddr |-> peer[r].sockaddr,
   has_set_names |-> peer[r].has_set_names]

\* keepalive_free_peer saves the connection in a free item,
SaveInFreeItem(r) ==
  LET c == peer[r].connection
      q == Head(free)
  IN  /\ free # <<>>
      /\ free' = Tail(free)
      /\ cache' = Cons(q, cache)
      /\ item' = [item EXCEPT ![q] = FilledItem(r)]
      /\ conn' = [conn EXCEPT ![c] = IdleConn(c, q)]
      /\ UNCHANGED active_conns

\* Mutants of SaveEvicting: the closed connection is still counted;
SaveEvictingUncounted(r) ==
  LET c == peer[r].connection
      q == Last(cache)
  IN  /\ free = <<>>
      /\ cache' = Cons(q, Front(cache))
      /\ item' = [item EXCEPT ![q] = FilledItem(r)]
      /\ conn' = [conn EXCEPT ![item[q].connection] = FreeSlot,
                              ![c] = IdleConn(c, q)]
      /\ UNCHANGED <<free, active_conns>>

\* the most recently cached connection is the one that is closed.
SaveEvictingNewest(r) ==
  LET c == peer[r].connection
      q == Head(cache)
  IN  /\ free = <<>>
      /\ item' = [item EXCEPT ![q] = FilledItem(r)]
      /\ conn' = [conn EXCEPT ![item[q].connection] = FreeSlot,
                              ![c] = IdleConn(c, q)]
      /\ active_conns' = active_conns - 1
      /\ UNCHANGED <<cache, free>>

\* or closes the connection cached for longest and saves it in that item.
SaveEvicting(r) ==
  LET c == peer[r].connection
      q == Last(cache)
  IN  /\ free = <<>>
      /\ cache' = Cons(q, Front(cache))
      /\ item' = [item EXCEPT ![q] = FilledItem(r)]
      /\ conn' = [conn EXCEPT ![item[q].connection] = FreeSlot,
                              ![c] = IdleConn(c, q)]
      /\ active_conns' = active_conns - 1
      /\ UNCHANGED free

\* free_peer of a request whose response leaves the connection reusable
\* (keepalive_free_peer's test of the status) iff reusable.
Saves(r, failing, reusable) ==
  MaxCached > 0 /\ ~Failed(r, failing) /\ reusable

\* Mutant of FreePeerSaving: pc->connection is not cleared.
FreePeerSavingKept(r, failing, reusable) ==
  /\ peer[r].connection # None
  /\ Saves(r, failing, reusable)
  /\ SaveInFreeItem(r) \/ SaveEvicting(r)
  /\ peer' = [peer EXCEPT ![r].failed = Failed(r, failing)]

FreePeerSaving(r, failing, reusable) ==
  /\ peer[r].connection # None
  /\ Saves(r, failing, reusable)
  /\ SaveInFreeItem(r) \/ SaveEvicting(r)
  /\ peer' = [peer EXCEPT ![r].connection = None,
                          ![r].failed = Failed(r, failing)]

\* Mutant of FreePeerClosing: the posted write event is not deleted.
FreePeerClosingPosted(r, failing, reusable) ==
  LET c == peer[r].connection
  IN  /\ c # None
      /\ ~Saves(r, failing, reusable)
      /\ conn' = [conn EXCEPT ![c] = [FreeSlot EXCEPT !.posted = conn[c].posted]]
      /\ active_conns' = active_conns - 1
      /\ peer' = [peer EXCEPT ![r].connection = None,
                              ![r].failed = Failed(r, failing)]
      /\ UNCHANGED <<cache, free, item>>

\* free_peer closes any other, a fake one too, see Connected.
FreePeerClosing(r, failing, reusable) ==
  /\ peer[r].connection # None
  /\ ~Saves(r, failing, reusable)
  /\ conn' = [conn EXCEPT ![peer[r].connection] = FreeSlot]
  /\ active_conns' = active_conns - 1
  /\ peer' = [peer EXCEPT ![r].connection = None,
                          ![r].failed = Failed(r, failing)]
  /\ UNCHANGED <<cache, free, item>>

\* Mutant of FreePeerAgain: the connection is counted off a second time.
FreePeerTwice(r, failing) ==
  /\ peer[r].connection = None
  /\ peer' = [peer EXCEPT ![r].failed = Failed(r, failing)]
  /\ active_conns' = active_conns - 1
  /\ UNCHANGED <<cache, free, item, conn>>

\* A second free_peer, or one after a get_peer that found no connection.
FreePeerAgain(r, failing) ==
  /\ peer[r].connection = None
  /\ peer' = [peer EXCEPT ![r].failed = Failed(r, failing)]
  /\ UNCHANGED <<cache, free, item, active_conns, conn>>

FreePeer(r, failing, reusable) ==
  \/ FreePeerSaving(r, failing, reusable)
  \/ FreePeerClosing(r, failing, reusable)
  \/ FreePeerAgain(r, failing)

\* The clean-up part of the rejection, in ngx_http_drizzle_handler.
FreeRejected(r) ==
  /\ peer[r].connection # None
  /\ conn[peer[r].connection].server = Fd0
  /\ conn' = [conn EXCEPT ![peer[r].connection] = FreeSlot]
  /\ peer' = [peer EXCEPT ![r].connection = None]
  /\ UNCHANGED <<cache, free, item, active_conns>>

\* Mutants of CloseHandler: the item is not taken out of the cache queue;
CloseHandlerStillCached(c) ==
  /\ conn[c].idle
  /\ free' = Cons(conn[c].data, free)
  /\ conn' = [conn EXCEPT ![c] = FreeSlot]
  /\ active_conns' = active_conns - 1
  /\ UNCHANGED <<cache, item, peer>>

\* the closed connection is still counted.
CloseHandlerUncounted(c) ==
  /\ conn[c].idle
  /\ \E i \in DOMAIN cache :
       /\ cache[i] = conn[c].data
       /\ cache' = RemoveAt(cache, i)
       /\ free' = Cons(cache[i], free)
  /\ conn' = [conn EXCEPT ![c] = FreeSlot]
  /\ UNCHANGED <<active_conns, item, peer>>

\* keepalive_close_handler: the server closed, or wrote to, an idle
\* connection, or nginx is draining its idle connections.  A stale event
\* changes nothing.
CloseHandler(c) ==
  /\ conn[c].idle
  /\ \E i \in DOMAIN cache :
       /\ cache[i] = conn[c].data
       /\ cache' = RemoveAt(cache, i)
       /\ free' = Cons(cache[i], free)
  /\ conn' = [conn EXCEPT ![c] = FreeSlot]
  /\ active_conns' = active_conns - 1
  /\ UNCHANGED <<item, peer>>

\* The event loop posts the write event of a connection behind its read event
\* (nginx with an accept mutex), and later runs its handler; what the handler
\* of a request's connection does is in Upstream.tla, that of an idle one is
\* keepalive_dummy_handler.
Post(c) ==
  /\ conn' = [conn EXCEPT ![c].posted = TRUE]
  /\ UNCHANGED <<cache, free, item, active_conns, peer>>

RunPosted(c) ==
  /\ conn[c].posted
  /\ conn' = [conn EXCEPT ![c].posted = FALSE]
  /\ UNCHANGED <<cache, free, item, active_conns, peer>>

-----------------------------------------------------------------------------
(* Every order of calls that keeps the count: a new attempt when the       *)
(* request has no connection, the others when it has a real one; a fake    *)
(* one goes by FreeRejected.  Upstream.tla has the calls the rest of the   *)
(* module makes, and shows where they are among these.                     *)

Connected(r) ==
  /\ peer[r].connection # None
  /\ conn[peer[r].connection].server # Fd0

GetPeer(r) ==
  /\ peer[r].connection = None
  /\ \/ GetPeerSingle(r)
     \/ \E p \in Peers :
          \/ GetPeerMulti(r, p)
          \/ RejectPeer(r, p)
          \/ RejectPeerNoSlot(r, p)
          \/ \E connecting \in BOOLEAN : OpenPeer(r, p, connecting)
          \/ OpenFails(r, p)

Release(r) ==
  \E failing, reusable \in BOOLEAN :
    \/ Connected(r) /\ FreePeer(r, failing, reusable)
    \/ FreePeerAgain(r, failing)

Proceed(r) ==
  /\ Connected(r)
  /\ \/ SetNames(r)
     \/ \E timers \in TimerSets : SetTimers(r, timers)
     \/ Post(peer[r].connection)

RequestStep(r) ==
  \/ peer[r].connection = None /\ (InitPeer(r) \/ ResetPeer(r))
  \/ GetPeer(r)
  \/ Proceed(r)
  \/ Release(r)
  \/ FreeRejected(r)

Next ==
  \/ \E r \in Requests : RequestStep(r)
  \/ \E c \in Conns : CloseHandler(c) \/ RunPosted(c)

Spec == Init /\ [][Next]_vars

-----------------------------------------------------------------------------
(* What must hold between any two calls.                                   *)

OpenConns == {c \in Conns : conn[c].server \in Peers}
IdleConns == {item[cache[i]].connection : i \in DOMAIN cache}
HeldConns == {peer[r].connection : r \in {s \in Requests : Connected(s)}}

\* No item is lost or queued twice, whatever the order in which connections
\* are reused, saved, evicted and closed: an item that is in both queues, or
\* twice in one, would be given to two requests (keepalive.c moves the queue
\* link by hand in five places).
QueuesConserveItems ==
  /\ Len(cache) + Len(free) = MaxCached
  /\ IsInjective(cache)
  /\ IsInjective(free)
  /\ ToSet(cache) \cap ToSet(free) = {}

\* Every open connection is either idle in the pool or used by exactly one
\* request, never both, and none is leaked: cache items, requests and the
\* connection table agree.
ExclusiveOwner ==
  /\ OpenConns = IdleConns \cup HeldConns
  /\ IdleConns \cap HeldConns = {}
  /\ \A i, j \in DOMAIN cache :
       item[cache[i]].connection = item[cache[j]].connection => i = j
  /\ \A r, s \in Requests :
       /\ peer[r].connection = peer[s].connection
       /\ peer[r].connection # None
       => r = s

\* What the close handler and the next user will find: the item's address is
\* that of the connection's server, c->data leads back to the item, and no
\* timer of the previous request is left running.
PooledItemsFaithful ==
  \A i \in DOMAIN cache :
    LET c == item[cache[i]].connection
    IN  /\ conn[c].server = item[cache[i]].sockaddr
        /\ conn[c].idle
        /\ conn[c].data = cache[i]
        /\ conn[c].timers = {}

\* A slot goes back to nginx's connection table clean: no timer and no posted
\* event of the database connection is left to run a handler, with c->data of
\* a finished request, for whatever the slot is used for next.
FreeSlotsClean ==
  \A c \in Conns : conn[c].server = None => conn[c] = FreeSlot

\* active_conns, by which get_peer decides to reject, is the number of open
\* connections: no path counts one twice or frees one without counting it.
ActiveConnsExact == active_conns = Cardinality(OpenConns)

\* With overflow=reject no more than max connections are ever open, idle ones
\* included.
RejectBoundsConns == MaxCached > 0 /\ Reject => active_conns <= MaxCached

\* The pool seen from outside, see ConnPool.tla.
Pool == INSTANCE ConnPool WITH
          pool <- [i \in DOMAIN cache |-> item[cache[i]].connection],
          held <- [r \in Requests |->
                     IF Connected(r) THEN peer[r].connection ELSE None],
          Limit <- MaxCached,
          Bounded <- Reject

\* Every call does to the pool what ConnPool allows: the connections form a
\* stack, the one idle for longest is the one that gives way, and a connection
\* is opened only within the limit.
ImplementsConnPool == Pool!Spec
=============================================================================
