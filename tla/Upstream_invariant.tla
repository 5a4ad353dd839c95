------------------------- MODULE Upstream_invariant ------------------------
(***************************************************************************)
(* The inductive invariant of Upstream, for any number of requests,        *)
(* servers, slots and cache items, and what a step of one request has to   *)
(* show to preserve it.                                                    *)
(*                                                                         *)
(* The invariant says of each request what its fields, its connection and  *)
(* the session on it are, function by function of the C call chain; of     *)
(* each idle connection what a request that takes it may rely on; and of   *)
(* the pool what Keepalive_proofs shows.  It is stated of the values, not  *)
(* of the variables, so that what one request does leaves the others' part *)
(* alone.                                                                  *)
(***************************************************************************)
EXTENDS Upstream, FiniteSetTheorems, TLAPS

KP == INSTANCE Keepalive_refinement

\* What a request uses: the server and the timers of its slot, the session on
\* it, and its part of the C stack.
Server(r) == IF Conn(r) = None THEN None ELSE conn[Conn(r)].server
Running(r) == IF Conn(r) = None THEN {} ELSE conn[Conn(r)].timers
Session(r) == IF Conn(r) = None THEN NewSession(FALSE) ELSE db[Conn(r)]
Stack(r) == IF cpu.req = r THEN cpu ELSE Idle

\* Below, q, p, v, m, d, l and x are rq[r], peer[r], Server(r), Running(r),
\* Session(r), log[r] and Stack(r) of a request r.

Receiving == {"recv_cols", "recv_rows"}
Choosing == {"connect_peer", "retry"}
Failing == {"next_error", "next_timeout"}
Serving == {"process_events", "connect", "send_query", "answered",
            "names_missed", "recv_cols", "recv_rows", "done"}

\* The request has a connection to a server, not a fake one.
Real(p, v) == p.connection # None /\ v \in Peers

Setting(q, p) == q.charset # None /\ ~p.has_set_names

\* Which functions run for the request, and whether it has a connection there.
Placed(q, p, v, x) ==
  /\ q.phase = "new" => x.fn = "idle" /\ p.connection = None
  /\ q.phase = "finished" =>
       /\ p.connection = None
       /\ x.fn \in {"idle", "answered", "return"}
       /\ x.fn = "answered" => x.copy = "query"
  /\ q.phase = "active" =>
       /\ x.fn \in Choosing \cup {"crash"} => p.connection = None
       /\ x.fn \in Failing \cup {"finalize"} => p.connection = None \/ Real(p, v)
       /\ x.fn = "return" =>
            \/ Real(p, v)
            \/ x.entry = "handler" /\ p.connection # None /\ v = Fd0
       /\ x.fn \in Serving \cup {"idle"} => Real(p, v)
       /\ x.fn = "answered" <=> x.copy = "names"
       /\ x.copy = "query" => x.fn \in {"done", "finalize"}
       /\ x.fn = "done" => x.rc \in {"ok", "410"}

\* How far the request has come.
Progressed(q, p, d, l, x) ==
  /\ l.submits <= 1
  /\ q.phase = "new" => q = NewRequest /\ l.submits = 0
  /\ q.phase = "finished" => ~q.paused
  /\ q.phase = "active" =>
       /\ x.fn \in Choosing =>
            ~q.query_started /\ ~q.header_sent /\ q.remaining > 0
       /\ x.fn = "connect_peer" => q.state = "connect" /\ ~p.has_set_names
       /\ q.query_started \/ (l.submits = 0 /\ q.state \in {"connect", "idle"})
       /\ q.paused => q.state \in Receiving
       /\ l.submits = 1 \/ q.state \in Receiving =>
            /\ ~Setting(q, p)
            /\ x.fn \in Failing \cup {"done", "finalize"} \/ d.inflight = "query"
       /\ x.fn \in Receiving =>
            ~Setting(q, p) /\ d.inflight = "query" /\ q.query_started
       /\ x.fn \in {"names_missed", "answered"} => Setting(q, p)
       /\ x.fn = "send_query" => q.state \notin Receiving
       /\ x.fn = "connect" => q.state = "connect"
       /\ x.fn \in Serving \ {"process_events"} => ~q.paused
       /\ x.fn # "finalize" => q.status_n = "0"

\* What can be relied on of the session.
Connects(q, p, v, d, x) ==
  q.phase = "active" /\ Real(p, v) =>
    /\ q.state # "connect" => d.ready
    /\ x.fn \in Serving \ {"process_events", "connect"} => d.ready
    /\ ~q.paused => "read" \in d.events
    /\ x.fn = "done" => d.inflight = "none"
    /\ x.fn = "answered" => d.inflight = "none" /\ d.names = q.charset
    /\ x.fn = "finalize" /\ q.status_n # "0" =>
         d.ready /\ d.inflight = "none" /\ ~q.paused

\* The timers of the connection.
Timed(q, p, v, m, d, x) ==
  q.phase = "active" /\ Real(p, v) =>
    /\ q.paused /\ x.fn \in {"idle", "return", "process_events"} =>
         m = {} /\ q.read_timeout
    /\ ~q.paused /\ x.fn \in {"idle", "return", "process_events"} =>
         \/ q.state \in Receiving /\ m = {"read"}
         \/ q.state \in {"connect", "send_query"} /\ m = {"write"}
         \/ /\ x.fn = "process_events" /\ m = {}
            /\ (q.state = "connect" /\ d.ready) \/ q.state = "idle"
    /\ x.fn = "connect" => m = {"write"} \/ (m = {} /\ d.ready)
    /\ x.fn = "send_query" =>
         m = IF q.state = "send_query" THEN {"write"} ELSE {}
    /\ x.fn = "answered" => m = {}
    /\ x.fn \in Receiving => m = IF q.state = x.fn THEN {"read"} ELSE {}
    /\ x.fn # "names_missed"

\* The character sets, in mode=multi: a peer's own, as long as no server
\* answers "set names" with error 1146.
Named(q, p, v, d) ==
  q.phase = "active" /\ Real(p, v) =>
    /\ q.charset = IF v \in HasCharset THEN v ELSE None
    /\ d.names \in {None, v}
    /\ ~NamesMayMiss /\ v \in HasCharset =>
         (p.has_set_names \/ d.inflight = "query" => d.names = v)

\* The peer a is one of those the request has left to try.
Ahead(q, a) ==
  IF a >= q.next_peer THEN a - q.next_peer < q.remaining
  ELSE a - q.next_peer + NumPeers < q.remaining

\* The attempts, in mode=multi.
Tried(q, l) ==
  \A a \in Peers :
    /\ l.attempts[a] <= 1
    /\ q.phase = "new" \/ (q.phase = "active" /\ Ahead(q, a)) => l.attempts[a] = 0

Good(q, p, v, m, d, l, x) ==
  /\ Placed(q, p, v, x)
  /\ Progressed(q, p, d, l, x)
  /\ Connects(q, p, v, d, x)
  /\ NamesMayMiss \/ Timed(q, p, v, m, d, x)
  /\ Single \/ (Named(q, p, v, d) /\ Tried(q, l))

\* An idle connection: its server, its session and its item.
Reliable(v, d, i) ==
  /\ d.ready /\ d.inflight = "none" /\ "read" \in d.events
  /\ ~Single =>
       /\ d.names \in {None, v}
       /\ ~NamesMayMiss /\ v \in HasCharset /\ i.has_set_names => d.names = v

\* An event handler that frees a connection makes room for the next one: get_peer
\* rejects a request only when the content handler calls it.
Room ==
  cpu.req # None /\ cpu.entry = "event" /\ cpu.fn \in Choosing \cup Failing
    /\ Conn(cpu.req) = None
  => ~KA!PoolFull

Typed ==
  /\ current \in Peers
  /\ rq \in [Requests -> RequestType]
  /\ db \in [Conns -> SessionType]
  /\ cpu \in CpuType
  /\ log \in [Requests -> LogType]
  /\ cpu.req = None => cpu = Idle
  /\ cpu.req # None => cpu.fn # "idle"

GoodRequest(r) ==
  Good(rq[r], peer[r], Server(r), Running(r), Session(r), log[r], Stack(r))

ReliableConn(c) ==
  conn[c].idle => Reliable(conn[c].server, db[c], item[conn[c].data])

IInv ==
  /\ Typed
  /\ KP!IInv
  /\ \A r \in Requests : GoodRequest(r)
  /\ \A c \in Conns : ReliableConn(c)
  /\ Room

-----------------------------------------------------------------------------
(* Keepalive and Keepalive_proofs are instantiated alike, so that what is   *)
(* proved of KP is true of KA.                                             *)

\* The assumption of Keepalive is part of that of Upstream.
LEMMA PoolAssumption == KP!KeepaliveAssumption
BY UpstreamAssumption DEF KP!KeepaliveAssumption, KP!IsFiniteSet, IsFiniteSet

\* The initial pool is the same,
LEMMA SameInit == KA!Init <=> KP!Init
BY DEF KA!Init, KP!Init, KA!FreeSlot, KP!FreeSlot, KA!FreshPeer, KP!FreshPeer,
       KA!Items, KP!Items

\* so are its types,
LEMMA SameTypes == KA!TypeOK <=> KP!TypeOK
BY DEF KA!TypeOK, KP!TypeOK, KA!ItemType, KP!ItemType, KA!ConnType, KP!ConnType,
       KA!PeerType, KP!PeerType, KA!TimerSets, KP!TimerSets, KA!Items, KP!Items

\* and its steps, call by call.
LEMMA SameNext == KA!Next <=> KP!Next
<1>1. ASSUME NEW r PROVE KA!InitPeer(r) <=> KP!InitPeer(r)
  BY DEF KA!InitPeer, KP!InitPeer, KA!FreshPeer, KP!FreshPeer
<1>2. ASSUME NEW r, NEW i PROVE KA!TakeItem(r, i) <=> KP!TakeItem(r, i)
  BY DEF KA!TakeItem, KP!TakeItem, KA!RemoveAt, KP!RemoveAt, KA!Cons, KP!Cons
<1>3. ASSUME NEW r PROVE KA!GetPeer(r) <=> KP!GetPeer(r)
  <2>1. ASSUME NEW p PROVE KA!Missed(p) <=> KP!Missed(p)
    BY DEF KA!Missed, KP!Missed, KA!CachedAt, KP!CachedAt
  <2>2. KA!PoolFull <=> KP!PoolFull
    BY DEF KA!PoolFull, KP!PoolFull
  <2>3. ASSUME NEW p PROVE KA!GetPeerMulti(r, p) <=> KP!GetPeerMulti(r, p)
    BY <1>2 DEF KA!GetPeerMulti, KP!GetPeerMulti, KA!CachedAt, KP!CachedAt
  <2>4. ASSUME NEW p PROVE KA!RejectPeer(r, p) <=> KP!RejectPeer(r, p)
    BY <2>1, <2>2 DEF KA!RejectPeer, KP!RejectPeer, KA!FreeSlots, KP!FreeSlots,
                      KA!ChosenPeer, KP!ChosenPeer
  <2>5. ASSUME NEW p PROVE KA!RejectPeerNoSlot(r, p) <=> KP!RejectPeerNoSlot(r, p)
    BY <2>1, <2>2 DEF KA!RejectPeerNoSlot, KP!RejectPeerNoSlot,
                      KA!ChosenPeer, KP!ChosenPeer
  <2>6. ASSUME NEW p, NEW connecting
        PROVE  KA!OpenPeer(r, p, connecting) <=> KP!OpenPeer(r, p, connecting)
    BY <2>1, <2>2 DEF KA!OpenPeer, KP!OpenPeer, KA!FreeSlots, KP!FreeSlots,
                      KA!ChosenPeer, KP!ChosenPeer
  <2>7. ASSUME NEW p PROVE KA!OpenFails(r, p) <=> KP!OpenFails(r, p)
    BY <2>1, <2>2 DEF KA!OpenFails, KP!OpenFails, KA!ChosenPeer, KP!ChosenPeer
  <2>8. KA!GetPeerSingle(r) <=> KP!GetPeerSingle(r)
    BY <1>2 DEF KA!GetPeerSingle, KP!GetPeerSingle
  <2> QED BY <2>3, <2>4, <2>5, <2>6, <2>7, <2>8 DEF KA!GetPeer, KP!GetPeer
<1>4. ASSUME NEW r PROVE KA!Connected(r) <=> KP!Connected(r)
  BY DEF KA!Connected, KP!Connected
<1>5. ASSUME NEW r PROVE KA!Release(r) <=> KP!Release(r)
  <2>1. ASSUME NEW failing PROVE KA!Failed(r, failing) <=> KP!Failed(r, failing)
    BY DEF KA!Failed, KP!Failed
  <2>2. ASSUME NEW failing, NEW reusable
        PROVE  KA!Saves(r, failing, reusable) <=> KP!Saves(r, failing, reusable)
    BY <2>1 DEF KA!Saves, KP!Saves
  <2>3. KA!SaveInFreeItem(r) <=> KP!SaveInFreeItem(r)
    BY DEF KA!SaveInFreeItem, KP!SaveInFreeItem, KA!Cons, KP!Cons,
           KA!FilledItem, KP!FilledItem, KA!IdleConn, KP!IdleConn
  <2>4. KA!SaveEvicting(r) <=> KP!SaveEvicting(r)
    BY DEF KA!SaveEvicting, KP!SaveEvicting, KA!Cons, KP!Cons, KA!Front, KP!Front,
           KA!Last, KP!Last, KA!FilledItem, KP!FilledItem, KA!IdleConn,
           KP!IdleConn, KA!FreeSlot, KP!FreeSlot
  <2>5. ASSUME NEW failing, NEW reusable
        PROVE  KA!FreePeer(r, failing, reusable) <=> KP!FreePeer(r, failing, reusable)
    BY <2>2, <2>3, <2>4
       DEF KA!FreePeer, KP!FreePeer, KA!FreePeerSaving, KP!FreePeerSaving,
           KA!FreePeerClosing, KP!FreePeerClosing, KA!FreePeerAgain,
           KP!FreePeerAgain, KA!FreeSlot, KP!FreeSlot, KA!Failed, KP!Failed
  <2>6. ASSUME NEW failing
        PROVE  KA!FreePeerAgain(r, failing) <=> KP!FreePeerAgain(r, failing)
    BY DEF KA!FreePeerAgain, KP!FreePeerAgain, KA!Failed, KP!Failed
  <2> QED BY <1>4, <2>5, <2>6 DEF KA!Release, KP!Release
<1>6. ASSUME NEW r PROVE KA!Proceed(r) <=> KP!Proceed(r)
  BY <1>4 DEF KA!Proceed, KP!Proceed, KA!SetNames, KP!SetNames, KA!SetTimers,
              KP!SetTimers, KA!Post, KP!Post, KA!TimerSets, KP!TimerSets
<1>7. ASSUME NEW r PROVE KA!FreeRejected(r) <=> KP!FreeRejected(r)
  BY DEF KA!FreeRejected, KP!FreeRejected, KA!FreeSlot, KP!FreeSlot
<1>8. ASSUME NEW r PROVE KA!ResetPeer(r) <=> KP!ResetPeer(r)
  BY DEF KA!ResetPeer, KP!ResetPeer
<1>9. ASSUME NEW c PROVE KA!CloseHandler(c) <=> KP!CloseHandler(c)
  BY DEF KA!CloseHandler, KP!CloseHandler, KA!RemoveAt, KP!RemoveAt, KA!Cons,
         KP!Cons, KA!FreeSlot, KP!FreeSlot
<1>10. ASSUME NEW c PROVE KA!RunPosted(c) <=> KP!RunPosted(c)
  BY DEF KA!RunPosted, KP!RunPosted
<1> QED BY <1>1, <1>3, <1>5, <1>6, <1>7, <1>8, <1>9, <1>10
        DEF KA!Next, KP!Next, KA!RequestStep, KP!RequestStep

\* What Keepalive_proofs shows of a call.
LEMMA PoolStep == KP!IInv /\ [KA!Next]_(KA!vars) => KP!IInv'
<1>1. [KA!Next]_(KA!vars) => [KP!Next]_(KP!vars)
  BY SameNext DEF KA!vars, KP!vars
<1> QED BY <1>1, PoolAssumption, KP!NextIInv

-----------------------------------------------------------------------------
(* What a call does to the connections: those of other requests and those   *)
(* that stay idle are left alone, and the request's own is described.       *)

\* What the invariant of the pool says, in the words of Upstream.
LEMMA PoolFacts ==
  ASSUME KP!IInv
  PROVE  /\ KA!TypeOK
         /\ \A r \in Requests : Conn(r) # None =>
              /\ Conn(r) \in Conns
              /\ conn[Conn(r)].server \in Peers \cup {Fd0}
              /\ ~conn[Conn(r)].idle
              /\ conn[Conn(r)].data = r
         /\ \A c \in Conns : conn[c].idle =>
              /\ conn[c].server \in Peers
              /\ conn[c].timers = {}
              /\ conn[c].data \in KA!Items
              /\ item[conn[c].data].connection = c
         /\ \A i \in DOMAIN cache :
              /\ cache[i] \in KA!Items
              /\ item[cache[i]].connection \in Conns
              /\ conn[item[cache[i]].connection].idle
              /\ conn[item[cache[i]].connection].data = cache[i]
              /\ conn[item[cache[i]].connection].server = item[cache[i]].sockaddr
         /\ \A c \in Conns : conn[c].server = None => conn[c] = KA!FreeSlot
         /\ \A c \in Conns : conn[c].server # None /\ ~conn[c].idle =>
              \E r \in Requests : Conn(r) = c
         /\ MaxCached > 0 /\ Reject => active_conns <= MaxCached
<1>1. KA!TypeOK /\ KP!TypeOK
  BY SameTypes DEF KP!IInv
<1>2. \A i \in DOMAIN cache : cache[i] \in KP!ToSet(cache) /\ cache[i] \in KA!Items
  BY <1>1 DEF KP!ToSet, KA!TypeOK
<1>3. \A q \in KP!ToSet(cache) : q \in KA!Items
  BY <1>2 DEF KP!ToSet
<1>4. \A r \in Requests : Conn(r) # None => Conn(r) \in Conns
  BY <1>1 DEF KA!TypeOK, KA!PeerType, Conn
<1>5. \A r \in Requests : Conn(r) # None =>
              /\ conn[Conn(r)].server \in Peers \cup {Fd0}
              /\ ~conn[Conn(r)].idle
              /\ conn[Conn(r)].data = r
  BY DEF KP!IInv, KP!HeldLeadsBack, Conn
<1>6. \A c \in Conns : conn[c].idle =>
              /\ conn[c].server \in Peers
              /\ conn[c].timers = {}
              /\ conn[c].data \in KA!Items
              /\ item[conn[c].data].connection = c
  BY <1>3 DEF KP!IInv, KP!IdleIsCached, KP!CachedLeadsBack
<1>7. \A i \in DOMAIN cache :
              /\ item[cache[i]].connection \in Conns
              /\ conn[item[cache[i]].connection].idle
              /\ conn[item[cache[i]].connection].data = cache[i]
              /\ conn[item[cache[i]].connection].server = item[cache[i]].sockaddr
  BY <1>2 DEF KP!IInv, KP!CachedLeadsBack
<1>8. \A c \in Conns : conn[c].server = None => conn[c] = KA!FreeSlot
  BY DEF KP!IInv, KP!FreeSlotsClean, KA!FreeSlot, KP!FreeSlot
<1>9. \A c \in Conns : conn[c].server # None /\ ~conn[c].idle =>
              \E r \in Requests : Conn(r) = c
  BY DEF KP!IInv, KP!UsedIsHeld, Conn
<1>10. MaxCached > 0 /\ Reject => active_conns <= MaxCached
  BY DEF KP!IInv, KP!RejectBoundsConns
<1> QED BY <1>1, <1>2, <1>4, <1>5, <1>6, <1>7, <1>8, <1>9, <1>10

\* A call for the request r (None: for an idle connection) leaves the others'.
UsersKept(r) ==
  /\ \A s \in Requests \ {r} : peer'[s] = peer[s]
  /\ \A c \in Conns : conn[c].server # None /\ ~conn[c].idle /\ conn[c].data # r =>
       /\ conn'[c].server = conn[c].server
       /\ conn'[c].timers = conn[c].timers

\* What is idle afterwards, but for the slot e, has been so before.
IdleKeptBut(e) ==
  \A c \in Conns \ {e} : conn'[c].idle =>
    /\ conn[c].idle
    /\ conn'[c].server = conn[c].server
    /\ conn'[c].data = conn[c].data
    /\ item'[conn[c].data] = item[conn[c].data]

Kept(r) == UsersKept(r) /\ IdleKeptBut(None)

\* A call that only changes what the request remembers.
LEMMA PeerCallKeeps ==
  ASSUME NEW r \in Requests, UNCHANGED <<conn, item>>,
         NEW p, peer' = [peer EXCEPT ![r] = p], KA!TypeOK
  PROVE  Kept(r) /\ peer'[r] = p
BY DEF Kept, UsersKept, IdleKeptBut, KA!TypeOK

\* Timers and posted events.
LEMMA SetTimersKeeps ==
  ASSUME KP!IInv, NEW r \in Requests, Conn(r) # None,
         NEW timers, KA!SetTimers(r, timers)
  PROVE  /\ Kept(r)
         /\ peer' = peer
         /\ Server(r)' = Server(r)
         /\ Running(r)' = timers
<1>1. /\ KA!TypeOK /\ Conn(r) \in Conns
      /\ ~conn[Conn(r)].idle /\ conn[Conn(r)].data = r
  BY PoolFacts
<1>2. /\ conn' = [conn EXCEPT ![Conn(r)].timers = timers]
      /\ peer' = peer /\ item' = item
  BY DEF KA!SetTimers, Conn
<1>3. /\ \A c \in Conns \ {Conn(r)} : conn'[c] = conn[c]
      /\ conn'[Conn(r)] = [conn[Conn(r)] EXCEPT !.timers = timers]
  BY <1>1, <1>2 DEF KA!TypeOK
<1>4. conn[Conn(r)] \in KA!ConnType
  BY <1>1 DEF KA!TypeOK
<1>5. /\ conn'[Conn(r)].timers = timers
      /\ conn'[Conn(r)].server = conn[Conn(r)].server
      /\ conn'[Conn(r)].idle = conn[Conn(r)].idle
  BY <1>3, <1>4 DEF KA!ConnType
<1>6. Kept(r)
  BY <1>1, <1>2, <1>3, <1>5 DEF Kept, UsersKept, IdleKeptBut
<1>7. Conn(r)' = Conn(r)
  BY <1>2 DEF Conn
<1> QED BY <1>2, <1>5, <1>6, <1>7 DEF Server, Running

\* An event posted, or a posted event run, changes nobody's server or timers.
LEMMA PostedKeeps ==
  ASSUME KP!IInv, NEW c \in Conns, KA!Post(c) \/ KA!RunPosted(c)
  PROVE  /\ \A r : Kept(r)
         /\ peer' = peer
         /\ \A r \in Requests : Server(r)' = Server(r) /\ Running(r)' = Running(r)
<1>1. PICK b \in BOOLEAN : conn' = [conn EXCEPT ![c].posted = b]
  BY DEF KA!Post, KA!RunPosted
<1>2. peer' = peer /\ item' = item
  BY DEF KA!Post, KA!RunPosted
<1>3. conn \in [Conns -> KA!ConnType]
  BY PoolFacts DEF KA!TypeOK
<1>4. \A d \in Conns : conn[d] \in KA!ConnType
  BY <1>3
<1>5. \A d \in Conns :
        /\ conn'[d].timers = conn[d].timers
        /\ conn'[d].server = conn[d].server
        /\ conn'[d].idle = conn[d].idle
        /\ conn'[d].data = conn[d].data
  BY <1>1, <1>3, <1>4 DEF KA!ConnType
<1>6. \A r : Kept(r)
  BY <1>2, <1>5 DEF Kept, UsersKept, IdleKeptBut
<1>7. \A r \in Requests : Conn(r)' = Conn(r) /\ (Conn(r) # None => Conn(r) \in Conns)
  BY <1>2, PoolFacts DEF Conn
<1> QED BY <1>2, <1>5, <1>6, <1>7 DEF Server, Running

\* get_peer takes the connection of a cached item.
LEMMA TakeItemKeeps ==
  ASSUME KP!IInv, NEW r \in Requests, NEW i \in DOMAIN cache, KA!TakeItem(r, i)
  PROVE  LET c == item[cache[i]].connection
         IN  /\ Kept(r)
             /\ c \in Conns /\ conn[c].idle
             /\ Conn(r)' = c
             /\ peer'[r].sockaddr = item[cache[i]].sockaddr
             /\ peer'[r].has_set_names = item[conn[c].data].has_set_names
             /\ conn[c].server = item[cache[i]].sockaddr
             /\ conn[c].server \in Peers
             /\ Server(r)' = conn[c].server
             /\ Running(r)' = {}
<1> DEFINE q == cache[i]
           c == item[q].connection
<1>1. /\ KA!TypeOK /\ c \in Conns /\ conn[c].idle /\ conn[c].data = q
      /\ conn[c].server = item[q].sockaddr
      /\ conn[c].server \in Peers /\ conn[c].timers = {}
  BY PoolFacts
<1>2. /\ conn' = [conn EXCEPT ![c].idle = FALSE, ![c].data = r]
      /\ peer' = [peer EXCEPT ![r] =
                    [connection |-> c, sockaddr |-> item[q].sockaddr,
                     has_set_names |-> item[q].has_set_names,
                     failed |-> FALSE]]
      /\ item' = item
  BY DEF KA!TakeItem
<1>3. conn[c] \in KA!ConnType
  BY <1>1 DEF KA!TypeOK
<1>4. c # None
  BY <1>1, UpstreamAssumption
<1> HIDE DEF q, c
<1>5. /\ \A d \in Conns \ {c} : conn'[d] = conn[d]
      /\ conn'[c].server = conn[c].server
      /\ conn'[c].timers = conn[c].timers
      /\ ~conn'[c].idle
  BY <1>1, <1>2, <1>3 DEF KA!TypeOK, KA!ConnType
<1>6. /\ \A s \in Requests \ {r} : peer'[s] = peer[s]
      /\ peer'[r].connection = c
      /\ peer'[r].sockaddr = item[q].sockaddr
      /\ peer'[r].has_set_names = item[q].has_set_names
  BY <1>1, <1>2 DEF KA!TypeOK
<1>7. Kept(r)
  BY <1>1, <1>2, <1>5, <1>6 DEF Kept, UsersKept, IdleKeptBut
<1>8. Conn(r)' = c
  BY <1>6 DEF Conn
<1>9. Server(r)' = conn[c].server /\ Running(r)' = {}
  BY <1>1, <1>4, <1>5, <1>8 DEF Server, Running
<1> QED BY <1>1, <1>6, <1>7, <1>8, <1>9 DEF c, q

\* get_peer opens a connection, or makes a fake one, in a free slot.
LEMMA SlotTakenKeeps ==
  ASSUME KP!IInv, NEW r \in Requests, NEW c \in KA!FreeSlots,
         NEW v, NEW timers, NEW p, p.connection = c,
         conn' = [conn EXCEPT ![c].server = v, ![c].data = r, ![c].timers = timers],
         peer' = [peer EXCEPT ![r] = p],
         item' = item
  PROVE  /\ Kept(r)
         /\ c \in Conns
         /\ Conn(r)' = c
         /\ peer'[r] = p
         /\ Server(r)' = v
         /\ Running(r)' = timers
<1>1. /\ KA!TypeOK /\ c \in Conns /\ conn[c] = KA!FreeSlot /\ conn[c].server = None
  BY PoolFacts DEF KA!FreeSlots
<1>2. conn[c] \in KA!ConnType /\ ~conn[c].idle
  <2>1. conn[c] \in KA!ConnType
    BY <1>1 DEF KA!TypeOK
  <2>2. ~conn[c].idle
    BY <1>1 DEF KA!FreeSlot
  <2> QED BY <2>1, <2>2
<1>3. c # None
  BY <1>1, UpstreamAssumption
<1>4. /\ \A d \in Conns \ {c} : conn'[d] = conn[d]
      /\ conn'[c].server = v
      /\ conn'[c].timers = timers
      /\ ~conn'[c].idle
  BY <1>1, <1>2 DEF KA!TypeOK, KA!ConnType
<1>5. (\A s \in Requests \ {r} : peer'[s] = peer[s]) /\ peer'[r] = p
  BY <1>1 DEF KA!TypeOK
<1>6. Kept(r)
  BY <1>1, <1>4, <1>5 DEF Kept, UsersKept, IdleKeptBut
<1>7. Conn(r)' = c
  BY <1>5 DEF Conn
<1>8. Server(r)' = v /\ Running(r)' = timers
  BY <1>3, <1>4, <1>7 DEF Server, Running
<1> QED BY <1>1, <1>5, <1>6, <1>7, <1>8

\* free_peer closes the connection, or a rejection's clean-up the fake one.
LEMMA SlotFreedKeeps ==
  ASSUME KP!IInv, NEW r \in Requests, Conn(r) # None,
         conn' = [conn EXCEPT ![Conn(r)] = KA!FreeSlot],
         \A s \in Requests \ {r} : peer'[s] = peer[s],
         item' = item
  PROVE  Kept(r)
<1>1. /\ KA!TypeOK /\ Conn(r) \in Conns /\ conn[Conn(r)].data = r
  BY PoolFacts
<1>2. conn \in [Conns -> KA!ConnType]
  BY <1>1 DEF KA!TypeOK
<1>3. /\ \A d \in Conns \ {Conn(r)} : conn'[d] = conn[d]
      /\ conn'[Conn(r)] = KA!FreeSlot
  BY <1>1, <1>2
<1>4. ~conn'[Conn(r)].idle
  BY <1>3 DEF KA!FreeSlot
<1> QED BY <1>1, <1>3, <1>4 DEF Kept, UsersKept, IdleKeptBut

\* The close handler of an idle connection.
LEMMA CloseHandlerKeeps ==
  ASSUME KP!IInv, NEW c \in Conns, KA!CloseHandler(c)
  PROVE  /\ Kept(None)
         /\ peer' = peer
         /\ \A r \in Requests : Server(r)' = Server(r) /\ Running(r)' = Running(r)
<1>1. KA!TypeOK /\ conn[c].idle /\ peer' = peer /\ item' = item
  BY PoolFacts DEF KA!CloseHandler
<1>2. conn' = [conn EXCEPT ![c] = KA!FreeSlot]
  BY DEF KA!CloseHandler
<1>3. (\A d \in Conns \ {c} : conn'[d] = conn[d]) /\ ~conn'[c].idle
  BY <1>1, <1>2 DEF KA!TypeOK, KA!FreeSlot
<1>4. Kept(None)
  BY <1>1, <1>3 DEF Kept, UsersKept, IdleKeptBut
<1>5. \A r \in Requests : Conn(r) # None => Conn(r) \in Conns \ {c}
  BY <1>1, PoolFacts
<1>6. \A r \in Requests : Conn(r)' = Conn(r)
  BY <1>1 DEF Conn
<1> QED BY <1>1, <1>3, <1>4, <1>5, <1>6 DEF Server, Running

\* free_peer saves the connection: then it is idle, in an item that has it.
LEMMA SavingKeeps ==
  ASSUME KP!IInv, NEW r \in Requests, Conn(r) # None,
         MaxCached > 0, KA!SaveInFreeItem(r) \/ KA!SaveEvicting(r),
         \A s \in Requests \ {r} : peer'[s] = peer[s]
  PROVE  /\ UsersKept(r)
         /\ IdleKeptBut(Conn(r))
         /\ conn'[Conn(r)].server = conn[Conn(r)].server
         /\ item'[conn'[Conn(r)].data].has_set_names = peer[r].has_set_names
<1> DEFINE c == Conn(r)
<1>1. /\ KA!TypeOK /\ c \in Conns /\ ~conn[c].idle /\ conn[c].data = r
      /\ c = peer[r].connection
  BY PoolFacts DEF Conn
<1>2. conn \in [Conns -> KA!ConnType] /\ item \in [KA!Items -> KA!ItemType]
  BY <1>1 DEF KA!TypeOK
<1>3. \A d \in Conns : conn[d].idle =>
        conn[d].data \in KA!Items /\ item[conn[d].data].connection = d
  BY PoolFacts
<1>4. \A q : KA!IdleConn(c, q).server = conn[c].server
              /\ KA!IdleConn(c, q).data = q
  BY <1>1, <1>2 DEF KA!IdleConn, KA!ConnType
<1>5. KA!FilledItem(r).has_set_names = peer[r].has_set_names
  BY DEF KA!FilledItem
<1> HIDE DEF c
<1>6. CASE KA!SaveInFreeItem(r)
  <2> DEFINE q == Head(free)
  <2>1. /\ item' = [item EXCEPT ![q] = KA!FilledItem(r)]
        /\ conn' = [conn EXCEPT ![c] = KA!IdleConn(c, q)]
        /\ free # <<>>
    BY <1>1, <1>6 DEF KA!SaveInFreeItem
  <2>2. q \in KA!Items /\ q \in KP!ToSet(free)
    BY <1>1, <2>1 DEF KA!TypeOK, KP!ToSet
  <2>3. \A d \in Conns : conn[d].idle => conn[d].data # q
    BY <2>2 DEF KP!IInv, KP!IdleIsCached, KP!QueuesConserveItems
  <2> HIDE DEF q
  <2>4. /\ \A d \in Conns \ {c} : conn'[d] = conn[d]
        /\ conn'[c] = KA!IdleConn(c, q)
    BY <1>1, <1>2, <2>1
  <2>5. /\ \A p \in KA!Items \ {q} : item'[p] = item[p]
        /\ item'[q] = KA!FilledItem(r)
    BY <1>2, <2>1, <2>2
  <2>6. UsersKept(r)
    BY <1>1, <2>4 DEF UsersKept
  <2>7. IdleKeptBut(c)
    BY <1>3, <2>3, <2>4, <2>5 DEF IdleKeptBut
  <2> QED BY <1>4, <1>5, <2>4, <2>5, <2>6, <2>7 DEF c
<1>7. CASE KA!SaveEvicting(r)
  <2> DEFINE q == Last(cache)
             e == item[q].connection
  <2>1. /\ item' = [item EXCEPT ![q] = KA!FilledItem(r)]
        /\ conn' = [conn EXCEPT ![e] = KA!FreeSlot, ![c] = KA!IdleConn(c, q)]
        /\ free = <<>>
    BY <1>1, <1>7 DEF KA!SaveEvicting, KA!Last, Last
  <2>2. Len(cache) > 0 /\ Len(cache) \in Nat
    BY <1>1, <2>1 DEF KA!TypeOK, KP!IInv, KP!QueuesConserveItems
  <2>3. cache \in Seq(KA!Items) /\ Len(cache) \in DOMAIN cache
    BY <1>1, <2>2 DEF KA!TypeOK
  <2>4. q = cache[Len(cache)]
    BY DEF Last
  <2>5. /\ q \in KA!Items /\ e \in Conns /\ conn[e].idle /\ conn[e].data = q
    BY <2>3, <2>4, PoolFacts
  <2>6. e # c
    BY <1>1, <2>5
  <2> HIDE DEF q, e
  <2>7. /\ \A d \in Conns \ {c, e} : conn'[d] = conn[d]
        /\ conn'[c] = KA!IdleConn(c, q)
        /\ conn'[e] = KA!FreeSlot
    BY <1>1, <1>2, <2>1, <2>5, <2>6
  <2>8. /\ \A p \in KA!Items \ {q} : item'[p] = item[p]
        /\ item'[q] = KA!FilledItem(r)
    BY <1>2, <2>1, <2>5
  <2>9. ~conn'[e].idle
    BY <2>7 DEF KA!FreeSlot
  <2>10. \A d \in Conns : conn[d].idle /\ conn[d].data = q => d = e
    BY <1>3, <2>5 DEF e
  <2>11. UsersKept(r)
    BY <1>1, <2>5, <2>7 DEF UsersKept
  <2>12. IdleKeptBut(c)
    BY <1>3, <2>7, <2>8, <2>9, <2>10 DEF IdleKeptBut
  <2> QED BY <1>4, <1>5, <2>7, <2>8, <2>11, <2>12 DEF c
<1> QED BY <1>6, <1>7

-----------------------------------------------------------------------------
(* The frame of a step of one request: what it has to show of its own.      *)

\* What the invariant says of one request.
LEMMA Local ==
  ASSUME IInv, NEW r \in Requests
  PROVE  /\ rq[r] \in RequestType
         /\ peer[r] \in KA!PeerType
         /\ peer[r].connection = Conn(r)
         /\ Conn(r) = None \/ Conn(r) \in Conns
         /\ Conn(r) # None => Server(r) \in Peers \cup {Fd0}
         /\ Running(r) \in KA!TimerSets
         /\ Session(r) \in SessionType
         /\ log[r] \in LogType
         /\ Stack(r) \in CpuType
         /\ cpu \in CpuType
         /\ cpu.req = r => Stack(r) = cpu
         /\ cpu.req = None => cpu = Idle /\ Stack(r) = Idle
         /\ Good(rq[r], peer[r], Server(r), Running(r), Session(r), log[r], Stack(r))
<1>1. KP!IInv /\ KA!TypeOK
  BY PoolFacts DEF IInv
<1>2. /\ rq[r] \in RequestType /\ log[r] \in LogType /\ cpu \in CpuType
      /\ db \in [Conns -> SessionType]
      /\ cpu.req = None => cpu = Idle
  BY DEF IInv, Typed
<1>3. peer[r] \in KA!PeerType /\ peer[r].connection = Conn(r)
  BY <1>1 DEF KA!TypeOK, Conn
<1>4. /\ Conn(r) = None \/ Conn(r) \in Conns
      /\ Conn(r) # None => conn[Conn(r)].server \in Peers \cup {Fd0}
  BY <1>1, PoolFacts
<1>5. Conn(r) # None => Server(r) \in Peers \cup {Fd0}
  BY <1>4 DEF Server
<1>6. Running(r) \in KA!TimerSets
  <2>1. Conn(r) # None => conn[Conn(r)] \in KA!ConnType
    BY <1>1, <1>4 DEF KA!TypeOK
  <2> QED BY <2>1 DEF Running, KA!ConnType, KA!TimerSets
<1>7. Session(r) \in SessionType
  BY <1>2, <1>4 DEF Session, NewSession, SessionType
<1>8. Idle \in CpuType
  BY DEF Idle, CpuType, Functions
<1>9. Stack(r) \in CpuType /\ (cpu.req = r => Stack(r) = cpu)
      /\ (cpu.req = None => Stack(r) = Idle)
  BY <1>2, <1>8 DEF Stack
<1>10. Good(rq[r], peer[r], Server(r), Running(r), Session(r), log[r], Stack(r))
  BY DEF IInv, GoodRequest
<1> QED BY <1>2, <1>3, <1>4, <1>5, <1>6, <1>7, <1>9, <1>10

\* The other requests.
LEMMA Others ==
  ASSUME IInv, NEW r \in Requests \cup {None}, UsersKept(r),
         cpu.req \in {None, r}, cpu'.req \in {None, r},
         \A s \in Requests \ {r} : rq'[s] = rq[s] /\ log'[s] = log[s],
         \A c \in Conns : conn[c].server # None /\ ~conn[c].idle /\ conn[c].data # r
                            => db'[c] = db[c]
  PROVE  \A s \in Requests \ {r} : GoodRequest(s)'
<1> SUFFICES ASSUME NEW s \in Requests \ {r} PROVE GoodRequest(s)'
  OBVIOUS
<1>1. KP!IInv /\ GoodRequest(s)
  BY DEF IInv
<1>2. s # None
  BY UpstreamAssumption
<1>3. rq'[s] = rq[s] /\ log'[s] = log[s] /\ peer'[s] = peer[s]
  BY DEF UsersKept
<1>4. Conn(s)' = Conn(s)
  BY <1>3 DEF Conn
<1>5. Stack(s)' = Stack(s)
  BY <1>2 DEF Stack
<1>6. CASE Conn(s) = None
  <2>1. Server(s)' = Server(s) /\ Running(s)' = Running(s) /\ Session(s)' = Session(s)
    BY <1>4, <1>6 DEF Server, Running, Session, NewSession
  <2> QED BY <1>1, <1>3, <1>5, <2>1 DEF GoodRequest
<1>7. CASE Conn(s) # None
  <2>1. /\ Conn(s) \in Conns /\ conn[Conn(s)].server \in Peers \cup {Fd0}
        /\ ~conn[Conn(s)].idle /\ conn[Conn(s)].data = s
    BY <1>1, <1>7, PoolFacts
  <2>2. conn[Conn(s)].server # None
    BY <2>1, UpstreamAssumption
  <2>3. /\ conn'[Conn(s)].server = conn[Conn(s)].server
        /\ conn'[Conn(s)].timers = conn[Conn(s)].timers
        /\ db'[Conn(s)] = db[Conn(s)]
    BY <2>1, <2>2 DEF UsersKept
  <2>4. Server(s)' = Server(s) /\ Running(s)' = Running(s) /\ Session(s)' = Session(s)
    BY <1>4, <1>7, <2>3 DEF Server, Running, Session
  <2> QED BY <1>1, <1>3, <1>5, <2>4 DEF GoodRequest
<1> QED BY <1>6, <1>7

\* The idle connections.
LEMMA Idles ==
  ASSUME IInv, NEW e, IdleKeptBut(e),
         \A c \in Conns : conn[c].idle => db'[c] = db[c]
  PROVE  \A c \in Conns \ {e} : ReliableConn(c)'
<1> SUFFICES ASSUME NEW c \in Conns \ {e}, conn'[c].idle
             PROVE  Reliable(conn'[c].server, db'[c], item'[conn'[c].data])
  BY DEF ReliableConn
<1>1. /\ conn[c].idle /\ conn'[c].server = conn[c].server
      /\ item'[conn'[c].data] = item[conn[c].data]
      /\ db'[c] = db[c]
  BY DEF IdleKeptBut
<1> QED BY <1>1 DEF IInv, ReliableConn

\* A step of r leaves alone what it does not own.
OthersKept(r) ==
  /\ cpu.req \in {None, r} /\ cpu'.req \in {None, r}
  /\ \A s \in Requests \ {r} : rq'[s] = rq[s] /\ log'[s] = log[s]
  /\ \A c \in Conns : conn[c].server # None /\ (conn[c].idle \/ conn[c].data # r)
                        => db'[c] = db[c]

\* Then it has to show the invariant of r and of the connection that becomes
\* idle, if one does.
LEMMA StepOfRequest ==
  ASSUME IInv, NEW r \in Requests, KA!Next \/ UNCHANGED poolVars,
         OthersKept(r), UsersKept(r),
         NEW e, IdleKeptBut(e), e \in Conns => ReliableConn(e)',
         Typed', GoodRequest(r)', Room'
  PROVE  IInv'
<1>1. [KA!Next]_(KA!vars)
  BY DEF poolVars, KA!vars
<1>2. KP!IInv'
  BY <1>1, PoolStep DEF IInv
<1>3. \A c \in Conns : conn[c].idle => conn[c].server # None
  BY PoolFacts, UpstreamAssumption DEF IInv
<1>4. \A s \in Requests \ {r} : GoodRequest(s)'
  BY Others DEF OthersKept
<1>5. \A c \in Conns \ {e} : ReliableConn(c)'
  BY <1>3, Idles DEF OthersKept
<1> QED BY <1>2, <1>4, <1>5 DEF IInv

\* A step of r with the connection it has: q, p, m, d, l and x are afterwards
\* what Good is about.
LEMMA OwnStep ==
  ASSUME IInv, NEW r \in Requests, cpu.req \in {None, r},
         NEW q \in RequestType, NEW p, NEW m, NEW d \in SessionType,
         NEW l \in LogType, NEW x \in CpuType,
         \/ UNCHANGED poolVars /\ p = peer[r] /\ m = Running(r)
         \/ /\ Real(peer[r], Server(r))
            /\ \/ m \in KA!TimerSets /\ KA!SetTimers(r, m) /\ p = peer[r]
               \/ /\ KA!SetNames(r)
                  /\ p = [peer[r] EXCEPT !.has_set_names = TRUE] /\ m = Running(r)
               \/ /\ KA!Post(Conn(r)) \/ KA!RunPosted(Conn(r))
                  /\ p = peer[r] /\ m = Running(r),
         \/ Conn(r) # None /\ db' = [db EXCEPT ![Conn(r)] = d]
         \/ db' = db /\ d = Session(r),
         rq' = [rq EXCEPT ![r] = q],
         log' = [log EXCEPT ![r] = l],
         cpu' = x, x = Idle \/ (x.req = r /\ x.fn # "idle"),
         current' = current,
         x.fn \in Choosing \cup Failing => Conn(r) # None,
         Good(q, p, Server(r), m, d, l, x)
  PROVE  IInv'
<1>1. /\ KP!IInv /\ KA!TypeOK /\ Typed
      /\ peer[r].connection = Conn(r)
      /\ Conn(r) = None \/ Conn(r) \in Conns
      /\ Conn(r) # None => Server(r) \in Peers \cup {Fd0}
  BY Local, PoolFacts DEF IInv
<1>2. Real(peer[r], Server(r)) => KA!Connected(r) /\ Conn(r) # None /\ Conn(r) \in Conns
  <2>1. Fd0 \notin Peers
    BY UpstreamAssumption
  <2> QED BY <1>1, <2>1 DEF Real, KA!Connected, Server
<1>3. /\ Kept(r)
      /\ KA!Next \/ UNCHANGED poolVars
      /\ Conn(r)' = Conn(r)
      /\ peer'[r] = p
      /\ Server(r)' = Server(r)
      /\ Running(r)' = m
  <2>1. CASE UNCHANGED poolVars /\ p = peer[r] /\ m = Running(r)
    BY <2>1 DEF poolVars, Kept, UsersKept, IdleKeptBut, Conn, Server, Running
  <2>2. CASE /\ Real(peer[r], Server(r))
             /\ m \in KA!TimerSets /\ KA!SetTimers(r, m) /\ p = peer[r]
    <3>1. KA!Next
      BY <1>2, <2>2 DEF KA!Next, KA!RequestStep, KA!Proceed
    <3> QED BY <1>1, <1>2, <2>2, <3>1, SetTimersKeeps DEF Conn
  <2>3. CASE /\ Real(peer[r], Server(r))
             /\ KA!SetNames(r)
             /\ p = [peer[r] EXCEPT !.has_set_names = TRUE] /\ m = Running(r)
    <3>1. KA!Next
      BY <1>2, <2>3 DEF KA!Next, KA!RequestStep, KA!Proceed
    <3>2. UNCHANGED <<conn, item>> /\ peer' = [peer EXCEPT ![r] = p]
      BY <1>1, <2>3 DEF KA!SetNames, KA!TypeOK
    <3>3. Kept(r) /\ peer'[r] = p
      BY <1>1, <3>2, PeerCallKeeps
    <3>4. p.connection = peer[r].connection
      BY <2>3
    <3>5. Conn(r)' = Conn(r)
      BY <3>3, <3>4 DEF Conn
    <3> QED BY <2>3, <3>1, <3>2, <3>3, <3>5 DEF Server, Running
  <2>4. CASE /\ Real(peer[r], Server(r))
             /\ KA!Post(Conn(r)) \/ KA!RunPosted(Conn(r))
             /\ p = peer[r] /\ m = Running(r)
    <3>1. KA!Next
      BY <1>1, <1>2, <2>4 DEF KA!Next, KA!RequestStep, KA!Proceed
    <3> QED BY <1>1, <1>2, <2>4, <3>1, PostedKeeps DEF Conn
  <2> QED BY <2>1, <2>2, <2>3, <2>4
<1>4. rq'[r] = q /\ log'[r] = l /\ Typed'
  <2>1. rq'[r] = q /\ log'[r] = l
    BY <1>1 DEF Typed
  <2>2. db' \in [Conns -> SessionType]
    BY <1>1 DEF Typed
  <2>3. rq' \in [Requests -> RequestType] /\ log' \in [Requests -> LogType]
    BY <1>1 DEF Typed
  <2>4. x.req = None => x = Idle
    BY UpstreamAssumption
  <2>5. x.req # None => x.fn # "idle"
    BY DEF Idle
  <2> QED BY <1>1, <2>1, <2>2, <2>3, <2>4, <2>5 DEF Typed
<1>5. Session(r)' = d
  <2>1. CASE Conn(r) # None /\ db' = [db EXCEPT ![Conn(r)] = d]
    BY <1>1, <1>3, <2>1 DEF Session, Typed
  <2>2. CASE db' = db /\ d = Session(r)
    BY <1>3, <2>2 DEF Session, NewSession
  <2> QED BY <2>1, <2>2
<1>6. Stack(r)' = x
  <2>1. x = Idle => x.req = None
    BY DEF Idle
  <2> QED BY <2>1, UpstreamAssumption DEF Stack
<1>7. GoodRequest(r)'
  BY <1>3, <1>4, <1>5, <1>6 DEF GoodRequest
<1>8. OthersKept(r)
  <2>1. x.req \in {None, r}
    BY DEF Idle
  <2>2. \A s \in Requests \ {r} : rq'[s] = rq[s] /\ log'[s] = log[s]
    BY <1>1 DEF Typed
  <2>3. Conn(r) # None => ~conn[Conn(r)].idle /\ conn[Conn(r)].data = r
    BY <1>1, PoolFacts
  <2>4. \A c \in Conns : conn[c].server # None /\ (conn[c].idle \/ conn[c].data # r)
                        => db'[c] = db[c]
    BY <1>1, <2>3 DEF Typed
  <2> QED BY <2>1, <2>2, <2>4 DEF OthersKept
<1>9. Room'
  <2>1. x.req # None => x.req = r
    BY DEF Idle
  <2> QED BY <1>3, <2>1 DEF Room, Conn
<1>10. None \notin Conns
  BY UpstreamAssumption
<1> QED BY <1>3, <1>4, <1>7, <1>8, <1>9, <1>10, StepOfRequest DEF Kept

\* A step of r in which the pool gives it a connection or takes it back.  e is
\* the slot of the connection that becomes idle, None if none does.
LEMMA PoolCallStep ==
  ASSUME IInv, NEW r \in Requests, cpu.req \in {None, r}, KA!Next,
         UsersKept(r), NEW e, IdleKeptBut(e), e \in Conns => ReliableConn(e)',
         NEW q \in RequestType, NEW l \in LogType, NEW x \in CpuType,
         rq' = [rq EXCEPT ![r] = q],
         log' = [log EXCEPT ![r] = l],
         cpu' = x, x.req = r, x.fn # "idle",
         current' \in Peers,
         db' \in [Conns -> SessionType],
         \A c \in Conns : conn[c].server # None /\ (conn[c].idle \/ conn[c].data # r)
                            => db'[c] = db[c],
         Good(q, peer'[r], Server(r)', Running(r)', Session(r)', l, x),
         x.entry = "event" /\ x.fn \in Choosing \cup Failing /\ Conn(r)' = None
           => ~KA!PoolFull'
  PROVE  IInv'
<1>1. Typed /\ r # None
  BY UpstreamAssumption DEF IInv
<1>2. /\ rq'[r] = q /\ log'[r] = l
      /\ \A s \in Requests \ {r} : rq'[s] = rq[s] /\ log'[s] = log[s]
  BY <1>1 DEF Typed
<1>3. Typed'
  <2>1. rq' \in [Requests -> RequestType] /\ log' \in [Requests -> LogType]
    BY <1>1 DEF Typed
  <2> QED BY <1>1, <2>1 DEF Typed
<1>4. Stack(r)' = x
  BY DEF Stack
<1>5. GoodRequest(r)'
  BY <1>2, <1>4 DEF GoodRequest
<1>6. OthersKept(r)
  BY <1>2 DEF OthersKept
<1>7. Room'
  BY DEF Room, Conn
<1> QED BY <1>3, <1>5, <1>6, <1>7, StepOfRequest
=============================================================================
