--------------------------- MODULE Upstream_proofs --------------------------
(***************************************************************************)
(* Theorems about Upstream, for any number of requests, servers, slots and *)
(* cache items: every function and every event keeps the invariant of      *)
(* Upstream_invariant, and the properties follow from it.                  *)
(***************************************************************************)
EXTENDS Upstream_processor

\* The C stack unwinds, with the request under way or finished.
LEMMA ReturnKeeps ==
  ASSUME IInv, NEW r \in Requests, Return(r)
  PROVE  IInv'
<1>1. /\ cpu.req = r /\ cpu.fn = "return" /\ cpu' = Idle
      /\ cpu.entry = "handler" => ~Rejected(r)
      /\ UNCHANGED <<poolVars, current, rq, db, log>>
  BY DEF Return, At
<1>2. /\ rq[r] \in RequestType /\ Session(r) \in SessionType
      /\ log[r] \in LogType /\ cpu \in CpuType
      /\ Good(rq[r], peer[r], Server(r), Running(r), Session(r), log[r], cpu)
      /\ peer[r].connection = Conn(r)
      /\ rq = [rq EXCEPT ![r] = rq[r]] /\ log = [log EXCEPT ![r] = log[r]]
  BY <1>1, Local DEF IInv, Typed
<1>3. Idle \in CpuType /\ Idle.fn = "idle" /\ Idle.copy = "none"
  BY DEF Idle, CpuType, Functions
<1>4. cpu.entry = "handler" => peer[r].connection = None \/ Server(r) # Fd0
  BY <1>1, <1>2 DEF Rejected, Server
<1>5. Good(rq[r], peer[r], Server(r), Running(r), Session(r), log[r], Idle)
  BY <1>1, <1>2, <1>3, <1>4
  DEF Good, Placed, Progressed, Connects, Timed, Named, Tried, Ahead, Setting,
      Serving, Choosing, Failing, Receiving, RequestType, States, LogType, Real
<1>6. Idle.fn \notin Choosing \cup Failing
  BY <1>3 DEF Choosing, Failing
<1> QED BY <1>1, <1>2, <1>3, <1>5, <1>6, OwnStep


-----------------------------------------------------------------------------
(* The events of a request that waits.                                      *)

\* What wev_handler and rev_handler do, be the write event posted or not.
LEMMA IoHandlerKeeps ==
  ASSUME IInv, NEW r \in Requests, cpu = Idle, rq[r].phase = "active",
         UNCHANGED poolVars \/ KA!Post(Conn(r)) \/ KA!RunPosted(Conn(r)),
         IoHandler(r), UNCHANGED <<current, rq, db, log>>
  PROVE  IInv'
<1>1. cpu = Idle /\ cpu.req = None /\ current' = current /\ log' = log
  BY DEF Idle
<1>2. AtWork(r)
  BY Awaiting
<1>3. ASSUME Enter(r, "process_events", "event"), UNCHANGED <<rq, db>>
      PROVE  IInv'
  <2> DEFINE x == [Idle EXCEPT !.req = r, !.fn = "process_events", !.entry = "event"]
  <2>1. /\ rq' = rq /\ cpu' = x
        /\ db' = db
        /\ UNCHANGED poolVars \/ KA!Post(Conn(r)) \/ KA!RunPosted(Conn(r))
    BY <1>1, <1>2, <1>3, WorkSame DEF Call, Enter
  <2>2. /\ x \in CpuType
        /\ x.req = r /\ x.fn = "process_events"
    <3>1. x \in CpuType /\ x.req = r /\ x.fn = "process_events"
      BY <1>1 DEF Idle, CpuType, Functions, Codes
    <3> QED BY <3>1
  <2>3. Good(rq[r], peer[r], Server(r), Running(r), Session(r), log[r], x)
    BY <1>1, <1>2, <1>3, <2>2
    DEF AtWork, Good, Placed, Progressed, Connects, Timed, Named, Tried, Ahead,
        Setting, Serving, Choosing, Failing, Receiving, RequestType, States,
        SessionType, LogType, Idle
  <2> HIDE DEF x
  <2> QED BY <1>1, <1>2, <2>1, <2>2, <2>3, OwnStep DEF AtWork
<1>4. ASSUME Enter(r, "next_error", "event"), UNCHANGED <<rq, db>>
      PROVE  IInv'
  <2> DEFINE x == [Idle EXCEPT !.req = r, !.fn = "next_error", !.entry = "event"]
  <2>1. /\ rq' = rq /\ cpu' = x
        /\ db' = db
        /\ UNCHANGED poolVars \/ KA!Post(Conn(r)) \/ KA!RunPosted(Conn(r))
    BY <1>1, <1>2, <1>4, WorkSame DEF Call, Enter
  <2>2. /\ x \in CpuType
        /\ x.req = r /\ x.fn = "next_error"
    <3>1. x \in CpuType /\ x.req = r /\ x.fn = "next_error"
      BY <1>1 DEF Idle, CpuType, Functions, Codes
    <3> QED BY <3>1
  <2>3. Good(rq[r], peer[r], Server(r), Running(r), Session(r), log[r], x)
    BY <1>1, <1>2, <1>4, <2>2
    DEF AtWork, Good, Placed, Progressed, Connects, Timed, Named, Tried, Ahead,
        Setting, Serving, Choosing, Failing, Receiving, RequestType, States,
        SessionType, LogType, Idle
  <2> HIDE DEF x
  <2> QED BY <1>1, <1>2, <2>1, <2>2, <2>3, OwnStep DEF AtWork
<1> QED BY <1>3, <1>4 DEF IoHandler

\* The socket is ready.
LEMMA DbEventKeeps ==
  ASSUME IInv, NEW r \in Requests, DbEvent(r)
  PROVE  IInv'
BY IoHandlerKeeps DEF DbEvent, Waiting

\* A posted write event of the request's connection.
LEMMA PostedEventKeeps ==
  ASSUME IInv, NEW r \in Requests, PostedEvent(r)
  PROVE  IInv'
BY IoHandlerKeeps DEF PostedEvent, Waiting

\* A timer of the connection expires.
LEMMA TimeoutKeeps ==
  ASSUME IInv, NEW r \in Requests, Timeout(r)
  PROVE  IInv'
<1>1. /\ cpu = Idle /\ cpu.req = None /\ rq[r].phase = "active"
      /\ current' = current /\ log' = log
  BY DEF Timeout, Waiting, Idle
<1>2. AtWork(r)
  BY <1>1, Awaiting
<1>3. ASSUME NEW t,
             KA!SetTimers(r, Timers(r) \ {t}), Enter(r, "next_timeout", "event"),
             UNCHANGED <<rq, db>>
      PROVE  IInv'
  <2> DEFINE m == Running(r) \ {t}
             x == [Idle EXCEPT !.req = r, !.fn = "next_timeout", !.entry = "event"]
  <2>1. /\ rq' = rq /\ cpu' = x
        /\ db' = db
        /\ KA!SetTimers(r, m)
    BY <1>1, <1>2, <1>3, WorkSame DEF Call, Enter
  <2>2. /\ m \in KA!TimerSets /\ x \in CpuType
        /\ x.req = r /\ x.fn = "next_timeout"
    <3>1. m \in KA!TimerSets
      BY <1>2, WorkTypes DEF KA!TimerSets
    <3>2. x \in CpuType /\ x.req = r /\ x.fn = "next_timeout"
      BY <1>1 DEF Idle, CpuType, Functions, Codes
    <3> QED BY <3>1, <3>2
  <2>3. Good(rq[r], peer[r], Server(r), m, Session(r), log[r], x)
    BY <1>1, <1>2, <1>3, <2>2
    DEF AtWork, Good, Placed, Progressed, Connects, Timed, Named, Tried, Ahead,
        Setting, Serving, Choosing, Failing, Receiving, RequestType, States,
        SessionType, LogType, Idle
  <2> HIDE DEF m, x
  <2> QED BY <1>1, <1>2, <2>1, <2>2, <2>3, OwnStep DEF AtWork
<1> QED BY <1>3 DEF Timeout

\* The client goes away, or nginx destroys the request.
LEMMA ClientAbortKeeps ==
  ASSUME IInv, NEW r \in Requests, ClientAbort(r)
  PROVE  IInv'
<1>1. /\ cpu = Idle /\ cpu.req = None /\ rq[r].phase = "active"
      /\ current' = current /\ log' = log
  BY DEF ClientAbort, Idle
<1>2. AtWork(r)
  BY <1>1, Awaiting
<1>3. ASSUME rq' = [rq EXCEPT ![r].client_error = TRUE],
             cpu' = [Idle EXCEPT !.req = r, !.fn = "finalize", !.rc = "499"],
             UNCHANGED <<poolVars, db>>
      PROVE  IInv'
  <2> DEFINE q == [rq[r] EXCEPT !.client_error = TRUE]
             x == [Idle EXCEPT !.req = r, !.fn = "finalize", !.rc = "499"]
  <2>1. /\ rq' = [rq EXCEPT ![r] = q] /\ cpu' = x
        /\ db' = db
        /\ UNCHANGED poolVars
    BY <1>1, <1>2, <1>3, WorkSame DEF Call, Enter
  <2>2. /\ q \in RequestType /\ x \in CpuType
        /\ x.req = r /\ x.fn = "finalize"
    <3>1. q \in RequestType
      <4>1. rq[r] \in RequestType
        BY <1>2, WorkTypes
      <4> QED BY <4>1 DEF RequestType, States
    <3>2. x \in CpuType /\ x.req = r /\ x.fn = "finalize"
      BY <1>1 DEF Idle, CpuType, Functions, Codes
    <3> QED BY <3>1, <3>2
  <2>3. Good(q, peer[r], Server(r), Running(r), Session(r), log[r], x)
    BY <1>1, <1>2, <1>3, <2>2
    DEF AtWork, Good, Placed, Progressed, Connects, Timed, Named, Tried, Ahead,
        Setting, Serving, Choosing, Failing, Receiving, RequestType, States,
        SessionType, LogType, Idle
  <2> HIDE DEF q, x
  <2> QED BY <1>1, <1>2, <2>1, <2>2, <2>3, OwnStep DEF AtWork
<1>4. ASSUME cpu' = [Idle EXCEPT !.req = r, !.fn = "finalize", !.rc = "done"],
             UNCHANGED <<poolVars, rq, db>>
      PROVE  IInv'
  <2> DEFINE x == [Idle EXCEPT !.req = r, !.fn = "finalize", !.rc = "done"]
  <2>1. /\ rq' = rq /\ cpu' = x
        /\ db' = db
        /\ UNCHANGED poolVars
    BY <1>1, <1>2, <1>4, WorkSame DEF Call, Enter
  <2>2. /\ x \in CpuType
        /\ x.req = r /\ x.fn = "finalize"
    <3>1. x \in CpuType /\ x.req = r /\ x.fn = "finalize"
      BY <1>1 DEF Idle, CpuType, Functions, Codes
    <3> QED BY <3>1
  <2>3. Good(rq[r], peer[r], Server(r), Running(r), Session(r), log[r], x)
    BY <1>1, <1>2, <1>4, <2>2
    DEF AtWork, Good, Placed, Progressed, Connects, Timed, Named, Tried, Ahead,
        Setting, Serving, Choosing, Failing, Receiving, RequestType, States,
        SessionType, LogType, Idle
  <2> HIDE DEF x
  <2> QED BY <1>1, <1>2, <2>1, <2>2, <2>3, OwnStep DEF AtWork
<1> QED BY <1>3, <1>4 DEF ClientAbort

\* A paused request is under way.
LEMMA PausedIsActive ==
  ASSUME IInv, NEW r \in Requests, rq[r].paused
  PROVE  rq[r].phase = "active"
BY Local DEF Good, Progressed, NewRequest, RequestType

\* The client has taken enough.
LEMMA DrainResumesKeeps ==
  ASSUME IInv, NEW r \in Requests, DrainResumes(r)
  PROVE  IInv'
<1>1. /\ cpu = Idle /\ cpu.req = None /\ rq[r].phase = "active" /\ rq[r].paused
      /\ current' = current /\ log' = log
  BY PausedIsActive DEF DrainResumes, Idle
<1>2. AtWork(r)
  BY <1>1, Awaiting
<1>3. ASSUME rq' = [rq EXCEPT ![r].paused = FALSE],
             db' = [db EXCEPT ![Conn(r)].events = @ \cup {"read"}],
             KA!SetTimers(r, Timers(r) \cup {"read"}),
             Enter(r, "process_events", "event")
      PROVE  IInv'
  <2> DEFINE q == [rq[r] EXCEPT !.paused = FALSE]
             m == Running(r) \cup {"read"}
             d == [Session(r) EXCEPT !.events = @ \cup {"read"}]
             x == [Idle EXCEPT !.req = r, !.fn = "process_events", !.entry = "event"]
  <2>1. /\ rq' = [rq EXCEPT ![r] = q] /\ cpu' = x
        /\ db' = [db EXCEPT ![Conn(r)] = d]
        /\ KA!SetTimers(r, m)
    BY <1>1, <1>2, <1>3, WorkSame DEF Call, Enter
  <2>2. /\ q \in RequestType /\ d \in SessionType /\ m \in KA!TimerSets /\ x \in CpuType
        /\ x.req = r /\ x.fn = "process_events"
    <3>1. q \in RequestType
      <4>1. rq[r] \in RequestType
        BY <1>2, WorkTypes
      <4> QED BY <4>1 DEF RequestType, States
    <3>2. d \in SessionType
      <4>1. Session(r) \in SessionType /\ rq[r] \in RequestType
        BY <1>2, WorkTypes
      <4> QED BY <4>1 DEF SessionType, RequestType, Sql
    <3>3. m \in KA!TimerSets
      BY <1>2, WorkTypes DEF KA!TimerSets
    <3>4. x \in CpuType /\ x.req = r /\ x.fn = "process_events"
      BY <1>1 DEF Idle, CpuType, Functions, Codes
    <3> QED BY <3>1, <3>2, <3>3, <3>4
  <2>3. Good(q, peer[r], Server(r), m, d, log[r], x)
    <3>1. Placed(q, peer[r], Server(r), x)
      BY <1>1, <1>2, <1>3, <2>2
      DEF AtWork, Good, Placed, Setting, Serving, Choosing, Failing, Receiving,
            RequestType, States, SessionType, LogType, Idle
    <3>2. Progressed(q, peer[r], d, log[r], x)
      BY <1>1, <1>2, <1>3, <2>2
      DEF AtWork, Good, Progressed, Setting, Serving, Choosing, Failing, Receiving,
            RequestType, States, SessionType, LogType, Idle
    <3>3. Connects(q, peer[r], Server(r), d, x)
      BY <1>1, <1>2, <1>3, <2>2
      DEF AtWork, Good, Progressed, Connects, Setting, Serving, Choosing,
            Failing, Receiving, RequestType, States, SessionType, LogType, Idle
    <3>4. NamesMayMiss \/ Timed(q, peer[r], Server(r), m, d, x)
      BY <1>1, <1>2, <1>3, <2>2
      DEF AtWork, Good, Progressed, Timed, Setting, Serving, Choosing,
            Failing, Receiving, RequestType, States, SessionType, LogType, Idle
    <3>5. Single \/ (Named(q, peer[r], Server(r), d) /\ Tried(q, log[r]))
      BY <1>1, <1>2, <1>3, <2>2
      DEF AtWork, Good, Progressed, Named, Tried, Ahead, Setting, Serving, Choosing,
            Failing, Receiving, RequestType, States, SessionType, LogType, Idle
    <3> QED BY <3>1, <3>2, <3>3, <3>4, <3>5 DEF Good
  <2> HIDE DEF q, m, d, x
  <2> QED BY <1>1, <1>2, <2>1, <2>2, <2>3, OwnStep DEF AtWork
<1> QED BY <1>1, <1>3 DEF DrainResumes

\* The client does not take it, or sending fails.
LEMMA DrainFailsKeeps ==
  ASSUME IInv, NEW r \in Requests, DrainFails(r)
  PROVE  IInv'
<1>1. /\ cpu = Idle /\ cpu.req = None /\ rq[r].phase = "active"
      /\ current' = current /\ log' = log
  BY PausedIsActive DEF DrainFails, Idle
<1>2. AtWork(r)
  BY <1>1, Awaiting
<1>3. ASSUME NEW rc \in {"408", "error"},
             cpu' = [Idle EXCEPT !.req = r, !.fn = "finalize", !.rc = rc],
             UNCHANGED <<poolVars, rq, db>>
      PROVE  IInv'
  <2> DEFINE x == [Idle EXCEPT !.req = r, !.fn = "finalize", !.rc = rc]
  <2>1. /\ rq' = rq /\ cpu' = x
        /\ db' = db
        /\ UNCHANGED poolVars
    BY <1>1, <1>2, <1>3, WorkSame DEF Call, Enter
  <2>2. /\ x \in CpuType
        /\ x.req = r /\ x.fn = "finalize"
    <3>1. x \in CpuType /\ x.req = r /\ x.fn = "finalize"
      BY <1>1 DEF Idle, CpuType, Functions, Codes
    <3> QED BY <3>1
  <2>3. Good(rq[r], peer[r], Server(r), Running(r), Session(r), log[r], x)
    BY <1>1, <1>2, <1>3, <2>2
    DEF AtWork, Good, Placed, Progressed, Connects, Timed, Named, Tried, Ahead,
        Setting, Serving, Choosing, Failing, Receiving, RequestType, States,
        SessionType, LogType, Idle
  <2> HIDE DEF x
  <2> QED BY <1>1, <1>2, <2>1, <2>2, <2>3, OwnStep DEF AtWork
<1> QED BY <1>3 DEF DrainFails


-----------------------------------------------------------------------------
(* The choice of the server, another attempt and the end of a request.      *)

\* A step of r that has no connection before and none afterwards.
LEMMA ConnlessStep ==
  ASSUME IInv, NEW r \in Requests, cpu.req \in {None, r}, Conn(r) = None,
         KA!Next, UNCHANGED <<conn, item, active_conns, db>>,
         NEW p, p.connection = None, peer' = [peer EXCEPT ![r] = p],
         NEW q \in RequestType, NEW l \in LogType, NEW x \in CpuType,
         rq' = [rq EXCEPT ![r] = q],
         log' = [log EXCEPT ![r] = l],
         cpu' = x, x.req = r, x.fn # "idle",
         current' \in Peers,
         Good(q, p, None, {}, NewSession(FALSE), l, x),
         x.entry = "event" /\ x.fn \in Choosing \cup Failing => ~KA!PoolFull
  PROVE  IInv'
<1>1. KA!TypeOK /\ Typed
  BY PoolFacts DEF IInv
<1>2. Kept(r) /\ peer'[r] = p
  BY <1>1, PeerCallKeeps
<1>3. Conn(r)' = None
  BY <1>2 DEF Conn
<1>4. Server(r)' = None /\ Running(r)' = {} /\ Session(r)' = NewSession(FALSE)
  BY <1>3 DEF Server, Running, Session, NewSession
<1>5. db' \in [Conns -> SessionType] /\ None \notin Conns
  BY <1>1, UpstreamAssumption DEF Typed
<1>6. KA!PoolFull' <=> KA!PoolFull
  BY DEF KA!PoolFull
<1>7. Good(q, peer'[r], Server(r)', Running(r)', Session(r)', l, x)
  BY <1>2, <1>4
<1> QED BY <1>2, <1>3, <1>5, <1>6, <1>7, PoolCallStep DEF Kept

\* ngx_http_drizzle_handler up to dbd_init.
LEMMA HandlerKeeps ==
  ASSUME IInv, NEW r \in Requests, Handler(r)
  PROVE  IInv'
<1> DEFINE q == [rq[r] EXCEPT !.phase = "active",
                               !.next_peer = current % NumPeers,
                               !.remaining = NumPeers]
<1>1. /\ cpu = Idle /\ cpu.req = None /\ rq[r].phase = "new" /\ KA!InitPeer(r)
      /\ UNCHANGED <<current, db, log>>
  BY DEF Handler, Enter, Idle
<1>2. PICK x : /\ cpu' = x
               /\ \/ x = [Idle EXCEPT !.req = r, !.fn = "connect_peer",
                                     !.entry = "handler"]
                  \/ x = [Idle EXCEPT !.req = r, !.fn = "finalize", !.rc = "500",
                                     !.entry = "handler"]
  BY DEF Handler, Enter
<1>3. /\ x \in CpuType /\ x.req = r /\ x.fn \in {"connect_peer", "finalize"}
      /\ x.entry = "handler" /\ x.copy = "none"
  BY <1>2 DEF Idle, CpuType, Functions, Codes
<1>4. /\ rq[r] \in RequestType /\ log[r] \in LogType
      /\ Good(rq[r], peer[r], Server(r), Running(r), Session(r), log[r], Idle)
      /\ peer[r].connection = Conn(r)
      /\ log = [log EXCEPT ![r] = log[r]]
      /\ current \in Peers
  BY <1>1, Local DEF IInv, Typed
<1>5. Conn(r) = None /\ rq[r] = NewRequest /\ log[r].submits = 0
  BY <1>1, <1>4 DEF Good, Placed, Progressed
<1>6. q \in RequestType
  <2>1. current % NumPeers \in Peers /\ NumPeers \in 0..NumPeers
    <3>1. current \in Int /\ NumPeers \in Nat /\ NumPeers > 0
      BY <1>4, UpstreamAssumption DEF Peers
    <3>2. current % NumPeers \in 0..(NumPeers - 1)
      BY <3>1
    <3> QED BY <3>1, <3>2 DEF Peers
  <2> QED BY <1>4, <2>1 DEF RequestType
<1>7. /\ KA!Next /\ UNCHANGED <<conn, item, active_conns, db>>
      /\ peer' = [peer EXCEPT ![r] = KA!FreshPeer]
  <2>1. KA!RequestStep(r)
    BY <1>1, <1>4, <1>5 DEF KA!RequestStep
  <2> QED BY <1>1, <2>1 DEF KA!Next, KA!InitPeer
<1>8. KA!FreshPeer.connection = None /\ ~KA!FreshPeer.has_set_names
  BY DEF KA!FreshPeer
<1>9. rq' = [rq EXCEPT ![r] = q] /\ log' = [log EXCEPT ![r] = log[r]]
  BY <1>1, <1>4 DEF Handler, IInv, Typed
<1>10. Good(q, KA!FreshPeer, None, {}, NewSession(FALSE), log[r], x)
  <2>1. q.phase = "active" /\ q.remaining = NumPeers /\ NumPeers > 0
        /\ ~q.query_started /\ ~q.header_sent /\ ~q.paused
        /\ q.state = "connect" /\ q.status_n = "0"
    BY <1>5, UpstreamAssumption DEF NewRequest
  <2> HIDE DEF q
  <2>2. Placed(q, KA!FreshPeer, None, x)
    BY <1>3, <1>8, <2>1 DEF Placed, Choosing, Failing, Serving
  <2>3. Progressed(q, KA!FreshPeer, NewSession(FALSE), log[r], x)
    <3>1. /\ log[r].submits <= 1 /\ log[r].submits # 1
          /\ q.state \notin Receiving /\ x.fn \notin Receiving
          /\ x.fn \notin Serving
      BY <1>3, <1>5, <2>1 DEF Receiving, Serving
    <3> QED BY <1>3, <1>5, <1>8, <2>1, <3>1 DEF Progressed, Choosing, Serving
  <2>4. ~Real(KA!FreshPeer, None)
    BY <1>8 DEF Real
  <2>5. Single \/ Tried(q, log[r])
    BY <1>1, <1>4, <2>1 DEF Good, Tried
  <2> QED BY <2>2, <2>3, <2>4, <2>5 DEF Good, Connects, Timed, Named
<1> HIDE DEF q
<1> QED BY <1>1, <1>2, <1>3, <1>4, <1>5, <1>6, <1>7, <1>8, <1>9, <1>10, ConnlessStep

\* What is known of a request that turns to a server.
Choosers(r) ==
  /\ rq[r] \in RequestType /\ peer[r] \in KA!PeerType
  /\ log[r] \in LogType /\ cpu \in CpuType
  /\ rq[r].phase = "active" /\ rq[r].state = "connect" /\ rq[r].remaining > 0
  /\ ~rq[r].query_started /\ ~rq[r].header_sent /\ ~rq[r].paused
  /\ rq[r].status_n = "0"
  /\ log[r].submits = 0
  /\ Single \/ Tried(rq[r], log[r])
  /\ peer[r].connection = None /\ Conn(r) = None /\ ~peer[r].has_set_names
  /\ cpu.copy = "none"
  /\ cpu.entry = "event" => ~KA!PoolFull

\* It is so whenever dbd_connect runs.
LEMMA Choose ==
  ASSUME IInv, NEW r \in Requests, At(r, "connect_peer")
  PROVE  Choosers(r)
<1>1. cpu.req = r /\ cpu.fn = "connect_peer" /\ r # None
  BY UpstreamAssumption DEF At
<1>2. /\ rq[r] \in RequestType /\ peer[r] \in KA!PeerType
      /\ log[r] \in LogType /\ cpu \in CpuType
      /\ peer[r].connection = Conn(r)
      /\ Good(rq[r], peer[r], Server(r), Running(r), Session(r), log[r], cpu)
  BY <1>1, Local
<1>3. /\ rq[r].phase = "active" /\ peer[r].connection = None /\ cpu.copy = "none"
  BY <1>1, <1>2 DEF Good, Placed, Choosing, RequestType, CpuType
<1>4. /\ rq[r].state = "connect" /\ rq[r].remaining > 0
      /\ ~rq[r].query_started /\ ~rq[r].header_sent /\ ~peer[r].has_set_names
      /\ rq[r].status_n = "0" /\ log[r].submits = 0
  BY <1>1, <1>2, <1>3 DEF Good, Progressed, Choosing
<1>5. ~rq[r].paused
  BY <1>2, <1>3, <1>4 DEF Good, Progressed, Receiving, RequestType
<1>6. Single \/ Tried(rq[r], log[r])
  BY <1>2 DEF Good
<1>7. cpu.entry = "event" => ~KA!PoolFull
  BY <1>1, <1>2, <1>3 DEF IInv, Room, Choosing
<1> QED BY <1>2, <1>3, <1>4, <1>5, <1>6, <1>7 DEF Choosers

\* In mode=multi no address is tried twice: the peers ahead are those not tried.
LEMMA AdvanceTries ==
  ASSUME NEW q \in RequestType, NEW l \in LogType, Tried(q, l), q.phase = "active",
         q.remaining > 0, NEW n \in Peers, NEW q2 \in RequestType,
         n = IF q.next_peer + 1 = NumPeers THEN 0 ELSE q.next_peer + 1,
         q2.phase = "active", q2.next_peer = n, q2.remaining = q.remaining - 1,
         NEW l2 \in LogType, l2.attempts[q.next_peer] = l.attempts[q.next_peer] + 1,
         \A a \in Peers \ {q.next_peer} : l2.attempts[a] = l.attempts[a]
  PROVE  Tried(q2, l2)
<1> DEFINE p == q.next_peer
<1>1. /\ p \in 0..(NumPeers - 1) /\ q.remaining \in 1..NumPeers
      /\ NumPeers \in Nat /\ NumPeers > 0 /\ n \in 0..(NumPeers - 1)
  BY UpstreamAssumption DEF RequestType, Peers
<1>2. \A a \in Peers : l.attempts[a] \in Nat /\ l2.attempts[a] \in Nat
  BY DEF LogType
<1>3. Ahead(q, p)
  BY <1>1 DEF Ahead
<1>4. l.attempts[p] = 0 /\ p \in Peers
  BY <1>1, <1>3 DEF Tried, Peers
<1>5. ASSUME NEW a \in Peers, Ahead(q2, a)
      PROVE  a # p /\ Ahead(q, a)
  BY <1>1, <1>5 DEF Ahead, Peers
<1>6. \A a \in Peers : l2.attempts[a] <= 1
  BY <1>2, <1>4 DEF Tried
<1>7. \A a \in Peers : Ahead(q2, a) => l2.attempts[a] = 0
  BY <1>5 DEF Tried
<1> QED BY <1>6, <1>7 DEF Tried

\* What is known of it when the peer p has been chosen.
Chosen(q, l, p, st) ==
  /\ q.phase = "active" /\ q.state = st
  /\ ~q.query_started /\ ~q.header_sent /\ ~q.paused /\ q.status_n = "0"
  /\ l.submits = 0
  /\ ~Single => Tried(q, l) /\ q.charset = IF p \in HasCharset THEN p ELSE None

\* get_peer moves on to the next peer.
LEMMA AdvanceMoves ==
  ASSUME IInv, NEW r \in Requests, Choosers(r),
         NEW p \in Peers, NEW st \in States, Advance(r, p, st)
  PROVE  \E q \in RequestType, l \in LogType :
           /\ rq' = [rq EXCEPT ![r] = q]
           /\ log' = [log EXCEPT ![r] = l]
           /\ current' \in Peers
           /\ Chosen(q, l, p, st)
<1> DEFINE n == (p + 1) % NumPeers
           q == [rq[r] EXCEPT !.next_peer = n, !.remaining = @ - 1,
                              !.charset = IF p \in HasCharset THEN p ELSE None,
                              !.state = st]
           k == IF log[r].attempts[p] < 2 THEN log[r].attempts[p] + 1
                ELSE log[r].attempts[p]
           l == [log[r] EXCEPT !.attempts[p] = k]
<1>1. /\ rq[r] \in RequestType /\ log[r] \in LogType
      /\ rq \in [Requests -> RequestType] /\ log \in [Requests -> LogType]
      /\ rq[r].remaining > 0 /\ p = rq[r].next_peer /\ current' = n
      /\ NumPeers \in Nat /\ NumPeers > 0 /\ p \in 0..(NumPeers - 1)
  BY UpstreamAssumption DEF Choosers, IInv, Typed, Advance, Peers
<1>2. n = (IF p + 1 = NumPeers THEN 0 ELSE p + 1) /\ n \in Peers
  <2>1. CASE p + 1 = NumPeers
    BY <1>1, <2>1 DEF Peers
  <2>2. CASE p + 1 # NumPeers
    <3>1. p + 1 \in 0..(NumPeers - 1)
      BY <1>1, <2>2
    <3> QED BY <1>1, <2>2, <3>1 DEF Peers
  <2> QED BY <2>1, <2>2
<1>3. rq[r].remaining - 1 \in 0..NumPeers
  BY <1>1 DEF RequestType
<1>4. q \in RequestType
  BY <1>1, <1>2, <1>3 DEF RequestType
<1>5. k \in 0..2
  <2>1. log[r].attempts[p] \in 0..2
    BY <1>1 DEF LogType
  <2> QED BY <2>1
<1>6. l \in LogType
  BY <1>1, <1>5 DEF LogType
<1>7. rq' = [rq EXCEPT ![r] = q]
  BY <1>1 DEF Advance
<1>8. log' = [log EXCEPT ![r] = l]
  BY <1>1 DEF Advance, Attempt
<1>9. /\ l.submits = 0
      /\ q.phase = "active" /\ q.state = st
      /\ ~q.query_started /\ ~q.header_sent /\ ~q.paused /\ q.status_n = "0"
      /\ q.charset = IF p \in HasCharset THEN p ELSE None
  BY <1>1 DEF Choosers, LogType, RequestType
<1>10. Single \/ Tried(q, l)
  <2>1. ASSUME ~Single PROVE Tried(q, l)
    <3>1. Tried(rq[r], log[r]) /\ rq[r].phase = "active"
      BY <2>1 DEF Choosers
    <3>2. log[r].attempts[p] <= 1 /\ log[r].attempts[p] \in 0..2
      BY <1>1, <3>1 DEF Tried, LogType
    <3>3. l.attempts[p] = log[r].attempts[p] + 1
      BY <1>1, <3>2 DEF LogType
    <3>4. \A a \in Peers \ {p} : l.attempts[a] = log[r].attempts[a]
      BY <1>1 DEF LogType
    <3>5. q.next_peer = n /\ q.remaining = rq[r].remaining - 1
      BY <1>1 DEF RequestType
    <3> HIDE DEF q, l, n
    <3> QED BY <1>1, <1>2, <1>4, <1>6, <1>9, <3>1, <3>3, <3>4, <3>5, AdvanceTries
  <2> QED BY <2>1
<1>11. Chosen(q, l, p, st)
  <2> HIDE DEF q, l
  <2> QED BY <1>9, <1>10 DEF Chosen
<1> HIDE DEF q, l, n
<1> QED BY <1>1, <1>2, <1>4, <1>6, <1>7, <1>8, <1>11

\* A request that has a new or a reused connection now, and goes on with it or
\* ends without the memory for that.
LEMMA ChosenServed ==
  ASSUME NEW q \in RequestType, NEW l \in LogType, NEW a, NEW st \in {"connect", "idle"},
         Chosen(q, l, a, st), NEW p, NEW v, v \in Peers, Real(p, v), ~Single => v = a,
         NEW m, NEW d \in SessionType, NEW x \in CpuType, x.copy = "none",
         \/ x.fn = "return" /\ st = "connect" /\ m = {"write"}
         \/ x.fn = "process_events" /\ m = {} /\ d.ready
         \/ x.fn = "finalize" /\ (st = "connect" \/ d.ready),
         "read" \in d.events, d.inflight = "none",
         ~Single => /\ d.names \in {None, v}
                    /\ ~NamesMayMiss /\ v \in HasCharset /\ p.has_set_names => d.names = v
  PROVE  Good(q, p, v, m, d, l, x)
<1>1. Placed(q, p, v, x)
  BY DEF Placed, Chosen, Choosing, Failing, Serving
<1>2. Progressed(q, p, d, l, x)
  BY DEF Progressed, Chosen, Choosing, Failing, Serving, Receiving
<1>3. Connects(q, p, v, d, x)
  BY DEF Connects, Chosen, Serving
<1>4. Timed(q, p, v, m, d, x)
  BY DEF Timed, Chosen, Receiving
<1>5. Single \/ (Named(q, p, v, d) /\ Tried(q, l))
  BY DEF Named, Chosen
<1> QED BY <1>1, <1>2, <1>3, <1>4, <1>5 DEF Good

\* One that has not.
LEMMA ChosenUnserved ==
  ASSUME NEW q \in RequestType, NEW l \in LogType, NEW a, NEW st,
         st = "connect", Chosen(q, l, a, st),
         NEW p, NEW v, ~Real(p, v), NEW m, NEW d, NEW x \in CpuType, x.copy = "none",
         \/ x.fn \in {"next_error", "finalize", "crash"} /\ p.connection = None
         \/ x.fn = "return" /\ x.entry = "handler" /\ p.connection # None /\ v = Fd0
  PROVE  Good(q, p, v, m, d, l, x)
<1>1. Placed(q, p, v, x)
  BY DEF Placed, Chosen, Choosing, Failing, Serving
<1>2. Progressed(q, p, d, l, x)
  BY DEF Progressed, Chosen, Choosing, Failing, Serving, Receiving
<1>3. Connects(q, p, v, d, x) /\ Timed(q, p, v, m, d, x) /\ Named(q, p, v, d)
  BY DEF Connects, Timed, Named
<1> QED BY <1>1, <1>2, <1>3 DEF Good, Chosen

\* get_peer reuses a connection: it is idle, so it can be relied on.
LEMMA Reused ==
  ASSUME IInv, NEW r \in Requests, NEW i \in DOMAIN cache, KA!TakeItem(r, i), db' = db,
         NEW q \in RequestType, NEW l \in LogType,
         NEW a, Chosen(q, l, a, "connect"), ~Single => item[cache[i]].sockaddr = a,
         NEW x \in CpuType, x.copy = "none", x.fn \in {"process_events", "finalize"}
  PROVE  /\ Kept(r)
         /\ peer'[r].sockaddr \in Peers
         /\ Good(q, peer'[r], Server(r)', Running(r)', Session(r)', l, x)
<1> DEFINE c == item[cache[i]].connection
<1>1. /\ Kept(r)
      /\ c \in Conns /\ conn[c].idle
      /\ Conn(r)' = c
      /\ peer'[r].sockaddr = item[cache[i]].sockaddr
      /\ peer'[r].has_set_names = item[conn[c].data].has_set_names
      /\ conn[c].server = item[cache[i]].sockaddr
      /\ conn[c].server \in Peers
      /\ Server(r)' = conn[c].server
      /\ Running(r)' = {}
  BY TakeItemKeeps DEF IInv
<1> HIDE DEF c
<1>2. Reliable(conn[c].server, db[c], item[conn[c].data])
  BY <1>1 DEF IInv, ReliableConn
<1>3. c # None /\ db[c] \in SessionType
  BY <1>1, UpstreamAssumption DEF IInv, Typed
<1>4. Session(r)' = db[c]
  BY <1>1, <1>3 DEF Session
<1>5. peer'[r].connection = c
  BY <1>1 DEF Conn
<1>6. Real(peer'[r], Server(r)')
  BY <1>1, <1>3, <1>5 DEF Real
<1>7. /\ db[c].ready /\ db[c].inflight = "none" /\ "read" \in db[c].events
      /\ ~Single =>
           /\ db[c].names \in {None, conn[c].server}
           /\ ~NamesMayMiss /\ conn[c].server \in HasCharset /\ peer'[r].has_set_names
                => db[c].names = conn[c].server
  BY <1>1, <1>2 DEF Reliable
<1>8. ~Single => conn[c].server = a
  BY <1>1
<1>9. Good(q, peer'[r], Server(r)', Running(r)', db[c], l, x)
  BY <1>1, <1>3, <1>6, <1>7, <1>8, ChosenServed
<1> QED BY <1>1, <1>4, <1>9

\* What is on the stack when get_peer has returned.
LEMMA GoesOn ==
  ASSUME NEW r \in Requests, cpu \in CpuType, cpu.req = r, cpu.copy = "none",
         NEW fn \in {"process_events", "return"}, GoOn(fn)
  PROVE  \E x \in CpuType :
           /\ cpu' = x
           /\ x.req = r /\ x.entry = cpu.entry /\ x.copy = "none"
           /\ x.fn = fn \/ (NeedsMemory /\ x.fn = "finalize")
<1>1. CASE Call(fn)
  <2> DEFINE x == [cpu EXCEPT !.fn = fn]
  <2>1. /\ x \in CpuType /\ cpu' = x
        /\ x.req = r /\ x.entry = cpu.entry /\ x.copy = "none" /\ x.fn = fn
    BY <1>1 DEF Call, CpuType, Functions
  <2> QED BY <2>1
<1>2. CASE NeedsMemory /\ FinalizeWith("500")
  <2> DEFINE x == [cpu EXCEPT !.fn = "finalize", !.rc = "500"]
  <2>1. /\ x \in CpuType /\ cpu' = x
        /\ x.req = r /\ x.entry = cpu.entry /\ x.copy = "none" /\ x.fn = "finalize"
    BY <1>2 DEF FinalizeWith, CpuType, Functions, Codes
  <2> QED BY <1>2, <2>1
<1> QED BY <1>1, <1>2 DEF GoOn

\* dbd_connect without the memory to begin.
LEMMA ConnectPeerNoStateKeeps ==
  ASSUME IInv, NEW r \in Requests, ConnectPeerNoState(r)
  PROVE  IInv'
<1> DEFINE x == [cpu EXCEPT !.fn = "finalize", !.rc = "500"]
<1>1. /\ At(r, "connect_peer") /\ cpu.req = r /\ cpu' = x
      /\ UNCHANGED <<poolVars, current, rq, db, log>>
  BY DEF ConnectPeerNoState, FinalizeWith, At
<1>2. Choosers(r)
  BY <1>1, Choose
<1>3. x \in CpuType /\ x.req = r /\ x.fn = "finalize" /\ x.copy = "none"
  BY <1>1, <1>2 DEF Choosers, CpuType, Functions, Codes
<1>4. /\ rq = [rq EXCEPT ![r] = rq[r]] /\ log = [log EXCEPT ![r] = log[r]]
      /\ rq[r] \in RequestType /\ log[r] \in LogType /\ Session(r) \in SessionType
  BY Local DEF IInv, Typed
<1> HIDE DEF x
<1>5. Good(rq[r], peer[r], Server(r), Running(r), Session(r), log[r], x)
  <2>1. ~Real(peer[r], Server(r))
    BY <1>2 DEF Choosers, Real
  <2>2. Placed(rq[r], peer[r], Server(r), x)
    BY <1>2, <1>3 DEF Choosers, Placed, Choosing, Failing, Serving
  <2>3. Progressed(rq[r], peer[r], Session(r), log[r], x)
    BY <1>2, <1>3 DEF Choosers, Progressed, Choosing, Failing, Serving, Receiving
  <2> QED BY <1>2, <2>1, <2>2, <2>3 DEF Choosers, Good, Connects, Timed, Named
<1>6. x.fn \notin Choosing \cup Failing /\ x.fn # "idle"
  BY <1>3 DEF Choosing, Failing
<1> QED BY <1>1, <1>3, <1>4, <1>5, <1>6, OwnStep

\* dbd_connect when the pool, in mode=single, has a connection.
LEMMA ConnectPeerSingleKeeps ==
  ASSUME IInv, NEW r \in Requests, ConnectPeerSingle(r)
  PROVE  IInv'
<1> DEFINE a == peer'[r].sockaddr
           k == IF log[r].attempts[a] < 2 THEN log[r].attempts[a] + 1
                ELSE log[r].attempts[a]
           l == [log[r] EXCEPT !.attempts[a] = k]
<1>1. /\ At(r, "connect_peer") /\ cpu.req = r
      /\ Single /\ cache # <<>> /\ KA!TakeItem(r, 1) /\ KA!GetPeerSingle(r)
      /\ Attempt(r, a)
      /\ GoOn("process_events") /\ UNCHANGED <<current, rq, db>>
  BY DEF ConnectPeerSingle, KA!GetPeerSingle, At
<1>2. Choosers(r)
  BY <1>1, Choose
<1>3. PICK x \in CpuType :
        /\ cpu' = x /\ x.req = r /\ x.copy = "none"
        /\ x.fn \in {"process_events", "finalize"}
  BY <1>1, <1>2, GoesOn DEF Choosers
<1>4. 1 \in DOMAIN cache
  BY <1>1, PoolFacts DEF IInv, KA!TypeOK
<1>5. KA!Next
  BY <1>1, <1>2 DEF Choosers, KA!GetPeer, KA!RequestStep, KA!Next
<1>6. a \in Peers /\ Kept(r)
  BY <1>1, <1>4, TakeItemKeeps DEF IInv
<1>7. log[r] \in LogType /\ log \in [Requests -> LogType]
  BY <1>2 DEF Choosers, IInv, Typed
<1>8. k \in 0..2
  BY <1>6, <1>7 DEF LogType
<1>9. l \in LogType /\ l.submits = log[r].submits /\ log' = [log EXCEPT ![r] = l]
  BY <1>1, <1>6, <1>7, <1>8 DEF LogType, Attempt
<1> HIDE DEF l
<1>10. Chosen(rq[r], l, a, "connect")
  BY <1>1, <1>2, <1>9 DEF Choosers, Chosen
<1>11. Good(rq[r], peer'[r], Server(r)', Running(r)', Session(r)', l, x)
  BY <1>1, <1>2, <1>3, <1>4, <1>9, <1>10, Reused DEF Choosers
<1>12. /\ rq' = [rq EXCEPT ![r] = rq[r]] /\ rq[r] \in RequestType
       /\ current' \in Peers /\ db' \in [Conns -> SessionType] /\ None \notin Conns
       /\ x.fn \notin Choosing \cup Failing
  BY <1>1, <1>2, <1>3, UpstreamAssumption DEF Choosers, IInv, Typed, Choosing, Failing
<1> QED BY <1>1, <1>3, <1>5, <1>6, <1>9, <1>11, <1>12, PoolCallStep DEF Kept

\* In mode=multi, a connection to the peer chosen.
LEMMA ConnectPeerMultiKeeps ==
  ASSUME IInv, NEW r \in Requests, ConnectPeerMulti(r)
  PROVE  IInv'
<1>1. At(r, "connect_peer") /\ cpu.req = r /\ GoOn("process_events") /\ db' = db
  BY DEF ConnectPeerMulti, At
<1>2. Choosers(r)
  BY <1>1, Choose
<1>3. PICK p \in Peers : Advance(r, p, rq[r].state) /\ KA!GetPeerMulti(r, p)
  BY DEF ConnectPeerMulti
<1>4. rq[r].state = "connect" /\ "connect" \in States
  BY <1>2 DEF Choosers, States
<1>5. PICK q \in RequestType, l \in LogType :
        /\ rq' = [rq EXCEPT ![r] = q]
        /\ log' = [log EXCEPT ![r] = l]
        /\ current' \in Peers
        /\ Chosen(q, l, p, "connect")
  BY <1>2, <1>3, <1>4, AdvanceMoves
<1>6. PICK i \in DOMAIN cache : item[cache[i]].sockaddr = p /\ KA!TakeItem(r, i)
  BY <1>3 DEF KA!GetPeerMulti, KA!CachedAt
<1>7. PICK x \in CpuType :
        /\ cpu' = x /\ x.req = r /\ x.copy = "none"
        /\ x.fn \in {"process_events", "finalize"}
  BY <1>1, <1>2, GoesOn DEF Choosers
<1>8. KA!Next
  BY <1>2, <1>3 DEF Choosers, KA!GetPeer, KA!RequestStep, KA!Next
<1>9. Kept(r) /\ Good(q, peer'[r], Server(r)', Running(r)', Session(r)', l, x)
  BY <1>1, <1>5, <1>6, <1>7, Reused
<1>10. /\ db' \in [Conns -> SessionType] /\ None \notin Conns
       /\ x.fn \notin Choosing \cup Failing
  BY <1>1, <1>7, UpstreamAssumption DEF IInv, Typed, Choosing, Failing
<1> QED BY <1>1, <1>5, <1>7, <1>8, <1>9, <1>10, PoolCallStep DEF Kept

\* overflow=reject, which happens only while the content handler runs; without
\* a body in a file nothing then keeps dbd_connect from returning.
LEMMA ConnectPeerRejectedKeeps ==
  ASSUME CountReliable, IInv, NEW r \in Requests, ConnectPeerRejected(r)
  PROVE  IInv'
<1>1. At(r, "connect_peer") /\ cpu.req = r
  BY DEF ConnectPeerRejected, At
<1>2. Choosers(r) /\ KP!IInv
  BY <1>1, Choose DEF IInv
<1>3. PICK a \in Peers :
        /\ Advance(r, a, rq[r].state)
        /\ \/ /\ KA!RejectPeer(r, a) /\ GoOn("return")
              /\ db' = [db EXCEPT ![peer'[r].connection].events = {}]
           \/ KA!RejectPeerNoSlot(r, a) /\ Call("crash") /\ db' = db
  BY DEF ConnectPeerRejected
<1>4. rq[r].state = "connect" /\ "connect" \in States
  BY <1>2 DEF Choosers, States
<1>5. PICK q \in RequestType, l \in LogType :
        /\ rq' = [rq EXCEPT ![r] = q]
        /\ log' = [log EXCEPT ![r] = l]
        /\ current' \in Peers
        /\ Chosen(q, l, a, "connect")
  BY <1>2, <1>3, <1>4, AdvanceMoves
<1>6. KA!PoolFull /\ ~BodyInFile
  BY <1>3 DEF KA!RejectPeer, KA!RejectPeerNoSlot, KA!PoolFull, CountReliable
<1>7. cpu \in CpuType /\ cpu.entry = "handler" /\ cpu.copy = "none" /\ ~NeedsMemory
  BY <1>2, <1>6 DEF Choosers, CpuType, NeedsMemory
<1>8. peer[r] \in KA!PeerType /\ Conn(r) = None /\ peer[r].connection = None
  BY <1>2 DEF Choosers
<1>9. KA!Next
  BY <1>3, <1>8 DEF KA!GetPeer, KA!RequestStep, KA!Next
<1>10. \A c : KA!ChosenPeer(r, a, c).connection = c
  BY <1>8 DEF KA!ChosenPeer, KA!PeerType
<1>11. CASE /\ KA!RejectPeer(r, a) /\ GoOn("return")
            /\ db' = [db EXCEPT ![peer'[r].connection].events = {}]
  <2>1. PICK x \in CpuType : /\ cpu' = x /\ x.req = r /\ x.fn = "return"
                             /\ x.entry = "handler" /\ x.copy = "none"
    BY <1>1, <1>7, <1>11, GoesOn
  <2>2. PICK c \in KA!FreeSlots :
          /\ conn' = [conn EXCEPT ![c].server = Fd0, ![c].data = r,
                                  ![c].timers = @ \cup {"write"}]
          /\ peer' = [peer EXCEPT ![r] = KA!ChosenPeer(r, a, c)]
    BY <1>11 DEF KA!RejectPeer
  <2> DEFINE m == conn[c].timers \cup {"write"}
             p == KA!ChosenPeer(r, a, c)
  <2>3. /\ conn' = [conn EXCEPT ![c].server = Fd0, ![c].data = r, ![c].timers = m]
        /\ item' = item /\ peer' = [peer EXCEPT ![r] = p]
        /\ c \in KA!FreeSlots
    BY <1>11, <2>2 DEF KA!RejectPeer
  <2>4. p.connection = c
    BY <1>10
  <2> HIDE DEF m, p
  <2>5. /\ Kept(r) /\ c \in Conns /\ Conn(r)' = c /\ peer'[r] = p /\ Server(r)' = Fd0
        /\ conn[c].server = None
    BY <1>2, <2>3, <2>4, SlotTakenKeeps DEF KA!FreeSlots
  <2>6. p.connection # None /\ Fd0 \notin Peers /\ None \notin Conns
    BY <2>4, <2>5, UpstreamAssumption
  <2>7. Good(q, peer'[r], Server(r)', Running(r)', Session(r)', l, x)
    BY <1>5, <2>1, <2>5, <2>6, ChosenUnserved DEF Real
  <2>8. /\ db' \in [Conns -> SessionType]
        /\ \A e \in Conns : conn[e].server # None => db'[e] = db[e]
    <3>1. db' = [db EXCEPT ![c].events = {}] /\ db \in [Conns -> SessionType]
      BY <1>11, <2>4, <2>5 DEF IInv, Typed
    <3> QED BY <2>5, <3>1 DEF SessionType
  <2>9. x.fn \notin Choosing \cup Failing /\ x.fn # "idle"
    BY <2>1 DEF Choosing, Failing
  <2> QED BY <1>1, <1>5, <1>9, <2>1, <2>5, <2>6, <2>7, <2>8, <2>9, PoolCallStep DEF Kept
<1>12. CASE KA!RejectPeerNoSlot(r, a) /\ Call("crash") /\ db' = db
  <2> DEFINE x == [cpu EXCEPT !.fn = "crash"]
             p == KA!ChosenPeer(r, a, None)
  <2>1. /\ cpu' = x /\ x \in CpuType /\ x.req = r /\ x.fn = "crash" /\ x.copy = "none"
    BY <1>1, <1>7, <1>12 DEF Call, CpuType, Functions
  <2>2. /\ UNCHANGED <<conn, item, active_conns, db>>
        /\ peer' = [peer EXCEPT ![r] = p] /\ p.connection = None
    BY <1>1, <1>10, <1>12 DEF KA!RejectPeerNoSlot
  <2> HIDE DEF x, p
  <2>3. Good(q, p, None, {}, NewSession(FALSE), l, x)
    BY <1>5, <2>1, <2>2, ChosenUnserved DEF Real
  <2>4. x.fn \notin Choosing \cup Failing
    BY <2>1 DEF Choosing, Failing
  <2> QED BY <1>1, <1>5, <1>8, <1>9, <2>1, <2>2, <2>3, <2>4, ConnlessStep
<1> QED BY <1>3, <1>11, <1>12

\* get_peer opens a connection.
LEMMA ConnectPeerOpensKeeps ==
  ASSUME IInv, NEW r \in Requests, ConnectPeerOpens(r)
  PROVE  IInv'
<1>1. At(r, "connect_peer") /\ cpu.req = r
  BY DEF ConnectPeerOpens, At
<1>2. Choosers(r) /\ KP!IInv
  BY <1>1, Choose DEF IInv
<1>3. PICK a \in Peers, connecting \in BOOLEAN :
        /\ Advance(r, a, IF connecting THEN "connect" ELSE "idle")
        /\ GoOn(IF connecting THEN "return" ELSE "process_events")
        /\ KA!OpenPeer(r, a, cpu'.fn = "return")
        /\ db' = [db EXCEPT ![peer'[r].connection] = NewSession(~connecting)]
  BY DEF ConnectPeerOpens
<1> DEFINE st == IF connecting THEN "connect" ELSE "idle"
           fn == IF connecting THEN "return" ELSE "process_events"
           d == NewSession(~connecting)
           timed == cpu'.fn = "return"
<1>4. st \in {"connect", "idle"} /\ st \in States
  BY DEF States
<1>5. PICK q \in RequestType, l \in LogType :
        /\ rq' = [rq EXCEPT ![r] = q]
        /\ log' = [log EXCEPT ![r] = l]
        /\ current' \in Peers
        /\ Chosen(q, l, a, st)
  BY <1>2, <1>3, <1>4, AdvanceMoves
<1>6. cpu \in CpuType /\ cpu.copy = "none"
  BY <1>2 DEF Choosers
<1>7. /\ peer[r] \in KA!PeerType /\ Conn(r) = None /\ peer[r].connection = None
      /\ ~peer[r].has_set_names
  BY <1>2 DEF Choosers
<1>8. KA!Next
  <2>1. timed \in BOOLEAN /\ KA!OpenPeer(r, a, timed)
    BY <1>3
  <2> HIDE DEF timed
  <2> QED BY <1>7, <2>1 DEF KA!GetPeer, KA!RequestStep, KA!Next
<1>9. PICK c \in KA!FreeSlots :
          /\ conn' = [conn EXCEPT ![c].server = a, ![c].data = r,
                                  ![c].timers = IF timed THEN @ \cup {"write"}
                                                ELSE @]
          /\ peer' = [peer EXCEPT ![r] = KA!ChosenPeer(r, a, c)]
  BY <1>3 DEF KA!OpenPeer
<1> DEFINE m == IF timed THEN {"write"} ELSE {}
           p == KA!ChosenPeer(r, a, c)
<1>10. /\ conn' = [conn EXCEPT ![c].server = a, ![c].data = r, ![c].timers = m]
       /\ item' = item /\ peer' = [peer EXCEPT ![r] = p]
       /\ c \in KA!FreeSlots
  <2>1. conn[c] = KA!FreeSlot
    BY <1>2, PoolFacts DEF KA!FreeSlots
  <2>2. conn[c].timers = {}
    BY <2>1 DEF KA!FreeSlot
  <2> QED BY <1>3, <1>9, <2>2 DEF KA!OpenPeer
<1>11. p.connection = c /\ ~p.has_set_names
  BY <1>7 DEF KA!ChosenPeer, KA!PeerType
<1>12. PICK x \in CpuType : /\ cpu' = x /\ x.req = r /\ x.copy = "none"
                             /\ x.fn \in {fn, "finalize"}
  <2>1. fn \in {"process_events", "return"} /\ GoOn(fn)
    BY <1>3
  <2> HIDE DEF fn
  <2> QED BY <1>1, <1>6, <2>1, GoesOn
<1>13. /\ d \in SessionType /\ d.ready = ~connecting /\ "read" \in d.events
       /\ d.inflight = "none" /\ d.names = None
  BY DEF NewSession, SessionType
<1> HIDE DEF m, p, d, st, fn
<1>14. /\ Kept(r) /\ c \in Conns /\ Conn(r)' = c /\ peer'[r] = p /\ Server(r)' = a
       /\ Running(r)' = m
  BY <1>2, <1>10, <1>11, SlotTakenKeeps
<1>15. c # None /\ None \notin Conns /\ conn[c].server = None
  BY <1>14, UpstreamAssumption DEF KA!FreeSlots
<1>16. db' = [db EXCEPT ![c] = d] /\ db \in [Conns -> SessionType]
  BY <1>3, <1>11, <1>14 DEF d, IInv, Typed
<1>17. /\ db' \in [Conns -> SessionType] /\ Session(r)' = d
       /\ \A e \in Conns : conn[e].server # None => db'[e] = db[e]
  BY <1>13, <1>14, <1>15, <1>16 DEF Session
<1>18. Real(p, a)
  BY <1>11, <1>15 DEF Real
<1>19. Good(q, p, a, m, d, l, x)
  <2>1. CASE x.fn = "return"
    <3>1. st = "connect" /\ m = {"write"}
      BY <1>12, <2>1 DEF st, m, fn
    <3> QED BY <1>4, <1>5, <1>11, <1>12, <1>13, <1>18, <2>1, <3>1, ChosenServed
  <2>2. CASE x.fn = "process_events"
    <3>1. st = "idle" /\ m = {} /\ d.ready
      BY <1>12, <1>13, <2>2 DEF st, m, fn
    <3> QED BY <1>4, <1>5, <1>11, <1>12, <1>13, <1>18, <2>2, <3>1, ChosenServed
  <2>3. CASE x.fn = "finalize"
    <3>1. st = "connect" \/ d.ready
      BY <1>13 DEF st
    <3> QED BY <1>4, <1>5, <1>11, <1>12, <1>13, <1>18, <2>3, <3>1, ChosenServed
  <2>4. x.fn \in {"return", "process_events", "finalize"}
    BY <1>12 DEF fn
  <2> QED BY <2>1, <2>2, <2>3, <2>4
<1>20. Good(q, peer'[r], Server(r)', Running(r)', Session(r)', l, x)
  BY <1>14, <1>17, <1>19
<1>21. x.fn \notin Choosing \cup Failing /\ x.fn # "idle"
  BY <1>12 DEF Choosing, Failing, fn
<1> QED BY <1>1, <1>5, <1>8, <1>12, <1>14, <1>15, <1>17, <1>20, <1>21, PoolCallStep DEF Kept

\* get_peer finds no connection.
LEMMA ConnectPeerFailsKeeps ==
  ASSUME IInv, NEW r \in Requests, ConnectPeerFails(r)
  PROVE  IInv'
<1>1. At(r, "connect_peer") /\ cpu.req = r /\ db' = db
  BY DEF ConnectPeerFails, At
<1>2. Choosers(r)
  BY <1>1, Choose
<1>3. PICK a \in Peers : Advance(r, a, rq[r].state) /\ KA!OpenFails(r, a)
  BY DEF ConnectPeerFails
<1>4. rq[r].state = "connect" /\ "connect" \in States
  BY <1>2 DEF Choosers, States
<1>5. PICK q \in RequestType, l \in LogType :
        /\ rq' = [rq EXCEPT ![r] = q]
        /\ log' = [log EXCEPT ![r] = l]
        /\ current' \in Peers
        /\ Chosen(q, l, a, "connect")
  BY <1>2, <1>3, <1>4, AdvanceMoves
<1>6. PICK x : /\ cpu' = x
               /\ \/ x = [cpu EXCEPT !.fn = "next_error"]
                  \/ x = [cpu EXCEPT !.fn = "finalize", !.rc = "500"]
  BY DEF ConnectPeerFails, Call, FinalizeWith
<1>7. /\ x \in CpuType /\ x.req = r /\ x.fn \in {"next_error", "finalize"}
      /\ x.copy = "none"
  BY <1>1, <1>2, <1>6 DEF Choosers, CpuType, Functions, Codes
<1>8. peer[r] \in KA!PeerType /\ Conn(r) = None /\ peer[r].connection = None
  BY <1>2 DEF Choosers
<1>9. KA!Next
  BY <1>3, <1>8 DEF KA!GetPeer, KA!RequestStep, KA!Next
<1> DEFINE p == KA!ChosenPeer(r, a, None)
<1>10. /\ UNCHANGED <<conn, item, active_conns, db>> /\ ~KA!PoolFull
       /\ peer' = [peer EXCEPT ![r] = p] /\ p.connection = None
  BY <1>1, <1>3, <1>8 DEF KA!OpenFails, KA!ChosenPeer, KA!PeerType
<1> HIDE DEF p
<1>11. Good(q, p, None, {}, NewSession(FALSE), l, x)
  BY <1>5, <1>7, <1>10, ChosenUnserved DEF Real
<1> QED BY <1>1, <1>5, <1>6, <1>7, <1>8, <1>9, <1>10, <1>11, ConnlessStep

\* free_peer closes the connection of r.
LEMMA Closed ==
  ASSUME IInv, NEW r \in Requests, NEW failing \in BOOLEAN, NEW reusable \in BOOLEAN,
         Real(peer[r], Server(r)), KA!FreePeerClosing(r, failing, reusable)
  PROVE  /\ KA!Next
         /\ Kept(r)
         /\ Conn(r)' = None /\ peer'[r].connection = None
         /\ peer'[r].has_set_names = peer[r].has_set_names
         /\ Server(r)' = None /\ Running(r)' = {}
         /\ ~KA!PoolFull'
<1>1. /\ KA!TypeOK /\ peer[r].connection = Conn(r) /\ Conn(r) # None
      /\ Server(r) \in Peers
  BY Local, PoolFacts DEF IInv, Real
<1>2. KA!Connected(r)
  BY <1>1, UpstreamAssumption DEF KA!Connected, Server
<1>3. KA!Next
  BY <1>2 DEF KA!FreePeer, KA!Release, KA!RequestStep, KA!Next
<1> DEFINE f == KA!Failed(r, failing)
<1>4. /\ conn' = [conn EXCEPT ![Conn(r)] = KA!FreeSlot]
      /\ peer' = [peer EXCEPT ![r].connection = None, ![r].failed = f]
      /\ item' = item /\ active_conns' = active_conns - 1
  BY <1>1 DEF KA!FreePeerClosing
<1> HIDE DEF f
<1>5. peer \in [Requests -> KA!PeerType]
  BY <1>1 DEF KA!TypeOK
<1>6. /\ \A s \in Requests \ {r} : peer'[s] = peer[s]
      /\ peer'[r].connection = None
      /\ peer'[r].has_set_names = peer[r].has_set_names
  BY <1>4, <1>5 DEF KA!PeerType
<1>7. Kept(r)
  BY <1>1, <1>4, <1>6, SlotFreedKeeps DEF IInv
<1>8. Conn(r)' = None
  BY <1>6 DEF Conn
<1>9. ~KA!PoolFull'
  <2>1. active_conns \in Nat /\ MaxCached \in Nat
    BY <1>1, UpstreamAssumption DEF KA!TypeOK
  <2>2. MaxCached > 0 /\ Reject => active_conns <= MaxCached
    BY PoolFacts DEF IInv
  <2>3. active_conns' \in Nat
    <3>1. KP!IInv'
      BY <1>3, PoolStep DEF IInv
    <3>2. KP!TypeOK'
      BY <3>1 DEF KP!IInv
    <3> QED BY <3>2 DEF KP!TypeOK
  <2>4. MaxCached > 0 /\ Reject => active_conns' \in 0..(MaxCached - 1)
    BY <1>4, <2>1, <2>2, <2>3
  <2> QED BY <2>4 DEF KA!PoolFull
<1> QED BY <1>3, <1>6, <1>7, <1>8, <1>9 DEF Server, Running

\* free_peer without a connection.
LEMMA ClosedAgain ==
  ASSUME IInv, NEW r \in Requests, NEW failing \in BOOLEAN,
         KA!FreePeerAgain(r, failing)
  PROVE  /\ KA!Next
         /\ UNCHANGED <<conn, item, active_conns>>
         /\ \E p : /\ p.connection = None /\ p.has_set_names = peer[r].has_set_names
                  /\ peer' = [peer EXCEPT ![r] = p]
<1> DEFINE p == [peer[r] EXCEPT !.failed = KA!Failed(r, failing)]
<1>1. peer[r] \in KA!PeerType /\ peer[r].connection = None
  BY Local DEF KA!FreePeerAgain
<1>2. p.connection = None /\ p.has_set_names = peer[r].has_set_names
  BY <1>1 DEF KA!PeerType
<1>3. peer' = [peer EXCEPT ![r] = p]
  BY PoolFacts DEF KA!FreePeerAgain, IInv, KA!TypeOK
<1>4. KA!Next
  BY DEF KA!Release, KA!RequestStep, KA!Next
<1> HIDE DEF p
<1> QED BY <1>2, <1>3, <1>4 DEF KA!FreePeerAgain

\* ngx_http_upstream_drizzle_next: a failed attempt never saves its connection,
\* as there is no status yet.
LEMMA NextPeerKeeps ==
  ASSUME IInv, NEW r \in Requests, NextPeer(r)
  PROVE  IInv'
<1> DEFINE again == ~rq[r].query_started /\ rq[r].remaining > 0 /\ ~rq[r].header_sent
<1>1. /\ cpu.req = r /\ cpu.fn \in Failing
      /\ KA!FreePeer(r, TRUE, Reusable(r)) /\ UNCHANGED <<current, rq, db, log>>
  BY DEF NextPeer, At, Failing
<1>2. PICK x : /\ cpu' = x
               /\ \/ x = [cpu EXCEPT !.fn = "retry"] /\ again
                  \/ \E rc \in {"499", "502", "504"} :
                       x = [cpu EXCEPT !.fn = "finalize", !.rc = rc]
  BY DEF NextPeer, Call, FinalizeWith
<1>3. /\ rq[r] \in RequestType /\ log[r] \in LogType /\ cpu \in CpuType
      /\ peer[r] \in KA!PeerType /\ peer[r].connection = Conn(r)
      /\ Good(rq[r], peer[r], Server(r), Running(r), Session(r), log[r], cpu)
      /\ rq = [rq EXCEPT ![r] = rq[r]] /\ log = [log EXCEPT ![r] = log[r]]
      /\ current \in Peers /\ db \in [Conns -> SessionType]
  BY <1>1, Local DEF IInv, Typed
<1>4. /\ x \in CpuType /\ x.req = r /\ x.fn \in {"retry", "finalize"}
      /\ x.entry = cpu.entry /\ x.copy = cpu.copy /\ (x.fn = "retry" => again)
  BY <1>1, <1>2, <1>3 DEF CpuType, Functions, Codes
<1>5. /\ rq[r].phase = "active" /\ cpu.copy = "none"
      /\ Conn(r) = None \/ Real(peer[r], Server(r))
  BY <1>1, <1>3 DEF Good, Placed, Failing, RequestType, CpuType
<1>6. rq[r].status_n = "0"
  BY <1>1, <1>3, <1>5 DEF Good, Progressed, Failing
<1>7. ~Reusable(r)
  BY <1>6 DEF Reusable
<1>8. \A p, v, m, d : p.connection = None /\ p.has_set_names = peer[r].has_set_names =>
        Good(rq[r], p, v, m, d, log[r], x)
  <2> SUFFICES ASSUME NEW p, NEW v, NEW m, NEW d,
                      p.connection = None, p.has_set_names = peer[r].has_set_names
               PROVE  Good(rq[r], p, v, m, d, log[r], x)
    OBVIOUS
  <2>1. Placed(rq[r], p, v, x)
    BY <1>4, <1>5 DEF Placed, Choosing, Failing, Serving
  <2>2. Progressed(rq[r], p, d, log[r], x)
    <3>1. Setting(rq[r], p) <=> Setting(rq[r], peer[r])
      BY DEF Setting
    <3>2. /\ rq[r].phase # "new" /\ rq[r].phase # "finished"
          /\ x.fn \notin {"connect_peer", "names_missed", "answered", "send_query",
                           "connect"}
          /\ x.fn \notin Receiving
          /\ x.fn \notin Serving
          /\ x.fn \in Choosing => x.fn = "retry"
      BY <1>4, <1>5 DEF Receiving, Serving, Choosing
    <3>3. /\ log[r].submits <= 1
          /\ \/ rq[r].query_started
             \/ log[r].submits = 0 /\ rq[r].state \in {"connect", "idle"}
          /\ rq[r].paused => rq[r].state \in Receiving
          /\ log[r].submits = 1 \/ rq[r].state \in Receiving => ~Setting(rq[r], peer[r])
      BY <1>3, <1>5 DEF Good, Progressed
    <3>4. x.fn = "retry" =>
            ~rq[r].query_started /\ rq[r].remaining > 0 /\ ~rq[r].header_sent
      BY <1>4
    <3>5. x.fn = "retry" => log[r].submits # 1 /\ rq[r].state \notin Receiving
      BY <3>3, <3>4 DEF Receiving
    <3>6. x.fn \in Failing \cup {"done", "finalize"} \/ x.fn = "retry"
      BY <1>4
    <3> HIDE DEF Setting
    <3> QED BY <1>5, <1>6, <3>1, <3>2, <3>3, <3>4, <3>5, <3>6 DEF Progressed
  <2>3. ~Real(p, v)
    BY DEF Real
  <2> QED BY <1>3, <2>1, <2>2, <2>3 DEF Good, Connects, Timed, Named
<1> HIDE DEF again
<1>9. CASE KA!FreePeerClosing(r, TRUE, Reusable(r))
  <2>1. Conn(r) # None
    BY <1>3, <1>9 DEF KA!FreePeerClosing
  <2>2. /\ KA!Next /\ Kept(r) /\ peer'[r].connection = None /\ ~KA!PoolFull'
        /\ peer'[r].has_set_names = peer[r].has_set_names
    <3>1. KA!FreePeerClosing(r, TRUE, FALSE)
      BY <1>7, <1>9 DEF KA!FreePeerClosing, KA!Saves
    <3>2. Real(peer[r], Server(r))
      BY <1>5, <2>1
    <3> QED BY <3>1, <3>2, Closed
  <2>3. Good(rq[r], peer'[r], Server(r)', Running(r)', Session(r)', log[r], x)
    BY <1>8, <2>2
  <2>4. None \notin Conns /\ x.fn # "idle"
    BY <1>4, UpstreamAssumption
  <2> QED BY <1>1, <1>2, <1>3, <1>4, <2>2, <2>3, <2>4, PoolCallStep DEF Kept
<1>10. CASE KA!FreePeerAgain(r, TRUE)
  <2>1. PICK p : /\ p.connection = None /\ p.has_set_names = peer[r].has_set_names
                 /\ peer' = [peer EXCEPT ![r] = p]
    BY <1>10, ClosedAgain
  <2>2. KA!Next /\ UNCHANGED <<conn, item, active_conns, db>>
    BY <1>1, <1>10, ClosedAgain
  <2>3. Conn(r) = None /\ cpu.req = r
    BY <1>1, <1>3, <1>10 DEF KA!FreePeerAgain
  <2>4. x.entry = "event" /\ x.fn \in Choosing \cup Failing => ~KA!PoolFull
    BY <1>1, <1>3, <1>4, <2>3, UpstreamAssumption DEF IInv, Room
  <2>5. Good(rq[r], p, None, {}, NewSession(FALSE), log[r], x)
    BY <1>8, <2>1
  <2>6. /\ rq' = [rq EXCEPT ![r] = rq[r]] /\ log' = [log EXCEPT ![r] = log[r]]
        /\ cpu' = x /\ x.req = r /\ x.fn # "idle" /\ current' \in Peers
    BY <1>1, <1>2, <1>3, <1>4
  <2>7. rq[r] \in RequestType /\ log[r] \in LogType /\ x \in CpuType
    BY <1>3, <1>4
  <2> QED BY <2>1, <2>2, <2>3, <2>4, <2>5, <2>6, <2>7, ConnlessStep
<1>11. ~KA!FreePeerSaving(r, TRUE, Reusable(r))
  BY <1>7 DEF KA!FreePeerSaving, KA!Saves
<1> QED BY <1>1, <1>9, <1>10, <1>11 DEF KA!FreePeer

\* Another attempt.
LEMMA RetryKeeps ==
  ASSUME IInv, NEW r \in Requests, Retry(r)
  PROVE  IInv'
<1> DEFINE q == [rq[r] EXCEPT !.state = "connect"]
           p == [peer[r] EXCEPT !.has_set_names = FALSE]
           x == [cpu EXCEPT !.fn = "connect_peer"]
<1>1. /\ cpu.req = r /\ cpu.fn = "retry" /\ cpu' = x /\ KA!ResetPeer(r)
      /\ rq' = [rq EXCEPT ![r].state = "connect"] /\ UNCHANGED <<current, db, log>>
  BY DEF Retry, At, Call
<1>2. /\ rq[r] \in RequestType /\ log[r] \in LogType /\ cpu \in CpuType
      /\ peer[r] \in KA!PeerType /\ peer[r].connection = Conn(r)
      /\ Good(rq[r], peer[r], Server(r), Running(r), Session(r), log[r], cpu)
      /\ rq \in [Requests -> RequestType] /\ log = [log EXCEPT ![r] = log[r]]
      /\ current \in Peers /\ KA!TypeOK
  BY <1>1, Local, PoolFacts DEF IInv, Typed
<1>3. /\ rq[r].phase = "active" /\ Conn(r) = None /\ cpu.copy = "none"
  BY <1>1, <1>2 DEF Good, Placed, Choosing, RequestType, CpuType
<1>4. /\ ~rq[r].query_started /\ ~rq[r].header_sent /\ rq[r].remaining > 0
      /\ rq[r].status_n = "0" /\ log[r].submits = 0 /\ rq[r].state \in {"connect", "idle"}
      /\ ~rq[r].paused
  BY <1>1, <1>2, <1>3 DEF Good, Progressed, Choosing, Receiving
<1>5. /\ x \in CpuType /\ x.req = r /\ x.fn = "connect_peer" /\ x.copy = "none"
      /\ x.entry = cpu.entry
  BY <1>1, <1>2, <1>3 DEF CpuType, Functions
<1>6. q \in RequestType /\ rq' = [rq EXCEPT ![r] = q] /\ q.state = "connect"
      /\ q.phase = "active" /\ ~q.query_started /\ ~q.header_sent /\ ~q.paused
      /\ q.remaining = rq[r].remaining /\ q.next_peer = rq[r].next_peer /\ q.status_n = "0"
  BY <1>1, <1>2, <1>3, <1>4 DEF RequestType, States
<1>7. p.connection = None /\ ~p.has_set_names
  BY <1>2, <1>3 DEF KA!PeerType
<1>8. /\ KA!Next /\ UNCHANGED <<conn, item, active_conns, db>>
      /\ peer' = [peer EXCEPT ![r] = p]
  <2>1. KA!Next
    BY <1>1, <1>2, <1>3 DEF KA!RequestStep, KA!Next
  <2> QED BY <1>1, <1>2, <2>1 DEF KA!ResetPeer, KA!TypeOK
<1> HIDE DEF q, p, x
<1>9. Good(q, p, None, {}, NewSession(FALSE), log[r], x)
  <2>1. Placed(q, p, None, x)
    BY <1>5, <1>6, <1>7 DEF Placed, Choosing, Failing, Serving
  <2>2. Progressed(q, p, NewSession(FALSE), log[r], x)
    BY <1>4, <1>5, <1>6, <1>7 DEF Progressed, Choosing, Failing, Serving, Receiving
  <2>3. ~Real(p, None)
    BY <1>7 DEF Real
  <2>4. Single \/ Tried(q, log[r])
    BY <1>2, <1>3, <1>6 DEF Good, Tried, Ahead
  <2> QED BY <2>1, <2>2, <2>3, <2>4 DEF Good, Connects, Timed, Named
<1>10. x.entry = "event" => ~KA!PoolFull
  BY <1>1, <1>3, <1>5, UpstreamAssumption DEF IInv, Room, Choosing
<1>11. /\ rq' = [rq EXCEPT ![r] = q] /\ log' = [log EXCEPT ![r] = log[r]]
       /\ cpu' = x /\ x.req = r /\ x.fn # "idle" /\ current' \in Peers
  BY <1>1, <1>2, <1>5, <1>6
<1>12. /\ q \in RequestType /\ log[r] \in LogType /\ x \in CpuType
       /\ p.connection = None /\ Conn(r) = None /\ cpu.req = r
  BY <1>1, <1>2, <1>3, <1>5, <1>6, <1>7
<1> QED BY <1>8, <1>9, <1>10, <1>11, <1>12, ConnlessStep

\* ngx_http_upstream_drizzle_finalize_request: only a connection whose answer
\* has been read to its end is saved.
LEMMA FinalizeKeeps ==
  ASSUME IInv, NEW r \in Requests, Finalize(r)
  PROVE  IInv'
<1> DEFINE q == [NewRequest EXCEPT !.phase = "finished"]
           x == [cpu EXCEPT !.fn = IF cpu.copy = "none" THEN "return" ELSE "answered"]
<1>1. /\ cpu.req = r /\ cpu.fn = "finalize" /\ cpu' = x
      /\ KA!FreePeer(r, FALSE, Reusable(r)) /\ rq' = [rq EXCEPT ![r] = q]
      /\ UNCHANGED <<current, db, log>>
  BY DEF Finalize, At, Call
<1>2. /\ rq[r] \in RequestType /\ log[r] \in LogType /\ cpu \in CpuType
      /\ peer[r] \in KA!PeerType /\ peer[r].connection = Conn(r)
      /\ Good(rq[r], peer[r], Server(r), Running(r), Session(r), log[r], cpu)
      /\ log = [log EXCEPT ![r] = log[r]]
      /\ current \in Peers /\ db \in [Conns -> SessionType]
      /\ Conn(r) = None \/ Conn(r) \in Conns
  BY <1>1, Local DEF IInv, Typed
<1>3. /\ rq[r].phase = "active" /\ cpu.copy # "names"
      /\ Conn(r) = None \/ Real(peer[r], Server(r))
  BY <1>1, <1>2 DEF Good, Placed, Failing, RequestType, CpuType
<1>4. /\ x \in CpuType /\ x.req = r /\ x.fn \in {"return", "answered"}
      /\ x.fn = "answered" => x.copy = "query"
  BY <1>1, <1>2, <1>3 DEF CpuType, Functions
<1>5. x.fn # "idle" /\ x.fn \notin Choosing \cup Failing
  BY <1>4 DEF Choosing, Failing
<1>6. q \in RequestType /\ q.phase = "finished" /\ ~q.paused
  <2>1. 0 \in Peers /\ 0 \in 0..NumPeers
    BY UpstreamAssumption DEF Peers
  <2> QED BY <2>1 DEF NewRequest, RequestType, States
<1>7. log[r].submits <= 1 /\ (Single \/ \A a \in Peers : log[r].attempts[a] <= 1)
  BY <1>2 DEF Good, Progressed, Tried
<1>8. None \notin Conns
  BY UpstreamAssumption
<1> HIDE DEF q, x
<1>9. \A p, v, m, d : p.connection = None => Good(q, p, v, m, d, log[r], x)
  <2> SUFFICES ASSUME NEW p, NEW v, NEW m, NEW d, p.connection = None
               PROVE  Good(q, p, v, m, d, log[r], x)
    OBVIOUS
  <2>1. Placed(q, p, v, x)
    BY <1>4, <1>6 DEF Placed
  <2>2. Progressed(q, p, d, log[r], x)
    BY <1>6, <1>7 DEF Progressed
  <2>3. Single \/ Tried(q, log[r])
    BY <1>6, <1>7 DEF Tried
  <2> QED BY <1>6, <2>1, <2>2, <2>3 DEF Good, Connects, Timed, Named
<1>10. CASE KA!FreePeerSaving(r, FALSE, Reusable(r))
  <2>1. /\ Conn(r) # None /\ MaxCached > 0 /\ Reusable(r)
        /\ KA!SaveInFreeItem(r) \/ KA!SaveEvicting(r)
        /\ peer' = [peer EXCEPT ![r].connection = None,
                                ![r].failed = KA!Failed(r, FALSE)]
    BY <1>2, <1>10 DEF KA!FreePeerSaving, KA!Saves
  <2>2. KA!TypeOK /\ KP!IInv
    BY PoolFacts DEF IInv
  <2>3. Real(peer[r], Server(r)) /\ Conn(r) \in Conns /\ Server(r) = conn[Conn(r)].server
        /\ Session(r) = db[Conn(r)]
    BY <1>2, <1>3, <2>1 DEF Server, Session
  <2>4. KA!Connected(r)
    BY <1>2, <2>1, <2>3, UpstreamAssumption DEF KA!Connected, Real
  <2>5. KA!Next
    <3>1. Reusable(r) \in BOOLEAN
      BY DEF Reusable
    <3> QED BY <1>10, <2>4, <3>1 DEF KA!FreePeer, KA!Release, KA!RequestStep, KA!Next
  <2>6. /\ \A s \in Requests \ {r} : peer'[s] = peer[s]
        /\ peer'[r].connection = None
    <3>1. peer \in [Requests -> KA!PeerType]
      BY <2>2 DEF KA!TypeOK
    <3> DEFINE f == KA!Failed(r, FALSE)
    <3> HIDE DEF f
    <3>2. peer' = [peer EXCEPT ![r].connection = None, ![r].failed = f]
      BY <2>1 DEF f
    <3> QED BY <3>1, <3>2 DEF KA!PeerType
  <2>7. /\ UsersKept(r) /\ IdleKeptBut(Conn(r))
        /\ conn'[Conn(r)].server = conn[Conn(r)].server
        /\ item'[conn'[Conn(r)].data].has_set_names = peer[r].has_set_names
    BY <2>1, <2>2, <2>6, SavingKeeps
  <2>8. rq[r].status_n # "0"
    BY <2>1 DEF Reusable
  <2>9. /\ Session(r).ready /\ Session(r).inflight = "none" /\ "read" \in Session(r).events
        /\ ~Single =>
             /\ Session(r).names \in {None, Server(r)}
             /\ ~NamesMayMiss /\ Server(r) \in HasCharset /\ peer[r].has_set_names
                  => Session(r).names = Server(r)
    <3>1. /\ Session(r).ready /\ Session(r).inflight = "none"
          /\ "read" \in Session(r).events
      BY <1>1, <1>2, <1>3, <2>3, <2>8 DEF Good, Connects
    <3>2. ~Single => Named(rq[r], peer[r], Server(r), Session(r))
      BY <1>2 DEF Good
    <3> QED BY <1>3, <2>3, <3>1, <3>2 DEF Named
  <2>10. db'[Conn(r)] = Session(r) /\ conn'[Conn(r)].server = Server(r)
    BY <1>1, <2>3, <2>7
  <2>11. PICK e : e = Conn(r)
    OBVIOUS
  <2>12. ReliableConn(e)'
    <3>1. /\ db'[e] = Session(r) /\ conn'[e].server = Server(r)
          /\ item'[conn'[e].data].has_set_names = peer[r].has_set_names
      BY <2>7, <2>10, <2>11
    <3> QED BY <2>9, <3>1 DEF ReliableConn, Reliable
  <2>13. Good(q, peer'[r], Server(r)', Running(r)', Session(r)', log[r], x)
    BY <1>9, <2>6
  <2>14. UsersKept(r) /\ IdleKeptBut(e)
    BY <2>7, <2>11
  <2>15. \A c \in Conns : conn[c].server # None /\ (conn[c].idle \/ conn[c].data # r)
                            => db'[c] = db[c]
    BY <1>1
  <2>16. cpu.req \in {None, r} /\ current' \in Peers /\ db' \in [Conns -> SessionType]
    BY <1>1, <1>2
  <2>17. rq' = [rq EXCEPT ![r] = q] /\ log' = [log EXCEPT ![r] = log[r]] /\ cpu' = x
    BY <1>1, <1>2
  <2>18. log[r] \in LogType
    BY <1>2
  <2> QED BY <1>4, <1>5, <1>6, <2>5, <2>12, <2>13, <2>14, <2>15, <2>16, <2>17, <2>18,
             PoolCallStep
<1>11. CASE KA!FreePeerClosing(r, FALSE, Reusable(r))
  <2>1. Conn(r) # None /\ Reusable(r) \in BOOLEAN
    BY <1>2, <1>11 DEF KA!FreePeerClosing, Reusable
  <2>2. KA!Next /\ Kept(r) /\ peer'[r].connection = None
    <3>1. Real(peer[r], Server(r))
      BY <1>3, <2>1
    <3>2. ASSUME NEW b \in BOOLEAN, KA!FreePeerClosing(r, FALSE, b)
          PROVE  KA!Next /\ Kept(r) /\ peer'[r].connection = None
      BY <3>1, <3>2, Closed
    <3> QED BY <1>11, <2>1, <3>2
  <2>3. Good(q, peer'[r], Server(r)', Running(r)', Session(r)', log[r], x)
    BY <1>9, <2>2
  <2>4. UsersKept(r) /\ IdleKeptBut(None)
    BY <2>2 DEF Kept
  <2> QED BY <1>1, <1>2, <1>4, <1>5, <1>6, <1>8, <2>2, <2>3, <2>4, PoolCallStep
<1>12. CASE KA!FreePeerAgain(r, FALSE)
  <2>1. PICK p : p.connection = None /\ peer' = [peer EXCEPT ![r] = p]
    BY <1>12, ClosedAgain
  <2>2. KA!Next /\ UNCHANGED <<conn, item, active_conns, db>>
    BY <1>1, <1>12, ClosedAgain
  <2>3. Conn(r) = None /\ cpu.req = r
    BY <1>1, <1>2, <1>12 DEF KA!FreePeerAgain
  <2>4. Good(q, p, None, {}, NewSession(FALSE), log[r], x)
    BY <1>9, <2>1
  <2> QED BY <1>1, <1>2, <1>4, <1>5, <1>6, <2>1, <2>2, <2>3, <2>4, ConnlessStep
<1> QED BY <1>1, <1>10, <1>11, <1>12 DEF KA!FreePeer

\* The clean-up part of the rejection.
LEMMA ReturnRejectedKeeps ==
  ASSUME IInv, NEW r \in Requests, ReturnRejected(r)
  PROVE  IInv'
<1> DEFINE x == [cpu EXCEPT !.fn = "finalize", !.rc = "503", !.entry = "event"]
<1>1. /\ cpu.req = r /\ cpu.fn = "return" /\ cpu.entry = "handler" /\ cpu' = x
      /\ KA!FreeRejected(r) /\ UNCHANGED <<current, rq, db, log>>
  BY DEF ReturnRejected, At
<1>2. /\ rq[r] \in RequestType /\ log[r] \in LogType /\ cpu \in CpuType
      /\ peer[r] \in KA!PeerType /\ peer[r].connection = Conn(r)
      /\ Good(rq[r], peer[r], Server(r), Running(r), Session(r), log[r], cpu)
      /\ rq = [rq EXCEPT ![r] = rq[r]] /\ log = [log EXCEPT ![r] = log[r]]
      /\ current \in Peers /\ db \in [Conns -> SessionType] /\ KA!TypeOK /\ KP!IInv
  BY <1>1, Local, PoolFacts DEF IInv, Typed
<1>3. Conn(r) # None /\ KA!Next
  BY <1>1, <1>2 DEF KA!FreeRejected, KA!RequestStep, KA!Next
<1>4. rq[r].phase = "active" /\ cpu.copy = "none"
  BY <1>1, <1>2, <1>3 DEF Good, Placed, RequestType, CpuType
<1>5. /\ x \in CpuType /\ x.req = r /\ x.fn = "finalize" /\ x.copy = "none"
  BY <1>1, <1>2, <1>4 DEF CpuType, Functions, Codes
<1>6. /\ \A s \in Requests \ {r} : peer'[s] = peer[s]
      /\ peer'[r].connection = None /\ peer'[r].has_set_names = peer[r].has_set_names
      /\ conn' = [conn EXCEPT ![Conn(r)] = KA!FreeSlot] /\ item' = item
  BY <1>1, <1>2 DEF KA!FreeRejected, KA!TypeOK, KA!PeerType
<1>7. UsersKept(r) /\ IdleKeptBut(None)
  BY <1>2, <1>3, <1>6, SlotFreedKeeps DEF Kept
<1> HIDE DEF x
<1>8. Good(rq[r], peer'[r], Server(r)', Running(r)', Session(r)', log[r], x)
  <2> SUFFICES ASSUME NEW p, NEW v, NEW m, NEW d,
                      p.connection = None, p.has_set_names = peer[r].has_set_names
               PROVE  Good(rq[r], p, v, m, d, log[r], x)
    BY <1>6
  <2>1. Placed(rq[r], p, v, x)
    BY <1>4, <1>5 DEF Placed, Choosing, Failing, Serving
  <2>2. Progressed(rq[r], p, d, log[r], x)
    <3>1. Setting(rq[r], p) <=> Setting(rq[r], peer[r])
      BY DEF Setting
    <3>2. Progressed(rq[r], peer[r], Session(r), log[r], cpu)
      BY <1>2 DEF Good
    <3> HIDE DEF Setting
    <3> QED BY <1>1, <1>4, <1>5, <3>1, <3>2
            DEF Progressed, Choosing, Serving, Receiving
  <2>3. ~Real(p, v)
    BY DEF Real
  <2> QED BY <1>2, <2>1, <2>2, <2>3 DEF Good, Connects, Timed, Named
<1>9. None \notin Conns /\ x.fn # "idle" /\ x.fn \notin Choosing \cup Failing
  BY <1>5, UpstreamAssumption DEF Choosing, Failing
<1> QED BY <1>1, <1>2, <1>3, <1>5, <1>7, <1>8, <1>9, PoolCallStep

\* What happens to an idle connection.
LEMMA IdleEventKeeps ==
  ASSUME IInv, NEW c \in Conns, IdleEvent(c)
  PROVE  IInv'
<1>1. cpu = Idle /\ UNCHANGED <<current, rq, db, cpu, log>>
  BY DEF IdleEvent, PostedIdle, IdleCloses
<1>2. KP!IInv /\ Typed /\ cpu.req = None
  BY <1>1 DEF IInv, Idle
<1>3. /\ KA!Next /\ Kept(None)
      /\ peer' = peer
      /\ \A r \in Requests : Server(r)' = Server(r) /\ Running(r)' = Running(r)
  <2>1. CASE KA!RunPosted(c)
    BY <1>2, <2>1, PostedKeeps DEF KA!Next
  <2>2. CASE KA!CloseHandler(c)
    BY <1>2, <2>2, CloseHandlerKeeps DEF KA!Next
  <2> QED BY <2>1, <2>2 DEF IdleEvent, PostedIdle, IdleCloses
<1>4. KP!IInv'
  BY <1>2, <1>3, PoolStep
<1>5. ASSUME NEW r \in Requests PROVE GoodRequest(r)'
  <2>1. GoodRequest(r)
    BY DEF IInv
  <2>2. Session(r)' = Session(r)
    BY <1>1, <1>3 DEF Session, Conn, NewSession
  <2>3. Stack(r)' = Stack(r)
    BY <1>1 DEF Stack
  <2> QED BY <1>1, <1>3, <2>1, <2>2, <2>3 DEF GoodRequest
<1>6. \A d \in Conns : ReliableConn(d)'
  <2>1. \A d \in Conns \ {None} : ReliableConn(d)'
    BY <1>1, <1>3, Idles DEF Kept
  <2> QED BY <2>1, UpstreamAssumption
<1>7. Typed' /\ Room'
  BY <1>1, <1>2 DEF Typed, Room
<1> QED BY <1>4, <1>5, <1>6, <1>7 DEF IInv

\* The columns and the rows of an answer.
LEMMA InterruptedKeeps ==
  ASSUME IInv, NEW r \in Requests, NEW st \in Receiving, At(r, st), Interrupted(r, st)
  PROVE  IInv'
BY ReadWaitsKeeps, FlushFailsKeeps, PausesKeeps, ReadFailsKeeps DEF Interrupted

\* Every function of the C call chain.
LEMMA CpuStepKeeps ==
  ASSUME CountReliable, IInv, NEW r \in Requests, CpuStep(r)
  PROVE  IInv'
<1>1. CASE ConnectPeer(r)
  BY <1>1, ConnectPeerNoStateKeeps, ConnectPeerSingleKeeps, ConnectPeerMultiKeeps,
     ConnectPeerRejectedKeeps, ConnectPeerOpensKeeps, ConnectPeerFailsKeeps
     DEF ConnectPeer
<1>2. CASE SendQuery(r)
  BY <1>2, SendQueryWaitsKeeps, SendQueryNoTableKeeps, SendQueryFailsKeeps,
     SendQueryAnsweredKeeps, NamesSetKeeps, NamesMissedKeeps, HeaderWasAllKeeps
     DEF SendQuery
<1>3. CASE RecvCols(r)
  <2>1. "recv_cols" \in Receiving
    BY DEF Receiving
  <2> QED BY <1>3, <2>1, ColumnsEndKeeps, InterruptedKeeps DEF RecvCols
<1>4. CASE RecvRows(r)
  <2>1. "recv_rows" \in Receiving
    BY DEF Receiving
  <2> QED BY <1>4, <2>1, RowsEndKeeps, InterruptedKeeps DEF RecvRows
<1>5. CASE NextPeer(r) \/ Retry(r) \/ Finalize(r) \/ Return(r) \/ ReturnRejected(r)
  BY <1>5, NextPeerKeeps, RetryKeeps, FinalizeKeeps, ReturnKeeps, ReturnRejectedKeeps
<1> QED
  BY <1>1, <1>2, <1>3, <1>4, <1>5, ProcessEventsKeeps, ConnectKeeps, DoneKeeps
  DEF CpuStep

\* Every event.
LEMMA EventKeeps ==
  ASSUME IInv, NEW r \in Requests, Event(r)
  PROVE  IInv'
BY HandlerKeeps, DbEventKeeps, PostedEventKeeps, TimeoutKeeps, ClientAbortKeeps,
   DrainResumesKeeps, DrainFailsKeeps
DEF Event

\* Nothing happens.
LEMMA StutterKeeps ==
  ASSUME IInv, UNCHANGED vars
  PROVE  IInv'
<1>1. UNCHANGED poolVars /\ UNCHANGED <<current, rq, db, cpu, log>>
  BY DEF vars
<1>2. KP!IInv'
  BY <1>1, PoolStep DEF IInv, poolVars, KA!vars
<1>3. UNCHANGED <<cache, free, item, active_conns, conn, peer>>
  BY <1>1 DEF poolVars
<1>4. ASSUME NEW r \in Requests PROVE GoodRequest(r)'
  <2>1. /\ Server(r)' = Server(r) /\ Running(r)' = Running(r)
        /\ Session(r)' = Session(r) /\ Stack(r)' = Stack(r)
    BY <1>1, <1>3 DEF Server, Running, Session, Stack, Conn, NewSession
  <2> QED BY <1>1, <1>3, <2>1 DEF IInv, GoodRequest
<1>5. \A c \in Conns : ReliableConn(c)'
  BY <1>1, <1>3 DEF IInv, ReliableConn
<1>6. Typed' /\ Room'
  BY <1>1, <1>3 DEF IInv, Typed, Room, Conn, KA!PoolFull
<1> QED BY <1>2, <1>4, <1>5, <1>6 DEF IInv

\* The initial state.
LEMMA InitIInv == Init => IInv
<1> SUFFICES ASSUME Init PROVE IInv
  OBVIOUS
<1>1. KP!IInv
  BY SameInit, KP!InitIInv, PoolAssumption DEF Init
<1>2. /\ conn = [c \in Conns |-> KA!FreeSlot] /\ active_conns = 0
      /\ peer = [r \in Requests |-> KA!FreshPeer]
  BY DEF Init, KA!Init
<1>3. Typed
  <2>1. 0 \in Peers /\ 0 \in 0..NumPeers /\ 0 \in 0..2
    BY UpstreamAssumption DEF Peers
  <2>2. NewRequest \in RequestType
    BY <2>1 DEF NewRequest, RequestType, States
  <2>3. NewSession(FALSE) \in SessionType
    BY DEF NewSession, SessionType
  <2>4. Idle \in CpuType
    BY DEF Idle, CpuType, Functions
  <2>5. [attempts |-> [p \in Peers |-> 0], submits |-> 0] \in LogType
    BY <2>1 DEF LogType
  <2>6. cpu.req = None
    BY DEF Init, Idle
  <2> QED BY <2>1, <2>2, <2>3, <2>4, <2>5, <2>6 DEF Typed, Init
<1>4. ASSUME NEW r \in Requests PROVE GoodRequest(r)
  <2>1. Conn(r) = None /\ peer[r].connection = None
    BY <1>2 DEF Conn, KA!FreshPeer
  <2>2. Stack(r) = Idle
    BY UpstreamAssumption DEF Init, Stack, Idle
  <2>3. /\ rq[r] = NewRequest /\ NewRequest.phase = "new"
        /\ log[r].submits = 0 /\ \A a \in Peers : log[r].attempts[a] = 0
    BY DEF Init, NewRequest
  <2>4. Placed(rq[r], peer[r], Server(r), Stack(r))
    BY <2>1, <2>2, <2>3 DEF Placed, Idle
  <2>5. Progressed(rq[r], peer[r], Session(r), log[r], Stack(r))
    BY <2>3 DEF Progressed
  <2>6. Tried(rq[r], log[r])
    BY <2>3 DEF Tried
  <2> QED BY <2>3, <2>4, <2>5, <2>6 DEF GoodRequest, Good, Connects, Timed, Named
<1>5. \A c \in Conns : ReliableConn(c)
  BY <1>2 DEF ReliableConn, KA!FreeSlot
<1>6. Room
  BY DEF Room, Init, Idle
<1> QED BY <1>1, <1>3, <1>4, <1>5, <1>6 DEF IInv

\* Every step preserves the invariant, unless a rejection meets a body in a file.
LEMMA NextIInv ==
  ASSUME CountReliable
  PROVE  IInv /\ [Next]_vars => IInv'
BY CpuStepKeeps, EventKeeps, IdleEventKeeps, StutterKeeps DEF Next

-----------------------------------------------------------------------------
(* What the invariant says of the properties of Upstream.                  *)

\* A request between two events.
LEMMA Between ==
  ASSUME IInv, Settled, NEW r \in Requests
  PROVE  /\ cpu.req = None /\ cpu.fn = "idle"
         /\ Good(rq[r], peer[r], Server(r), Running(r), Session(r), log[r], cpu)
         /\ Conn(r) # None => Timers(r) = Running(r) /\ Session(r) = db[Conn(r)]
<1>1. cpu = Idle /\ cpu.req = None /\ cpu.fn = "idle"
  BY DEF Settled, Idle
<1>2. Stack(r) = cpu
  BY <1>1, Local
<1> QED BY <1>1, <1>2, Local DEF Timers, Running, Session

\* A connection to a server that is not idle belongs to a request under way.
LEMMA UsedIsReal ==
  ASSUME IInv, NEW c \in Conns, conn[c].server \in Peers, ~conn[c].idle
  PROVE  \E r \in Requests :
           /\ rq[r].phase = "active" /\ Real(peer[r], Server(r))
           /\ Server(r) = conn[c].server /\ Session(r) = db[c]
<1>1. KP!IInv /\ conn[c].server # None /\ c # None
  BY UpstreamAssumption DEF IInv
<1>2. PICK r \in Requests : Conn(r) = c
  BY <1>1, PoolFacts
<1>3. Server(r) = conn[c].server /\ Session(r) = db[c] /\ peer[r].connection = c
  BY <1>1, <1>2 DEF Server, Session, Conn
<1>4. rq[r] \in RequestType /\ Placed(rq[r], peer[r], Server(r), Stack(r))
  BY Local DEF Good
<1>5. rq[r].phase = "active"
  BY <1>1, <1>3, <1>4 DEF Placed, RequestType
<1> QED BY <1>1, <1>3, <1>5 DEF Real

\* The function on the stack belongs to the request it runs for.
LEMMA OnStack ==
  ASSUME IInv, NEW r \in Requests, cpu.req = r
  PROVE  /\ Good(rq[r], peer[r], Server(r), Running(r), Session(r), log[r], cpu)
         /\ rq[r] \in RequestType
BY Local

\* A request that waits has the timer of the state it waits in.
LEMMA Timely == ~NamesMayMiss => (IInv => WaitIsTimed)
<1> SUFFICES ASSUME ~NamesMayMiss, IInv, Settled, NEW r \in Requests, Waiting(r)
             PROVE  IF rq[r].paused THEN Timers(r) = {} /\ rq[r].read_timeout
                    ELSE Cardinality(Timers(r)) = 1
  BY DEF WaitIsTimed
<1>1. AtWork(r)
  BY Awaiting DEF Settled, Waiting
<1>2. cpu.fn = "idle"
  BY Between
<1>3. Timed(rq[r], peer[r], Server(r), Running(r), Session(r), cpu)
  BY <1>1 DEF AtWork, Good
<1>4. CASE rq[r].paused
  BY <1>1, <1>2, <1>3, <1>4 DEF AtWork, Timed
<1>5. CASE ~rq[r].paused
  <2>1. Running(r) = {"read"} \/ Running(r) = {"write"}
    BY <1>1, <1>2, <1>3, <1>5 DEF AtWork, Timed
  <2>2. Cardinality({"read"}) = 1 /\ Cardinality({"write"}) = 1
    BY FS_Singleton
  <2> QED BY <1>1, <1>5, <2>1, <2>2 DEF AtWork
<1> QED BY <1>4, <1>5

\* Active requests have a connection to a server, the others are no
\* connection's c->data.
LEMMA Attached == IInv => ConnectedWhileActive
<1> SUFFICES ASSUME IInv, Settled, NEW r \in Requests
             PROVE  IF rq[r].phase = "active"
                    THEN /\ Conn(r) # None
                         /\ conn[Conn(r)].server \in Peers
                         /\ conn[Conn(r)].data = r
                    ELSE /\ Conn(r) = None
                         /\ \A c \in Conns : ~conn[c].idle => conn[c].data # r
  BY DEF ConnectedWhileActive
<1>1. KP!IInv /\ peer[r].connection = Conn(r) /\ rq[r] \in RequestType
  BY Local DEF IInv
<1>2. CASE rq[r].phase = "active"
  <2>1. AtWork(r)
    BY <1>2, Awaiting DEF Settled
  <2>2. Conn(r) # None /\ Server(r) \in Peers
    BY <2>1 DEF AtWork, Real
  <2> QED BY <1>1, <1>2, <2>2, PoolFacts DEF Server
<1>3. CASE rq[r].phase # "active"
  <2>1. Conn(r) = None
    BY <1>1, <1>3, Between DEF Good, Placed, RequestType
  <2>2. ASSUME NEW c \in Conns, ~conn[c].idle, conn[c].data = r PROVE FALSE
    <3>1. conn[c].server # None
      <4>1. r # None
        BY UpstreamAssumption
      <4> QED BY <1>1, <2>2, <4>1, PoolFacts DEF KA!FreeSlot
    <3>2. PICK s \in Requests : Conn(s) = c
      BY <1>1, <2>2, <3>1, PoolFacts
    <3>3. c # None
      BY UpstreamAssumption
    <3>4. conn[Conn(s)].data = s
      BY <1>1, <3>2, <3>3, PoolFacts
    <3> QED BY <2>1, <2>2, <3>2, <3>3, <3>4
  <2> QED BY <1>3, <2>1, <2>2
<1> QED BY <1>2, <1>3

-----------------------------------------------------------------------------
(* The theorems.  They assume CountReliable: where overflow=reject meets    *)
(* bodies in files, a fake connection may be counted off and active_conns  *)
(* says nothing any more.                                                  *)

\* The inductive invariant holds in every reachable state.
THEOREM Invariance ==
  ASSUME CountReliable
  PROVE  Spec => []IInv
<1>1. IInv /\ [Next]_vars => IInv'
  BY NextIInv
<1> QED BY <1>1, InitIInv, PTL DEF Spec

\* Every variable keeps its type, those of the pool included.
THEOREM TypeCorrect ==
  ASSUME CountReliable
  PROVE  Spec => []TypeOK
<1>1. IInv => TypeOK
  BY PoolFacts DEF IInv, Typed, TypeOK
<1> QED BY <1>1, Invariance, PTL

\* Only a connection between two dialogues goes into the pool, and its read
\* event is registered.
THEOREM PooledQuiet ==
  ASSUME CountReliable
  PROVE  Spec => []PooledConnsQuiet
<1>1. IInv => PooledConnsQuiet
  BY DEF IInv, ReliableConn, Reliable, PooledConnsQuiet
<1> QED BY <1>1, Invariance, PTL

\* A request's SQL is submitted at most once.
THEOREM NeverSubmittedTwice ==
  ASSUME CountReliable
  PROVE  Spec => []SubmittedOnce
<1>1. IInv => SubmittedOnce
  BY DEF IInv, GoodRequest, Good, Progressed, SubmittedOnce
<1> QED BY <1>1, Invariance, PTL

\* dbd_connect is only called, or called again, while nothing has been asked
\* and nothing answered, and with a server left to try.
THEOREM RetriesAreSafe ==
  ASSUME CountReliable
  PROVE  Spec => []RetryStillSafe
<1>1. IInv => RetryStillSafe
  <2> SUFFICES ASSUME IInv, NEW r \in Requests, At(r, "connect_peer")
               PROVE  rq[r].remaining > 0 /\ ~rq[r].query_started /\ ~rq[r].header_sent
    BY DEF RetryStillSafe
  <2>1. cpu.req = r /\ cpu.fn = "connect_peer"
    BY DEF At
  <2>2. rq[r].phase = "active"
    BY <2>1, OnStack DEF Good, Placed, RequestType
  <2> QED BY <2>1, <2>2, OnStack DEF Good, Progressed, Choosing
<1> QED BY <1>1, Invariance, PTL

\* What is passed on as columns and rows is the answer to the request's query.
THEOREM RowsAreTheQuerys ==
  ASSUME CountReliable
  PROVE  Spec => []RowsBelongToQuery
<1>1. IInv => RowsBelongToQuery
  <2> SUFFICES ASSUME IInv, NEW r \in Requests,
                      At(r, "recv_cols") \/ At(r, "recv_rows")
               PROVE  ~SettingNames(r) /\ db[Conn(r)].inflight = "query"
    BY DEF RowsBelongToQuery
  <2>1. cpu.req = r /\ cpu.fn \in Receiving /\ cpu.fn \in Serving /\ cpu.fn # "answered"
    BY DEF At, Receiving, Serving
  <2>2. AtWork(r)
    BY <2>1, Served
  <2> QED BY <2>1, <2>2 DEF AtWork, Good, Progressed
<1> QED BY <1>1, Invariance, PTL

\* After a request is finished nothing runs that reads its memory.
THEOREM FreedIsNotRead ==
  ASSUME CountReliable
  PROVE  Spec => []NothingRunsFreed
<1>1. IInv => NothingRunsFreed
  <2> SUFFICES ASSUME IInv, cpu.req # None, rq[cpu.req].phase = "finished"
               PROVE  cpu.fn \in {"answered", "return"}
    BY DEF NothingRunsFreed
  <2>1. cpu.req \in Requests /\ cpu.fn # "idle"
    BY DEF IInv, Typed, CpuType
  <2> QED BY <2>1, OnStack DEF Good, Placed
<1> QED BY <1>1, Invariance, PTL

\* Between two events exactly the requests under way have a connection, to a
\* server, whose events lead to them.
THEOREM ActiveIsConnected ==
  ASSUME CountReliable
  PROVE  Spec => []ConnectedWhileActive
BY Invariance, Attached, PTL

\* A request that waits to read will be told when it can.
THEOREM AnswersAreHeard ==
  ASSUME CountReliable
  PROVE  Spec => []AnswerIsHeard
<1>1. IInv => AnswerIsHeard
  <2> SUFFICES ASSUME IInv, Settled, NEW r \in Requests, Waiting(r), ~rq[r].paused
               PROVE  "read" \in db[Conn(r)].events
    BY DEF AnswerIsHeard
  <2>1. AtWork(r)
    BY Awaiting DEF Settled, Waiting
  <2> QED BY <2>1 DEF AtWork, Good, Connects
<1> QED BY <1>1, Invariance, PTL

\* Whenever the event loop is idle, a request that waits for its database has
\* one timer, unless a server answers "set names" with error 1146.
THEOREM WaitsAreTimed ==
  ASSUME CountReliable, ~NamesMayMiss
  PROVE  Spec => []WaitIsTimed
<1>1. IInv => WaitIsTimed
  BY Timely
<1> QED BY <1>1, Invariance, PTL

\* In mode=multi a request turns to each address at most once.
THEOREM OneAttempt ==
  ASSUME CountReliable, ~Single
  PROVE  Spec => []OneAttemptPerAddress
<1>1. IInv => OneAttemptPerAddress
  BY DEF IInv, GoodRequest, Good, Tried, OneAttemptPerAddress
<1> QED BY <1>1, Invariance, PTL

\* In mode=multi a session has only ever been told the character set of the
\* server it leads to.
THEOREM OwnCharset ==
  ASSUME CountReliable, ~Single
  PROVE  Spec => []CharsetMatchesServer
<1>1. IInv => CharsetMatchesServer
  <2> SUFFICES ASSUME IInv, NEW c \in Conns, conn[c].server \in Peers
               PROVE  db[c].names \in {None, conn[c].server}
    BY DEF CharsetMatchesServer
  <2>1. CASE conn[c].idle
    BY <2>1 DEF IInv, ReliableConn, Reliable
  <2>2. CASE ~conn[c].idle
    BY <2>2, UsedIsReal DEF IInv, GoodRequest, Good, Named
  <2> QED BY <2>1, <2>2
<1> QED BY <1>1, Invariance, PTL

\* In mode=multi no SQL of a request runs before the server's "set names", if
\* none answers that with error 1146.
THEOREM CharsetComesFirst ==
  ASSUME CountReliable, ~Single, ~NamesMayMiss
  PROVE  Spec => []CharsetBeforeQuery
<1>1. IInv => CharsetBeforeQuery
  <2> SUFFICES ASSUME IInv, NEW c \in Conns,
                      db[c].inflight = "query", conn[c].server \in HasCharset
               PROVE  db[c].names = conn[c].server
    BY DEF CharsetBeforeQuery
  <2>1. conn[c].server \in Peers
    BY UpstreamAssumption
  <2>2. ~conn[c].idle
    BY DEF IInv, ReliableConn, Reliable
  <2> QED BY <2>1, <2>2, UsedIsReal DEF IInv, GoodRequest, Good, Named
<1> QED BY <1>1, Invariance, PTL

-----------------------------------------------------------------------------
(* Upstream calls the pool as Keepalive says it may be called.              *)

\* A request with a connection to a server may have its timers set, be told of
\* its character set and have the connection freed.
LEMMA WorkIsConnected ==
  ASSUME IInv, NEW r \in Requests, Real(peer[r], Server(r))
  PROVE  KA!Connected(r)
BY Local, UpstreamAssumption DEF Real, KA!Connected, Server

\* ngx_add_timer and ngx_del_timer.
LEMMA TimersCall ==
  ASSUME IInv, NEW r \in Requests, AtWork(r),
         NEW timers \in KA!TimerSets, KA!SetTimers(r, timers)
  PROVE  KA!Next
<1>1. KA!Connected(r)
  BY WorkIsConnected DEF AtWork
<1> QED BY <1>1 DEF KA!Next, KA!RequestStep, KA!Proceed

\* free_peer is never called on the fake connection of a rejection.
LEMMA FreeCall ==
  ASSUME IInv, NEW r \in Requests, cpu.req = r, cpu.fn \in Failing \cup {"finalize"},
         NEW failing \in BOOLEAN, KA!FreePeer(r, failing, Reusable(r))
  PROVE  KA!Next
<1>1. /\ Good(rq[r], peer[r], Server(r), Running(r), Session(r), log[r], cpu)
      /\ rq[r] \in RequestType /\ peer[r].connection = Conn(r)
  BY Local
<1>2. peer[r].connection = None \/ Real(peer[r], Server(r))
  BY <1>1 DEF Good, Placed, Failing, RequestType
<1>3. Reusable(r) \in BOOLEAN
  BY DEF Reusable
<1>4. CASE peer[r].connection = None
  <2>1. KA!FreePeerAgain(r, failing)
    BY <1>4 DEF KA!FreePeer, KA!FreePeerSaving, KA!FreePeerClosing
  <2> QED BY <2>1 DEF KA!Release, KA!RequestStep, KA!Next
<1>5. CASE Real(peer[r], Server(r))
  <2>1. KA!Connected(r)
    BY <1>5, WorkIsConnected
  <2> QED BY <1>3, <2>1 DEF KA!Release, KA!RequestStep, KA!Next
<1> QED BY <1>2, <1>4, <1>5

\* get_peer is only called without a connection.
LEMMA GetCall ==
  ASSUME IInv, NEW r \in Requests, ConnectPeer(r), ~ConnectPeerNoState(r)
  PROVE  KA!Next
<1>1. At(r, "connect_peer")
  BY DEF ConnectPeer, ConnectPeerSingle, ConnectPeerMulti, ConnectPeerRejected,
         ConnectPeerOpens, ConnectPeerFails
<1>2. peer[r].connection = None
  BY <1>1, OnStack DEF At, Good, Placed, Choosing, RequestType
<1>3. \/ KA!GetPeerSingle(r)
      \/ \E p \in Peers :
           \/ KA!GetPeerMulti(r, p)
           \/ KA!RejectPeer(r, p)
           \/ KA!RejectPeerNoSlot(r, p)
           \/ \E connecting \in BOOLEAN : KA!OpenPeer(r, p, connecting)
           \/ KA!OpenFails(r, p)
  <2>1. ASSUME ConnectPeerOpens(r)
        PROVE  \E p \in Peers, connecting \in BOOLEAN : KA!OpenPeer(r, p, connecting)
    <3>1. PICK p \in Peers : KA!OpenPeer(r, p, cpu'.fn = "return")
      BY <2>1 DEF ConnectPeerOpens
    <3>2. PICK b \in BOOLEAN : b <=> cpu'.fn = "return"
      OBVIOUS
    <3>3. KA!OpenPeer(r, p, b)
      BY <3>1, <3>2
    <3> QED BY <3>3
  <2> QED BY <2>1 DEF ConnectPeer, ConnectPeerSingle, ConnectPeerMulti,
                      ConnectPeerRejected, ConnectPeerFails
<1>4. KA!GetPeer(r)
  BY <1>2, <1>3 DEF KA!GetPeer
<1> QED BY <1>4 DEF KA!RequestStep, KA!Next

\* What a function of the processor does to the pool.
LEMMA ProcessorCall ==
  ASSUME IInv, NEW r \in Requests, Connect(r) \/ SendQuery(r) \/ RecvCols(r) \/ RecvRows(r)
  PROVE  KA!Next \/ UNCHANGED poolVars
<1>1. cpu.req = r /\ cpu.fn \in Serving
  BY DEF Connect, SendQuery, SendQueryWaits, SendQueryNoTable, SendQueryFails,
         SendQueryAnswered, NamesSet, NamesMissed, HeaderWasAll, RecvCols, RecvRows,
         ColumnsEnd, RowsEnd, At, Serving
<1>2. CASE HeaderWasAll(r)
  BY <1>2 DEF HeaderWasAll
<1>3. CASE ~(cpu.copy = "query" /\ cpu.fn = "answered")
  <2>1. AtWork(r)
    BY <1>1, <1>3, Served
  <2>2. Timers(r) = Running(r)
    BY <2>1 DEF AtWork
  <2>3. ASSUME NEW timers, KA!SetTimers(r, timers),
               \/ timers = {} \/ timers = Timers(r)
               \/ timers = Timers(r) \ {"write"} \/ timers = Timers(r) \ {"read"}
               \/ timers = Timers(r) \cup {"write"} \/ timers = Timers(r) \cup {"read"}
        PROVE  KA!Next
    <3>1. timers \in KA!TimerSets
      BY <2>1, <2>2, <2>3 DEF AtWork, KA!TimerSets
    <3> QED BY <2>1, <2>3, <3>1, TimersCall
  <2>4. ASSUME KA!SetNames(r) PROVE KA!Next
    BY <2>1, <2>4, WorkIsConnected DEF AtWork, KA!Next, KA!RequestStep, KA!Proceed
  <2>5. CASE Connect(r)
    BY <2>3, <2>5 DEF Connect
  <2>6. CASE SendQuery(r)
    <3>1. CASE SendQueryWaits(r)
      BY <2>3, <3>1 DEF SendQueryWaits
    <3>2. CASE SendQueryNoTable(r) \/ SendQueryFails(r) \/ SendQueryAnswered(r)
      BY <2>3, <3>2 DEF SendQueryNoTable, SendQueryFails, SendQueryAnswered
    <3>3. CASE NamesSet(r) \/ NamesMissed(r)
      BY <2>4, <3>3 DEF NamesSet, NamesMissed
    <3> QED BY <1>2, <2>6, <3>1, <3>2, <3>3 DEF SendQuery
  <2>7. CASE RecvCols(r) \/ RecvRows(r)
    <3>1. ASSUME NEW st, Interrupted(r, st) PROVE KA!Next
      BY <2>3, <3>1 DEF Interrupted, ReadWaits, FlushFails, Pauses, ReadFails, ReadTimers
    <3>2. CASE ColumnsEnd(r) \/ RowsEnd(r)
      BY <2>3, <3>2 DEF ColumnsEnd, RowsEnd
    <3> QED BY <2>7, <3>1, <3>2 DEF RecvCols, RecvRows
  <2> QED BY <2>5, <2>6, <2>7
<1>4. CASE cpu.copy = "query" /\ cpu.fn = "answered"
  BY <1>2, <1>4 DEF Connect, SendQuery, SendQueryWaits, SendQueryNoTable,
     SendQueryFails, SendQueryAnswered, NamesSet, NamesMissed, RecvCols, RecvRows,
     ColumnsEnd, RowsEnd, At
<1> QED BY <1>3, <1>4

\* What any function of the C call chain does to the pool.
LEMMA CpuCall ==
  ASSUME IInv, NEW r \in Requests, CpuStep(r)
  PROVE  KA!Next \/ UNCHANGED poolVars
<1>1. CASE ConnectPeer(r)
  <2>1. CASE ConnectPeerNoState(r)
    BY <2>1 DEF ConnectPeerNoState
  <2> QED BY <1>1, <2>1, GetCall
<1>2. CASE ProcessEvents(r) \/ Done(r) \/ Return(r)
  BY <1>2 DEF ProcessEvents, Done, Return
<1>3. CASE Connect(r) \/ SendQuery(r) \/ RecvCols(r) \/ RecvRows(r)
  BY <1>3, ProcessorCall
<1>4. CASE NextPeer(r) \/ Finalize(r)
  BY <1>4, FreeCall DEF NextPeer, Finalize, At, Failing
<1>5. CASE Retry(r)
  <2>1. peer[r].connection = None
    BY <1>5, OnStack DEF Retry, At, Good, Placed, Choosing, RequestType
  <2> QED BY <1>5, <2>1 DEF Retry, KA!RequestStep, KA!Next
<1>6. CASE ReturnRejected(r)
  BY <1>6 DEF ReturnRejected, KA!RequestStep, KA!Next
<1> QED BY <1>1, <1>2, <1>3, <1>4, <1>5, <1>6 DEF CpuStep

\* What any event does to it.
LEMMA EventCall ==
  ASSUME IInv, NEW r \in Requests, Event(r)
  PROVE  KA!Next \/ UNCHANGED poolVars
<1>1. CASE Handler(r)
  <2>1. peer[r].connection = None
    BY <1>1, Local DEF Handler, Good, Placed
  <2> QED BY <1>1, <2>1 DEF Handler, KA!RequestStep, KA!Next
<1>2. CASE DbEvent(r) \/ PostedEvent(r)
  <2>1. AtWork(r) /\ Conn(r) \in Conns
    BY <1>2, Awaiting, Local DEF DbEvent, PostedEvent, Waiting
  <2>2. KA!Connected(r) /\ Conn(r) = peer[r].connection
    BY <2>1, WorkIsConnected DEF AtWork, Conn
  <2> QED BY <1>2, <2>1, <2>2
          DEF DbEvent, PostedEvent, KA!Proceed, KA!RequestStep, KA!Next
<1>3. CASE Timeout(r)
  <2>1. AtWork(r)
    BY <1>3, Awaiting DEF Timeout, Waiting
  <2>2. PICK t \in Timers(r) : KA!SetTimers(r, Timers(r) \ {t})
    BY <1>3 DEF Timeout
  <2>3. Timers(r) \ {t} \in KA!TimerSets
    BY <2>1 DEF AtWork, KA!TimerSets
  <2>4. ASSUME NEW timers \in KA!TimerSets, KA!SetTimers(r, timers) PROVE KA!Next
    BY <2>1, <2>4, TimersCall
  <2> QED BY <2>2, <2>3, <2>4
<1>4. CASE DrainResumes(r)
  <2>1. AtWork(r)
    BY <1>4, PausedIsActive, Awaiting DEF DrainResumes
  <2>2. KA!SetTimers(r, Timers(r) \cup {"read"})
    BY <1>4 DEF DrainResumes
  <2>3. Timers(r) \cup {"read"} \in KA!TimerSets
    BY <2>1 DEF AtWork, KA!TimerSets
  <2>4. ASSUME NEW timers \in KA!TimerSets, KA!SetTimers(r, timers) PROVE KA!Next
    BY <2>1, <2>4, TimersCall
  <2> QED BY <2>2, <2>3, <2>4
<1>5. CASE ClientAbort(r) \/ DrainFails(r)
  BY <1>5 DEF ClientAbort, DrainFails
<1> QED BY <1>1, <1>2, <1>3, <1>4, <1>5 DEF Event

\* Every step is a call of Keepalive or leaves the pool alone.
LEMMA PoolCall == IInv /\ [Next]_vars => [KA!Next]_(KA!vars)
<1> SUFFICES ASSUME IInv, [Next]_vars PROVE KA!Next \/ UNCHANGED poolVars
  BY DEF poolVars, KA!vars
<1>1. ASSUME NEW c \in Conns, IdleEvent(c) PROVE KA!Next
  BY <1>1 DEF IdleEvent, PostedIdle, IdleCloses, KA!Next
<1>2. CASE UNCHANGED vars
  BY <1>2 DEF vars
<1> QED BY <1>1, <1>2, CpuCall, EventCall DEF Next

\* Every call made here is one Keepalive allows, free_peer never with a fake
\* connection where active_conns can be relied on: what Keepalive_proofs shows
\* of the pool holds of the pool in use.
THEOREM CallsAreAllowed ==
  ASSUME CountReliable
  PROVE  Spec => ImplementsKeepalive
<1>1. Init => KA!Init
  BY DEF Init
<1> QED BY <1>1, Invariance, PoolCall, PTL DEF Spec, ImplementsKeepalive, KA!Spec

\* So the connections in use are nobody else's and do not leak, their slots go
\* back clean, and with overflow=reject there are never more than max of them.
THEOREM PoolInUse ==
  ASSUME CountReliable
  PROVE  Spec => [](/\ KP!ExclusiveOwner /\ KP!FreeSlotsClean
                    /\ RejectKeepsMax)
<1>1. ASSUME IInv
      PROVE  KP!ExclusiveOwner /\ KP!FreeSlotsClean /\ RejectKeepsMax
  <2>1. KP!IInv
    BY <1>1 DEF IInv
  <2>2. KP!ExclusiveOwner
    BY <2>1, PoolAssumption, KP!OwnersExclusive
  <2>3. KP!FreeSlotsClean
    BY <2>1 DEF KP!IInv
  <2>4. RejectKeepsMax
    <3>1. KP!Cardinality(KP!OpenConns) = Cardinality(KA!OpenConns)
      BY DEF KP!Cardinality, Cardinality, KP!OpenConns, KA!OpenConns
    <3> QED BY <2>1, <3>1
            DEF KP!IInv, KP!ActiveConnsExact, KP!RejectBoundsConns, RejectKeepsMax
  <2> QED BY <2>2, <2>3, <2>4
<1> QED BY <1>1, Invariance, PTL

\* And the request life cycle as a whole uses its pool as ConnPool describes it.
THEOREM PoolInUseIsStack ==
  ASSUME CountReliable
  PROVE  Spec => KP!ImplementsConnPool
<1>1. Init => KP!Pool!Init
  <2> SUFFICES ASSUME Init PROVE KP!Pool!Init
    OBVIOUS
  <2>1. KP!Init
    BY SameInit DEF Init
  <2> QED BY <2>1, PoolAssumption, KP!InitPool
<1>2. IInv /\ [Next]_vars => [KP!Pool!Next]_(KP!Pool!vars)
  <2> SUFFICES ASSUME IInv, [Next]_vars PROVE [KP!Pool!Next]_(KP!Pool!vars)
    OBVIOUS
  <2>1. KP!IInv
    BY DEF IInv
  <2>2. [KP!Next]_(KP!vars)
    BY PoolCall, SameNext DEF KA!vars, KP!vars
  <2> QED BY <2>1, <2>2, PoolAssumption, KP!NextPool
<1> QED BY <1>1, <1>2, Invariance, PTL DEF Spec, KP!ImplementsConnPool, KP!Pool!Spec
=============================================================================
