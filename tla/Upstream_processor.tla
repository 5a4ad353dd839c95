------------------------- MODULE Upstream_processor ------------------------
(***************************************************************************)
(* ngx_http_drizzle_processor.c keeps the invariant of Upstream_invariant: *)
(* each of its functions, for any request it runs for.                     *)
(***************************************************************************)
EXTENDS Upstream_invariant

\* What the invariant says of a request that a function runs for, when it has
\* a connection to a server.
AtWork(r) ==
  /\ rq[r] \in RequestType
  /\ rq = [rq EXCEPT ![r] = rq[r]]
  /\ peer[r] \in KA!PeerType
  /\ Running(r) \in KA!TimerSets
  /\ Session(r) \in SessionType
  /\ log[r] \in LogType
  /\ log = [log EXCEPT ![r] = log[r]]
  /\ cpu \in CpuType
  /\ Good(rq[r], peer[r], Server(r), Running(r), Session(r), log[r], cpu)
  /\ rq[r].phase = "active"
  /\ Real(peer[r], Server(r))
  /\ Conn(r) # None
  /\ Session(r) = db[Conn(r)]
  /\ db \in [Conns -> SessionType]
  /\ Timers(r) = Running(r)
  /\ SettingNames(r) <=> Setting(rq[r], peer[r])

\* It has, in the functions of the processor.
LEMMA Served ==
  ASSUME IInv, NEW r \in Requests, cpu.req = r, cpu.fn \in Serving,
         cpu.copy # "query" \/ cpu.fn # "answered"
  PROVE  AtWork(r)
<1>1. Good(rq[r], peer[r], Server(r), Running(r), Session(r), log[r], cpu)
  BY Local
<1>2. rq[r] \in RequestType /\ peer[r].connection = Conn(r)
  BY Local
<1>3. rq[r].phase = "active" /\ Real(peer[r], Server(r))
  BY <1>1, <1>2 DEF Good, Placed, Serving, RequestType
<1>4. Conn(r) # None
  BY <1>2, <1>3 DEF Real
<1>5. /\ rq = [rq EXCEPT ![r] = rq[r]] /\ log = [log EXCEPT ![r] = log[r]]
      /\ db \in [Conns -> SessionType]
  BY DEF IInv, Typed
<1> QED BY <1>1, <1>3, <1>4, <1>5, Local
        DEF AtWork, Session, Running, Timers, Setting, SettingNames

\* And when it is waiting for an event.
LEMMA Awaiting ==
  ASSUME IInv, NEW r \in Requests, cpu = Idle, rq[r].phase = "active"
  PROVE  AtWork(r)
<1>1. cpu.req = None /\ cpu.fn = "idle"
  BY DEF Idle
<1>2. Good(rq[r], peer[r], Server(r), Running(r), Session(r), log[r], cpu)
  BY <1>1, Local
<1>3. Real(peer[r], Server(r)) /\ peer[r].connection = Conn(r)
  BY <1>1, <1>2, Local DEF Good, Placed
<1>4. Conn(r) # None
  BY <1>3 DEF Real
<1>5. /\ rq = [rq EXCEPT ![r] = rq[r]] /\ log = [log EXCEPT ![r] = log[r]]
      /\ db \in [Conns -> SessionType]
  BY DEF IInv, Typed
<1> QED BY <1>2, <1>3, <1>4, <1>5, Local
        DEF AtWork, Session, Running, Timers, Setting, SettingNames

\* The types of what a function changes.
LEMMA WorkTypes ==
  ASSUME NEW r, AtWork(r)
  PROVE  /\ rq[r] \in RequestType /\ log[r] \in LogType /\ cpu \in CpuType
         /\ peer[r] \in KA!PeerType /\ Session(r) \in SessionType
         /\ Running(r) \in KA!TimerSets /\ Timers(r) = Running(r)
BY DEF AtWork

\* And of what a step that changes only a field starts from.
LEMMA WorkSame ==
  ASSUME NEW r, AtWork(r)
  PROVE  /\ rq = [rq EXCEPT ![r] = rq[r]] /\ log = [log EXCEPT ![r] = log[r]]
         /\ Session(r) = db[Conn(r)] /\ Timers(r) = Running(r)
         /\ SettingNames(r) <=> Setting(rq[r], peer[r])
BY DEF AtWork


-----------------------------------------------------------------------------
(* The processor: process_events and the functions it calls.                *)

\* ngx_http_drizzle_process_events.
LEMMA ProcessEventsKeeps ==
  ASSUME IInv, NEW r \in Requests, ProcessEvents(r)
  PROVE  IInv'
<1> DEFINE fn == IF rq[r].paused THEN "return"
                 ELSE IF rq[r].state = "idle" THEN "send_query" ELSE rq[r].state
           x == [cpu EXCEPT !.fn = fn]
<1>1. /\ cpu.req = r /\ cpu.fn = "process_events" /\ cpu.fn \in Serving
      /\ cpu' = x /\ UNCHANGED <<poolVars, current, rq, db, log>>
  BY DEF ProcessEvents, At, Call, Serving
<1>2. AtWork(r)
  BY <1>1, Served
<1>3. /\ x \in CpuType /\ x.req = r /\ x.fn = fn
      /\ fn \in {"return", "connect", "send_query", "recv_cols", "recv_rows"}
  BY <1>1, <1>2, WorkTypes DEF CpuType, Functions, RequestType, States
<1>4. Good(rq[r], peer[r], Server(r), Running(r), Session(r), log[r], x)
  BY <1>1, <1>2, <1>3
  DEF AtWork, Good, Placed, Progressed, Connects, Timed, Named, Tried, Ahead,
      Setting, Serving, Choosing, Failing, Receiving, RequestType, States,
      SessionType, LogType
<1> HIDE DEF x
<1> QED BY <1>1, <1>2, <1>3, <1>4, OwnStep DEF AtWork

\* ngx_http_upstream_drizzle_connect: the handshake goes on, fails, or is over.
LEMMA ConnectKeeps ==
  ASSUME IInv, NEW r \in Requests, Connect(r)
  PROVE  IInv'
<1>1. /\ cpu.req = r /\ cpu.fn = "connect" /\ cpu.fn \in Serving
      /\ current' = current /\ log' = log
  BY DEF Connect, At, Serving
<1>2. AtWork(r)
  BY <1>1, Served
<1>3. ASSUME NEW dir \in {"read", "write"},
             ~Session(r).ready, rq' = [rq EXCEPT ![r].wait = dir],
             Call("return"), UNCHANGED <<poolVars, db>>
      PROVE  IInv'
  <2> DEFINE q == [rq[r] EXCEPT !.wait = dir]
             x == [cpu EXCEPT !.fn = "return"]
  <2>1. /\ rq' = [rq EXCEPT ![r] = q] /\ cpu' = x
        /\ db' = db
        /\ UNCHANGED poolVars
    BY <1>1, <1>2, <1>3, WorkSame DEF Call
  <2>2. /\ q \in RequestType /\ x \in CpuType
        /\ x.req = r /\ x.fn = "return"
    <3>1. q \in RequestType
      <4>1. rq[r] \in RequestType
        BY <1>2, WorkTypes
      <4> QED BY <4>1 DEF RequestType, States
    <3>2. x \in CpuType /\ x.req = r /\ x.fn = "return"
      <4>1. cpu \in CpuType /\ cpu.req = r
        BY <1>1, <1>2, WorkTypes
      <4> QED BY <4>1 DEF CpuType, Functions, Codes
    <3> QED BY <3>1, <3>2
  <2>3. Good(q, peer[r], Server(r), Running(r), Session(r), log[r], x)
    BY <1>1, <1>2, <1>3, <2>2
    DEF AtWork, Good, Placed, Progressed, Connects, Timed, Named, Tried, Ahead,
        Setting, Serving, Choosing, Failing, Receiving, RequestType, States,
        SessionType, LogType
  <2> HIDE DEF q, x
  <2> QED BY <1>1, <1>2, <2>1, <2>2, <2>3, OwnStep DEF AtWork
<1>4. ASSUME KA!SetTimers(r, Timers(r) \ {"write"}), Call("next_error"),
             UNCHANGED <<rq, db>>
      PROVE  IInv'
  <2> DEFINE m == Running(r) \ {"write"}
             x == [cpu EXCEPT !.fn = "next_error"]
  <2>1. /\ rq' = rq /\ cpu' = x
        /\ db' = db
        /\ KA!SetTimers(r, m)
    BY <1>1, <1>2, <1>4, WorkSame DEF Call
  <2>2. /\ m \in KA!TimerSets /\ x \in CpuType
        /\ x.req = r /\ x.fn = "next_error"
    <3>1. m \in KA!TimerSets
      BY <1>2, WorkTypes DEF KA!TimerSets
    <3>2. x \in CpuType /\ x.req = r /\ x.fn = "next_error"
      <4>1. cpu \in CpuType /\ cpu.req = r
        BY <1>1, <1>2, WorkTypes
      <4> QED BY <4>1 DEF CpuType, Functions, Codes
    <3> QED BY <3>1, <3>2
  <2>3. Good(rq[r], peer[r], Server(r), m, Session(r), log[r], x)
    BY <1>1, <1>2, <1>4, <2>2
    DEF AtWork, Good, Placed, Progressed, Connects, Timed, Named, Tried, Ahead,
        Setting, Serving, Choosing, Failing, Receiving, RequestType, States,
        SessionType, LogType
  <2> HIDE DEF m, x
  <2> QED BY <1>1, <1>2, <2>1, <2>2, <2>3, OwnStep DEF AtWork
<1>5. ASSUME KA!SetTimers(r, Timers(r) \ {"write"}), Call("send_query"),
             db' = [db EXCEPT ![Conn(r)].ready = TRUE], rq' = rq
      PROVE  IInv'
  <2> DEFINE m == Running(r) \ {"write"}
             d == [Session(r) EXCEPT !.ready = TRUE]
             x == [cpu EXCEPT !.fn = "send_query"]
  <2>1. /\ rq' = rq /\ cpu' = x
        /\ db' = [db EXCEPT ![Conn(r)] = d]
        /\ KA!SetTimers(r, m)
    BY <1>1, <1>2, <1>5, WorkSame DEF Call
  <2>2. /\ d \in SessionType /\ m \in KA!TimerSets /\ x \in CpuType
        /\ x.req = r /\ x.fn = "send_query"
    <3>1. d \in SessionType
      <4>1. Session(r) \in SessionType /\ rq[r] \in RequestType
        BY <1>2, WorkTypes
      <4> QED BY <4>1 DEF SessionType, RequestType, Sql
    <3>2. m \in KA!TimerSets
      BY <1>2, WorkTypes DEF KA!TimerSets
    <3>3. x \in CpuType /\ x.req = r /\ x.fn = "send_query"
      <4>1. cpu \in CpuType /\ cpu.req = r
        BY <1>1, <1>2, WorkTypes
      <4> QED BY <4>1 DEF CpuType, Functions, Codes
    <3> QED BY <3>1, <3>2, <3>3
  <2>3. Good(rq[r], peer[r], Server(r), m, d, log[r], x)
    BY <1>1, <1>2, <1>5, <2>2
    DEF AtWork, Good, Placed, Progressed, Connects, Timed, Named, Tried, Ahead,
        Setting, Serving, Choosing, Failing, Receiving, RequestType, States,
        SessionType, LogType
  <2> HIDE DEF m, d, x
  <2> QED BY <1>1, <1>2, <2>1, <2>2, <2>3, OwnStep DEF AtWork
<1> QED BY <1>2, <1>3, <1>4, <1>5 DEF Connect, AtWork

\* What send_query counts, and which SQL it sends.
LEMMA Counted ==
  ASSUME IInv, NEW r \in Requests, cpu.req = r, cpu.fn = "send_query"
  PROVE  /\ AtWork(r)
         /\ Submits(r) \in {0, 1}
         /\ [log[r] EXCEPT !.submits = Submits(r)] \in LogType
         /\ SettingNames(r) =>
              Submits(r) = 0 /\ log[r].submits = 0 /\ Sql(r) = "names"
         /\ ~SettingNames(r) => Sql(r) = "query"
<1>1. AtWork(r)
  BY Served DEF Serving
<1>2. /\ log[r] \in LogType /\ log[r].submits \in {0, 1}
      /\ SettingNames(r) => log[r].submits = 0
      /\ log[r].submits = 1 => db[Conn(r)].inflight = "query"
  <2>1. log[r] \in LogType /\ log[r].submits <= 1
    BY <1>1 DEF AtWork, Good, Progressed
  <2>2. log[r].submits \in {0, 1}
    BY <2>1 DEF LogType
  <2>3. log[r].submits = 1 => ~SettingNames(r) /\ db[Conn(r)].inflight = "query"
    BY <1>1 DEF AtWork, Good, Progressed, Failing
  <2> QED BY <2>1, <2>2, <2>3
<1>3. /\ SettingNames(r) => Sql(r) = "names"
      /\ ~SettingNames(r) => Sql(r) = "query"
  BY DEF Sql
<1>4. Submits(r) \in {0, 1} /\ (SettingNames(r) => Submits(r) = 0)
  BY <1>2, <1>3 DEF Submits
<1>5. [log[r] EXCEPT !.submits = Submits(r)] \in LogType
  BY <1>2, <1>4 DEF LogType
<1> QED BY <1>1, <1>2, <1>3, <1>4, <1>5

\* drizzle_query returns IO_WAIT.
LEMMA SendQueryWaitsKeeps ==
  ASSUME IInv, NEW r \in Requests, SendQueryWaits(r)
  PROVE  IInv'
<1>1. /\ cpu.req = r /\ cpu.fn = "send_query" /\ cpu.fn \in Serving
      /\ current' = current
  BY DEF SendQueryWaits, At, Serving
<1>2. /\ AtWork(r)
      /\ Submits(r) \in {0, 1}
      /\ [log[r] EXCEPT !.submits = Submits(r)] \in LogType
      /\ SettingNames(r) =>
           Submits(r) = 0 /\ log[r].submits = 0 /\ Sql(r) = "names"
      /\ ~SettingNames(r) => Sql(r) = "query"
  BY <1>1, Counted
<1>3. ASSUME NEW dir \in {"read", "write"},
             rq' = [rq EXCEPT ![r].query_started = TRUE,
                              ![r].state = "send_query", ![r].wait = dir],
             KA!SetTimers(r, IF rq[r].state # "send_query"
                             THEN Timers(r) \cup {"write"} ELSE Timers(r)),
             db' = [db EXCEPT ![Conn(r)].inflight = Sql(r)],
             Submit(r), Call("return")
      PROVE  IInv'
  <2> DEFINE q == [rq[r] EXCEPT !.query_started = TRUE, !.state = "send_query",
                               !.wait = dir]
             m == IF rq[r].state # "send_query"
                  THEN Running(r) \cup {"write"} ELSE Running(r)
             d == [Session(r) EXCEPT !.inflight = Sql(r)]
             l == [log[r] EXCEPT !.submits = Submits(r)]
             x == [cpu EXCEPT !.fn = "return"]
  <2>1. /\ rq' = [rq EXCEPT ![r] = q] /\ log' = [log EXCEPT ![r] = l]
        /\ cpu' = x
        /\ db' = [db EXCEPT ![Conn(r)] = d]
        /\ KA!SetTimers(r, m)
    BY <1>1, <1>2, <1>3, WorkSame DEF Call, Submit
  <2>2. /\ q \in RequestType /\ d \in SessionType /\ l \in LogType /\ m \in KA!TimerSets
        /\ x \in CpuType
        /\ x.req = r /\ x.fn = "return"
    <3>1. q \in RequestType
      <4>1. rq[r] \in RequestType
        BY <1>2, WorkTypes
      <4>2. dir \in {"read", "write"}
        BY <1>1, <1>3
      <4> QED BY <4>1, <4>2 DEF RequestType, States
    <3>2. d \in SessionType
      BY <1>1, <1>2, <1>3, WorkTypes DEF SessionType
    <3>3. l \in LogType
      BY <1>1, <1>2, <1>3 DEF AtWork
    <3>4. m \in KA!TimerSets
      BY <1>1, <1>2, <1>3, WorkTypes DEF KA!TimerSets
    <3>5. x \in CpuType /\ x.req = r /\ x.fn = "return"
      BY <1>1, <1>2, <1>3, WorkTypes DEF CpuType, Functions, Codes
    <3> QED BY <3>1, <3>2, <3>3, <3>4, <3>5
  <2>3. Good(q, peer[r], Server(r), m, d, l, x)
    <3>1. Placed(q, peer[r], Server(r), x)
      BY <1>1, <1>2, <1>3, <2>2
      DEF AtWork, Good, Placed, Setting, Serving, Choosing, Failing, Receiving,
            RequestType, States, SessionType, LogType
    <3>2. Progressed(q, peer[r], d, l, x)
      BY <1>1, <1>2, <1>3, <2>2
      DEF AtWork, Good, Progressed, Setting, Serving, Choosing, Failing, Receiving,
            RequestType, States, SessionType, LogType
    <3>3. Connects(q, peer[r], Server(r), d, x)
      BY <1>1, <1>2, <1>3, <2>2
      DEF AtWork, Good, Progressed, Connects, Setting, Serving, Choosing,
            Failing, Receiving, RequestType, States, SessionType, LogType
    <3>4. NamesMayMiss \/ Timed(q, peer[r], Server(r), m, d, x)
      BY <1>1, <1>2, <1>3, <2>2
      DEF AtWork, Good, Progressed, Timed, Setting, Serving, Choosing,
            Failing, Receiving, RequestType, States, SessionType, LogType
    <3>5. Single \/ (Named(q, peer[r], Server(r), d) /\ Tried(q, l))
      BY <1>1, <1>2, <1>3, <2>2
      DEF AtWork, Good, Progressed, Named, Tried, Ahead, Setting, Serving, Choosing,
            Failing, Receiving, RequestType, States, SessionType, LogType
    <3> QED BY <3>1, <3>2, <3>3, <3>4, <3>5 DEF Good
  <2> HIDE DEF q, m, d, l, x
  <2> QED BY <1>1, <1>2, <2>1, <2>2, <2>3, OwnStep DEF AtWork
<1> QED BY <1>3 DEF SendQueryWaits

\* drizzle_query returns error 1146.
LEMMA SendQueryNoTableKeeps ==
  ASSUME IInv, NEW r \in Requests, SendQueryNoTable(r)
  PROVE  IInv'
<1>1. /\ cpu.req = r /\ cpu.fn = "send_query" /\ cpu.fn \in Serving
      /\ current' = current
  BY DEF SendQueryNoTable, At, Serving
<1>2. /\ AtWork(r)
      /\ Submits(r) \in {0, 1}
      /\ [log[r] EXCEPT !.submits = Submits(r)] \in LogType
      /\ SettingNames(r) =>
           Submits(r) = 0 /\ log[r].submits = 0 /\ Sql(r) = "names"
      /\ ~SettingNames(r) => Sql(r) = "query"
  BY <1>1, Counted
<1>3. ASSUME SettingNames(r), NamesMayMiss, rq' = [rq EXCEPT ![r].query_started = TRUE],
             KA!SetTimers(r, Timers(r) \ {"write"}), Submit(r),
             db' = [db EXCEPT ![Conn(r)].inflight = "none"],
             Call("names_missed")
      PROVE  IInv'
  <2> DEFINE q == [rq[r] EXCEPT !.query_started = TRUE]
             m == Running(r) \ {"write"}
             d == [Session(r) EXCEPT !.inflight = "none"]
             l == [log[r] EXCEPT !.submits = Submits(r)]
             x == [cpu EXCEPT !.fn = "names_missed"]
  <2>1. /\ rq' = [rq EXCEPT ![r] = q] /\ log' = [log EXCEPT ![r] = l]
        /\ cpu' = x
        /\ db' = [db EXCEPT ![Conn(r)] = d]
        /\ KA!SetTimers(r, m)
    BY <1>1, <1>2, <1>3, WorkSame DEF Call, Submit
  <2>2. /\ q \in RequestType /\ d \in SessionType /\ l \in LogType /\ m \in KA!TimerSets
        /\ x \in CpuType
        /\ x.req = r /\ x.fn = "names_missed"
    <3>1. q \in RequestType
      <4>1. rq[r] \in RequestType
        BY <1>2, WorkTypes
      <4> QED BY <4>1 DEF RequestType, States
    <3>2. d \in SessionType
      <4>1. Session(r) \in SessionType /\ rq[r] \in RequestType
        BY <1>2, WorkTypes
      <4> QED BY <4>1 DEF SessionType, RequestType, Sql
    <3>3. l \in LogType
      BY <1>2
    <3>4. m \in KA!TimerSets
      BY <1>2, WorkTypes DEF KA!TimerSets
    <3>5. x \in CpuType /\ x.req = r /\ x.fn = "names_missed"
      <4>1. cpu \in CpuType /\ cpu.req = r
        BY <1>1, <1>2, WorkTypes
      <4> QED BY <4>1 DEF CpuType, Functions, Codes
    <3> QED BY <3>1, <3>2, <3>3, <3>4, <3>5
  <2>3. Good(q, peer[r], Server(r), m, d, l, x)
    <3>1. Placed(q, peer[r], Server(r), x) /\ Progressed(q, peer[r], d, l, x)
      BY <1>1, <1>2, <1>3, <2>2
      DEF AtWork, Good, Placed, Progressed, Serving, Choosing, Failing,
          Receiving, Setting, RequestType, States, LogType
    <3>2. /\ Connects(q, peer[r], Server(r), d, x)
          /\ NamesMayMiss \/ Timed(q, peer[r], Server(r), m, d, x)
      BY <1>1, <1>2, <1>3, <2>2
      DEF AtWork, Good, Connects, Timed, Progressed, Serving, Failing,
          Receiving, RequestType, States, SessionType
    <3>3. Single \/ (Named(q, peer[r], Server(r), d) /\ Tried(q, l))
      BY <1>1, <1>2, <1>3, <2>2
      DEF AtWork, Good, Named, Tried, Ahead, Progressed, Setting, Serving,
          Receiving, RequestType
    <3> QED BY <3>1, <3>2, <3>3 DEF Good
  <2> HIDE DEF q, m, d, l, x
  <2> QED BY <1>1, <1>2, <2>1, <2>2, <2>3, OwnStep DEF AtWork
<1>4. ASSUME ~SettingNames(r), rq' = [rq EXCEPT ![r].query_started = TRUE],
             KA!SetTimers(r, Timers(r) \ {"write"}), Submit(r),
             db' = [db EXCEPT ![Conn(r)].inflight = "none"],
             cpu' = [cpu EXCEPT !.fn = "done", !.rc = "410"]
      PROVE  IInv'
  <2> DEFINE q == [rq[r] EXCEPT !.query_started = TRUE]
             m == Running(r) \ {"write"}
             d == [Session(r) EXCEPT !.inflight = "none"]
             l == [log[r] EXCEPT !.submits = Submits(r)]
             x == [cpu EXCEPT !.fn = "done", !.rc = "410"]
  <2>1. /\ rq' = [rq EXCEPT ![r] = q] /\ log' = [log EXCEPT ![r] = l]
        /\ cpu' = x
        /\ db' = [db EXCEPT ![Conn(r)] = d]
        /\ KA!SetTimers(r, m)
    BY <1>1, <1>2, <1>4, WorkSame DEF Call, Submit
  <2>2. /\ q \in RequestType /\ d \in SessionType /\ l \in LogType /\ m \in KA!TimerSets
        /\ x \in CpuType
        /\ x.req = r /\ x.fn = "done"
    <3>1. q \in RequestType
      <4>1. rq[r] \in RequestType
        BY <1>2, WorkTypes
      <4> QED BY <4>1 DEF RequestType, States
    <3>2. d \in SessionType
      <4>1. Session(r) \in SessionType /\ rq[r] \in RequestType
        BY <1>2, WorkTypes
      <4> QED BY <4>1 DEF SessionType, RequestType, Sql
    <3>3. l \in LogType
      BY <1>2
    <3>4. m \in KA!TimerSets
      BY <1>2, WorkTypes DEF KA!TimerSets
    <3>5. x \in CpuType /\ x.req = r /\ x.fn = "done"
      <4>1. cpu \in CpuType /\ cpu.req = r
        BY <1>1, <1>2, WorkTypes
      <4> QED BY <4>1 DEF CpuType, Functions, Codes
    <3> QED BY <3>1, <3>2, <3>3, <3>4, <3>5
  <2>3. Good(q, peer[r], Server(r), m, d, l, x)
    BY <1>1, <1>2, <1>4, <2>2
    DEF AtWork, Good, Placed, Progressed, Connects, Timed, Named, Tried, Ahead,
        Setting, Serving, Choosing, Failing, Receiving, RequestType, States,
        SessionType, LogType
  <2> HIDE DEF q, m, d, l, x
  <2> QED BY <1>1, <1>2, <2>1, <2>2, <2>3, OwnStep DEF AtWork
<1> QED BY <1>3, <1>4 DEF SendQueryNoTable

\* drizzle_query fails, or there is no memory.
LEMMA SendQueryFailsKeeps ==
  ASSUME IInv, NEW r \in Requests, SendQueryFails(r)
  PROVE  IInv'
<1>1. /\ cpu.req = r /\ cpu.fn = "send_query" /\ cpu.fn \in Serving
      /\ current' = current
  BY DEF SendQueryFails, At, Serving
<1>2. /\ AtWork(r)
      /\ Submits(r) \in {0, 1}
      /\ [log[r] EXCEPT !.submits = Submits(r)] \in LogType
      /\ SettingNames(r) =>
           Submits(r) = 0 /\ log[r].submits = 0 /\ Sql(r) = "names"
      /\ ~SettingNames(r) => Sql(r) = "query"
  BY <1>1, Counted
<1>3. ASSUME rq' = [rq EXCEPT ![r].query_started = TRUE],
             KA!SetTimers(r, Timers(r) \ {"write"}), Submit(r),
             db' = [db EXCEPT ![Conn(r)].inflight = Sql(r)],
             FinalizeWith("500")
      PROVE  IInv'
  <2> DEFINE q == [rq[r] EXCEPT !.query_started = TRUE]
             m == Running(r) \ {"write"}
             d == [Session(r) EXCEPT !.inflight = Sql(r)]
             l == [log[r] EXCEPT !.submits = Submits(r)]
             x == [cpu EXCEPT !.fn = "finalize", !.rc = "500"]
  <2>1. /\ rq' = [rq EXCEPT ![r] = q] /\ log' = [log EXCEPT ![r] = l]
        /\ cpu' = x
        /\ db' = [db EXCEPT ![Conn(r)] = d]
        /\ KA!SetTimers(r, m)
    BY <1>1, <1>2, <1>3, WorkSame DEF Call, Submit, FinalizeWith
  <2>2. /\ q \in RequestType /\ d \in SessionType /\ l \in LogType /\ m \in KA!TimerSets
        /\ x \in CpuType
        /\ x.req = r /\ x.fn = "finalize"
    <3>1. q \in RequestType
      <4>1. rq[r] \in RequestType
        BY <1>2, WorkTypes
      <4> QED BY <4>1 DEF RequestType, States
    <3>2. d \in SessionType
      <4>1. Session(r) \in SessionType /\ rq[r] \in RequestType
        BY <1>2, WorkTypes
      <4> QED BY <4>1 DEF SessionType, RequestType, Sql
    <3>3. l \in LogType
      BY <1>2
    <3>4. m \in KA!TimerSets
      BY <1>2, WorkTypes DEF KA!TimerSets
    <3>5. x \in CpuType /\ x.req = r /\ x.fn = "finalize"
      <4>1. cpu \in CpuType /\ cpu.req = r
        BY <1>1, <1>2, WorkTypes
      <4> QED BY <4>1 DEF CpuType, Functions, Codes
    <3> QED BY <3>1, <3>2, <3>3, <3>4, <3>5
  <2>3. Good(q, peer[r], Server(r), m, d, l, x)
    BY <1>1, <1>2, <1>3, <2>2
    DEF AtWork, Good, Placed, Progressed, Connects, Timed, Named, Tried, Ahead,
        Setting, Serving, Choosing, Failing, Receiving, RequestType, States,
        SessionType, LogType
  <2> HIDE DEF q, m, d, l, x
  <2> QED BY <1>1, <1>2, <2>1, <2>2, <2>3, OwnStep DEF AtWork
<1>4. ASSUME rq' = [rq EXCEPT ![r].query_started = TRUE],
             KA!SetTimers(r, Timers(r) \ {"write"}), Submit(r),
             db' = [db EXCEPT ![Conn(r)].inflight = Sql(r)],
             Call("next_error")
      PROVE  IInv'
  <2> DEFINE q == [rq[r] EXCEPT !.query_started = TRUE]
             m == Running(r) \ {"write"}
             d == [Session(r) EXCEPT !.inflight = Sql(r)]
             l == [log[r] EXCEPT !.submits = Submits(r)]
             x == [cpu EXCEPT !.fn = "next_error"]
  <2>1. /\ rq' = [rq EXCEPT ![r] = q] /\ log' = [log EXCEPT ![r] = l]
        /\ cpu' = x
        /\ db' = [db EXCEPT ![Conn(r)] = d]
        /\ KA!SetTimers(r, m)
    BY <1>1, <1>2, <1>4, WorkSame DEF Call, Submit
  <2>2. /\ q \in RequestType /\ d \in SessionType /\ l \in LogType /\ m \in KA!TimerSets
        /\ x \in CpuType
        /\ x.req = r /\ x.fn = "next_error"
    <3>1. q \in RequestType
      <4>1. rq[r] \in RequestType
        BY <1>2, WorkTypes
      <4> QED BY <4>1 DEF RequestType, States
    <3>2. d \in SessionType
      <4>1. Session(r) \in SessionType /\ rq[r] \in RequestType
        BY <1>2, WorkTypes
      <4> QED BY <4>1 DEF SessionType, RequestType, Sql
    <3>3. l \in LogType
      BY <1>2
    <3>4. m \in KA!TimerSets
      BY <1>2, WorkTypes DEF KA!TimerSets
    <3>5. x \in CpuType /\ x.req = r /\ x.fn = "next_error"
      <4>1. cpu \in CpuType /\ cpu.req = r
        BY <1>1, <1>2, WorkTypes
      <4> QED BY <4>1 DEF CpuType, Functions, Codes
    <3> QED BY <3>1, <3>2, <3>3, <3>4, <3>5
  <2>3. Good(q, peer[r], Server(r), m, d, l, x)
    BY <1>1, <1>2, <1>4, <2>2
    DEF AtWork, Good, Placed, Progressed, Connects, Timed, Named, Tried, Ahead,
        Setting, Serving, Choosing, Failing, Receiving, RequestType, States,
        SessionType, LogType
  <2> HIDE DEF q, m, d, l, x
  <2> QED BY <1>1, <1>2, <2>1, <2>2, <2>3, OwnStep DEF AtWork
<1> QED BY <1>3, <1>4 DEF SendQueryFails

\* The header of the answer is there.
LEMMA SendQueryAnsweredKeeps ==
  ASSUME IInv, NEW r \in Requests, SendQueryAnswered(r)
  PROVE  IInv'
<1>1. /\ cpu.req = r /\ cpu.fn = "send_query" /\ cpu.fn \in Serving
      /\ current' = current
  BY DEF SendQueryAnswered, At, Serving
<1>2. /\ AtWork(r)
      /\ Submits(r) \in {0, 1}
      /\ [log[r] EXCEPT !.submits = Submits(r)] \in LogType
      /\ SettingNames(r) =>
           Submits(r) = 0 /\ log[r].submits = 0 /\ Sql(r) = "names"
      /\ ~SettingNames(r) => Sql(r) = "query"
  BY <1>1, Counted
<1>3. ASSUME SettingNames(r), rq' = [rq EXCEPT ![r].query_started = TRUE],
             KA!SetTimers(r, Timers(r) \ {"write"}), Submit(r),
             db' = [db EXCEPT ![Conn(r)].inflight = "none",
                              ![Conn(r)].names = rq[r].charset],
             cpu' = [cpu EXCEPT !.fn = "answered", !.copy = "names"]
      PROVE  IInv'
  <2> DEFINE q == [rq[r] EXCEPT !.query_started = TRUE]
             m == Running(r) \ {"write"}
             d == [Session(r) EXCEPT !.inflight = "none",
                                     !.names = rq[r].charset]
             l == [log[r] EXCEPT !.submits = Submits(r)]
             x == [cpu EXCEPT !.fn = "answered", !.copy = "names"]
  <2>1. /\ rq' = [rq EXCEPT ![r] = q] /\ log' = [log EXCEPT ![r] = l]
        /\ cpu' = x
        /\ db' = [db EXCEPT ![Conn(r)] = d]
        /\ KA!SetTimers(r, m)
    BY <1>1, <1>2, <1>3, WorkSame DEF Call, Submit
  <2>2. /\ q \in RequestType /\ d \in SessionType /\ l \in LogType /\ m \in KA!TimerSets
        /\ x \in CpuType
        /\ x.req = r /\ x.fn = "answered"
    <3>1. q \in RequestType
      <4>1. rq[r] \in RequestType
        BY <1>2, WorkTypes
      <4> QED BY <4>1 DEF RequestType, States
    <3>2. d \in SessionType
      <4>1. Session(r) \in SessionType /\ rq[r] \in RequestType
        BY <1>2, WorkTypes
      <4> QED BY <4>1 DEF SessionType, RequestType, Sql
    <3>3. l \in LogType
      BY <1>2
    <3>4. m \in KA!TimerSets
      BY <1>2, WorkTypes DEF KA!TimerSets
    <3>5. x \in CpuType /\ x.req = r /\ x.fn = "answered"
      <4>1. cpu \in CpuType /\ cpu.req = r
        BY <1>1, <1>2, WorkTypes
      <4> QED BY <4>1 DEF CpuType, Functions, Codes
    <3> QED BY <3>1, <3>2, <3>3, <3>4, <3>5
  <2>3. Good(q, peer[r], Server(r), m, d, l, x)
    <3>1. Placed(q, peer[r], Server(r), x) /\ Progressed(q, peer[r], d, l, x)
      BY <1>1, <1>2, <1>3, <2>2
      DEF AtWork, Good, Placed, Progressed, Serving, Choosing, Failing,
          Receiving, Setting, RequestType, States, LogType
    <3>2. /\ Connects(q, peer[r], Server(r), d, x)
          /\ NamesMayMiss \/ Timed(q, peer[r], Server(r), m, d, x)
      BY <1>1, <1>2, <1>3, <2>2
      DEF AtWork, Good, Connects, Timed, Progressed, Serving, Failing,
          Receiving, RequestType, States, SessionType
    <3>3. Single \/ (Named(q, peer[r], Server(r), d) /\ Tried(q, l))
      BY <1>1, <1>2, <1>3, <2>2
      DEF AtWork, Good, Named, Tried, Ahead, Progressed, Setting, Serving,
          Receiving, RequestType
    <3> QED BY <3>1, <3>2, <3>3 DEF Good
  <2> HIDE DEF q, m, d, l, x
  <2> QED BY <1>1, <1>2, <2>1, <2>2, <2>3, OwnStep DEF AtWork
<1>4. ASSUME ~SettingNames(r), rq' = [rq EXCEPT ![r].query_started = TRUE],
             KA!SetTimers(r, Timers(r) \ {"write"}), Submit(r),
             db' = [db EXCEPT ![Conn(r)].inflight = "none"],
             cpu' = [cpu EXCEPT !.fn = "done", !.rc = "ok", !.copy = "query"]
      PROVE  IInv'
  <2> DEFINE q == [rq[r] EXCEPT !.query_started = TRUE]
             m == Running(r) \ {"write"}
             d == [Session(r) EXCEPT !.inflight = "none"]
             l == [log[r] EXCEPT !.submits = Submits(r)]
             x == [cpu EXCEPT !.fn = "done", !.rc = "ok", !.copy = "query"]
  <2>1. /\ rq' = [rq EXCEPT ![r] = q] /\ log' = [log EXCEPT ![r] = l]
        /\ cpu' = x
        /\ db' = [db EXCEPT ![Conn(r)] = d]
        /\ KA!SetTimers(r, m)
    BY <1>1, <1>2, <1>4, WorkSame DEF Call, Submit
  <2>2. /\ q \in RequestType /\ d \in SessionType /\ l \in LogType /\ m \in KA!TimerSets
        /\ x \in CpuType
        /\ x.req = r /\ x.fn = "done"
    <3>1. q \in RequestType
      <4>1. rq[r] \in RequestType
        BY <1>2, WorkTypes
      <4> QED BY <4>1 DEF RequestType, States
    <3>2. d \in SessionType
      <4>1. Session(r) \in SessionType /\ rq[r] \in RequestType
        BY <1>2, WorkTypes
      <4> QED BY <4>1 DEF SessionType, RequestType, Sql
    <3>3. l \in LogType
      BY <1>2
    <3>4. m \in KA!TimerSets
      BY <1>2, WorkTypes DEF KA!TimerSets
    <3>5. x \in CpuType /\ x.req = r /\ x.fn = "done"
      <4>1. cpu \in CpuType /\ cpu.req = r
        BY <1>1, <1>2, WorkTypes
      <4> QED BY <4>1 DEF CpuType, Functions, Codes
    <3> QED BY <3>1, <3>2, <3>3, <3>4, <3>5
  <2>3. Good(q, peer[r], Server(r), m, d, l, x)
    BY <1>1, <1>2, <1>4, <2>2
    DEF AtWork, Good, Placed, Progressed, Connects, Timed, Named, Tried, Ahead,
        Setting, Serving, Choosing, Failing, Receiving, RequestType, States,
        SessionType, LogType
  <2> HIDE DEF q, m, d, l, x
  <2> QED BY <1>1, <1>2, <2>1, <2>2, <2>3, OwnStep DEF AtWork
<1>5. ASSUME ~SettingNames(r), rq' = [rq EXCEPT ![r].query_started = TRUE],
             KA!SetTimers(r, Timers(r) \ {"write"}), Submit(r),
             db' = [db EXCEPT ![Conn(r)].inflight = "query"],
             Call("recv_cols")
      PROVE  IInv'
  <2> DEFINE q == [rq[r] EXCEPT !.query_started = TRUE]
             m == Running(r) \ {"write"}
             d == [Session(r) EXCEPT !.inflight = "query"]
             l == [log[r] EXCEPT !.submits = Submits(r)]
             x == [cpu EXCEPT !.fn = "recv_cols"]
  <2>1. /\ rq' = [rq EXCEPT ![r] = q] /\ log' = [log EXCEPT ![r] = l]
        /\ cpu' = x
        /\ db' = [db EXCEPT ![Conn(r)] = d]
        /\ KA!SetTimers(r, m)
    BY <1>1, <1>2, <1>5, WorkSame DEF Call, Submit
  <2>2. /\ q \in RequestType /\ d \in SessionType /\ l \in LogType /\ m \in KA!TimerSets
        /\ x \in CpuType
        /\ x.req = r /\ x.fn = "recv_cols"
    <3>1. q \in RequestType
      <4>1. rq[r] \in RequestType
        BY <1>2, WorkTypes
      <4> QED BY <4>1 DEF RequestType, States
    <3>2. d \in SessionType
      <4>1. Session(r) \in SessionType /\ rq[r] \in RequestType
        BY <1>2, WorkTypes
      <4> QED BY <4>1 DEF SessionType, RequestType, Sql
    <3>3. l \in LogType
      BY <1>2
    <3>4. m \in KA!TimerSets
      BY <1>2, WorkTypes DEF KA!TimerSets
    <3>5. x \in CpuType /\ x.req = r /\ x.fn = "recv_cols"
      <4>1. cpu \in CpuType /\ cpu.req = r
        BY <1>1, <1>2, WorkTypes
      <4> QED BY <4>1 DEF CpuType, Functions, Codes
    <3> QED BY <3>1, <3>2, <3>3, <3>4, <3>5
  <2>3. Good(q, peer[r], Server(r), m, d, l, x)
    BY <1>1, <1>2, <1>5, <2>2
    DEF AtWork, Good, Placed, Progressed, Connects, Timed, Named, Tried, Ahead,
        Setting, Serving, Choosing, Failing, Receiving, RequestType, States,
        SessionType, LogType
  <2> HIDE DEF q, m, d, l, x
  <2> QED BY <1>1, <1>2, <2>1, <2>2, <2>3, OwnStep DEF AtWork
<1> QED BY <1>3, <1>4, <1>5 DEF SendQueryAnswered

\* send_query goes on after "set names",
LEMMA NamesSetKeeps ==
  ASSUME IInv, NEW r \in Requests, NamesSet(r)
  PROVE  IInv'
<1>1. /\ cpu.req = r /\ cpu.fn = "answered" /\ cpu.copy = "names" /\ cpu.fn \in Serving
      /\ current' = current /\ log' = log
  BY DEF NamesSet, At, Serving
<1>2. AtWork(r)
  BY <1>1, Served
<1>3. ASSUME rq' = [rq EXCEPT ![r].state = "idle"], KA!SetNames(r), db' = db,
             cpu' = [cpu EXCEPT !.fn = "send_query", !.copy = "none"]
      PROVE  IInv'
  <2> DEFINE q == [rq[r] EXCEPT !.state = "idle"]
             p == [peer[r] EXCEPT !.has_set_names = TRUE]
             x == [cpu EXCEPT !.fn = "send_query", !.copy = "none"]
  <2>1. /\ rq' = [rq EXCEPT ![r] = q] /\ cpu' = x
        /\ db' = db
        /\ KA!SetNames(r) /\ p = [peer[r] EXCEPT !.has_set_names = TRUE]
    BY <1>1, <1>2, <1>3, WorkSame DEF Call
  <2>2. /\ q \in RequestType /\ p.has_set_names /\ p.connection = peer[r].connection
        /\ x \in CpuType
        /\ x.req = r /\ x.fn = "send_query"
    <3>1. q \in RequestType
      <4>1. rq[r] \in RequestType
        BY <1>2, WorkTypes
      <4> QED BY <4>1 DEF RequestType, States
    <3>2. p.has_set_names /\ p.connection = peer[r].connection
      BY <1>1, <1>2, <1>3, WorkTypes DEF KA!PeerType
    <3>3. x \in CpuType /\ x.req = r /\ x.fn = "send_query"
      BY <1>1, <1>2, <1>3, WorkTypes DEF CpuType, Functions, Codes
    <3> QED BY <3>1, <3>2, <3>3
  <2>3. Good(q, p, Server(r), Running(r), Session(r), log[r], x)
    BY <1>1, <1>2, <1>3, <2>2
    DEF AtWork, Good, Placed, Progressed, Connects, Timed, Named, Tried, Ahead,
        Setting, Serving, Choosing, Failing, Receiving, RequestType, States,
        SessionType, LogType, Real
  <2> HIDE DEF q, p, x
  <2> QED BY <1>1, <1>2, <2>1, <2>2, <2>3, OwnStep DEF AtWork
<1> QED BY <1>3 DEF NamesSet

\* and after "set names" failed with error 1146.
LEMMA NamesMissedKeeps ==
  ASSUME IInv, NEW r \in Requests, NamesMissed(r)
  PROVE  IInv'
<1>1. /\ cpu.req = r /\ cpu.fn = "names_missed" /\ cpu.fn \in Serving
      /\ current' = current /\ log' = log
  BY DEF NamesMissed, At, Serving
<1>2. AtWork(r)
  BY <1>1, Served
<1>3. ASSUME KA!SetNames(r), UNCHANGED <<rq, db>>, Call("send_query")
      PROVE  IInv'
  <2> DEFINE p == [peer[r] EXCEPT !.has_set_names = TRUE]
             x == [cpu EXCEPT !.fn = "send_query"]
  <2>1. /\ rq' = rq /\ cpu' = x
        /\ db' = db
        /\ KA!SetNames(r) /\ p = [peer[r] EXCEPT !.has_set_names = TRUE]
    BY <1>1, <1>2, <1>3, WorkSame DEF Call
  <2>2. /\ p.has_set_names /\ p.connection = peer[r].connection /\ x \in CpuType
        /\ x.req = r /\ x.fn = "send_query"
    <3>1. p.has_set_names /\ p.connection = peer[r].connection
      BY <1>1, <1>2, <1>3, WorkTypes DEF KA!PeerType
    <3>2. x \in CpuType /\ x.req = r /\ x.fn = "send_query"
      BY <1>1, <1>2, <1>3, WorkTypes DEF CpuType, Functions, Codes
    <3> QED BY <3>1, <3>2
  <2>3. Good(rq[r], p, Server(r), Running(r), Session(r), log[r], x)
    BY <1>1, <1>2, <1>3, <2>2
    DEF AtWork, Good, Placed, Progressed, Connects, Timed, Named, Tried, Ahead,
        Setting, Serving, Choosing, Failing, Receiving, RequestType, States,
        SessionType, LogType, Real
  <2> HIDE DEF p, x
  <2> QED BY <1>1, <1>2, <2>1, <2>2, <2>3, OwnStep DEF AtWork
<1> QED BY <1>3 DEF NamesMissed

\* After an answer without result set send_query just returns.
LEMMA HeaderWasAllKeeps ==
  ASSUME IInv, NEW r \in Requests, HeaderWasAll(r)
  PROVE  IInv'
<1> DEFINE x == [cpu EXCEPT !.fn = "return"]
<1>1. /\ cpu.req = r /\ cpu.fn = "answered" /\ cpu.copy = "query"
      /\ cpu' = x /\ UNCHANGED <<poolVars, current, rq, db, log>>
  BY DEF HeaderWasAll, At, Call
<1>2. /\ rq[r] \in RequestType /\ Session(r) \in SessionType
      /\ log[r] \in LogType /\ cpu \in CpuType
      /\ Good(rq[r], peer[r], Server(r), Running(r), Session(r), log[r], cpu)
      /\ rq = [rq EXCEPT ![r] = rq[r]] /\ log = [log EXCEPT ![r] = log[r]]
  BY <1>1, Local DEF IInv, Typed
<1>3. x \in CpuType /\ x.req = r /\ x.fn = "return"
  BY <1>1, <1>2 DEF CpuType, Functions
<1>4. rq[r].phase = "finished"
  BY <1>1, <1>2 DEF Good, Placed, RequestType
<1>5. Good(rq[r], peer[r], Server(r), Running(r), Session(r), log[r], x)
  BY <1>1, <1>2, <1>3, <1>4
  DEF Good, Placed, Progressed, Connects, Timed, Named, Tried, Ahead, Setting,
      Serving, Choosing, Failing, Receiving, RequestType, States, LogType
<1>6. x.fn \notin Choosing \cup Failing
  BY <1>3 DEF Choosing, Failing
<1> HIDE DEF x
<1> QED BY <1>1, <1>2, <1>3, <1>5, <1>6, OwnStep

\* A read returns IO_WAIT.
LEMMA ReadWaitsKeeps ==
  ASSUME IInv, NEW r \in Requests, NEW st \in Receiving, At(r, st), ReadWaits(r, st)
  PROVE  IInv'
<1>1. /\ cpu.req = r /\ cpu.fn = st /\ cpu.fn \in Serving
      /\ st \in {"recv_cols", "recv_rows"} /\ st \in States
      /\ current' = current /\ log' = log
  BY DEF At, Serving, Receiving, States, ReadWaits
<1>2. AtWork(r)
  BY <1>1, Served
<1>3. ASSUME NEW sent \in BOOLEAN,
             KA!SetTimers(r, ReadTimers(r, st)), Call("return"), db' = db,
             rq' = [rq EXCEPT ![r].state = st, ![r].wait = "read",
                              ![r].header_sent = sent]
      PROVE  IInv'
  <2> DEFINE q == [rq[r] EXCEPT !.state = st, !.wait = "read", !.header_sent = sent]
             m == IF rq[r].state = st THEN Running(r) ELSE Running(r) \cup {"read"}
             x == [cpu EXCEPT !.fn = "return"]
  <2>1. /\ rq' = [rq EXCEPT ![r] = q] /\ cpu' = x
        /\ db' = db
        /\ KA!SetTimers(r, m)
    BY <1>1, <1>2, <1>3, WorkSame DEF Call, ReadTimers
  <2>2. /\ q \in RequestType /\ m \in KA!TimerSets /\ x \in CpuType
        /\ x.req = r /\ x.fn = "return"
    <3>1. q \in RequestType
      <4>1. rq[r] \in RequestType
        BY <1>2, WorkTypes
      <4>2. sent \in BOOLEAN /\ st \in States
        BY <1>1, <1>3
      <4> QED BY <4>1, <4>2 DEF RequestType, States
    <3>2. m \in KA!TimerSets
      BY <1>1, <1>2, <1>3, WorkTypes DEF KA!TimerSets
    <3>3. x \in CpuType /\ x.req = r /\ x.fn = "return"
      BY <1>1, <1>2, <1>3, WorkTypes DEF CpuType, Functions, Codes
    <3> QED BY <3>1, <3>2, <3>3
  <2>3. Good(q, peer[r], Server(r), m, Session(r), log[r], x)
    <3>1. Placed(q, peer[r], Server(r), x)
      BY <1>1, <1>2, <1>3, <2>2
      DEF AtWork, Good, Placed, Setting, Serving, Choosing, Failing, Receiving,
            RequestType, States, SessionType, LogType
    <3>2. Progressed(q, peer[r], Session(r), log[r], x)
      BY <1>1, <1>2, <1>3, <2>2
      DEF AtWork, Good, Progressed, Setting, Serving, Choosing, Failing, Receiving,
            RequestType, States, SessionType, LogType
    <3>3. Connects(q, peer[r], Server(r), Session(r), x)
      BY <1>1, <1>2, <1>3, <2>2
      DEF AtWork, Good, Progressed, Connects, Setting, Serving, Choosing,
            Failing, Receiving, RequestType, States, SessionType, LogType
    <3>4. NamesMayMiss \/ Timed(q, peer[r], Server(r), m, Session(r), x)
      BY <1>1, <1>2, <1>3, <2>2
      DEF AtWork, Good, Progressed, Timed, Setting, Serving, Choosing,
            Failing, Receiving, RequestType, States, SessionType, LogType
    <3>5. Single \/ (Named(q, peer[r], Server(r), Session(r)) /\ Tried(q, log[r]))
      BY <1>1, <1>2, <1>3, <2>2
      DEF AtWork, Good, Progressed, Named, Tried, Ahead, Setting, Serving, Choosing,
            Failing, Receiving, RequestType, States, SessionType, LogType
    <3> QED BY <3>1, <3>2, <3>3, <3>4, <3>5 DEF Good
  <2> HIDE DEF q, m, x
  <2> QED BY <1>1, <1>2, <2>1, <2>2, <2>3, OwnStep DEF AtWork
<1>4. rq[r].header_sent \in BOOLEAN
  BY <1>2, WorkTypes DEF RequestType
<1> QED BY <1>2, <1>3, <1>4 DEF ReadWaits, AtWork

\* What is buffered cannot be sent.
LEMMA FlushFailsKeeps ==
  ASSUME IInv, NEW r \in Requests, NEW st \in Receiving, At(r, st), FlushFails(r, st)
  PROVE  IInv'
<1>1. /\ cpu.req = r /\ cpu.fn = st /\ cpu.fn \in Serving
      /\ st \in {"recv_cols", "recv_rows"} /\ st \in States
      /\ current' = current /\ log' = log
  BY DEF At, Serving, Receiving, States, FlushFails
<1>2. AtWork(r)
  BY <1>1, Served
<1>3. ASSUME NEW gone \in BOOLEAN,
             KA!SetTimers(r, ReadTimers(r, st)), FinalizeWith("500"), db' = db,
             rq' = [rq EXCEPT ![r].state = st, ![r].client_error = gone]
      PROVE  IInv'
  <2> DEFINE q == [rq[r] EXCEPT !.state = st, !.client_error = gone]
             m == IF rq[r].state = st THEN Running(r) ELSE Running(r) \cup {"read"}
             x == [cpu EXCEPT !.fn = "finalize", !.rc = "500"]
  <2>1. /\ rq' = [rq EXCEPT ![r] = q] /\ cpu' = x
        /\ db' = db
        /\ KA!SetTimers(r, m)
    BY <1>1, <1>2, <1>3, WorkSame DEF Call, ReadTimers, FinalizeWith
  <2>2. /\ q \in RequestType /\ m \in KA!TimerSets /\ x \in CpuType
        /\ x.req = r /\ x.fn = "finalize"
    <3>1. q \in RequestType
      <4>1. rq[r] \in RequestType
        BY <1>2, WorkTypes
      <4>2. gone \in BOOLEAN /\ st \in States
        BY <1>1, <1>3
      <4> QED BY <4>1, <4>2 DEF RequestType, States
    <3>2. m \in KA!TimerSets
      BY <1>1, <1>2, <1>3, WorkTypes DEF KA!TimerSets
    <3>3. x \in CpuType /\ x.req = r /\ x.fn = "finalize"
      BY <1>1, <1>2, <1>3, WorkTypes DEF CpuType, Functions, Codes
    <3> QED BY <3>1, <3>2, <3>3
  <2>3. Good(q, peer[r], Server(r), m, Session(r), log[r], x)
    <3>1. Placed(q, peer[r], Server(r), x)
      BY <1>1, <1>2, <1>3, <2>2
      DEF AtWork, Good, Placed, Setting, Serving, Choosing, Failing, Receiving,
            RequestType, States, SessionType, LogType
    <3>2. Progressed(q, peer[r], Session(r), log[r], x)
      BY <1>1, <1>2, <1>3, <2>2
      DEF AtWork, Good, Progressed, Setting, Serving, Choosing, Failing, Receiving,
            RequestType, States, SessionType, LogType
    <3>3. Connects(q, peer[r], Server(r), Session(r), x)
      BY <1>1, <1>2, <1>3, <2>2
      DEF AtWork, Good, Progressed, Connects, Setting, Serving, Choosing,
            Failing, Receiving, RequestType, States, SessionType, LogType
    <3>4. NamesMayMiss \/ Timed(q, peer[r], Server(r), m, Session(r), x)
      BY <1>1, <1>2, <1>3, <2>2
      DEF AtWork, Good, Progressed, Timed, Setting, Serving, Choosing,
            Failing, Receiving, RequestType, States, SessionType, LogType
    <3>5. Single \/ (Named(q, peer[r], Server(r), Session(r)) /\ Tried(q, log[r]))
      BY <1>1, <1>2, <1>3, <2>2
      DEF AtWork, Good, Progressed, Named, Tried, Ahead, Setting, Serving, Choosing,
            Failing, Receiving, RequestType, States, SessionType, LogType
    <3> QED BY <3>1, <3>2, <3>3, <3>4, <3>5 DEF Good
  <2> HIDE DEF q, m, x
  <2> QED BY <1>1, <1>2, <2>1, <2>2, <2>3, OwnStep DEF AtWork
<1> QED BY <1>3 DEF FlushFails

\* The client does not keep up.
LEMMA PausesKeeps ==
  ASSUME IInv, NEW r \in Requests, NEW st \in Receiving, At(r, st), Pauses(r, st)
  PROVE  IInv'
<1>1. /\ cpu.req = r /\ cpu.fn = st /\ cpu.fn \in Serving
      /\ st \in {"recv_cols", "recv_rows"} /\ st \in States
      /\ current' = current /\ log' = log
  BY DEF At, Serving, Receiving, States, Pauses
<1>2. AtWork(r)
  BY <1>1, Served
<1>3. ASSUME rq' = [rq EXCEPT ![r].state = st, ![r].paused = TRUE,
                              ![r].header_sent = TRUE,
                              ![r].read_timeout = @ \/ "read" \in ReadTimers(r, st)],
             db' = [db EXCEPT ![Conn(r)].events = {}],
             KA!SetTimers(r, {}), Call("return")
      PROVE  IInv'
  <2> DEFINE q == [rq[r] EXCEPT !.state = st, !.paused = TRUE, !.header_sent = TRUE,
                               !.read_timeout = @ \/ "read" \in ReadTimers(r, st)]
             m == {}
             d == [Session(r) EXCEPT !.events = {}]
             x == [cpu EXCEPT !.fn = "return"]
  <2>1. /\ rq' = [rq EXCEPT ![r] = q] /\ cpu' = x
        /\ db' = [db EXCEPT ![Conn(r)] = d]
        /\ KA!SetTimers(r, m)
    BY <1>1, <1>2, <1>3, WorkSame DEF Call
  <2>2. /\ q \in RequestType /\ d \in SessionType /\ m \in KA!TimerSets /\ x \in CpuType
        /\ x.req = r /\ x.fn = "return"
    <3>1. q \in RequestType
      <4>1. rq[r] \in RequestType
        BY <1>2, WorkTypes
      <4> DEFINE h == rq[r].read_timeout \/ "read" \in ReadTimers(r, st)
      <4>2. h \in BOOLEAN /\ st \in States
        BY <1>1, <4>1 DEF RequestType
      <4> HIDE DEF h
      <4>3. [rq[r] EXCEPT !.state = st, !.paused = TRUE, !.header_sent = TRUE,
                          !.read_timeout = h] \in RequestType
        BY <4>1, <4>2 DEF RequestType, States
      <4> QED BY <4>3 DEF h
    <3>2. d \in SessionType
      BY <1>1, <1>2, <1>3, WorkTypes DEF SessionType
    <3>3. m \in KA!TimerSets
      BY <1>1, <1>2, <1>3, WorkTypes DEF KA!TimerSets
    <3>4. x \in CpuType /\ x.req = r /\ x.fn = "return"
      BY <1>1, <1>2, <1>3, WorkTypes DEF CpuType, Functions, Codes
    <3> QED BY <3>1, <3>2, <3>3, <3>4
  <2>3. Good(q, peer[r], Server(r), m, d, log[r], x)
    <3>1. Placed(q, peer[r], Server(r), x)
      BY <1>1, <1>2, <1>3, <2>2
      DEF AtWork, Good, Placed, Setting, Serving, Choosing, Failing, Receiving,
            RequestType, States, SessionType, LogType, ReadTimers
    <3>2. Progressed(q, peer[r], d, log[r], x)
      BY <1>1, <1>2, <1>3, <2>2
      DEF AtWork, Good, Progressed, Setting, Serving, Choosing, Failing, Receiving,
            RequestType, States, SessionType, LogType, ReadTimers
    <3>3. Connects(q, peer[r], Server(r), d, x)
      BY <1>1, <1>2, <1>3, <2>2
      DEF AtWork, Good, Progressed, Connects, Setting, Serving, Choosing,
            Failing, Receiving, RequestType, States, SessionType, LogType, ReadTimers
    <3>4. NamesMayMiss \/ Timed(q, peer[r], Server(r), m, d, x)
      <4> SUFFICES ASSUME ~NamesMayMiss PROVE Timed(q, peer[r], Server(r), m, d, x)
        OBVIOUS
      <4>1. "read" \in ReadTimers(r, st)
        <5>1. Timed(rq[r], peer[r], Server(r), Running(r), Session(r), cpu)
          BY <1>2 DEF AtWork, Good
        <5>2. Running(r) = IF rq[r].state = st THEN {"read"} ELSE {}
          BY <1>1, <1>2, <5>1 DEF AtWork, Timed, Receiving
        <5> QED BY <1>2, <5>2, WorkSame DEF ReadTimers
      <4>2. q.paused /\ q.read_timeout
        BY <1>2, <4>1, WorkTypes DEF RequestType
      <4>3. x.fn = "return"
        BY <2>2
      <4> QED BY <4>2, <4>3 DEF Timed, Receiving
    <3>5. Single \/ (Named(q, peer[r], Server(r), d) /\ Tried(q, log[r]))
      BY <1>1, <1>2, <1>3, <2>2
      DEF AtWork, Good, Named, Tried, Ahead,
            RequestType, States, SessionType, LogType, ReadTimers
    <3> QED BY <3>1, <3>2, <3>3, <3>4, <3>5 DEF Good
  <2> HIDE DEF q, m, d, x
  <2> QED BY <1>1, <1>2, <2>1, <2>2, <2>3, OwnStep DEF AtWork
<1> QED BY <1>3 DEF Pauses

\* A read, or what is done with what was read, fails.
LEMMA ReadFailsKeeps ==
  ASSUME IInv, NEW r \in Requests, NEW st \in Receiving, At(r, st), ReadFails(r, st)
  PROVE  IInv'
<1>1. /\ cpu.req = r /\ cpu.fn = st /\ cpu.fn \in Serving
      /\ st \in {"recv_cols", "recv_rows"} /\ st \in States
      /\ current' = current /\ log' = log
  BY DEF At, Serving, Receiving, States, ReadFails
<1>2. AtWork(r)
  BY <1>1, Served
<1>3. ASSUME NEW gone \in BOOLEAN, NEW sent \in BOOLEAN,
             KA!SetTimers(r, ReadTimers(r, st)), Call("next_error"), db' = db,
             rq' = [rq EXCEPT ![r].state = st, ![r].header_sent = sent,
                              ![r].client_error = gone]
      PROVE  IInv'
  <2> DEFINE q == [rq[r] EXCEPT !.state = st, !.header_sent = sent, !.client_error = gone]
             m == IF rq[r].state = st THEN Running(r) ELSE Running(r) \cup {"read"}
             x == [cpu EXCEPT !.fn = "next_error"]
  <2>1. /\ rq' = [rq EXCEPT ![r] = q] /\ cpu' = x
        /\ db' = db
        /\ KA!SetTimers(r, m)
    BY <1>1, <1>2, <1>3, WorkSame DEF Call, ReadTimers
  <2>2. /\ q \in RequestType /\ m \in KA!TimerSets /\ x \in CpuType
        /\ x.req = r /\ x.fn = "next_error"
    <3>1. q \in RequestType
      <4>1. rq[r] \in RequestType
        BY <1>2, WorkTypes
      <4>2. sent \in BOOLEAN /\ gone \in BOOLEAN /\ st \in States
        BY <1>1, <1>3
      <4> QED BY <4>1, <4>2 DEF RequestType, States
    <3>2. m \in KA!TimerSets
      BY <1>1, <1>2, <1>3, WorkTypes DEF KA!TimerSets
    <3>3. x \in CpuType /\ x.req = r /\ x.fn = "next_error"
      BY <1>1, <1>2, <1>3, WorkTypes DEF CpuType, Functions, Codes
    <3> QED BY <3>1, <3>2, <3>3
  <2>3. Good(q, peer[r], Server(r), m, Session(r), log[r], x)
    <3>1. Placed(q, peer[r], Server(r), x)
      BY <1>1, <1>2, <1>3, <2>2
      DEF AtWork, Good, Placed, Setting, Serving, Choosing, Failing, Receiving,
            RequestType, States, SessionType, LogType
    <3>2. Progressed(q, peer[r], Session(r), log[r], x)
      BY <1>1, <1>2, <1>3, <2>2
      DEF AtWork, Good, Progressed, Setting, Serving, Choosing, Failing, Receiving,
            RequestType, States, SessionType, LogType
    <3>3. Connects(q, peer[r], Server(r), Session(r), x)
      BY <1>1, <1>2, <1>3, <2>2
      DEF AtWork, Good, Progressed, Connects, Setting, Serving, Choosing,
            Failing, Receiving, RequestType, States, SessionType, LogType
    <3>4. NamesMayMiss \/ Timed(q, peer[r], Server(r), m, Session(r), x)
      BY <1>1, <1>2, <1>3, <2>2
      DEF AtWork, Good, Progressed, Timed, Setting, Serving, Choosing,
            Failing, Receiving, RequestType, States, SessionType, LogType
    <3>5. Single \/ (Named(q, peer[r], Server(r), Session(r)) /\ Tried(q, log[r]))
      BY <1>1, <1>2, <1>3, <2>2
      DEF AtWork, Good, Progressed, Named, Tried, Ahead, Setting, Serving, Choosing,
            Failing, Receiving, RequestType, States, SessionType, LogType
    <3> QED BY <3>1, <3>2, <3>3, <3>4, <3>5 DEF Good
  <2> HIDE DEF q, m, x
  <2> QED BY <1>1, <1>2, <2>1, <2>2, <2>3, OwnStep DEF AtWork
<1>4. rq[r].header_sent \in BOOLEAN
  BY <1>2, WorkTypes DEF RequestType
<1> QED BY <1>2, <1>3, <1>4 DEF ReadFails

\* The last column has been read.
LEMMA ColumnsEndKeeps ==
  ASSUME IInv, NEW r \in Requests, ColumnsEnd(r)
  PROVE  IInv'
<1>1. /\ cpu.req = r /\ cpu.fn = "recv_cols" /\ cpu.fn \in Serving
      /\ current' = current /\ log' = log
  BY DEF ColumnsEnd, At, Serving
<1>2. AtWork(r)
  BY <1>1, Served
<1>3. ASSUME NEW sent \in BOOLEAN,
             rq' = [rq EXCEPT ![r].state = "recv_cols",
                              ![r].header_sent = sent],
             KA!SetTimers(r, Timers(r) \ {"read"}), Call("recv_rows"), db' = db
      PROVE  IInv'
  <2> DEFINE q == [rq[r] EXCEPT !.state = "recv_cols", !.header_sent = sent]
             m == Running(r) \ {"read"}
             x == [cpu EXCEPT !.fn = "recv_rows"]
  <2>1. /\ rq' = [rq EXCEPT ![r] = q] /\ cpu' = x
        /\ db' = db
        /\ KA!SetTimers(r, m)
    BY <1>1, <1>2, <1>3, WorkSame DEF Call
  <2>2. /\ q \in RequestType /\ m \in KA!TimerSets /\ x \in CpuType
        /\ x.req = r /\ x.fn = "recv_rows"
    <3>1. q \in RequestType
      <4>1. rq[r] \in RequestType
        BY <1>2, WorkTypes
      <4>2. sent \in BOOLEAN
        BY <1>1, <1>3
      <4> QED BY <4>1, <4>2 DEF RequestType, States
    <3>2. m \in KA!TimerSets
      BY <1>1, <1>2, <1>3, WorkTypes DEF KA!TimerSets
    <3>3. x \in CpuType /\ x.req = r /\ x.fn = "recv_rows"
      BY <1>1, <1>2, <1>3, WorkTypes DEF CpuType, Functions, Codes
    <3> QED BY <3>1, <3>2, <3>3
  <2>3. Good(q, peer[r], Server(r), m, Session(r), log[r], x)
    BY <1>1, <1>2, <1>3, <2>2
    DEF AtWork, Good, Placed, Progressed, Connects, Timed, Named, Tried, Ahead,
        Setting, Serving, Choosing, Failing, Receiving, RequestType, States,
        SessionType, LogType
  <2> HIDE DEF q, m, x
  <2> QED BY <1>1, <1>2, <2>1, <2>2, <2>3, OwnStep DEF AtWork
<1>4. rq[r].header_sent \in BOOLEAN
  BY <1>2, WorkTypes DEF RequestType
<1> QED BY <1>3, <1>4 DEF ColumnsEnd

\* The last row has been read.
LEMMA RowsEndKeeps ==
  ASSUME IInv, NEW r \in Requests, RowsEnd(r)
  PROVE  IInv'
<1>1. /\ cpu.req = r /\ cpu.fn = "recv_rows" /\ cpu.fn \in Serving
      /\ current' = current /\ log' = log
  BY DEF RowsEnd, At, Serving
<1>2. AtWork(r)
  BY <1>1, Served
<1>3. ASSUME NEW sent \in BOOLEAN,
             rq' = [rq EXCEPT ![r].state = "recv_rows",
                              ![r].header_sent = sent],
             KA!SetTimers(r, Timers(r) \ {"read"}),
             db' = [db EXCEPT ![Conn(r)].inflight = "none"],
             cpu' = [cpu EXCEPT !.fn = "done", !.rc = "ok"]
      PROVE  IInv'
  <2> DEFINE q == [rq[r] EXCEPT !.state = "recv_rows", !.header_sent = sent]
             m == Running(r) \ {"read"}
             d == [Session(r) EXCEPT !.inflight = "none"]
             x == [cpu EXCEPT !.fn = "done", !.rc = "ok"]
  <2>1. /\ rq' = [rq EXCEPT ![r] = q] /\ cpu' = x
        /\ db' = [db EXCEPT ![Conn(r)] = d]
        /\ KA!SetTimers(r, m)
    BY <1>1, <1>2, <1>3, WorkSame DEF Call
  <2>2. /\ q \in RequestType /\ d \in SessionType /\ m \in KA!TimerSets /\ x \in CpuType
        /\ x.req = r /\ x.fn = "done"
    <3>1. q \in RequestType
      <4>1. rq[r] \in RequestType
        BY <1>2, WorkTypes
      <4>2. sent \in BOOLEAN
        BY <1>1, <1>3
      <4> QED BY <4>1, <4>2 DEF RequestType, States
    <3>2. d \in SessionType
      BY <1>1, <1>2, <1>3, WorkTypes DEF SessionType
    <3>3. m \in KA!TimerSets
      BY <1>1, <1>2, <1>3, WorkTypes DEF KA!TimerSets
    <3>4. x \in CpuType /\ x.req = r /\ x.fn = "done"
      BY <1>1, <1>2, <1>3, WorkTypes DEF CpuType, Functions, Codes
    <3> QED BY <3>1, <3>2, <3>3, <3>4
  <2>3. Good(q, peer[r], Server(r), m, d, log[r], x)
    BY <1>1, <1>2, <1>3, <2>2
    DEF AtWork, Good, Placed, Progressed, Connects, Timed, Named, Tried, Ahead,
        Setting, Serving, Choosing, Failing, Receiving, RequestType, States,
        SessionType, LogType
  <2> HIDE DEF q, m, d, x
  <2> QED BY <1>1, <1>2, <2>1, <2>2, <2>3, OwnStep DEF AtWork
<1>4. rq[r].header_sent \in BOOLEAN
  BY <1>2, WorkTypes DEF RequestType
<1> QED BY <1>3, <1>4 DEF RowsEnd

\* ngx_http_upstream_drizzle_done.
LEMMA DoneKeeps ==
  ASSUME IInv, NEW r \in Requests, Done(r)
  PROVE  IInv'
<1>1. /\ cpu.req = r /\ cpu.fn = "done" /\ cpu.fn \in Serving
      /\ current' = current /\ log' = log
  BY DEF Done, At, Serving
<1>2. AtWork(r)
  BY <1>1, Served
<1>3. cpu.rc \in {"ok", "410"} /\ (cpu.rc = "ok" <=> cpu.rc # "410")
  BY <1>1, <1>2 DEF AtWork, Good, Placed
<1>4. ASSUME rq' = [rq EXCEPT
                      ![r].header_sent = @ \/ cpu.rc = "ok",
                      ![r].status_n = IF cpu.rc = "ok" THEN "200" ELSE cpu.rc,
                      ![r].state = "idle"],
             Call("finalize"), UNCHANGED <<poolVars, db>>
      PROVE  IInv'
  <2> DEFINE q == [rq[r] EXCEPT !.header_sent = @ \/ cpu.rc = "ok",
                               !.status_n = IF cpu.rc = "ok" THEN "200" ELSE cpu.rc,
                               !.state = "idle"]
             x == [cpu EXCEPT !.fn = "finalize"]
  <2>1. /\ rq' = [rq EXCEPT ![r] = q] /\ cpu' = x
        /\ db' = db
        /\ UNCHANGED poolVars
    BY <1>1, <1>2, <1>4, <1>3, WorkSame DEF Call
  <2>2. /\ q \in RequestType /\ x \in CpuType
        /\ x.req = r /\ x.fn = "finalize"
    <3>1. q \in RequestType
      <4>1. rq[r] \in RequestType
        BY <1>2 DEF AtWork
      <4> DEFINE h == rq[r].header_sent \/ cpu.rc = "ok"
                 n == IF cpu.rc = "ok" THEN "200" ELSE cpu.rc
      <4>2. h \in BOOLEAN /\ n \in {"0", "200", "410"}
        BY <1>3, <4>1 DEF RequestType
      <4> HIDE DEF h, n
      <4>3. [rq[r] EXCEPT !.header_sent = h, !.status_n = n, !.state = "idle"]
              \in RequestType
        BY <4>1, <4>2 DEF RequestType, States
      <4> QED BY <4>3 DEF h, n
    <3>2. x \in CpuType /\ x.req = r /\ x.fn = "finalize"
      BY <1>1, <1>2, <1>4, <1>3, WorkTypes DEF CpuType, Functions, Codes
    <3> QED BY <3>1, <3>2
  <2>3. Good(q, peer[r], Server(r), Running(r), Session(r), log[r], x)
    <3>1. Placed(q, peer[r], Server(r), x)
      BY <1>1, <1>2, <1>4, <2>2, <1>3
      DEF AtWork, Good, Placed, Setting, Serving, Choosing, Failing, Receiving,
            RequestType, States, SessionType, LogType
    <3>2. Progressed(q, peer[r], Session(r), log[r], x)
      BY <1>1, <1>2, <1>4, <2>2, <1>3
      DEF AtWork, Good, Progressed, Setting, Serving, Choosing, Failing, Receiving,
            RequestType, States, SessionType, LogType
    <3>3. Connects(q, peer[r], Server(r), Session(r), x)
      BY <1>1, <1>2, <1>4, <2>2, <1>3
      DEF AtWork, Good, Progressed, Connects, Setting, Serving, Choosing,
            Failing, Receiving, RequestType, States, SessionType, LogType
    <3>4. NamesMayMiss \/ Timed(q, peer[r], Server(r), Running(r), Session(r), x)
      BY <1>1, <1>2, <1>4, <2>2, <1>3
      DEF AtWork, Good, Progressed, Timed, Setting, Serving, Choosing,
            Failing, Receiving, RequestType, States, SessionType, LogType
    <3>5. Single \/ (Named(q, peer[r], Server(r), Session(r)) /\ Tried(q, log[r]))
      BY <1>1, <1>2, <1>4, <2>2, <1>3
      DEF AtWork, Good, Progressed, Named, Tried, Ahead, Setting, Serving, Choosing,
            Failing, Receiving, RequestType, States, SessionType, LogType
    <3> QED BY <3>1, <3>2, <3>3, <3>4, <3>5 DEF Good
  <2> HIDE DEF q, x
  <2> QED BY <1>1, <1>2, <2>1, <2>2, <2>3, OwnStep DEF AtWork
<1> QED BY <1>4 DEF Done
=============================================================================
