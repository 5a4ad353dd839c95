------------------------------ MODULE Upstream ------------------------------
(***************************************************************************)
(* The life of the requests one nginx worker passes to one upstream block: *)
(* choice of the server, retry, the libdrizzle state machine, timers,      *)
(* back-pressure, and the connection pool of Keepalive.tla underneath.     *)
(*                                                                         *)
(* The worker is one event loop.  cpu says which request's handler is on   *)
(* the stack and which C function it runs next; between two events cpu is  *)
(* Idle.  So the functions are actions, an event handler is a sequence of  *)
(* them that nothing interleaves with, and events of different             *)
(* connections interleave freely.                                          *)
(*                                                                         *)
(* The database, libdrizzle and the client are the environment: wherever   *)
(* the code tests a return value of theirs, there is one alternative per   *)
(* outcome it tells apart.                                                 *)
(***************************************************************************)
EXTENDS Integers, FiniteSets, SequencesExt

CONSTANTS
  Requests,        \* HTTP requests, each made once
  NumPeers,        \* peers->number
  Conns,           \* slots of the worker's connection table
  MaxCached,       \* drizzle_keepalive max=
  Single,          \* drizzle_keepalive mode=single
  Reject,          \* drizzle_keepalive overflow=reject
  HasCharset,      \* the peers whose drizzle_server has charset=
  NamesMayMiss,    \* TRUE: a server may answer "set names" with error 1146
  BodyInFile,      \* TRUE: a request's body may be in a temporary file
  None,
  Fd0

\* The peers of the block, by their index in peers->peer[].
Peers == 0..(NumPeers - 1)

\* With the assumptions of Keepalive, from MaxCached on.
ASSUME UpstreamAssumption ==
  /\ NumPeers \in Nat \ {0}
  /\ HasCharset \subseteq Peers
  /\ NamesMayMiss \in BOOLEAN /\ BodyInFile \in BOOLEAN
  /\ None \notin Requests
  /\ MaxCached \in Nat
  /\ Single \in BOOLEAN /\ Reject \in BOOLEAN
  /\ IsFiniteSet(Conns)
  /\ None \notin Conns \cup Peers
  /\ Fd0 \notin Peers \cup {None}

VARIABLES
  cache, free, item, active_conns, conn, peer,   \* see Keepalive.tla
  current,   \* dscf->current
  rq,        \* the rest of each request's r, u and dp
  db,        \* each connection seen from libdrizzle, the server and epoll
  cpu,       \* what the event loop is doing
  log        \* history, for the properties only

KA == INSTANCE Keepalive

poolVars == <<cache, free, item, active_conns, conn, peer>>
vars == <<poolVars, current, rq, db, cpu, log>>

States == {"connect", "idle", "send_query", "recv_cols", "recv_rows"}
Codes == {"ok", "error", "done", "408", "410", "499", "500", "502", "503",
          "504"}
Functions == {"idle", "connect_peer", "process_events", "connect",
              "send_query", "answered", "names_missed", "recv_cols",
              "recv_rows", "done", "next_error", "next_timeout", "retry",
              "finalize", "return", "crash"}

\* charset: the peer whose set_names_query dp holds (enable_charset), or None.
\* status_n: u->headers_in.status_n.  read_timeout: dp->read_timeout is set.
\* wait: what libdrizzle waits for when it has returned IO_WAIT.
RequestType ==
  [phase : {"new", "active", "finished"}, state : States,
   next_peer : Peers, remaining : 0..NumPeers, charset : Peers \cup {None},
   query_started : BOOLEAN, header_sent : BOOLEAN,
   status_n : {"0", "200", "410"}, paused : BOOLEAN, read_timeout : BOOLEAN,
   client_error : BOOLEAN, wait : {"none", "read", "write"}]

\* ready: the handshake is over.  names: the peer whose "set names" the
\* session has executed.  inflight: the SQL whose answer is not read to its
\* end.  events: the epoll registration of the socket.
SessionType ==
  [ready : BOOLEAN, names : Peers \cup {None},
   inflight : {"none", "names", "query"}, events : SUBSET {"read", "write"}]

CpuType ==
  [req : Requests \cup {None}, fn : Functions, rc : Codes \cup {"none"},
   entry : {"handler", "event"}, copy : {"none", "names", "query"}]

\* attempts: how often the request turned to each address.  submits: how
\* often it began its own SQL.
LogType ==
  [attempts : [Peers -> 0..2], submits : 0..2]

TypeOK ==
  /\ KA!TypeOK
  /\ current \in Peers
  /\ rq \in [Requests -> RequestType]
  /\ db \in [Conns -> SessionType]
  /\ cpu \in CpuType
  /\ log \in [Requests -> LogType]

NewRequest ==
  [phase |-> "new", state |-> "connect", next_peer |-> 0, remaining |-> 0,
   charset |-> None, query_started |-> FALSE, header_sent |-> FALSE,
   status_n |-> "0", paused |-> FALSE, read_timeout |-> FALSE,
   client_error |-> FALSE, wait |-> "none"]

NewSession(ready) ==
  [ready |-> ready, names |-> None, inflight |-> "none",
   events |-> {"read", "write"}]

Idle == [req |-> None, fn |-> "idle", rc |-> "none", entry |-> "event",
         copy |-> "none"]

Init ==
  /\ KA!Init
  /\ current = 0
  /\ rq = [r \in Requests |-> NewRequest]
  /\ db = [c \in Conns |-> NewSession(FALSE)]
  /\ cpu = Idle
  /\ log = [r \in Requests |->
              [attempts |-> [p \in Peers |-> 0], submits |-> 0]]

-----------------------------------------------------------------------------
(* Control: the event loop and the C call chain.                           *)

\* The event loop calls a handler for r.
Enter(r, fn, entry) ==
  /\ cpu = Idle
  /\ cpu' = [Idle EXCEPT !.req = r, !.fn = fn, !.entry = entry]

At(r, fn) == cpu.req = r /\ cpu.fn = fn

Call(fn) == cpu' = [cpu EXCEPT !.fn = fn]

FinalizeWith(rc) == cpu' = [cpu EXCEPT !.fn = "finalize", !.rc = rc]

Conn(r) == peer[r].connection
Timers(r) == conn[Conn(r)].timers

\* A request that waits for an event of the database.
Waiting(r) == rq[r].phase = "active" /\ Conn(r) # None

-----------------------------------------------------------------------------
(* Start of a request and choice of the server.                            *)

\* ngx_http_drizzle_handler up to dbd_init, with init_peer; the second
\* alternative is init_peer failing, on an empty drizzle_query say.
Handler(r) ==
  /\ rq[r].phase = "new"
  /\ KA!InitPeer(r)
  /\ rq' = [rq EXCEPT ![r].phase = "active", ![r].next_peer = current % NumPeers,
                      ![r].remaining = NumPeers]
  /\ \/ Enter(r, "connect_peer", "handler")
     \/ /\ cpu = Idle
        /\ cpu' = [Idle EXCEPT !.req = r, !.fn = "finalize", !.rc = "500",
                                !.entry = "handler"]
  /\ UNCHANGED <<current, db, log>>

\* History: r turns to the address p, at most twice as far as log counts.
Attempt(r, p) ==
  log' = [log EXCEPT ![r].attempts[p] = IF @ < 2 THEN @ + 1 ELSE @]

\* dbd_connect before get_peer: no memory for u->state.
ConnectPeerNoState(r) ==
  /\ At(r, "connect_peer")
  /\ FinalizeWith("500")
  /\ UNCHANGED <<poolVars, current, rq, db, log>>

\* What dbd_connect may find no memory for when get_peer has returned: to
\* reinitialize a request whose event handlers have run (u->request_sent), or
\* to reuse the buffer of a body that is in a file.
NeedsMemory == BodyInFile \/ cpu.entry = "event"

\* dbd_connect with the connection that get_peer returned: it goes on, or ends
\* the request before its write timer is set.
GoOn(fn) == Call(fn) \/ (NeedsMemory /\ FinalizeWith("500"))

\* dbd_connect when get_peer takes a connection from the single-mode pool.
ConnectPeerSingle(r) ==
  /\ At(r, "connect_peer")
  /\ KA!GetPeerSingle(r)
  /\ Attempt(r, peer'[r].sockaddr)
  /\ GoOn("process_events")
  /\ UNCHANGED <<current, rq, db>>

\* Mutants of Advance: the index of the next peer does not wrap around;
AdvanceNoWrap(r, p, state) ==
  /\ rq[r].remaining > 0
  /\ p = rq[r].next_peer
  /\ rq' = [rq EXCEPT
              ![r].next_peer = p + 1,
              ![r].remaining = @ - 1,
              ![r].charset = IF p \in HasCharset THEN p ELSE None,
              ![r].state = state]
  /\ current' = p + 1
  /\ Attempt(r, p)

\* the character set of an earlier attempt is kept;
AdvanceKeepsCharset(r, p, state) ==
  /\ rq[r].remaining > 0
  /\ p = rq[r].next_peer
  /\ rq' = [rq EXCEPT
              ![r].next_peer = (p + 1) % NumPeers,
              ![r].remaining = @ - 1,
              ![r].charset = IF @ = None /\ rq[r].remaining = NumPeers
                                /\ p \in HasCharset THEN p ELSE @,
              ![r].state = state]
  /\ current' = (p + 1) % NumPeers
  /\ Attempt(r, p)

\* the peers left are not counted.
AdvanceForever(r, p, state) ==
  /\ rq[r].remaining > 0
  /\ p = rq[r].next_peer
  /\ rq' = [rq EXCEPT
              ![r].next_peer = (p + 1) % NumPeers,
              ![r].charset = IF p \in HasCharset THEN p ELSE None,
              ![r].state = state]
  /\ current' = (p + 1) % NumPeers
  /\ Attempt(r, p)

\* get_peer moves on in the round robin: p is the peer chosen.
Advance(r, p, state) ==
  /\ rq[r].remaining > 0
  /\ p = rq[r].next_peer
  /\ rq' = [rq EXCEPT
              ![r].next_peer = (p + 1) % NumPeers,
              ![r].remaining = @ - 1,
              ![r].charset = IF p \in HasCharset THEN p ELSE None,
              ![r].state = state]
  /\ current' = (p + 1) % NumPeers
  /\ Attempt(r, p)

ConnectPeerMulti(r) ==
  /\ At(r, "connect_peer")
  /\ \E p \in Peers : Advance(r, p, rq[r].state) /\ KA!GetPeerMulti(r, p)
  /\ GoOn("process_events")
  /\ UNCHANGED db

\* overflow=reject: NGX_AGAIN with a fake connection, which epoll does not
\* know, or with NULL, which dbd_connect dereferences.  finalize_request frees
\* the fake one like any other, active_conns-- included.
ConnectPeerRejected(r) ==
  /\ At(r, "connect_peer")
  /\ \E p \in Peers :
       /\ Advance(r, p, rq[r].state)
       /\ \/ /\ KA!RejectPeer(r, p)
             /\ GoOn("return")
             /\ db' = [db EXCEPT ![peer'[r].connection].events = {}]
          \/ /\ KA!RejectPeerNoSlot(r, p)
             /\ Call("crash")
             /\ UNCHANGED db

\* A new connection: IO_WAIT, the write timer is set and the handler returns,
\* or connected at once, and the query can be sent.
ConnectPeerOpens(r) ==
  /\ At(r, "connect_peer")
  /\ \E p \in Peers, connecting \in BOOLEAN :
       /\ Advance(r, p, IF connecting THEN "connect" ELSE "idle")
       /\ GoOn(IF connecting THEN "return" ELSE "process_events")
       /\ KA!OpenPeer(r, p, cpu'.fn = "return")
       /\ db' = [db EXCEPT ![peer'[r].connection] = NewSession(~connecting)]

\* NGX_DECLINED, the next peer is tried, or NGX_ERROR.
ConnectPeerFails(r) ==
  /\ At(r, "connect_peer")
  /\ \E p \in Peers : Advance(r, p, rq[r].state) /\ KA!OpenFails(r, p)
  /\ Call("next_error") \/ FinalizeWith("500")
  /\ UNCHANGED db

ConnectPeer(r) ==
  \/ ConnectPeerNoState(r)
  \/ ConnectPeerSingle(r)
  \/ ConnectPeerMulti(r)
  \/ ConnectPeerRejected(r)
  \/ ConnectPeerOpens(r)
  \/ ConnectPeerFails(r)

-----------------------------------------------------------------------------
(* ngx_http_drizzle_processor.c                                            *)

\* ngx_http_drizzle_process_events: dispatch on dp->state.
ProcessEvents(r) ==
  /\ At(r, "process_events")
  /\ Call(IF rq[r].paused THEN "return"
          ELSE IF rq[r].state = "idle" THEN "send_query" ELSE rq[r].state)
  /\ UNCHANGED <<poolVars, current, rq, db, log>>

\* ngx_http_upstream_drizzle_connect.  libdrizzle says OK at once for a
\* connection whose handshake is over.
Connect(r) ==
  /\ At(r, "connect")
  /\ \/ /\ ~db[Conn(r)].ready
        /\ \E dir \in {"read", "write"} : rq' = [rq EXCEPT ![r].wait = dir]
        /\ Call("return")
        /\ UNCHANGED <<poolVars, db>>
     \/ /\ ~db[Conn(r)].ready
        /\ KA!SetTimers(r, Timers(r) \ {"write"})
        /\ Call("next_error")
        /\ UNCHANGED <<rq, db>>
     \/ /\ KA!SetTimers(r, Timers(r) \ {"write"})
        /\ db' = [db EXCEPT ![Conn(r)].ready = TRUE]
        /\ Call("send_query")
        /\ UNCHANGED rq
  /\ UNCHANGED <<current, log>>

\* dp->enable_charset && ! dp->has_set_names: "set names" comes first.
SettingNames(r) == rq[r].charset # None /\ ~peer[r].has_set_names

Sql(r) == IF SettingNames(r) THEN "names" ELSE "query"

\* History: the request's own SQL is begun, not resumed.
Submits(r) ==
  IF Sql(r) = "query" /\ db[Conn(r)].inflight # "query" /\ log[r].submits < 2
  THEN log[r].submits + 1
  ELSE log[r].submits

Submit(r) == log' = [log EXCEPT ![r].submits = Submits(r)]

\* drizzle_query returns IO_WAIT.
SendQueryWaits(r) ==
  /\ At(r, "send_query")
  /\ \E dir \in {"read", "write"} :
       rq' = [rq EXCEPT ![r].query_started = TRUE, ![r].state = "send_query",
                        ![r].wait = dir]
  /\ KA!SetTimers(r, IF rq[r].state # "send_query"
                     THEN Timers(r) \cup {"write"} ELSE Timers(r))
  /\ db' = [db EXCEPT ![Conn(r)].inflight = Sql(r)]
  /\ Submit(r)
  /\ Call("return")
  /\ UNCHANGED current

\* drizzle_query returns error 1146, no such table.
SendQueryNoTable(r) ==
  /\ At(r, "send_query")
  /\ SettingNames(r) => NamesMayMiss
  /\ rq' = [rq EXCEPT ![r].query_started = TRUE]
  /\ KA!SetTimers(r, Timers(r) \ {"write"})
  /\ db' = [db EXCEPT ![Conn(r)].inflight = "none"]
  /\ Submit(r)
  /\ IF SettingNames(r)
     THEN Call("names_missed")
     ELSE cpu' = [cpu EXCEPT !.fn = "done", !.rc = "410"]
  /\ UNCHANGED current

\* drizzle_query returns any other error; or the answer to "set names" is an
\* error, or there is no memory for the result header (NGX_ERROR).
SendQueryFails(r) ==
  /\ At(r, "send_query")
  /\ rq' = [rq EXCEPT ![r].query_started = TRUE]
  /\ KA!SetTimers(r, Timers(r) \ {"write"})
  /\ db' = [db EXCEPT ![Conn(r)].inflight = Sql(r)]
  /\ Submit(r)
  /\ FinalizeWith("500") \/ Call("next_error")
  /\ UNCHANGED current

\* Mutant of SendQueryAnswered: the answer to "set names" is read like that of
\* the query.
SendQueryAnsweredAlike(r) ==
  /\ At(r, "send_query")
  /\ rq' = [rq EXCEPT ![r].query_started = TRUE]
  /\ KA!SetTimers(r, Timers(r) \ {"write"})
  /\ Submit(r)
  /\ db' = [db EXCEPT ![Conn(r)].inflight = Sql(r)]
  /\ Call("recv_cols")
  /\ UNCHANGED current

\* The answer's header is there.  That of "set names" and of a statement
\* without result set is the whole answer; otherwise the columns follow.
\* Before output_result_header, where "done" may free dp, send_query copies
\* which SQL has been answered.
SendQueryAnswered(r) ==
  /\ At(r, "send_query")
  /\ rq' = [rq EXCEPT ![r].query_started = TRUE]
  /\ KA!SetTimers(r, Timers(r) \ {"write"})
  /\ Submit(r)
  /\ \/ /\ SettingNames(r)
        /\ db' = [db EXCEPT ![Conn(r)].inflight = "none",
                            ![Conn(r)].names = rq[r].charset]
        /\ cpu' = [cpu EXCEPT !.fn = "answered", !.copy = "names"]
     \/ /\ ~SettingNames(r)
        /\ db' = [db EXCEPT ![Conn(r)].inflight = "none"]
        /\ cpu' = [cpu EXCEPT !.fn = "done", !.rc = "ok", !.copy = "query"]
     \/ /\ ~SettingNames(r)
        /\ db' = [db EXCEPT ![Conn(r)].inflight = "query"]
        /\ Call("recv_cols")
  /\ UNCHANGED current

\* Mutant of NamesSet: dp->state is left alone.
NamesSetStateKept(r) ==
  /\ At(r, "answered")
  /\ cpu.copy = "names"
  /\ KA!SetNames(r)
  /\ cpu' = [cpu EXCEPT !.fn = "send_query", !.copy = "none"]
  /\ UNCHANGED <<current, rq, db, log>>

\* send_query goes on to the request's own SQL, after "set names"
NamesSet(r) ==
  /\ At(r, "answered")
  /\ cpu.copy = "names"
  /\ KA!SetNames(r)
  /\ rq' = [rq EXCEPT ![r].state = "idle"]
  /\ cpu' = [cpu EXCEPT !.fn = "send_query", !.copy = "none"]
  /\ UNCHANGED <<current, db, log>>

\* and after "set names" failed with error 1146.
NamesMissed(r) ==
  /\ At(r, "names_missed")
  /\ KA!SetNames(r)
  /\ Call("send_query")
  /\ UNCHANGED <<current, rq, db, log>>

\* Mutant of HeaderWasAll: dp is read again, when it may have been freed.
HeaderWasAllReread(r) ==
  /\ At(r, "answered")
  /\ cpu.copy = "query"
  /\ Call("return") \/ (rq[r].phase = "finished" /\ Call("send_query"))
  /\ UNCHANGED <<poolVars, current, rq, db, log>>

\* After an answer without result set, whose request is finished, it returns.
HeaderWasAll(r) ==
  /\ At(r, "answered")
  /\ cpu.copy = "query"
  /\ Call("return")
  /\ UNCHANGED <<poolVars, current, rq, db, log>>

SendQuery(r) ==
  \/ SendQueryWaits(r)
  \/ SendQueryNoTable(r)
  \/ SendQueryFails(r)
  \/ SendQueryAnswered(r)
  \/ NamesSet(r)
  \/ NamesMissed(r)
  \/ HeaderWasAll(r)

\* Entering recv_cols or recv_rows (st) sets dp->state and the read timer.
ReadTimers(r, st) ==
  IF rq[r].state = st THEN Timers(r) ELSE Timers(r) \cup {"read"}

\* drizzle_column_read, drizzle_row_read or drizzle_field_read returns
\* IO_WAIT.  process_events passes what is buffered to the client: that may
\* send the response header, or fail.
ReadWaits(r, st) ==
  /\ \E sent \in {rq[r].header_sent, TRUE} :
       rq' = [rq EXCEPT ![r].state = st, ![r].wait = "read",
                        ![r].header_sent = sent]
  /\ KA!SetTimers(r, ReadTimers(r, st))
  /\ Call("return")
  /\ UNCHANGED <<current, db, log>>

FlushFails(r, st) ==
  /\ \E gone \in BOOLEAN :
       rq' = [rq EXCEPT ![r].state = st, ![r].client_error = gone]
  /\ KA!SetTimers(r, ReadTimers(r, st))
  /\ FinalizeWith("500")
  /\ UNCHANGED <<current, db, log>>

\* ngx_http_drizzle_output_ready: the client does not keep up.  Both events
\* and both timers of the database connection go.
Pauses(r, st) ==
  /\ rq' = [rq EXCEPT ![r].state = st, ![r].paused = TRUE,
                      ![r].header_sent = TRUE,
                      ![r].read_timeout = @ \/ "read" \in ReadTimers(r, st)]
  /\ db' = [db EXCEPT ![Conn(r)].events = {}]
  /\ KA!SetTimers(r, {})
  /\ Call("return")
  /\ UNCHANGED <<current, log>>

\* The read fails, or output_ready or the encoding of what was read does:
\* NGX_ERROR.
ReadFails(r, st) ==
  /\ \E gone \in BOOLEAN, sent \in {rq[r].header_sent, TRUE} :
       rq' = [rq EXCEPT ![r].state = st, ![r].header_sent = sent,
                        ![r].client_error = gone]
  /\ KA!SetTimers(r, ReadTimers(r, st))
  /\ Call("next_error")
  /\ UNCHANGED <<current, db, log>>

Interrupted(r, st) ==
  ReadWaits(r, st) \/ FlushFails(r, st) \/ Pauses(r, st) \/ ReadFails(r, st)

\* ngx_http_upstream_drizzle_recv_cols: the last column has been read.
ColumnsEnd(r) ==
  /\ At(r, "recv_cols")
  /\ \E sent \in {rq[r].header_sent, TRUE} :
       rq' = [rq EXCEPT ![r].state = "recv_cols", ![r].header_sent = sent]
  /\ KA!SetTimers(r, Timers(r) \ {"read"})
  /\ Call("recv_rows")
  /\ UNCHANGED <<current, db, log>>

RecvCols(r) == ColumnsEnd(r) \/ (At(r, "recv_cols") /\ Interrupted(r, "recv_cols"))

\* ngx_http_upstream_drizzle_recv_rows: the last row has been read.  (The
\* test for "set names" there is never true, see RowsBelongToQuery.)
RowsEnd(r) ==
  /\ At(r, "recv_rows")
  /\ \E sent \in {rq[r].header_sent, TRUE} :
       rq' = [rq EXCEPT ![r].state = "recv_rows", ![r].header_sent = sent]
  /\ KA!SetTimers(r, Timers(r) \ {"read"})
  /\ db' = [db EXCEPT ![Conn(r)].inflight = "none"]
  /\ cpu' = [cpu EXCEPT !.fn = "done", !.rc = "ok"]
  /\ UNCHANGED <<current, log>>

RecvRows(r) == RowsEnd(r) \/ (At(r, "recv_rows") /\ Interrupted(r, "recv_rows"))

\* ngx_http_upstream_drizzle_done: rc is NGX_DONE (here "ok") or 410.
Done(r) ==
  /\ At(r, "done")
  /\ rq' = [rq EXCEPT
              ![r].header_sent = @ \/ cpu.rc = "ok",
              ![r].status_n = IF cpu.rc = "ok" THEN "200" ELSE cpu.rc,
              ![r].state = "idle"]
  /\ Call("finalize")
  /\ UNCHANGED <<poolVars, current, db, log>>

-----------------------------------------------------------------------------
(* ngx_http_drizzle_util.c: another attempt, or the end of the request.    *)

\* Mutant of Reusable: the response is not looked at.
ReusableAlways(r) == TRUE

\* keepalive_free_peer's test of the response; u->length is 0.
Reusable(r) ==
  \/ rq[r].status_n = "410"
  \/ rq[r].status_n = "200" /\ rq[r].header_sent

\* Mutants of NextPeer: another peer is tried after SQL;
NextPeerAfterSql(r) ==
  /\ At(r, "next_error") \/ At(r, "next_timeout")
  /\ KA!FreePeer(r, TRUE, Reusable(r))
  /\ IF rq[r].client_error THEN FinalizeWith("499")
     ELSE IF rq[r].remaining > 0 /\ ~rq[r].header_sent
     THEN Call("retry")
     ELSE FinalizeWith(IF At(r, "next_timeout") THEN "504" ELSE "502")
  /\ UNCHANGED <<current, rq, db, log>>

\* another attempt is made with no peer left;
NextPeerNoneLeft(r) ==
  /\ At(r, "next_error") \/ At(r, "next_timeout")
  /\ KA!FreePeer(r, TRUE, Reusable(r))
  /\ IF rq[r].client_error THEN FinalizeWith("499")
     ELSE IF ~rq[r].query_started /\ ~rq[r].header_sent
     THEN Call("retry")
     ELSE FinalizeWith(IF At(r, "next_timeout") THEN "504" ELSE "502")
  /\ UNCHANGED <<current, rq, db, log>>

\* the connection is not freed before another attempt.
NextPeerKeepsConn(r) ==
  /\ At(r, "next_error") \/ At(r, "next_timeout")
  /\ IF rq[r].client_error THEN FinalizeWith("499")
     ELSE IF ~rq[r].query_started /\ rq[r].remaining > 0 /\ ~rq[r].header_sent
     THEN Call("retry")
     ELSE FinalizeWith(IF At(r, "next_timeout") THEN "504" ELSE "502")
  /\ UNCHANGED <<poolVars, current, rq, db, log>>

\* ngx_http_upstream_drizzle_next for FT_ERROR and FT_TIMEOUT.  FT_NOLIVE is
\* never passed, see PeerLeft.
NextPeer(r) ==
  /\ At(r, "next_error") \/ At(r, "next_timeout")
  /\ KA!FreePeer(r, TRUE, Reusable(r))
  /\ IF rq[r].client_error THEN FinalizeWith("499")
     ELSE IF ~rq[r].query_started /\ rq[r].remaining > 0 /\ ~rq[r].header_sent
     THEN Call("retry")
     ELSE FinalizeWith(IF At(r, "next_timeout") THEN "504" ELSE "502")
  /\ UNCHANGED <<current, rq, db, log>>

Retry(r) ==
  /\ At(r, "retry")
  /\ KA!ResetPeer(r)
  /\ rq' = [rq EXCEPT ![r].state = "connect"]
  /\ Call("connect_peer")
  /\ UNCHANGED <<current, db, log>>

\* Mutant of Finalize: free_peer is not called.
FinalizeLeaks(r) ==
  /\ At(r, "finalize")
  /\ rq' = [rq EXCEPT ![r] = [NewRequest EXCEPT !.phase = "finished"]]
  /\ Call(IF cpu.copy = "none" THEN "return" ELSE "answered")
  /\ UNCHANGED <<poolVars, current, db, log>>

\* ngx_http_upstream_drizzle_finalize_request; the request's memory is freed.
Finalize(r) ==
  /\ At(r, "finalize")
  /\ KA!FreePeer(r, FALSE, Reusable(r))
  /\ rq' = [rq EXCEPT ![r] = [NewRequest EXCEPT !.phase = "finished"]]
  /\ Call(IF cpu.copy = "none" THEN "return" ELSE "answered")
  /\ UNCHANGED <<current, db, log>>

Rejected(r) == Conn(r) # None /\ conn[Conn(r)].server = Fd0

\* Mutant of Return: the handler's bottom does not look for a rejection.
ReturnAlways(r) ==
  /\ At(r, "return")
  /\ cpu' = Idle
  /\ UNCHANGED <<poolVars, current, rq, db, log>>

\* The C stack unwinds.  ngx_http_drizzle_handler, at its bottom, answers 503
\* when get_peer left a fake connection; event handlers just return.
Return(r) ==
  /\ At(r, "return")
  /\ cpu.entry = "handler" => ~Rejected(r)
  /\ cpu' = Idle
  /\ UNCHANGED <<poolVars, current, rq, db, log>>

\* Mutant of ReturnRejected: finalize_request comes before the clean-up part.
ReturnRejectedUncleaned(r) ==
  /\ At(r, "return")
  /\ cpu.entry = "handler"
  /\ Rejected(r)
  /\ cpu' = [cpu EXCEPT !.fn = "finalize", !.rc = "503", !.entry = "event"]
  /\ UNCHANGED <<poolVars, current, rq, db, log>>

ReturnRejected(r) ==
  /\ At(r, "return")
  /\ cpu.entry = "handler"
  /\ KA!FreeRejected(r)
  /\ cpu' = [cpu EXCEPT !.fn = "finalize", !.rc = "503", !.entry = "event"]
  /\ UNCHANGED <<current, rq, db, log>>

-----------------------------------------------------------------------------
(* Events.                                                                 *)

\* What wev_handler and rev_handler do without a timeout: test_connect, then
\* process_events.
IoHandler(r) ==
  Enter(r, "process_events", "event") \/ Enter(r, "next_error", "event")

\* The socket is ready.  With the read event the loop may post the write event.
DbEvent(r) ==
  /\ cpu = Idle
  /\ Waiting(r)
  /\ \E e \in db[Conn(r)].events :
       \/ UNCHANGED poolVars
       \/ e = "read" /\ "write" \in db[Conn(r)].events /\ KA!Post(Conn(r))
  /\ IoHandler(r)
  /\ UNCHANGED <<current, rq, db, log>>

\* A posted write event: of a request's connection, or of an idle one.
PostedEvent(r) ==
  /\ cpu = Idle
  /\ Waiting(r)
  /\ KA!RunPosted(Conn(r))
  /\ IoHandler(r)
  /\ UNCHANGED <<current, rq, db, log>>

PostedIdle(c) ==
  /\ cpu = Idle
  /\ conn[c].idle
  /\ KA!RunPosted(c)
  /\ UNCHANGED <<current, rq, db, cpu, log>>

\* A timer of the connection expires.
Timeout(r) ==
  /\ cpu = Idle
  /\ Waiting(r)
  /\ \E t \in Timers(r) : KA!SetTimers(r, Timers(r) \ {t})
  /\ Enter(r, "next_timeout", "event")
  /\ UNCHANGED <<current, rq, db, log>>

\* The end of a request from the client's side: check_broken_connection (499),
\* or nginx destroys the request (dbd_cleanup, NGX_DONE).
ClientAbort(r) ==
  /\ rq[r].phase = "active"
  /\ cpu = Idle
  /\ \/ /\ rq' = [rq EXCEPT ![r].client_error = TRUE]
        /\ cpu' = [Idle EXCEPT !.req = r, !.fn = "finalize", !.rc = "499"]
     \/ /\ cpu' = [Idle EXCEPT !.req = r, !.fn = "finalize", !.rc = "done"]
        /\ UNCHANGED rq
  /\ UNCHANGED <<poolVars, current, db, log>>

\* Mutants of DrainResumes: the read event is not registered again;
DrainResumesDeaf(r) ==
  /\ cpu = Idle
  /\ rq[r].paused
  /\ rq' = [rq EXCEPT ![r].paused = FALSE]
  /\ KA!SetTimers(r, Timers(r) \cup {"read"})
  /\ Enter(r, "process_events", "event")
  /\ UNCHANGED <<current, db, log>>

\* the read timeout is forgotten.
DrainResumesUntimed(r) ==
  /\ cpu = Idle
  /\ rq[r].paused
  /\ rq' = [rq EXCEPT ![r].paused = FALSE]
  /\ db' = [db EXCEPT ![Conn(r)].events = @ \cup {"read"}]
  /\ Enter(r, "process_events", "event")
  /\ UNCHANGED <<poolVars, current, log>>

\* ngx_http_drizzle_drain_output: the client has taken enough.  Only the read
\* event is registered again, with what was left of the read timeout.
DrainResumes(r) ==
  /\ cpu = Idle
  /\ rq[r].paused
  /\ rq' = [rq EXCEPT ![r].paused = FALSE]
  /\ db' = [db EXCEPT ![Conn(r)].events = @ \cup {"read"}]
  /\ KA!SetTimers(r, Timers(r) \cup {"read"})
  /\ Enter(r, "process_events", "event")
  /\ UNCHANGED <<current, log>>

\* The client's send_timeout expires, or writing to it fails.  (When it has
\* taken less than enough, drain_output only sets send_timeout again.)
DrainFails(r) ==
  /\ cpu = Idle
  /\ rq[r].paused
  /\ \E rc \in {"408", "error"} :
       cpu' = [Idle EXCEPT !.req = r, !.fn = "finalize", !.rc = rc]
  /\ UNCHANGED <<poolVars, current, rq, db, log>>

\* The close handler of an idle connection.
IdleCloses(c) ==
  /\ cpu = Idle
  /\ KA!CloseHandler(c)
  /\ UNCHANGED <<current, rq, db, cpu, log>>

CpuStep(r) ==
  \/ ConnectPeer(r)
  \/ ProcessEvents(r)
  \/ Connect(r)
  \/ SendQuery(r)
  \/ RecvCols(r)
  \/ RecvRows(r)
  \/ Done(r)
  \/ NextPeer(r)
  \/ Retry(r)
  \/ Finalize(r)
  \/ Return(r)
  \/ ReturnRejected(r)

Event(r) ==
  \/ Handler(r)
  \/ DbEvent(r)
  \/ PostedEvent(r)
  \/ Timeout(r)
  \/ ClientAbort(r)
  \/ DrainResumes(r)
  \/ DrainFails(r)

IdleEvent(c) == PostedIdle(c) \/ IdleCloses(c)

Next ==
  \/ \E r \in Requests : CpuStep(r) \/ Event(r)
  \/ \E c \in Conns : IdleEvent(c)

Spec == Init /\ [][Next]_vars

\* The event loop runs what it called to its end; the timers of nginx expire,
\* those of the database connection (a strong fairness: they are armed once
\* and no event postpones them) and the send_timeout of a client that does not
\* read; result sets are finite.
Fairness ==
  \A r \in Requests :
    /\ WF_vars(CpuStep(r))
    /\ SF_vars(Timeout(r) \/ DrainResumes(r) \/ DrainFails(r))
    /\ SF_vars(ColumnsEnd(r) \/ RowsEnd(r))

FairSpec == Spec /\ Fairness

-----------------------------------------------------------------------------
(* What must hold.                                                         *)

Settled == cpu = Idle

\* Where overflow=reject meets a body in a file, a rejection may be ended by
\* finalize_request, which counts off the fake connection (RejectKeepsMax
\* shows what follows).  Everywhere else active_conns can be relied on.
CountReliable == ~(Reject /\ BodyInFile)

\* The calls made here keep to the order of Keepalive's Next, so what is
\* shown of the pool alone holds of the pool in use: get_peer only without a
\* connection, free_peer only with a real one.  It needs CountReliable.
ImplementsKeepalive == KA!Spec

\* With overflow=reject a new connection is only opened while fewer than max
\* are open: any other request for one is rejected.
RejectKeepsMax ==
  MaxCached > 0 /\ Reject => Cardinality(KA!OpenConns) <= MaxCached

\* A connection goes into the pool only between two dialogues with the
\* server: handshake done, every answer read to its end, and the read event
\* still registered, so that its closing will be noticed.
PooledConnsQuiet ==
  \A c \in Conns : conn[c].idle =>
    /\ db[c].ready
    /\ db[c].inflight = "none"
    /\ "read" \in db[c].events

\* "set names" is only ever sent to a server whose own drizzle_server line
\* asks for it.
CharsetMatchesServer ==
  \A c \in Conns :
    conn[c].server \in Peers => db[c].names \in {None, conn[c].server}

\* No SQL of a request runs on a session whose server has charset= before
\* "set names" has been executed there, fresh connection or pooled.
CharsetBeforeQuery ==
  \A c \in Conns :
    db[c].inflight = "query" /\ conn[c].server \in HasCharset
      => db[c].names = conn[c].server

\* The request's own SQL is submitted at most once, whatever fails.
SubmittedOnce == \A r \in Requests : log[r].submits <= 1

\* A request turns to each address at most once.
OneAttemptPerAddress ==
  \A r \in Requests, p \in Peers : log[r].attempts[p] <= 1

\* Another attempt is only made while there is a peer left (so that "no live
\* upstreams" is never the answer), before any SQL, and before anything has
\* been sent to the client.
RetryStillSafe ==
  \A r \in Requests : At(r, "connect_peer") =>
    /\ rq[r].remaining > 0
    /\ ~rq[r].query_started
    /\ ~rq[r].header_sent

\* Whenever the event loop is idle, a request that waits for the database has
\* exactly one timer running on its connection; one paused for its client has
\* none, and the remaining read timeout is kept for when it goes on.
WaitIsTimed ==
  Settled => \A r \in Requests : Waiting(r) =>
    IF rq[r].paused THEN Timers(r) = {} /\ rq[r].read_timeout
    ELSE Cardinality(Timers(r)) = 1

\* A request that waits for the server's answer is told of it, however often
\* it was paused: the read event is registered.
AnswerIsHeard ==
  Settled => \A r \in Requests :
    Waiting(r) /\ ~rq[r].paused /\ rq[r].wait = "read"
      => "read" \in db[Conn(r)].events

\* What libdrizzle waits for, be it to read or to write, epoll reports.
WaitIsRegistered ==
  Settled => \A r \in Requests :
    Waiting(r) /\ ~rq[r].paused /\ rq[r].wait # "none"
      => rq[r].wait \in db[Conn(r)].events

\* Between two events every request under way has a connection to a server
\* and is what that connection's events lead to; a finished one has none, and
\* no event can reach it.  The fake connection of a rejection never survives
\* the handler: the content handler's bottom takes it back, or finalize_request
\* on the way there, and no retry from an event handler is ever rejected (the
\* last needs CountReliable).
ConnectedWhileActive ==
  Settled => \A r \in Requests :
    IF rq[r].phase = "active"
    THEN /\ Conn(r) # None
         /\ conn[Conn(r)].server \in Peers
         /\ conn[Conn(r)].data = r
    ELSE /\ Conn(r) = None
         /\ \A c \in Conns : ~conn[c].idle => conn[c].data # r

\* Columns and rows are only ever read of the request's own query: the answer
\* to "set names" is not passed on to the client.
RowsBelongToQuery ==
  \A r \in Requests :
    At(r, "recv_cols") \/ At(r, "recv_rows")
      => ~SettingNames(r) /\ db[Conn(r)].inflight = "query"

\* dbd_connect never runs on without a connection.
NoNullConnection == cpu.fn # "crash"

\* When a request is finished its memory is gone: whatever of the C stack is
\* still to return, no function that looks at the request runs any more.
NothingRunsFreed ==
  cpu.req # None /\ rq[cpu.req].phase = "finished"
    => cpu.fn \in {"answered", "return"}

\* Every request taken up is finished, whatever it waits for, over retries,
\* "set names", pauses and connections that other requests have used.
EveryRequestFinishes ==
  \A r \in Requests : rq[r].phase = "active" ~> rq[r].phase = "finished"
=============================================================================
