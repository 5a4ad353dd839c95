------------------------------- MODULE Output -------------------------------
(***************************************************************************)
(* The output of one request: the encoding of a result set as an RDS       *)
(* stream, the chain of buffers it goes through, and the client that may   *)
(* be slow, delayed by limit_rate, or not reached yet because the request  *)
(* is a subrequest whose turn has not come.                                *)
(*                                                                         *)
(* As in Upstream, functions of C are actions, fn is the one that runs     *)
(* next, and between two events fn is "wait".  libdrizzle gives the parts  *)
(* of the result as they come; the connection to the database with its     *)
(* timers is in Upstream.                                                  *)
(***************************************************************************)
EXTENDS Integers, FiniteSets, SequencesExt

CONSTANTS
  BufSize,       \* drizzle_buffer_size
  MaxBuffered,   \* drizzle_max_buffered
  MaxCols,       \* bound: columns of a result set
  MaxRows,       \* bound: rows of a result set
  MaxField       \* bound: length of a field

\* merge_loc_conf refuses other values.
ASSUME OutputAssumption ==
  /\ BufSize \in Nat \ {0}
  /\ MaxBuffered \in Nat /\ MaxBuffered >= BufSize
  /\ MaxCols \in Nat /\ MaxRows \in Nat /\ MaxField \in Nat

VARIABLES
  io,      \* buffers and counters of dp and u, and the client's side
  dp,      \* dp->state, dp->drizzle_row, dp->output_paused
  lib,     \* libdrizzle: what of the result set is still to be read
  fn,      \* the function that runs next
  status   \* how the response ended

vars == <<io, dp, lib, fn, status>>

Functions == {"send_query", "recv_cols", "read_col", "recv_rows", "read_row",
              "recv_fields", "read_field", "flush", "wait", "drain", "done",
              "finished"}

\* cap: end - start.  data: the bytes from pos to last.
NoBuf == [cap |-> 0, data |-> <<>>]

Init ==
  /\ io \in [buf : {NoBuf}, avail : {0}, out : {<<>>}, busy : {<<>>},
             free : {<<>>}, buffered : {0}, blocked : {FALSE},
             seen_end : {FALSE}, header_sent : {FALSE}, taken : {<<>>},
             active : BOOLEAN, delayed : {FALSE}, timer : {"none"}]
  /\ dp = [state |-> "send_query", row |-> FALSE, paused |-> FALSE]
  /\ lib = [cols |-> 0, col |-> 0, row |-> 0, field |-> 0, offset |-> 0,
            total |-> 0, answered |-> FALSE]
  /\ fn = "send_query"
  /\ status = "open"

-----------------------------------------------------------------------------
(* The chain of buffers.  Each operator gives the new io, or the set of the *)
(* possible ones where nginx and the client decide.                         *)

Chain(o) == o.busy \o o.out
Contents(bufs) == FlattenSeq([i \in DOMAIN bufs |-> bufs[i].data])
Capacity(bufs) ==
  LET sum[i \in 0..Len(bufs)] == IF i = 0 THEN 0 ELSE sum[i - 1] + bufs[i].cap
  IN  sum[Len(bufs)]

\* ngx_http_drizzle_queue_buf
QueueBuf(o) ==
  IF o.buf.data = <<>> THEN o
  ELSE [o EXCEPT !.out = Append(@, o.buf), !.buffered = @ + o.buf.cap,
                 !.buf = NoBuf, !.avail = 0]

\* How far the client may get: all of the first n buffers and k bytes of the
\* next one.
Positions(chain) ==
  {<<Len(chain), 0>>} \cup
  UNION {{n} \X (0..(Len(chain[n + 1].data) - 1)) : n \in 0..(Len(chain) - 1)}

\* What the client leaves of a buffer when it has taken k bytes of it.
Behind(b, k) == [b EXCEPT !.data = SubSeq(@, k + 1, Len(@))]

\* The client takes this much of the chain and ngx_chain_update_chains sorts the
\* buffers: the empty ones to free_bufs, the last one first, the others to
\* busy_bufs. buffered_output is still to be counted again.
Sorted(o, n, k) ==
  LET chain == Chain(o)
      left == SubSeq(chain, n + 1, Len(chain))
      part == IF k = 0 THEN <<>> ELSE SubSeq(left[1].data, 1, k)
  IN  [o EXCEPT !.taken = @ \o Contents(SubSeq(chain, 1, n)) \o part,
                !.free = [i \in 1..n |-> chain[n + 1 - i].cap] \o @,
                !.busy = IF k = 0 THEN left
                         ELSE <<Behind(left[1], k)>> \o Tail(left),
                !.out = <<>>]

\* Mutant of Taken: buffered_output is not counted again.
TakenUncounted(o, n, k) == Sorted(o, n, k)

Taken(o, n, k) ==
  LET p == Sorted(o, n, k) IN [p EXCEPT !.buffered = Capacity(p.busy)]

\* ngx_http_output_filter on o, whose header has been sent, just now if first.
\* Nothing is taken while limit_rate delays the client or the subrequest waits
\* for its turn; in the latter case other output may be what is buffered.
Filtered(o, first) ==
  IF ~o.active THEN {[Taken(o, 0, 0) EXCEPT !.blocked = b] : b \in BOOLEAN}
  ELSE IF o.delayed THEN {[Taken(o, 0, 0) EXCEPT !.blocked = TRUE]}
  ELSE LET all == <<Len(Chain(o)), 0>> IN
       {[Taken(o, p[1], p[2]) EXCEPT !.blocked = p # all] :
          p \in Positions(Chain(o))}
       \cup
       {[Taken(o, p[1], p[2]) EXCEPT !.blocked = TRUE, !.delayed = TRUE,
                                     !.timer = "delay"] :
          p \in {q \in Positions(Chain(o)) : q # <<0, 0>> \/ first}}

\* The first part of output_bufs: the end of the stream is queued with its
\* last bytes.
Ended(o) ==
  IF o.seen_end THEN QueueBuf([o EXCEPT !.seen_end = FALSE]) ELSE o

\* ngx_http_drizzle_output_bufs
OutputBufs(o) ==
  LET q == Ended(o) IN
  IF ~q.header_sent /\ q.out = <<>> THEN {q}
  ELSE Filtered([q EXCEPT !.header_sent = TRUE], ~q.header_sent)

\* It fails: the header is refused, or nginx keeps some of the buffers it got.
OutputBufsFails(o) ==
  LET q == Ended(o) IN
  {o, q} \cup
  {[q EXCEPT !.busy = SubSeq(Chain(q), 1, n), !.out = <<>>,
             !.header_sent = TRUE] :
     n \in IF q.header_sent \/ q.out # <<>>
           THEN Len(q.busy)..Len(Chain(q)) ELSE {}}

\* Mutants of BufferFor: drizzle_buffer_size whatever the atom; or a buffer of
\* free_bufs as it is.
BufferForAny(o, len) ==
  Max({BufSize} \cup (IF o.free = <<>> THEN {} ELSE {Head(o.free)}))

BufferForReused(o, len) ==
  IF o.free = <<>> THEN Max({len, BufSize}) ELSE Head(o.free)

\* The size of the buffer request_mem takes: one of free_bufs, made larger if
\* need be, or a new one.
BufferFor(o, len) ==
  Max({len, BufSize} \cup (IF o.free = <<>> THEN {} ELSE {Head(o.free)}))

\* Mutant of NewBuf: buffers are not used again.
NewBufAlways(o, len) ==
  [o EXCEPT !.buf = [cap |-> Max({len, BufSize}), data |-> <<>>],
            !.avail = Max({len, BufSize})]

NewBuf(o, len) ==
  [o EXCEPT !.buf = [cap |-> BufferFor(o, len), data |-> <<>>],
            !.avail = BufferFor(o, len),
            !.free = IF @ = <<>> THEN @ ELSE Tail(@)]

\* ngx_http_drizzle_request_mem
RequestMem(o, len) ==
  IF o.buf # NoBuf /\ o.avail >= len THEN {o}
  ELSE {NewBuf(p, len) : p \in OutputBufs(QueueBuf(o))}

\* ngx_http_drizzle_submit_mem, after the bytes have been filled in.
SubmitMem(o, bytes) ==
  LET p == [o EXCEPT !.buf.data = @ \o bytes, !.avail = @ - Len(bytes)]
  IN  IF p.avail = 0 THEN QueueBuf(p) ELSE p

\* Mutant of Encoded: dp->seen_stream_end is set before request_mem.
EncodedEndFirst(bytes, end) ==
  {SubmitMem(o, bytes) :
     o \in RequestMem([io EXCEPT !.seen_end = @ \/ end], Len(bytes))}

\* Encoding one atom; end: it is the last one, dp->seen_stream_end is set.
Encoded(bytes, end) ==
  {SubmitMem([o EXCEPT !.seen_end = @ \/ end], bytes) :
     o \in RequestMem(io, Len(bytes))}

\* A failure of memory or of the client somewhere in there.
EncodingFails == {QueueBuf(io)} \cup OutputBufsFails(QueueBuf(io))
                   \cup OutputBufs(QueueBuf(io))

-----------------------------------------------------------------------------
(* The end of the request.                                                  *)

\* finalize_request leaves to nginx what the filters have got; the rest goes
\* with the request's memory.  Without a response header there is an error
\* page, afterwards the response just ends.
Ends(o, how) ==
  /\ io' = [o EXCEPT !.buf = NoBuf, !.avail = 0, !.out = <<>>, !.free = <<>>,
                     !.buffered = 0, !.blocked = FALSE, !.seen_end = FALSE,
                     !.delayed = FALSE, !.timer = "none"]
  /\ dp' = [dp EXCEPT !.paused = FALSE]
  /\ fn' = "finished"
  /\ status' = how

Fails(o) == Ends(o, IF o.header_sent THEN "cut" ELSE "page")

\* ngx_http_upstream_drizzle_done: output_bufs may fail, and is not asked.
Done ==
  /\ fn = "done"
  /\ \/ \E o \in OutputBufs(io) : Ends([o EXCEPT !.header_sent = TRUE], "whole")
     \/ \E o \in OutputBufsFails(io) :
          Ends([o EXCEPT !.header_sent = TRUE], "cut")
  /\ UNCHANGED lib

-----------------------------------------------------------------------------
(* Reading the result set and encoding it.                                  *)

\* The abstract specification, whose bytes are those of this one.
Rds == INSTANCE RdsStream WITH
  sent <- io.taken \o Contents(Chain(io)) \o io.buf.data,
  taken <- io.taken,
  answered <- lib.answered

Text(n) == [i \in 1..n |-> Rds!Text]

\* An atom is encoded, and the function next goes on with dp as p; or there is
\* no memory, or the client has failed.
Encode(bytes, end, next, p) ==
  \/ /\ io' \in Encoded(bytes, end)
     /\ dp' = p
     /\ fn' = next
     /\ UNCHANGED status
  \/ \E o \in EncodingFails : Fails(o)

\* libdrizzle returns IO_WAIT: process_events calls output_bufs and returns.
Waits ==
  /\ fn' = "flush"
  /\ UNCHANGED <<io, dp, lib, status>>

\* libdrizzle returns an error, and next ends the request.
ReadFails == Fails(io) /\ UNCHANGED lib

\* ngx_http_drizzle_output_result_header, after the query has been answered.
OutputResultHeader ==
  /\ fn = "send_query"
  /\ \E n \in 0..MaxCols :
       /\ lib' = [lib EXCEPT !.cols = n, !.answered = n = 0]
       /\ Encode(<<Rds!Byte("head", n)>> \o Text(1), n = 0,
                 IF n = 0 THEN "done" ELSE "recv_cols",
                 [dp EXCEPT !.state = IF n = 0 THEN @ ELSE "recv_cols"])

SendQuery == OutputResultHeader \/ (fn = "send_query" /\ ReadFails)

\* Mutant of Stops: output_ready goes on at the threshold.
StopsAbove(o) == o.blocked \/ o.buffered + Len(o.buf.data) > MaxBuffered

\* ngx_http_drizzle_pending_output, and its comparison with max_buffered
PendingOutput(o) == o.buffered + Len(o.buf.data)
Stops(o) == o.blocked \/ PendingOutput(o) >= MaxBuffered

\* ngx_http_drizzle_output_ready, called by the loop at, which goes on with
\* next. The client's timer is set unless it delays already.
OutputReady(at, next) ==
  /\ fn = at
  /\ \/ ~Stops(io) /\ fn' = next /\ UNCHANGED <<io, dp, status>>
     \/ /\ Stops(io)
        /\ \E o \in OutputBufs(QueueBuf(io)) :
             IF Stops(o)
             THEN /\ io' = [o EXCEPT !.timer = IF o.delayed THEN @ ELSE "send"]
                  /\ dp' = [dp EXCEPT !.paused = TRUE]
                  /\ fn' = "wait"
             ELSE io' = o /\ fn' = next /\ UNCHANGED dp
        /\ UNCHANGED status
     \/ Stops(io) /\ \E o \in EncodingFails : Fails(o)
  /\ UNCHANGED lib

\* ngx_http_upstream_drizzle_recv_cols
OutputCol ==
  /\ fn = "read_col"
  /\ lib.col < lib.cols
  /\ lib' = [lib EXCEPT !.col = @ + 1]
  /\ Encode(<<Rds!Byte("col", 0)>> \o Text(1), FALSE, "recv_cols", dp)

ColumnsEnd ==
  /\ fn = "read_col"
  /\ lib.col = lib.cols
  /\ dp' = [dp EXCEPT !.state = "recv_rows"]
  /\ fn' = "recv_rows"
  /\ UNCHANGED <<io, lib, status>>

RecvCols ==
  \/ OutputReady("recv_cols", "read_col")
  \/ OutputCol
  \/ ColumnsEnd
  \/ fn = "read_col" /\ (Waits \/ ReadFails)

\* ngx_http_upstream_drizzle_recv_rows: the next row, or the end of the rows.
OutputRow ==
  /\ fn = "read_row"
  /\ lib.row < MaxRows
  /\ lib' = [lib EXCEPT !.row = @ + 1]
  /\ Encode(<<Rds!Byte("row", 1)>>, FALSE, "recv_fields",
            [dp EXCEPT !.row = TRUE])

\* Mutant of RowsEnd: an error is taken for the end of the rows.
RowsEndUnchecked ==
  /\ fn = "read_row"
  /\ UNCHANGED lib
  /\ Encode(<<Rds!Byte("row", 0)>>, TRUE, "done", dp)

RowsEnd ==
  /\ fn = "read_row"
  /\ lib' = [lib EXCEPT !.answered = TRUE]
  /\ Encode(<<Rds!Byte("row", 0)>>, TRUE, "done", dp)

\* ngx_http_drizzle_output_field, for a part of a field of that total length.
\* libdrizzle may know the length before it has any of the text.
FieldBytes(offset, len, length) ==
  (IF offset = 0 THEN <<Rds!Byte("length", length)>> ELSE <<>>) \o Text(len)

OutputField(offset, len, total, length) ==
  IF offset = 0 /\ len = 0 /\ total # 0
  THEN fn' = "recv_fields" /\ UNCHANGED <<io, dp, status>>
  ELSE Encode(FieldBytes(offset, len, length), FALSE, "recv_fields", dp)

\* A field, or the part of it that has come.
FieldRead ==
  /\ fn = "read_field"
  /\ lib.field < lib.cols
  /\ \E total \in IF lib.total > 0 THEN {lib.total} ELSE 0..MaxField :
     \E len \in (IF lib.total > 0 THEN 1 ELSE 0)..(total - lib.offset) :
     \E length \in IF total = 0 THEN {0, Rds!NullLength} ELSE {total} :
       /\ lib' = IF lib.offset + len = total
                 THEN [lib EXCEPT !.field = @ + 1, !.offset = 0, !.total = 0]
                 ELSE [lib EXCEPT !.offset = @ + len, !.total = total]
       /\ OutputField(lib.offset, len, total, length)

RowEnds ==
  /\ fn = "read_field"
  /\ lib.field = lib.cols
  /\ lib' = [lib EXCEPT !.field = 0]
  /\ dp' = [dp EXCEPT !.row = FALSE]
  /\ fn' = "recv_rows"
  /\ UNCHANGED <<io, status>>

RecvRows ==
  \/ OutputReady("recv_rows", IF dp.row THEN "recv_fields" ELSE "read_row")
  \/ OutputRow
  \/ RowsEnd
  \/ OutputReady("recv_fields", "read_field")
  \/ FieldRead
  \/ RowEnds
  \/ fn \in {"read_row", "read_field"} /\ (Waits \/ ReadFails)

\* The bottom of ngx_http_drizzle_process_events.
Flush ==
  /\ fn = "flush"
  /\ \/ /\ io' \in OutputBufs(io)
        /\ fn' = "wait"
        /\ UNCHANGED <<dp, status>>
     \/ \E o \in OutputBufsFails(io) : Fails(o)
  /\ UNCHANGED lib

-----------------------------------------------------------------------------
(* Events.                                                                  *)

\* The connection to the database is ready; paused, it has no events.
DbEvent ==
  /\ fn = "wait"
  /\ ~dp.paused
  /\ fn' = dp.state
  /\ UNCHANGED <<io, dp, lib, status>>

\* A timeout or failure of the database, or the client gives up.
Breaks == fn = "wait" /\ Fails(io) /\ UNCHANGED lib

\* drain_output is called with the client's io as it is now: o.
Drains(o) ==
  /\ io' = o
  /\ fn' = IF dp.paused THEN "drain" ELSE fn
  /\ UNCHANGED <<dp, lib, status>>

\* The client can be written to,
WriteEvent == fn = "wait" /\ dp.paused /\ io.active /\ ~io.delayed /\ Drains(io)

\* a delay of limit_rate is over,
DelayOver ==
  /\ fn = "wait"
  /\ io.active
  /\ io.timer = "delay"
  /\ Drains([io EXCEPT !.timer = "none", !.delayed = FALSE])

\* or the subrequest's turn comes, and a delay that the request before it has
\* left behind is over.
Activate ==
  /\ fn \in {"wait", "finished"}
  /\ ~io.active
  /\ Drains([io EXCEPT !.active = TRUE])

\* c->write is the client's, and out of turn the request whose turn it is uses
\* it too: it sets send_timeout, deletes it, or delays, and then output_ready
\* has set none.
OtherOutput ==
  /\ fn = "wait" /\ dp.paused
  /\ ~io.active /\ io.timer # "expired"
  /\ \E t \in {"none", "send"} : io' = [io EXCEPT !.timer = t]
  /\ UNCHANGED <<dp, lib, fn, status>>

\* Out of turn, nginx runs the handler of the request whose turn it is; this
\* one finds wev->timedout when its own turn comes.
ExpiresOutOfTurn ==
  /\ ~io.active
  /\ io' = [io EXCEPT !.timer = "expired"]
  /\ UNCHANGED <<dp, lib, fn, status>>

\* Mutant of SendTimeout: drain_output does not look at wev->timedout.
SendTimeoutIgnored ==
  /\ fn = "wait" /\ dp.paused /\ io.timer = "send"
  /\ \/ io.active /\ Drains([io EXCEPT !.timer = "none"])
     \/ ExpiresOutOfTurn

\* The client's send_timeout runs out.
SendTimeout ==
  /\ fn = "wait" /\ dp.paused /\ io.timer = "send"
  /\ \/ io.active /\ Fails(io) /\ UNCHANGED lib
     \/ ExpiresOutOfTurn

\* Mutant of TimerDeleted: the client's timer is left running.
TimerLeft(o) == o

TimerDeleted(o) == [o EXCEPT !.timer = "none"]

\* ngx_http_drizzle_drain_output, when nothing delays.
DrainOutput ==
  /\ fn = "drain"
  /\ \/ io.timer = "expired" /\ Fails(io)
     \/ /\ io.timer # "expired"
        /\ \E o \in OutputBufs(io) :
             IF Stops(o)
             THEN /\ io' = [o EXCEPT !.timer = IF o.delayed THEN @ ELSE "send"]
                  /\ fn' = "wait"
                  /\ UNCHANGED dp
             ELSE /\ io' = TimerDeleted(o)
                  /\ fn' = dp.state
                  /\ dp' = [dp EXCEPT !.paused = FALSE]
        /\ UNCHANGED status
     \/ io.timer # "expired" /\ \E o \in OutputBufsFails(io) : Fails(o)
  /\ UNCHANGED lib

\* nginx goes on sending what it got before the request ended.
NginxSends ==
  /\ fn = "finished"
  /\ io.active
  /\ \E p \in Positions(Chain(io)) \ {<<0, 0>>} :
       io' = [Taken(io, p[1], p[2]) EXCEPT !.free = <<>>, !.buffered = 0]
  /\ UNCHANGED <<dp, lib, fn, status>>

\* Nothing is left to do; a handler that cannot go on is a deadlock.
Terminated == fn = "finished" /\ UNCHANGED vars

CpuStep == SendQuery \/ RecvCols \/ RecvRows \/ Flush \/ DrainOutput \/ Done

Next ==
  \/ CpuStep
  \/ DbEvent
  \/ Breaks
  \/ WriteEvent
  \/ DelayOver
  \/ Activate
  \/ OtherOutput
  \/ SendTimeout
  \/ NginxSends
  \/ Terminated

Spec == Init /\ [][Next]_vars

HandlerRuns == fn \notin {"wait", "finished"}

\* The event loop runs a handler to its end (the first conjunct: while one
\* runs nothing else does, so this is the weak fairness of CpuStep); the timers
\* expire, also those that an event sets again, for a client is not writable
\* for ever without taking anything; and the turn of a subrequest comes.
Fairness ==
  /\ []<>(~HandlerRuns) \/ []<><<HandlerRuns>>_vars
  /\ WF_vars(Activate)
  /\ SF_vars(DelayOver)
  /\ SF_vars(SendTimeout)

FairSpec == Spec /\ Fairness

-----------------------------------------------------------------------------
(* What must hold.                                                         *)

\* The longest atom: a field whole in one part, or a header.
MaxAtom == Max({2, 1 + MaxField})

Buffers == {io.buf} \cup Range(Chain(io))

\* Types: the stream's bytes, the flags, the counters never below zero.
TypeOK ==
  /\ io.taken \in Seq([t : {"head", "col", "row", "length", "text"}, n : Int])
  /\ io.avail \in Nat /\ io.buffered \in Nat
  /\ Range(io.free) \subseteq Nat
  /\ \A f \in {"blocked", "seen_end", "header_sent", "active", "delayed"} :
       io[f] \in BOOLEAN
  /\ io.timer \in {"none", "send", "delay", "expired"}
  /\ dp \in [state : {"send_query", "recv_cols", "recv_rows"},
             row : BOOLEAN, paused : BOOLEAN]
  /\ lib.offset \in 0..MaxField /\ lib.field \in 0..lib.cols
  /\ fn \in Functions
  /\ status \in {"open", "whole", "cut", "page"}

\* No atom is written past the end of its buffer, a recycled one included.
NeverOverrun == \A b \in Buffers : Len(b.data) <= b.cap

\* The two counters say what they stand for: the room left in out_buf, and the
\* capacity of all the buffers that wait for the client.
CountersExact ==
  status = "open" =>
    /\ io.avail = io.buf.cap - Len(io.buf.data)
    /\ io.buffered = Capacity(Chain(io))

\* README: what is pending for the client exceeds drizzle_max_buffered by less
\* than one atom, however slow the client is.
PendingBounded ==
  Len(Contents(Chain(io)) \o io.buf.data) < MaxBuffered + MaxAtom

\* README: buffers are reused. There are never more of them than fit below the
\* threshold with one byte to spare, the one this byte is in, and the next.
BuffersReused ==
  Len(io.free) + Len(Chain(io)) + (IF io.buf = NoBuf THEN 0 ELSE 1)
    <= (MaxBuffered - 2) \div BufSize + 2

\* A stream that reaches the client up to the end its format defines is the
\* whole answer: what was cut by a failure can be told.
TruncationDetectable == Rds!Accepts(io.taken) => lib.answered

\* Once the turn of the request has come, the client's send_timeout runs exactly
\* while the request is paused for the client and nothing delays it: a pause
\* ends, and no request that waits for the database is ended for the client's
\* sake. Out of turn others use the timer too, and an expiry is remembered, but
\* only for a paused request.
TimerFollowsPause ==
  fn = "wait" =>
    /\ io.active => (io.timer = "send" <=> dp.paused /\ ~io.delayed)
    /\ ~io.active /\ io.timer # "none" => dp.paused
    /\ io.timer = "expired" => ~io.active
    /\ io.timer = "delay" <=> io.delayed

\* The abstract specification of the stream.
ImplementsRdsStream == Rds!Spec

\* A pause for the client ends: it is drained, or a timeout ends the request,
\* at once or, out of turn, when its turn comes.
PausesEnd == dp.paused ~> ~dp.paused
=============================================================================
