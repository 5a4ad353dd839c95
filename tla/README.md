# Verification of drizzle-nginx-module

This directory holds TLA+ models of ngx_drizzle, the nginx upstream module that
sends SQL to MySQL and Drizzle servers through libdrizzle, together with the
TLC configurations that check them and the theorems TLAPS proves about them.
Paths such as `keepalive.c:275` are relative to `src/`, the module's C sources,
without the `ngx_http_drizzle_` prefix; `README.markdown` is the module's own.

## The system

An nginx worker is one process with one event loop and no threads. A handler
runs to its end before the next event is looked at, so there is no preemption;
what is concurrent is the set of requests under way, each waiting somewhere in
the middle of its dialogue with a database, and the idle connections, whose
servers may close them at any time. All requests of one `upstream {}` block in
one worker share that block's server configuration (`dscf`), and everything
shared is there or in nginx's table of connections.

| Component | State it keeps | Operations | Hard behaviour |
|---|---|---|---|
| Keep-alive pool (`keepalive.c`) | `cache` and `free` queues of items, each item's connection, address and `has_set_names`; `active_conns` | reuse (single, multi), save, evict, close handler | two queues relinked by hand in five places; idle connections close, are evicted or drained while others are taken |
| Peers and connections (`upstream.c`) | round robin index `dscf->current`; per request `pc` and `dp`; slots of the connection table | `init_peer`, `get_peer`, `free_peer`, `free_connection` | counting in one place and counting off in another; rejection by a fake connection on fd 0; half-open attempts |
| Database state machine (`processor.c`) | `dp->state`, timers, `has_set_names` | `connect`, `send_query`, `recv_cols`, `recv_rows`, `done` | every libdrizzle call may return IO_WAIT and be entered again; `set names` comes before the query; the timers follow the state |
| Request life cycle (`util.c`) | phase of the request, `u->peer.tries`, flags such as `query_started` and `header_sent` | `dbd_init`, `dbd_connect`, `next`, `finalize_request`, client abort, cleanup | retry only when safe; finalization from many places, once |
| Handlers (`handler.c`) | none of their own | content handler, read and write event handlers, status page | time-outs, stale and posted events, clean-up of a rejection |
| Output (`output.c`) | current buffer, queue, busy and free buffers, `buffered_output`, `paused`, saved read time-out, the client's write timer | header, columns, rows, fields; `request_mem`, `submit_mem`, `output_bufs`, `output_ready`, `drain_output` | a slow client pauses the database connection and must later resume it; one timer for two purposes; memory bounded by a count of capacities |
| RDS encoding (`output.c`, `resty_dbd_stream.h`) | none | bytes of headers, columns, rows, fields that come in parts | the grammar of the stream across waits, pauses and failures |
| Configuration (`module.c`, parts of `upstream.c`, `keepalive.c`, `handler.c`) | location and server configuration | directives, merge, choice of query and target by request | inheritance of values that belong together; a location's configuration written to by requests |
| SQL checking and quoting (`checker.c`, `quoting.c`) | none | stubs | none |

The interactions: the content handler creates the upstream request and calls
`dbd_connect`, which calls `get_peer`; `get_peer` asks the pool first, then the
round robin, then opens a socket. The event handlers call `process_events`,
which runs the state machine until libdrizzle has to wait or the answer is
over; the state machine passes columns and rows to the output, which may pause
it. Every end leads to `free_peer`, through `next` (another attempt) or
`finalize_request`, and `free_peer` gives the connection to the pool or closes
it. An idle connection's events go to the pool's close handler.

What makes each part correct:

* pool: no item lost or queued twice; no connection with two owners or none;
  `active_conns` exact; with `overflow=reject` never more than `max`
  connections; the pool behaves as a stack whose oldest entry gives way;
* connections: a slot goes back to nginx without timers, posted events or
  pointers to a finished request; a fake connection is never counted, pooled
  or left over;
* state machine: `set names` before the first SQL of a session and only where
  configured; rows read only of the request's own query; every wait timed and
  registered with epoll;
* life cycle: SQL submitted at most once; retry only before SQL and before
  anything reached the client; at most one attempt per address; every request
  finishes;
* output: the client has a beginning of one legal stream, and a whole stream
  only of a whole answer; what is pending stays within the documented bound;
  buffers are reused and never overrun; a pause always ends;
* configuration: each request gets the query and the upstream that the
  directives say, and no accepted configuration has sizes the output cannot
  work with.

## The modules

| Module | What it is |
|---|---|
| `ConnPool.tla` | abstract specification of the pool: a stack of idle connections and who holds the others |
| `Keepalive.tla` | the pool and the connection slots as the C code keeps them, with all calls in every order; implements `ConnPool` |
| `Upstream.tla` | requests, round robin, libdrizzle state machine, timers, back-pressure and events, over an instance of `Keepalive`; implements `Keepalive` |
| `RdsStream.tla` | abstract specification of the output: a reader of the RDS format, and the promise that the client's bytes are a beginning of one legal stream, complete only if the answer is |
| `Output.tla` | encoder, chain of buffers, pauses and the slow client, byte for byte; implements `RdsStream` |
| `Config.tla` | the directives of nested blocks, their merge, and the choice of query and target by request |
| `MCKeepalive.tla`, `MCUpstream.tla` | instances for TLC: symmetry sets |
| `Keepalive_proofs.tla` | lemmas on sequences without repetitions (what adding and removing an element does to length, range and injectivity); the inductive invariant of `Keepalive` and its theorems |
| `Keepalive_refinement.tla` | `Keepalive` implements `ConnPool`, proved |
| `Upstream_invariant.tla` | the inductive invariant of `Upstream`, the bridge to the pool's, and what a step of one request must show to preserve it |
| `Upstream_processor.tla` | the functions of `processor.c` preserve it |
| `Upstream_proofs.tla` | so do the choice of a server, the events and the end of a request; the theorems about `Upstream` |
| `Output_lemmas.tla` | what the operators of `Output` and the reader of `RdsStream` do: recursive functions on a sequence that grows, a chain of which the client takes some, every operation on the buffers and its failure |
| `Output_proofs.tla` | the inductive invariant of `Output`, its theorems, and that it implements `RdsStream` |
| `Config_proofs.tla` | the inductive invariant of `Config` and its theorems |

### Keepalive

One action is one call from the event loop's code into `get_peer`, `free_peer`
or the close handler, or a change of the connection made by the state machine
(timers, posted write event, character set noted). `Next` lets every request
make its calls in any order in which the code could: `get_peer` without a
connection, the others with one.

| Variable | In the code |
|---|---|
| `cache`, `free` | `dscf->cache`, `dscf->free`, head of the queue first |
| `item` | `ngx_http_drizzle_keepalive_cache_t` of each item |
| `active_conns` | `dscf->active_conns` (an unsigned number in C: the model lets it go below zero and the type invariant would then fail) |
| `conn` | each slot of nginx's connection table with the `drizzle_con_st` attached to it: what it is connected to, whether the close handler is installed, `c->data`, the running timers, whether the write event is posted |
| `peer` | `pc->connection`, `pc->sockaddr`, `dp->has_set_names`, `dp->failed` |

A peer in the model is an address. The pool compares nothing else: servers
with equal addresses and different users or databases share pooled
connections, which README.markdown:259 documents. `item->used`, `pc->cached`
and the log pointers are left out because nothing but logging or the status
page reads them.

### Upstream

`cpu` says whose handler is on the C stack and which function it runs next.
Functions are actions, and between two events `cpu` is `Idle`; so a handler is
a sequence of actions with which nothing interleaves, while handlers of
different requests and close handlers interleave freely. This keeps the
order of the code's own steps (for instance a deleted timer before an error)
visible to the invariants.

| Variable | In the code |
|---|---|
| `current` | `dscf->current`, the round robin index shared by all requests |
| `rq` | the rest of `dp`, `u` and `r`: `dp->state`, `peers` index and tries, `enable_charset` with the peer it came from, `query_started`, `header_sent`, `u->headers_in.status_n`, the pause and the kept read time-out, client error; what libdrizzle waits for |
| `db` | libdrizzle, the server and epoll: handshake over, which `set names` the session has executed, which SQL is unanswered, which events are registered |
| `log` | history for the properties: attempts per address, submissions of the request's own SQL |

The environment is nondeterministic: wherever the code tells outcomes of
libdrizzle, of the socket or of the client apart, there is an alternative for
each: OK, IO_WAIT for reading or writing, error 1146 (no such table, answered
with 410), any other error, no result set, a failed write to the client, a
full client. Assumed of the environment: libdrizzle says OK for a finished
handshake; the server answers a statement once; nginx reports only events that
are registered, but may report them at any time, spuriously too; a read event
may bring the same connection's write event with it as a posted one, to run
later.

`dbd_connect` may run out of memory before `get_peer` (`ConnectPeerNoState`) and
behind it, where it reinitializes a request or reuses the buffer of a body that is
in a file (`GoOn`); it then calls `finalize_request` with whatever connection
`get_peer` has left, pooled, new or fake. `BodyInFile` says whether the requests have such
bodies: `UpstreamMulti` has them, and with overflow=reject they are the subject of
`FindRejectNoMemory`, while `UpstreamReject` shows rejections without them.

The request's memory is freed by the last `finalize_request` on the way up the C
stack. `send_query` copies what it needs of `dp` before it calls
`output_result_header`, which may get there (`processor.c:273`); the model keeps
that copy in `cpu.copy`, frees the request at `Finalize` and lets the stack
unwind through `answered`, so that `NothingRunsFreed` can tell a function that
runs for a request that is gone. The content handler's own bottom may look at
the request: `r->main->count++` (`handler.c:176`) holds it.

### Output and RdsStream

One request, from the answer's header to the last byte. As in `Upstream`,
functions of C are actions; `fn` is the one that runs next, and between two
events it is `wait`. A byte of the model is one part of the RDS format: the fixed
part of an atom is one byte, each byte of text another, so an atom of the model
has the structure of the real one (a header, a column, the mark of a row, a
field with its length and the first part of its text, a further part of it) and
is split over buffers and reads in the same places.

| Variable | In the code |
|---|---|
| `io` | `dp->out_buf` with `avail_out`, `u->out_bufs`, `u->busy_bufs`, `u->free_bufs`, `dp->buffered_output`, `dp->seen_stream_end`, `r->header_sent`, and the client: `r->buffered`, whether the request may send yet (`r == c->data`), `wev->delayed`, the timer of its write event, the bytes it has |
| `dp` | `dp->state`, `dp->drizzle_row`, `dp->output_paused` |
| `lib` | what libdrizzle has handed out of the result set; `answered`: all of it |
| `fn`, `status` | which function runs; how the response ended |

What nginx and the client do is nondeterministic: each call of the output filter
lets the client take any part of what is queued, or begins a delay of
`limit_rate`, or, for a subrequest whose turn has not come, takes nothing. A
failure may come at every call that the code checks, and the model then keeps
what the code had done up to there: some buffers queued, some of them passed on.

A client's connection has one write event for the main request and all
subrequests. A paused subrequest out of turn has armed `send_timeout` on it
(`output.c:698`) like any other; while it waits, the request whose turn it is may
set or delete the timer (`OtherOutput`), and if it expires nginx runs that request's
handler and not this one's. `wev->timedout` stays set (`"expired"` in `io.timer`), and when
the turn comes `drain_output` finds it and ends the request with 408
(`output.c:726`) instead of sending what it holds. So `TimerFollowsPause` says of a
request whose turn has come that the timer runs exactly while it is paused and
not delayed, and of the others only that they have it for a pause; and the end of a
pause that `PausesEnd` promises may be that 408.

`RdsStream` is what the client may rely on. Its reader (`ReadByte`, `Parse`) is
written from `resty_dbd_stream.h` and knows nothing of buffers. A stream is
`whole`, `cut` or replaced by an error `page`. After a failure behind the header the code
ends the response as it would end a good one (`util.c:205`), so HTTP shows
nothing; that the stream itself shows it, because the end the format defines is
missing, is `TruncationDetectable`.

### Config

The four directives that a request depends on are read in any order into three
nested blocks (a server, a location, and a location or an `if` in it), merged as
nginx merges, and then requests of any method and with any value of the target's
variables are answered. The properties compare the answers with the directives
as they were written (`written`), by definitions that know neither the merge nor
the fields it uses.

| Variable | In the code |
|---|---|
| `conf` | `ngx_http_drizzle_loc_conf_t` of each block: `default_query`, `queries`, `methods_set`, `buf_size`, `max_buffered`, `complex_target`, `upstream.upstream`, and the location's handler |
| `written` | history: the directives, for the properties only |
| `phase` | reading, running, or refused (nginx does not start) |
| `answer` | the last request and what the handler did with it |

An `if` without `drizzle_pass` in a location that has one gets the location's
handler but not its target: `complex_target` starts as `NGX_CONF_UNSET_PTR`
(`module.c:249`), is not merged, and `handler.c:117` takes everything but NULL
for a compiled value. README.markdown:272 and 431 allow the directives in a
`location if` without saying which of them are inherited there. `HandlerHasTarget` states exactly
this extent: only there is an unset target evaluated.

## Runs

Passing runs:

| Run | Instance | Distinct states | What it shows |
|---|---|---|---|
| `KeepaliveMulti` | 2 requests, 2 peers, 3 slots, pool of 2, multi, ignore | 191,935 | types, items conserved, exclusive owners, faithful items, clean slots, exact counter, refinement of `ConnPool` |
| `KeepaliveReject` | 3 requests, 2 peers, 2 slots, pool of 1, single, reject | 16,586 | the counter and the bound of `max` connections when requests are rejected, and the refinement with the bound |
| `UpstreamMulti` | 2 requests, 2 peers (one with `charset=`), 2 slots, pool of 1, multi, ignore, bodies in files | 461,463 | all safety properties of the request life cycle, and that the calls it makes of the pool are calls `Keepalive` allows |
| `UpstreamReject` | 2 requests, 2 peers, 2 slots, pool of 1, single, reject, `set names` may find no table, no body in a file | 92,113 | rejection and its clean-up in the content handler |
| `UpstreamLive` | 2 requests, 2 peers (one with `charset=`), 1 slot, pool of 1, multi, ignore | 53,218 | every request taken up is finished, over retries, `set names`, pauses and pooled connections |
| `OutputStream` | buffers of 2, threshold 3, up to 2 columns, 2 rows, fields of up to 2 bytes | 76,530 | the stream, its bounds, buffers and timers, refinement of `RdsStream`, every pause ends |
| `ConfigMerge` | 3 blocks, one an `if`; 2 methods, 2 upstreams, 4 directives | 742,870 | query, target and sizes of every request are those the directives say |

Why the bounds are enough. The pool's hazards need an item taken out of the
middle of a queue (two items, two addresses), a full pool meeting another
connection to save (three slots for a pool of two, reached with two requests
because the pool's connections are opened one after the other), a rejection
while a connection is idle and while one is in use, and a rejection without a
slot left over (three requests, two slots). The life cycle's hazards are
between two requests: one saves, is evicted, closes or takes what the other
left; a third adds no new pair. Two peers give a round robin that wraps and a
retry that can go elsewhere. A request is made once; a second visit of the
same request is the same as a new request. The output needs atoms that fit a
buffer, fill it and exceed it (one to three bytes for buffers of two), a
threshold reached with one buffer full and another begun, a row and a field cut
by a wait or a pause (two columns, fields of two bytes), and a row after
another. A configuration needs a block that inherits through another one (three
levels), queries for one, the other and both methods, and enough directives
for a query, a target and both sizes at once (four).

Bounds in the models' guards: the history counters `attempts` and `submits`
stop at 2, which is already more than the properties allow; `MaxCols`,
`MaxRows` and `MaxField` bound the result set; `MaxDirectives`, `BufSizes` and
`MaxSizes` the configuration. Nothing else needs one. `DefaultMax` stands for the
megabyte of `drizzle_max_buffered` and is four pages, larger than every size
that is given.

Deadlock is checked in the runs of the pool and of the output; there the last
state repeats itself (`Terminated`), and a handler that cannot go on would be
found. In the `Upstream` runs it is not checked because every request is made
once and the system rightly stops when all are finished, nor in `ConfigMerge`,
where a refused configuration is the end of nginx.

### Fairness

`UpstreamLive` uses `FairSpec`:

* weak fairness of `CpuStep`, for each request: the event loop runs a handler to
  its end;
* strong fairness of `Timeout \/ DrainResumes \/ DrainFails`, for each request:
  timers of the database connection are armed once, when a state is entered
  (`util.c:694`, `processor.c:225`, `318`, `396`), and no later event postpones them, so a
  request that stays in one wait meets its timer; a paused request's client reads,
  or `send_timeout` expires. Strong, because between two waits of the same
  request the action is disabled while handlers run. It is one fairness for the
  three: a request that is paused again and again need not meet its timer;
* strong fairness of `ColumnsEnd \/ RowsEnd`: result sets are finite, so a
  request that reads again and again reaches the end.

Nothing is assumed of the database: it need not ever answer. The instance leaves
out `overflow=reject` and error 1146 for `set names`: there `FindRejectNoSlot`
and `FindNamesTimer` show a request that is never finished, so the property
does not hold.

`OutputStream` uses `FairSpec` of `Output`:

* the event loop runs a handler to its end. It is written
  `[]<>(~HandlerRuns) \/ []<><<HandlerRuns>>_vars`: while a handler runs nothing
  else does, so this is the weak fairness of `CpuStep` without its `ENABLED`;
* weak fairness of `Activate`: nginx gets to a subrequest once those before it
  are finished. `OtherOutput` needs no fairness: the request whose turn it is
  need not touch the timer;
* strong fairness of `DelayOver` and `SendTimeout`: the timers of the client's
  write event expire. A write event sets `send_timeout` again, so strong
  fairness says in addition that a client is not writable for ever without taking
  a byte.

### What the code does otherwise

Five runs end in a violation. Each states what a document promises and shows a
behaviour of the code that differs. They are reported in `PROJECT.json`.

| Run | What happens |
|---|---|
| `FindCharset` | mode=single: a retry that takes a pooled connection runs the `set names` chosen for the peer tried before |
| `FindWriteEvent` | `drain_output` registers only the read event again; the connection is pooled and reused without its write event, and a query that must wait to be written is ended only by its time-out |
| `FindRejectNoSlot` | a rejection when `ngx_get_connection()` has nothing left: `dbd_connect` goes on with a NULL connection |
| `FindRejectNoMemory` | a rejected request whose body is in a file, and no memory for a link of a chain: `finalize_request` frees the fake connection like a real one, `active_conns` goes one too low, and the next request opens a connection beyond `max` |
| `FindNamesTimer` | `set names` waits and then fails with error 1146: the request's query is sent without the send-query time-out |

Remarks that are not runs:

* In mode=single a retry may take a pooled connection to the address that has
  just failed (`keepalive.c:153`), although README.markdown:235-236 says "at most
  one attempt per address per request": TLC refutes `OneAttemptPerAddress` under
  the constants of `FindCharset`. In mode=multi it is proved.
* A request that gets a pooled connection begins in `state_db_connect`, not in
  the idle state the comment at `processor.c:77` suggests; it is harmless
  because libdrizzle says OK at once.
* With mode=multi overflow=reject, idle connections to one server may fill the
  pool so that requests for another are rejected until somebody closes one; no
  document promises otherwise.
* The bound of README.markdown:396-402 on what is pending for the client
  (`PendingBounded`) is tight: a bound one byte lower is violated.
* A client alone never brings the output to the threshold without being
  `blocked` first: for a main request the pause comes from `r->buffered`, and the
  threshold matters to a subrequest whose turn has not come.
* `drizzle_server` refuses a `dbname`, `user` or `password` that is too long by
  way of `dscf->peers`, which is NULL while the configuration is read, and says
  "at most %d" of a size that its own `>=` already refuses.
* `drizzle_keepalive` sees that it stands twice only if the first one had
  `max` other than 0.

## Theorems

`Keepalive_proofs.tla` proves the properties of the pool for any sets of
requests, peers and slots, any `max`, both modes and both overflow actions. The
only assumptions are `KeepaliveAssumption` of `Keepalive.tla`: `MaxCached` is a
natural number, the flags are Boolean, there are finitely many slots, and
`None` and `Fd0` are not slots or peers. TLC evaluates the assumption on every
run of the pool.

The properties are not inductive by themselves. `ExclusiveOwner` says that
idle and used connections are disjoint, but a call knows only one item or one
request, and finds the other side through pointers: the close handler goes
from `c->data` to the item, the evicting save from the item to the connection,
a request's handlers from `c->data` to the request. The strengthening `IInv`
therefore says that these pointers lead back:

* `CachedLeadsBack`: a cached item's connection is idle, open to the item's
  address, untimed, and its `c->data` is the item;
* `IdleIsCached`: an idle slot's `c->data` is a cached item that has this slot;
* `HeldLeadsBack`: a request's connection is not idle, is open to the request's
  address or fake, and its `c->data` is the request;
* `UsedIsHeld`: a slot in use and not idle is some request's connection;

with `TypeOK`, `QueuesConserveItems`, `FreeSlotsClean`, `ActiveConnsExact` and
`RejectBoundsConns`. Two items or two requests with the same connection are then
impossible because one `c->data` cannot lead to both.

The argument: `InitIInv`; one lemma for each kind of step, on top of four that
say what happens to the ownership when a slot is taken (`SlotTaken`), freed
(`SlotFreed`), saved in an item (`SlotSaved`) or only its timers or its
request's memory change (`SlotStep`, `PeerStep`); `CountUp` and `CountDown` for
the number of open connections; `NextIInv` puts them together; `Invariance` is
`Spec => []IInv`. From it: `TypeCorrect`, `ItemsConserved`,
`NoSharedOrLeakedConnection`, `PooledItemsStayFaithful`, `SlotsReturnedClean`,
`ActiveConnsCounted`, `RejectBounds` and `NeverMoreThanMax`, the last about the
connections really open and not about the counter. The queue moves rest on
the lemmas on sequences without repetitions that the module begins with.

`IInv` itself was found with TLC on both instances of the pool before it was
proved.

`Keepalive_refinement.tla` proves `ImplementsPool`, `Spec => Pool!Spec`: the pool as
a sequence of connections and the users as a function are computed from the
queue, the items and the requests, and `IInv` says enough of the pointers to
show what each call does to them. Taking an item is `Borrow`, opening `Open`, a
save in a free item or over the oldest `Return`, a close `Discard`, the close
handler `Expire`; a rejection, timers, posted events and the request's own
memory are stutters. Taking an item
from the middle of the queue rests on the same lemmas on sequences.

`Upstream_proofs.tla` proves the properties of the request life cycle for any
number of requests, servers and slots, from `UpstreamAssumption`: the servers are
numbered from 0 as in the code's array, there are finitely many slots, and
`None` and `Fd0` are not requests, slots or servers. TLC evaluates it on every
run of `Upstream`. All of them assume `CountReliable` too: not overflow=reject with
bodies in files. There `active_conns` may go too low, or wrap around, by what
`FindRejectNoMemory` shows, and with it goes the pool's invariant, on which all
else rests. For overflow=ignore, and for requests without a body in a file, nothing is
assumed of memory: each allocation that `dbd_connect` checks may fail. The
invariant `IInv` of `Upstream_invariant.tla` has these parts:

* of each request, by the function that runs next for it: whether it has a
  connection (`Placed`), how far its dialogue has come (`Progressed`), what can
  be relied on of the session (`Connects`), which timers run (`Timed`) and, in
  mode=multi, whose character set the session has (`Named`) and which addresses
  are still untried (`Tried`). Together they are `Good`, stated of values: what
  one request does then leaves the others' part alone by substitution;
* of each idle connection: its session is ready, has nothing in flight and is
  registered for reading (`Reliable`). This is what a request that takes it from
  the pool starts from, and why the properties hold across requests;
* of the pool: the invariant of `Keepalive_proofs`, by way of an instance of
  `Keepalive_refinement`;
* `Room`: an event handler that freed a connection has made room for the retry,
  so only the content handler's `get_peer` rejects a request.

Without the first part the properties are not inductive because a handler is
several steps of the model: that rows are the query's, for instance, needs what
was in flight when `recv_cols` was entered, which needs the state in which
`process_events` was entered, which needs what the last wait left.

The argument: `PoolStep` takes the pool's part from `Keepalive_proofs`, whose
lemmas speak of the same definitions (`SameInit`, `SameNext`); one lemma for
each kind of call says what the call leaves of the connections of others;
`StepOfRequest`, `OwnStep` and `PoolCallStep` reduce a step to the parts of the
request that takes it; then one lemma for each function and event. All steps
together are `NextIInv`. The theorems:

* under nothing but `CountReliable`: `TypeCorrect`, `PooledQuiet`,
  `NeverSubmittedTwice`, `RetriesAreSafe`, `RowsAreTheQuerys`, `FreedIsNotRead`,
  `ActiveIsConnected`, `AnswersAreHeard`;
* `OneAttempt` and `OwnCharset` in mode=multi, `WaitsAreTimed` where no server
  answers `set names` with error 1146, `CharsetComesFirst` under both. The
  conditions are those without which `FindCharset`, `FindNamesTimer` and the
  remark on mode=single above show them to fail;
* `CallsAreAllowed`: `Spec => ImplementsKeepalive`. Every call the life cycle
  makes is one `Keepalive` allows, so the theorems on the pool are true of the pool
  in use. `PoolInUse` states the safety of the connections there, and
  `PoolInUseIsStack` composes the two refinements: requests, servers, libdrizzle and
  clients together implement `ConnPool`.

`Config_proofs.tla` proves all properties of `Config`, for any methods, upstreams,
sizes and any number of directives, from `ConfigAssumption`. While directives are
read the invariant says field by field what the block's own directives have
left in it; in the running phase it says the same of the block each field was
inherited from. A location's `upstream` field is the one thing that requests
still change, and the invariant only fixes it for targets without variables.
`AnswerKept` then restates the properties of the last answer, which no later
request touches.

`Output_proofs.tla` proves every safety property of `Output` and that it implements
`RdsStream`, for any size of buffers, any threshold, and any bounds on columns,
rows and the bytes of a field, from `OutputAssumption`: `BufSize` is positive and not above
`MaxBuffered`, which is what the merge of the configuration lets pass (`SizesUsable`
of `Config`). TLC evaluates it on `OutputStream`. The properties say nothing of where
in the result set the module is, so they are not inductive: that `row` may be
encoded next needs that the reader has just had a whole row, and that a
failure leaves no end behind needs to know where the end could be. `IInv` has these
parts:

* `Streaming`: a reader that has had all bytes of the response, those with the client,
  in the chain and in the buffer being filled, is exactly where `Expected` says,
  which is a function of the function that runs, of `dp` and of libdrizzle's place in the
  result set; the end of the stream is pending (`seen_end`) only in `done`;
  and what is encoded into has room below the threshold;
* `Stored`, within it: the counters are what they count, every buffer is filled from its
  start and not beyond its capacity, and no buffer has less than `BufSize`;
* `Client` and `Pausing`: the client's flags, its timer and the pause, by function
  and by whether the turn has come;
* `Bounded`: the bytes pending and the number of buffers;
* `LibOK` and `Agrees`: libdrizzle's place in the result set, and that the function that
  runs goes with it;
* `Closed`: once the response has ended, nothing is left but what nginx has got, and it
  is the beginning of a legal stream, whole only if the answer was.

On the instance of `OutputStream` TLC finds `IInv` to hold in every state, too.

The argument has three layers. `Output_lemmas.tla` shows what the operators do for
every sequence: reading one more byte (`ParseOfAppend`), the bytes and the capacity of a
longer chain, a field's text of any length (`TextRead`), and that a reader who has
failed never recovers (`ErrorStays`), so every beginning of a legal stream is legal
(`Beginnings`). Above that, each operation on the buffers: queueing one (`Queued`),
the client taking any part of the chain (`TakenMoves`: the bytes keep their order
and none is lost or doubled), `output_bufs` when it succeeds (`OutputBufsPasses`) and when
nginx refuses some of the chain (`OutputBufsFailsEnding`), a new or a reused
buffer (`NewBufFacts`) and an atom written into it (`EncodedFacts`). In
`Output_proofs.tla` a step then is one of few kinds, each with a lemma: the function moves
on (`GoesOn`), an atom is encoded (`EncodeStep`), the response ends (`EndsStep`) or fails
(`FailsStep`). Each action is one lemma on these; every one of them shows at once that
`IInv` is kept and that the abstract stream takes a step or stutters. `NextStep` puts
them together; `Invariance` is `Spec => []IInv` and `ImplementsStream` the
refinement.

The induction that the recursive functions need is written with sets: the set of the
lengths, or of the sequences, that have the property is everything because otherwise
there would be a least one outside it (`NatSet`, `SeqSet`). This needs no theorem with
an operator for a parameter. The client's progress is counted in whole
buffers and bytes of the next one (`Positions`), as `ngx_chain_update_chains` walks
the chain.

What is only model-checked is liveness: that every request taken up is finished
(`UpstreamLive`) and that every pause ends (`PausesEnd` in `OutputStream`), since
`ENABLED` and fairness are out of the prover's reach. Every safety property and
refinement that a passing run checks has a theorem; those of `Upstream` that the
theorems state under a condition are checked as they stand, on instances that
meet it.

## Not modelled

* Parsing of `drizzle_server`, `drizzle_keepalive`, `drizzle_dbname` and the
  time-outs, address resolution, and the nginx core's choice of an upstream
  block at run time: they run before the first call of `get_peer` or have no
  state of their own. An empty SQL text at request time is the second
  alternative of `Handler`.
* The tables that turn libdrizzle's column types and flags into RDS types
  (`output.c:437-529`), and the contents of the RDS header: one byte each in
  `Output`.
* HEAD requests, for which nginx sends no body: the module never looks at
  `r->header_only` before it encodes.
* What the other requests of a client's connection leave on its write event while
  this one is not paused, a `send_timeout` that ran out for them say; a delay of
  `limit_rate` that is left when a subrequest's turn comes belongs to the time
  before `Activate`.
* nginx before 1.11.13, where nothing clears `wev->delayed` of a request that is
  not paused when its delay is over.
* Another nginx module that wraps `u->peer.data`, the reason why the code keeps
  `dp` in the module's context too: it would pass every call on unchanged.
* The status page (read-only), SQL checking and quoting (stubs), debug macros.
* Several upstream blocks and several workers: they share nothing but the
  connection table, whose exhaustion `RejectPeerNoSlot` and `OpenFails` allow at
  any time.

## Plan

Done: the pool with its abstract specification, its proofs and the proof that
it implements that specification; the request life cycle over it, with the proofs
of its safety properties and that it uses the pool as the pool allows; the output
over an abstract stream, with the proofs of its safety properties and of the
refinement; the configuration with its proofs. Left:

1. A condition under which the requests that mode=multi overflow=reject turns away
   would have been served, for the hazard that idle connections to one server fill
   the pool.
