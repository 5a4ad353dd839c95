------------------------------ MODULE ConnPool ------------------------------
(***************************************************************************)
(* What the keep-alive pool of one upstream block promises, without its    *)
(* cache items, its two queues and its counter: a stack of idle database   *)
(* connections, most recently returned first, of at most Limit entries.    *)
(* A request borrows an idle connection, opens a new one, and in the end   *)
(* returns it (the oldest idle connection gives way when the stack is      *)
(* full) or discards it.  Keepalive.tla is shown to implement this.        *)
(***************************************************************************)
EXTENDS Integers, FiniteSets, SequencesExt

CONSTANTS
  Requests,   \* the HTTP requests
  Conns,      \* the connections
  Limit,      \* the capacity of the stack, a natural number, 0: no stack
  Bounded,    \* TRUE: no more than Limit connections are open at a time
  None        \* no connection

VARIABLES
  pool,       \* the idle connections, most recently returned first
  held        \* the connection each request uses, or None

vars == <<pool, held>>

Idle == {pool[i] : i \in DOMAIN pool}
Held == {held[r] : r \in Requests} \ {None}

TypeOK ==
  /\ pool \in Seq(Conns)
  /\ held \in [Requests -> Conns \cup {None}]

Init ==
  /\ pool = <<>>
  /\ held = [r \in Requests |-> None]

\* A request takes an idle connection, any of them: which one is the mode's
\* affair.
Borrow(r) ==
  /\ held[r] = None
  /\ \E i \in DOMAIN pool :
       /\ held' = [held EXCEPT ![r] = pool[i]]
       /\ pool' = RemoveAt(pool, i)

\* A request opens a connection nobody has.
Open(r) ==
  /\ held[r] = None
  /\ Bounded => Limit = 0 \/ Cardinality(Idle \cup Held) < Limit
  /\ \E c \in Conns \ (Idle \cup Held) : held' = [held EXCEPT ![r] = c]
  /\ UNCHANGED pool

\* A request gives its connection back; the one idle for longest is closed
\* when there is no room.
Return(r) ==
  /\ held[r] # None
  /\ Limit > 0
  /\ pool' = Cons(held[r], IF Len(pool) = Limit THEN Front(pool) ELSE pool)
  /\ held' = [held EXCEPT ![r] = None]

\* A request closes its connection.
Discard(r) ==
  /\ held[r] # None
  /\ held' = [held EXCEPT ![r] = None]
  /\ UNCHANGED pool

\* An idle connection is closed.
Expire ==
  /\ \E i \in DOMAIN pool : pool' = RemoveAt(pool, i)
  /\ UNCHANGED held

Next ==
  \/ \E r \in Requests : Borrow(r) \/ Open(r) \/ Return(r) \/ Discard(r)
  \/ Expire

Spec == Init /\ [][Next]_vars
=============================================================================
