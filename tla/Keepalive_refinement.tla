------------------------ MODULE Keepalive_refinement ------------------------
(***************************************************************************)
(* Keepalive implements ConnPool: seen from outside, the cache items, the  *)
(* two queues and the counter are a bounded stack of idle connections.     *)
(*                                                                         *)
(* Each call of the code is one step of ConnPool or none: the argument is  *)
(* the invariant of Keepalive_proofs, which says that an item moved from   *)
(* one queue to the other is the one that owns the connection.             *)
(***************************************************************************)
EXTENDS Keepalive_proofs

\* The variables of ConnPool, as Keepalive's Pool substitutes them.
Stack == [i \in DOMAIN cache |-> item[cache[i]].connection]
Users == [r \in Requests |-> IF Connected(r) THEN peer[r].connection ELSE None]

-----------------------------------------------------------------------------
(* ConnPool's actions, of these two.                                       *)

LEMMA PoolSequences ==
  /\ \A s, n : Pool!RemoveAt(s, n) = RemoveAt(s, n)
  /\ \A s, e : Pool!Cons(e, s) = Cons(e, s)
  /\ \A s : Pool!Front(s) = Front(s)
BY DEF Pool!RemoveAt, RemoveAt, Pool!Cons, Cons, Pool!Front, Front

LEMMA PoolCounts == \A S : Pool!Cardinality(S) = Cardinality(S)
BY DEF Pool!Cardinality, Cardinality

LEMMA PoolBorrow ==
  ASSUME NEW r \in Requests, NEW i \in DOMAIN Stack, Users[r] = None,
         Users' = [Users EXCEPT ![r] = Stack[i]], Stack' = RemoveAt(Stack, i)
  PROVE  Pool!Next
<1>1. Pool!Borrow(r)
  BY PoolSequences DEF Pool!Borrow, Stack, Users
<1> QED BY <1>1 DEF Pool!Next

LEMMA PoolOpen ==
  ASSUME IInv, NEW r \in Requests, NEW c \in Conns \ OpenConns, Users[r] = None,
         Users' = [Users EXCEPT ![r] = c], UNCHANGED Stack,
         Reject => MaxCached = 0 \/ Cardinality(OpenConns) < MaxCached
  PROVE  Pool!Next
<1>1. Pool!Idle = IdleConns
  BY DEF Pool!Idle, IdleConns
<1>2. Pool!Held = HeldConns
  <2>1. \A s \in Requests : Connected(s) => peer[s].connection # None
    BY DEF Connected
  <2> QED BY <2>1 DEF Pool!Held, HeldConns
<1>3. Pool!Idle \cup Pool!Held = OpenConns
  BY <1>1, <1>2, OwnersExclusive DEF ExclusiveOwner
<1>4. Pool!Open(r)
  BY <1>3, PoolCounts DEF Pool!Open, Stack, Users
<1> QED BY <1>4 DEF Pool!Next

LEMMA PoolReturn ==
  ASSUME NEW r \in Requests, Users[r] # None, MaxCached > 0,
         Users' = [Users EXCEPT ![r] = None],
         Stack' = Cons(Users[r], IF Len(Stack) = MaxCached THEN Front(Stack)
                                 ELSE Stack)
  PROVE  Pool!Next
<1>1. Pool!Return(r)
  BY PoolSequences DEF Pool!Return, Stack, Users
<1> QED BY <1>1 DEF Pool!Next

LEMMA PoolDiscard ==
  ASSUME NEW r \in Requests, Users[r] # None,
         Users' = [Users EXCEPT ![r] = None], UNCHANGED Stack
  PROVE  Pool!Next
<1>1. Pool!Discard(r)
  BY DEF Pool!Discard, Stack, Users
<1> QED BY <1>1 DEF Pool!Next

LEMMA PoolExpire ==
  ASSUME NEW i \in DOMAIN Stack, Stack' = RemoveAt(Stack, i), UNCHANGED Users
  PROVE  Pool!Next
<1>1. Pool!Expire
  BY PoolSequences DEF Pool!Expire, Stack, Users
<1> QED BY <1>1 DEF Pool!Next

-----------------------------------------------------------------------------
(* What the invariant says of the stack and its users.                     *)

LEMMA StackTyped ==
  ASSUME IInv
  PROVE  /\ Stack \in Seq(Conns) /\ Len(Stack) = Len(cache)
         /\ cache \in Seq(Items) /\ DOMAIN Stack = DOMAIN cache
         /\ \A i \in DOMAIN cache : cache[i] \in ToSet(cache)
<1>1. cache \in Seq(Items) /\ DOMAIN cache = 1..Len(cache) /\ Len(cache) \in Nat
  <2>1. cache \in Seq(Items)
    BY DEF IInv, TypeOK
  <2> QED BY <2>1
<1>2. \A i \in DOMAIN cache : cache[i] \in ToSet(cache)
  BY DEF ToSet
<1>3. \A i \in 1..Len(cache) : item[cache[i]].connection \in Conns
  BY <1>1, <1>2 DEF IInv, CachedLeadsBack
<1>4. Stack = [i \in 1..Len(cache) |-> item[cache[i]].connection]
  BY <1>1 DEF Stack
<1>5. Stack \in Seq(Conns)
  BY <1>1, <1>3, <1>4, IsASeq
<1>6. DOMAIN Stack = 1..Len(cache)
  BY <1>4
<1> QED BY <1>1, <1>2, <1>5, <1>6, LenProperties

\* The requests other than r keep their connections, and r has what it gets.
LEMMA UsersStep ==
  ASSUME IInv, NEW r \in Requests, NEW c \in Conns \cup {None},
         IF c = None
         THEN peer'[r].connection = None \/ conn'[peer'[r].connection].server = Fd0
         ELSE peer'[r].connection = c /\ conn'[c].server # Fd0,
         \A s \in Requests \ {r} :
           /\ peer'[s].connection = peer[s].connection
           /\ peer[s].connection # None =>
                conn'[peer[s].connection].server = conn[peer[s].connection].server
  PROVE  Users' = [Users EXCEPT ![r] = c]
<1>1. \A s \in Requests \ {r} : Connected(s)' = Connected(s)
  BY DEF Connected
<1>2. Connected(r)' = (c # None)
  BY KeepaliveAssumption DEF Connected
<1>3. \A s \in Requests : Users'[s] = IF s = r THEN c ELSE Users[s]
  BY <1>1, <1>2 DEF Users
<1> QED BY <1>3 DEF Users

\* The stack follows the cache queue when an item leaves it,
LEMMA StackRemoved ==
  ASSUME IInv, NEW i \in DOMAIN cache, cache' = RemoveAt(cache, i), item' = item
  PROVE  i \in DOMAIN Stack /\ Stack' = RemoveAt(Stack, i)
<1>1. /\ Stack \in Seq(Conns) /\ Len(Stack) = Len(cache)
      /\ cache \in Seq(Items) /\ DOMAIN Stack = DOMAIN cache
  BY StackTyped
<1>2. /\ Len(cache) \in Nat /\ DOMAIN cache = 1..Len(cache)
      /\ DOMAIN cache' = 1..(Len(cache) - 1)
      /\ \A j \in 1..(Len(cache) - 1) :
           cache'[j] = IF j < i THEN cache[j] ELSE cache[j + 1]
  BY <1>1, RemoveAtElements
<1>3. /\ RemoveAt(Stack, i) \in Seq(Conns)
      /\ DOMAIN RemoveAt(Stack, i) = 1..(Len(cache) - 1)
      /\ \A j \in 1..(Len(cache) - 1) :
           RemoveAt(Stack, i)[j] = IF j < i THEN Stack[j] ELSE Stack[j + 1]
  BY <1>1, RemoveAtElements
<1>4. \A j \in DOMAIN cache : Stack[j] = item[cache[j]].connection
  BY DEF Stack
<1>5. ASSUME NEW j \in 1..(Len(cache) - 1)
      PROVE  item[cache'[j]].connection = RemoveAt(Stack, i)[j]
  BY <1>2, <1>3, <1>4
<1>6. Stack' = [j \in 1..(Len(cache) - 1) |-> item[cache'[j]].connection]
  BY <1>2 DEF Stack
<1>7. RemoveAt(Stack, i) = [j \in 1..(Len(cache) - 1) |-> RemoveAt(Stack, i)[j]]
  BY <1>3, LenProperties
<1> QED BY <1>1, <1>5, <1>6, <1>7

\* and when q, which was not in it, enters it with connection c.
LEMMA StackPushed ==
  ASSUME IInv, NEW q \in Items, NEW c \in Conns, cache' = Cons(q, cache),
         item'[q].connection = c, \A p \in ToSet(cache) : item'[p] = item[p]
  PROVE  Stack' = Cons(c, Stack)
<1>1. /\ Stack \in Seq(Conns) /\ Len(Stack) = Len(cache)
      /\ cache \in Seq(Items) /\ DOMAIN Stack = DOMAIN cache
      /\ \A i \in DOMAIN cache : cache[i] \in ToSet(cache)
  BY StackTyped
<1>2. /\ Len(cache) \in Nat /\ DOMAIN cache = 1..Len(cache)
      /\ DOMAIN cache' = 1..(Len(cache) + 1)
      /\ \A j \in 1..(Len(cache) + 1) :
           cache'[j] = IF j = 1 THEN q ELSE cache[j - 1]
  <2>1. cache \in Seq(Items)
    BY <1>1
  <2>2. DOMAIN Cons(q, cache) = 1..(Len(cache) + 1)
    BY <2>1, ConsElements
  <2>3. DOMAIN cache = 1..Len(cache) /\ Len(cache) \in Nat
    BY <2>1, LenProperties
  <2>4. \A j \in 1..(Len(cache) + 1) :
          cache'[j] = IF j = 1 THEN q ELSE cache[j - 1]
    <3>1. \A s \in Seq(Items) : \A j \in 1..(Len(s) + 1) :
            Cons(q, s)[j] = IF j = 1 THEN q ELSE s[j - 1]
      BY ConsElements
    <3> QED BY <2>1, <3>1
  <2> QED BY <2>2, <2>3, <2>4
<1>3. /\ Cons(c, Stack) \in Seq(Conns)
      /\ DOMAIN Cons(c, Stack) = 1..(Len(cache) + 1)
      /\ \A j \in 1..(Len(cache) + 1) :
           Cons(c, Stack)[j] = IF j = 1 THEN c ELSE Stack[j - 1]
  <2>1. Stack \in Seq(Conns) /\ Len(Stack) = Len(cache)
    BY <1>1
  <2>2. Cons(c, Stack) \in Seq(Conns)
    BY <2>1, ConsElements
  <2>3. DOMAIN Cons(c, Stack) = 1..(Len(Stack) + 1)
    BY <2>1, ConsElements
  <2>4. \A j \in 1..(Len(Stack) + 1) :
          Cons(c, Stack)[j] = IF j = 1 THEN c ELSE Stack[j - 1]
    BY <2>1, ConsElements
  <2> QED BY <2>1, <2>2, <2>3, <2>4
<1>4. \A j \in DOMAIN cache : Stack[j] = item'[cache[j]].connection
  BY <1>1 DEF Stack
<1>5. ASSUME NEW j \in 1..(Len(cache) + 1)
      PROVE  item'[cache'[j]].connection = Cons(c, Stack)[j]
  BY <1>2, <1>3, <1>4
<1>6. Stack' = [j \in 1..(Len(cache) + 1) |-> item'[cache'[j]].connection]
  BY <1>2 DEF Stack
<1>7. Cons(c, Stack) = [j \in 1..(Len(cache) + 1) |-> Cons(c, Stack)[j]]
  BY <1>3, LenProperties
<1> QED BY <1>5, <1>6, <1>7

-----------------------------------------------------------------------------
(* Every call is one of ConnPool's actions, or none.                       *)

\* Neither the cache nor who is connected to what changes.
LEMMA Quiet ==
  ASSUME UNCHANGED <<cache, item>>,
         \A s \in Requests : peer'[s].connection = peer[s].connection,
         \A s \in Requests : peer[s].connection # None =>
           conn'[peer[s].connection].server = conn[peer[s].connection].server
  PROVE  UNCHANGED Pool!vars
<1>1. \A s \in Requests : Connected(s)' = Connected(s)
  BY DEF Connected
<1>2. Users' = Users
  BY <1>1 DEF Users
<1>3. Stack' = Stack
  BY DEF Stack
<1> QED BY <1>2, <1>3 DEF Pool!vars, Stack, Users

\* The calls that change what a request remembers, but not its connection.
LEMMA QuietCalls ==
  ASSUME IInv, NEW r \in Requests,
         \/ peer[r].connection = None /\ (InitPeer(r) \/ ResetPeer(r))
         \/ peer[r].connection = None /\ \E p \in Peers :
              RejectPeerNoSlot(r, p) \/ OpenFails(r, p)
         \/ SetNames(r)
         \/ \E failing \in BOOLEAN : FreePeerAgain(r, failing)
  PROVE  UNCHANGED Pool!vars
<1>1. peer \in [Requests -> PeerType]
  BY DEF IInv, TypeOK
<1>2. UNCHANGED <<cache, item, conn>>
  BY DEF InitPeer, ResetPeer, RejectPeerNoSlot, OpenFails, SetNames, FreePeerAgain
<1>3. \A s \in Requests : peer'[s].connection = peer[s].connection
  <2>1. \A s \in Requests : peer[s] \in PeerType
    BY <1>1
  <2>2. CASE peer[r].connection = None /\ InitPeer(r)
    BY <1>1, <2>2 DEF InitPeer, FreshPeer
  <2>3. CASE ResetPeer(r) \/ SetNames(r)
    BY <1>1, <2>1, <2>3 DEF ResetPeer, SetNames, PeerType
  <2>4. ASSUME NEW p \in Peers, peer[r].connection = None,
               RejectPeerNoSlot(r, p) \/ OpenFails(r, p)
        PROVE  \A s \in Requests : peer'[s].connection = peer[s].connection
    <3>1. ChosenPeer(r, p, None).connection = None
      BY <2>1 DEF ChosenPeer, PeerType
    <3> QED BY <1>1, <2>4, <3>1 DEF RejectPeerNoSlot, OpenFails
  <2>5. ASSUME NEW failing \in BOOLEAN, FreePeerAgain(r, failing)
        PROVE  \A s \in Requests : peer'[s].connection = peer[s].connection
    BY <1>1, <2>1, <2>5 DEF FreePeerAgain, PeerType
  <2> QED BY <2>2, <2>3, <2>4, <2>5
<1> QED BY <1>2, <1>3, Quiet

\* Timers and posted events.
LEMMA QuietEvents ==
  ASSUME IInv,
         \/ \E r \in Requests, timers \in TimerSets : SetTimers(r, timers)
         \/ \E c \in Conns : Post(c) \/ RunPosted(c)
  PROVE  UNCHANGED Pool!vars
<1>1. conn \in [Conns -> ConnType] /\ peer \in [Requests -> PeerType]
  BY DEF IInv, TypeOK
<1>2. UNCHANGED <<cache, item, peer>>
  BY DEF SetTimers, Post, RunPosted
<1>3. \A c \in Conns : conn'[c].server = conn[c].server
  <2>1. \A c \in Conns : conn[c] \in ConnType
    BY <1>1
  <2>2. ASSUME NEW d, NEW timers, conn' = [conn EXCEPT ![d].timers = timers]
        PROVE  \A c \in Conns : conn'[c].server = conn[c].server
    BY <1>1, <2>1, <2>2 DEF ConnType
  <2>3. ASSUME NEW d, NEW posted, conn' = [conn EXCEPT ![d].posted = posted]
        PROVE  \A c \in Conns : conn'[c].server = conn[c].server
    BY <1>1, <2>1, <2>3 DEF ConnType
  <2> QED BY <2>2, <2>3 DEF SetTimers, Post, RunPosted
<1>4. \A s \in Requests : peer[s].connection # None => peer[s].connection \in Conns
  BY <1>1 DEF PeerType
<1> QED BY <1>2, <1>3, <1>4, Quiet

\* Two requests never have the same slot, and a free slot is nobody's.
LEMMA SlotsApart ==
  ASSUME IInv
  PROVE  /\ \A r, s \in Requests : r # s /\ peer[r].connection # None =>
              peer[s].connection # peer[r].connection
         /\ \A s \in Requests : peer[s].connection # None =>
              /\ peer[s].connection \in Conns
              /\ conn[peer[s].connection].server # None
              /\ ~conn[peer[s].connection].idle
<1>1. \A s \in Requests : peer[s].connection # None => peer[s].connection \in Conns
  BY DEF IInv, TypeOK, PeerType
<1>2. \A s \in Requests : peer[s].connection # None =>
        /\ conn[peer[s].connection].server # None
        /\ ~conn[peer[s].connection].idle
        /\ conn[peer[s].connection].data = s
  BY KeepaliveAssumption DEF IInv, HeldLeadsBack
<1> QED BY <1>1, <1>2

\* The fake connection of a rejected request is none of the pool's.
LEMMA RejectQuiet ==
  ASSUME IInv, NEW r \in Requests, NEW p \in Peers,
         peer[r].connection = None, RejectPeer(r, p)
  PROVE  UNCHANGED Pool!vars
<1>1. conn \in [Conns -> ConnType] /\ peer \in [Requests -> PeerType]
  BY DEF IInv, TypeOK
<1>2. PICK c \in FreeSlots :
        /\ conn' = [conn EXCEPT ![c].server = Fd0, ![c].data = r,
                                ![c].timers = @ \cup {"write"}]
        /\ peer' = [peer EXCEPT ![r] = ChosenPeer(r, p, c)]
  BY DEF RejectPeer
<1>3. c \in Conns /\ conn[c].server = None
  BY DEF FreeSlots
<1>4. /\ peer'[r].connection = c /\ conn'[c].server = Fd0
      /\ \A s \in Requests \ {r} : peer'[s] = peer[s]
      /\ \A d \in Conns \ {c} : conn'[d] = conn[d]
  BY <1>1, <1>2, <1>3 DEF ChosenPeer, PeerType, ConnType
<1>5. \A s \in Requests \ {r} : peer[s].connection # None =>
        peer[s].connection \in Conns \ {c}
  BY <1>3, SlotsApart
<1>6. Users' = [Users EXCEPT ![r] = None]
  BY <1>4, <1>5, UsersStep
<1>7. Users[r] = None /\ Users' = Users
  BY <1>6 DEF Users, Connected
<1>8. Stack' = Stack
  BY DEF RejectPeer, Stack
<1> QED BY <1>7, <1>8 DEF Pool!vars, Stack, Users

LEMMA FreeRejectedQuiet ==
  ASSUME IInv, NEW r \in Requests, FreeRejected(r)
  PROVE  UNCHANGED Pool!vars
<1>1. conn \in [Conns -> ConnType] /\ peer \in [Requests -> PeerType]
  BY DEF IInv, TypeOK
<1> DEFINE c == peer[r].connection
<1>2. /\ c # None /\ conn[c].server = Fd0 /\ c \in Conns
      /\ conn' = [conn EXCEPT ![c] = FreeSlot]
      /\ peer' = [peer EXCEPT ![r].connection = None]
  BY SlotsApart DEF FreeRejected
<1> HIDE DEF c
<1>3. /\ peer'[r].connection = None
      /\ \A s \in Requests \ {r} : peer'[s] = peer[s]
      /\ \A d \in Conns \ {c} : conn'[d] = conn[d]
  BY <1>1, <1>2 DEF PeerType
<1>4. \A s \in Requests \ {r} : peer[s].connection # None =>
        peer[s].connection \in Conns \ {c}
  BY <1>2, SlotsApart DEF c
<1>5. Users' = [Users EXCEPT ![r] = None]
  BY <1>3, <1>4, UsersStep
<1>6. Users[r] = None /\ Users' = Users
  BY <1>2, <1>5 DEF Users, Connected, c
<1>7. Stack' = Stack
  BY DEF FreeRejected, Stack
<1> QED BY <1>6, <1>7 DEF Pool!vars, Stack, Users

\* get_peer finds a cached connection.
LEMMA TakeItemBorrows ==
  ASSUME IInv, NEW r \in Requests, NEW i \in DOMAIN cache,
         peer[r].connection = None, TakeItem(r, i)
  PROVE  Pool!Next
<1> DEFINE c == item[cache[i]].connection
<1>1. conn \in [Conns -> ConnType] /\ peer \in [Requests -> PeerType]
  BY DEF IInv, TypeOK
<1>2. /\ cache[i] \in ToSet(cache) /\ c \in Conns /\ c # None
      /\ conn[c].server # Fd0 /\ conn[c].idle
  BY StackTyped, KeepaliveAssumption DEF IInv, CachedLeadsBack
<1>3. /\ conn' = [conn EXCEPT ![c].idle = FALSE, ![c].data = r]
      /\ peer' = [peer EXCEPT ![r] =
                    [connection |-> c, sockaddr |-> item[cache[i]].sockaddr,
                     has_set_names |-> item[cache[i]].has_set_names,
                     failed |-> FALSE]]
      /\ cache' = RemoveAt(cache, i) /\ item' = item
  BY DEF TakeItem
<1>4. Stack[i] = c
  BY DEF Stack
<1> HIDE DEF c
<1>5. /\ peer'[r].connection = c
      /\ \A s \in Requests \ {r} : peer'[s] = peer[s]
  BY <1>1, <1>3
<1>6. \A d \in Conns : conn'[d].server = conn[d].server
  <2>1. conn[c] \in ConnType
    BY <1>1, <1>2
  <2> QED BY <1>1, <1>2, <1>3, <2>1 DEF ConnType
<1>7. Users' = [Users EXCEPT ![r] = c]
  BY <1>2, <1>5, <1>6, UsersStep, SlotsApart
<1>8. Users[r] = None
  BY DEF Users, Connected
<1>9. i \in DOMAIN Stack /\ Stack' = RemoveAt(Stack, i)
  BY <1>3, StackRemoved
<1> QED BY <1>4, <1>7, <1>8, <1>9, PoolBorrow

\* get_peer opens a connection.
LEMMA OpenPeerOpens ==
  ASSUME IInv, NEW r \in Requests, NEW p \in Peers, NEW connecting \in BOOLEAN,
         peer[r].connection = None, OpenPeer(r, p, connecting)
  PROVE  Pool!Next
<1>1. conn \in [Conns -> ConnType] /\ peer \in [Requests -> PeerType]
  BY DEF IInv, TypeOK
<1>2. PICK c \in FreeSlots :
        /\ conn' = [conn EXCEPT ![c].server = p, ![c].data = r,
                                ![c].timers =
                                  IF connecting THEN @ \cup {"write"} ELSE @]
        /\ peer' = [peer EXCEPT ![r] = ChosenPeer(r, p, c)]
  BY DEF OpenPeer
<1>3. c \in Conns /\ conn[c].server = None /\ c # None
  BY KeepaliveAssumption DEF FreeSlots
<1>4. /\ peer'[r].connection = c /\ conn'[c].server = p
      /\ \A s \in Requests \ {r} : peer'[s] = peer[s]
      /\ \A d \in Conns \ {c} : conn'[d] = conn[d]
  BY <1>1, <1>2, <1>3 DEF ChosenPeer, PeerType, ConnType
<1>5. \A s \in Requests \ {r} : peer[s].connection # None =>
        peer[s].connection \in Conns \ {c}
  BY <1>3, SlotsApart
<1>6. Users' = [Users EXCEPT ![r] = c]
  BY <1>3, <1>4, <1>5, UsersStep, KeepaliveAssumption
<1>7. Users[r] = None /\ Stack' = Stack
  BY DEF Users, Connected, OpenPeer, Stack
<1>8. c \notin OpenConns
  BY <1>3, KeepaliveAssumption DEF OpenConns
<1>9. Reject => MaxCached = 0 \/ Cardinality(OpenConns) < MaxCached
  <2>1. active_conns = Cardinality(OpenConns) /\ Cardinality(OpenConns) \in Nat
    BY OpenConnsFinite DEF IInv, ActiveConnsExact
  <2>2. ~PoolFull
    BY DEF OpenPeer
  <2> QED BY <2>1, <2>2, KeepaliveAssumption DEF PoolFull
<1> QED BY <1>3, <1>6, <1>7, <1>8, <1>9, PoolOpen

\* What free_peer does to a connected request, whatever becomes of the
\* connection: the request no longer has one.
LEMMA FreedUser ==
  ASSUME IInv, NEW r \in Requests, Connected(r),
         peer'[r].connection = None,
         \A s \in Requests \ {r} : peer'[s].connection = peer[s].connection,
         \A d \in Conns : d # peer[r].connection /\ ~conn[d].idle =>
           conn'[d].server = conn[d].server
  PROVE  /\ Users' = [Users EXCEPT ![r] = None]
         /\ Users[r] = peer[r].connection /\ Users[r] # None
<1>1. \A s \in Requests \ {r} : peer[s].connection # None =>
        /\ peer[s].connection \in Conns
        /\ conn'[peer[s].connection].server = conn[peer[s].connection].server
  BY SlotsApart DEF Connected
<1>2. Users' = [Users EXCEPT ![r] = None]
  BY <1>1, UsersStep
<1> QED BY <1>2 DEF Users, Connected

LEMMA ClosingDiscards ==
  ASSUME IInv, NEW r \in Requests, NEW failing \in BOOLEAN,
         NEW reusable \in BOOLEAN, Connected(r),
         FreePeerClosing(r, failing, reusable)
  PROVE  Pool!Next
<1>1. conn \in [Conns -> ConnType] /\ peer \in [Requests -> PeerType]
  BY DEF IInv, TypeOK
<1>2. /\ peer'[r].connection = None
      /\ \A s \in Requests \ {r} : peer'[s].connection = peer[s].connection
  BY FreedPeer DEF FreePeerClosing, IInv, TypeOK
<1>3. \A d \in Conns : d # peer[r].connection => conn'[d] = conn[d]
  BY <1>1 DEF FreePeerClosing
<1>4. Stack' = Stack
  BY DEF FreePeerClosing, Stack
<1> QED BY <1>2, <1>3, <1>4, FreedUser, PoolDiscard

\* What Cons puts before all but the last element of a sequence.
LEMMA ConsFront ==
  ASSUME NEW S, NEW s \in Seq(S), s # <<>>, NEW e \in S
  PROVE  Cons(e, Front(s)) = [j \in 1..Len(s) |-> IF j = 1 THEN e ELSE s[j - 1]]
<1> DEFINE f == Front(s)
<1>1. /\ Len(s) \in DOMAIN s /\ f = RemoveAt(s, Len(s))
      /\ DOMAIN s = 1..Len(s) /\ Len(s) \in Nat
  BY FrontIsRemoveAt, LenProperties
<1>2. /\ f \in Seq(S) /\ Len(f) = Len(s) - 1
      /\ \A i \in 1..(Len(s) - 1) : f[i] = s[i]
  <2> DEFINE t == RemoveAt(s, Len(s))
  <2>1. /\ t \in Seq(S) /\ Len(t) = Len(s) - 1
        /\ \A i \in 1..(Len(s) - 1) :
             t[i] = IF i < Len(s) THEN s[i] ELSE s[i + 1]
    BY <1>1, RemoveAtElements
  <2> HIDE DEF t
  <2>2. \A i \in 1..(Len(s) - 1) : i < Len(s)
    BY <1>1
  <2>3. \A i \in 1..(Len(s) - 1) : t[i] = s[i]
    BY <2>1, <2>2
  <2>4. f = t
    BY <1>1 DEF t
  <2> QED BY <2>1, <2>3, <2>4
<1> HIDE DEF f
<1>3. Cons(e, f) \in Seq(S) /\ DOMAIN Cons(e, f) = 1..(Len(f) + 1)
  BY <1>2, ConsElements
<1>4. \A i \in 1..(Len(f) + 1) : Cons(e, f)[i] = IF i = 1 THEN e ELSE f[i - 1]
  BY <1>2, ConsElements
<1>5. Len(f) + 1 = Len(s)
  BY <1>1, <1>2
<1>6. \A i \in 1..Len(s) : Cons(e, f)[i] = IF i = 1 THEN e ELSE s[i - 1]
  BY <1>1, <1>2, <1>4, <1>5
<1>7. Cons(e, f) = [j \in 1..Len(s) |-> Cons(e, f)[j]]
  BY <1>3, <1>5, LenProperties
<1> QED BY <1>6, <1>7 DEF f

\* keepalive_free_peer saves the connection where there is a free item,
LEMMA SavingInFreeReturns ==
  ASSUME IInv, NEW r \in Requests, Connected(r), SaveInFreeItem(r),
         Users' = [Users EXCEPT ![r] = None], MaxCached > 0,
         Users[r] = peer[r].connection, Users[r] # None
  PROVE  Pool!Next
<1> DEFINE q == Head(free)
<1>1. /\ free # <<>> /\ free \in Seq(Items) /\ cache \in Seq(Items)
      /\ ToSet(cache) \cap ToSet(free) = {}
      /\ Len(cache) + Len(free) = MaxCached
  BY DEF SaveInFreeItem, IInv, TypeOK, QueuesConserveItems
<1>2. q \in Items /\ q \notin ToSet(cache)
  <2>1. 1 \in DOMAIN free /\ q = free[1]
    BY <1>1, TailIsRemoveAt
  <2>2. q \in ToSet(free)
    BY <2>1 DEF ToSet
  <2> QED BY <1>1, <2>1, <2>2
<1>3. cache' = Cons(q, cache) /\ item' = [item EXCEPT ![q] = FilledItem(r)]
  BY DEF SaveInFreeItem
<1> HIDE DEF q
<1>4. Users[r] \in Conns
  BY SlotsApart DEF Connected
<1>5. item \in [Items -> ItemType]
  BY DEF IInv, TypeOK
<1>6. /\ item'[q].connection = Users[r]
      /\ \A p \in ToSet(cache) : item'[p] = item[p]
  BY <1>2, <1>3, <1>5 DEF FilledItem
<1>7. Stack' = Cons(Users[r], Stack)
  BY <1>2, <1>3, <1>4, <1>6, StackPushed
<1>8. Len(Stack) # MaxCached
  <2>1. Len(free) \in Nat \ {0} /\ Len(cache) \in Nat
    BY <1>1, EmptySeq, LenProperties
  <2>2. Len(Stack) = Len(cache)
    BY StackTyped
  <2> QED BY <1>1, <2>1, <2>2
<1> QED BY <1>7, <1>8, PoolReturn

\* or in the item of the connection cached for longest.
LEMMA SavingEvictingReturns ==
  ASSUME IInv, NEW r \in Requests, Connected(r), SaveEvicting(r),
         Users' = [Users EXCEPT ![r] = None], MaxCached > 0,
         Users[r] = peer[r].connection, Users[r] # None
  PROVE  Pool!Next
<1> DEFINE q == Last(cache)
           c == Users[r]
<1>1. cache \in Seq(Items) /\ IsInjective(cache) /\ Len(cache) = MaxCached
  <2>1. free = <<>> /\ Len(free) = 0
    BY EmptySeq DEF SaveEvicting
  <2>2. cache \in Seq(Items) /\ IsInjective(cache)
        /\ Len(cache) + Len(free) = MaxCached
    BY DEF IInv, TypeOK, QueuesConserveItems
  <2> QED BY <2>1, <2>2, LenProperties
<1>2. cache # <<>> /\ DOMAIN cache = 1..MaxCached
  BY <1>1, EmptySeq, LenProperties
<1>3. q = cache[MaxCached] /\ q \in Items
  BY <1>1, <1>2, FrontIsRemoveAt
<1>4. /\ cache' = Cons(q, Front(cache))
      /\ item' = [item EXCEPT ![q] = FilledItem(r)]
  BY DEF SaveEvicting
<1>5. c \in Conns
  BY SlotsApart DEF Connected
<1>6. /\ Stack \in Seq(Conns) /\ Len(Stack) = MaxCached /\ Stack # <<>>
      /\ DOMAIN Stack = 1..MaxCached
  BY <1>1, <1>2, StackTyped, EmptySeq
<1> HIDE DEF q
<1>7. cache' = [j \in 1..MaxCached |-> IF j = 1 THEN q ELSE cache[j - 1]]
  <2>1. \A x \in Items : Cons(x, Front(cache))
          = [j \in 1..Len(cache) |-> IF j = 1 THEN x ELSE cache[j - 1]]
    BY <1>1, <1>2, ConsFront
  <2> QED BY <1>1, <1>3, <1>4, <2>1
<1> HIDE DEF c
<1>8. Cons(c, Front(Stack))
        = [j \in 1..MaxCached |-> IF j = 1 THEN c ELSE Stack[j - 1]]
  BY <1>5, <1>6, ConsFront
<1>9. item'[q].connection = c /\ \A p \in Items \ {q} : item'[p] = item[p]
  <2>1. item \in [Items -> ItemType]
    BY DEF IInv, TypeOK
  <2> QED BY <1>3, <1>4, <2>1 DEF FilledItem, c
<1>10. \A j \in 2..MaxCached :
         /\ j - 1 \in DOMAIN cache /\ cache[j - 1] \in Items \ {q}
         /\ Stack[j - 1] = item[cache[j - 1]].connection
  <2>1. ASSUME NEW j \in 2..MaxCached
        PROVE  /\ j - 1 \in DOMAIN cache /\ j - 1 # MaxCached
               /\ MaxCached \in DOMAIN cache
    BY <1>2, KeepaliveAssumption
  <2> QED BY <1>1, <1>3, <2>1 DEF IsInjective, Stack
<1>11. \A j \in 1..MaxCached :
         item'[cache'[j]].connection = IF j = 1 THEN c ELSE Stack[j - 1]
  <2>1. ASSUME NEW j \in 1..MaxCached
        PROVE  item'[cache'[j]].connection = IF j = 1 THEN c ELSE Stack[j - 1]
    <3>1. CASE j = 1
      BY <1>7, <1>9, <3>1
    <3>2. CASE j # 1
      <4>1. j \in 2..MaxCached /\ cache'[j] = cache[j - 1]
        BY <1>7, <3>2, KeepaliveAssumption
      <4> QED BY <1>9, <1>10, <3>2, <4>1
    <3> QED BY <3>1, <3>2
  <2> QED BY <2>1
<1>12. Stack' = [j \in 1..MaxCached |-> item'[cache'[j]].connection]
  <2>1. DOMAIN cache' = 1..MaxCached
    BY <1>7
  <2> QED BY <2>1 DEF Stack
<1>13. Stack' = Cons(c, Front(Stack))
  BY <1>8, <1>11, <1>12
<1> QED BY <1>6, <1>13, PoolReturn DEF c

LEMMA SavingReturns ==
  ASSUME IInv, NEW r \in Requests, NEW failing \in BOOLEAN,
         NEW reusable \in BOOLEAN, Connected(r),
         FreePeerSaving(r, failing, reusable)
  PROVE  Pool!Next
<1>1. conn \in [Conns -> ConnType] /\ peer[r].connection \in Conns
  BY SlotsApart DEF IInv, TypeOK, Connected
<1>2. /\ peer'[r].connection = None
      /\ \A s \in Requests \ {r} : peer'[s].connection = peer[s].connection
  BY FreedPeer DEF FreePeerSaving, IInv, TypeOK
<1>3. \A d \in Conns : d # peer[r].connection /\ ~conn[d].idle =>
        conn'[d] = conn[d]
  <2>1. CASE SaveInFreeItem(r)
    BY <1>1, <2>1 DEF SaveInFreeItem
  <2>2. CASE SaveEvicting(r)
    <3>1. conn[item[Last(cache)].connection].idle
      <4>1. cache \in Seq(Items) /\ cache # <<>>
        <5>1. free = <<>> /\ Len(free) = 0
          BY <2>2, EmptySeq DEF SaveEvicting
        <5>2. cache \in Seq(Items) /\ Len(cache) + Len(free) = MaxCached
          BY DEF IInv, TypeOK, QueuesConserveItems
        <5>3. Len(cache) # 0
          BY <5>1, <5>2, LenProperties DEF FreePeerSaving, Saves
        <5> QED BY <5>2, <5>3, EmptySeq
      <4>2. Last(cache) \in ToSet(cache)
        BY <4>1, FrontIsRemoveAt DEF ToSet
      <4> QED BY <4>2 DEF IInv, CachedLeadsBack
    <3> QED BY <1>1, <2>2, <3>1 DEF SaveEvicting
  <2> QED BY <2>1, <2>2 DEF FreePeerSaving
<1>4. /\ Users' = [Users EXCEPT ![r] = None]
      /\ Users[r] = peer[r].connection /\ Users[r] # None
  BY <1>2, <1>3, FreedUser
<1>5. MaxCached > 0
  BY DEF FreePeerSaving, Saves
<1> QED BY <1>4, <1>5, SavingInFreeReturns, SavingEvictingReturns
        DEF FreePeerSaving

\* The close handler.
LEMMA CloseHandlerExpires ==
  ASSUME IInv, NEW c \in Conns, CloseHandler(c)
  PROVE  Pool!Next
<1>1. PICK i \in DOMAIN cache : cache' = RemoveAt(cache, i)
  BY DEF CloseHandler
<1>2. conn \in [Conns -> ConnType] /\ UNCHANGED <<item, peer>> /\ conn[c].idle
      /\ \A d \in Conns \ {c} : conn'[d] = conn[d]
  BY DEF IInv, TypeOK, CloseHandler
<1>3. \A s \in Requests : Connected(s)' = Connected(s)
  BY <1>2, SlotsApart DEF Connected
<1>4. Users' = Users
  BY <1>2, <1>3 DEF Users
<1> QED BY <1>1, <1>2, <1>4, StackRemoved, PoolExpire

-----------------------------------------------------------------------------
(* The refinement.                                                         *)

LEMMA InitPool == Init => Pool!Init
<1> SUFFICES ASSUME Init PROVE Stack = <<>> /\ Users = [r \in Requests |-> None]
  BY DEF Pool!Init, Stack, Users
<1>1. cache = <<>> /\ \A r \in Requests : peer[r].connection = None
  BY DEF Init, FreshPeer
<1>2. Users = [r \in Requests |-> None]
  BY <1>1 DEF Users, Connected
<1>3. Stack = <<>>
  BY <1>1 DEF Stack
<1> QED BY <1>2, <1>3

LEMMA NextPool == IInv /\ [Next]_vars => [Pool!Next]_(Pool!vars)
<1> SUFFICES ASSUME IInv, [Next]_vars PROVE Pool!Next \/ UNCHANGED Pool!vars
  OBVIOUS
<1>1. ASSUME NEW r \in Requests, RequestStep(r)
      PROVE  Pool!Next \/ UNCHANGED Pool!vars
  <2>1. CASE peer[r].connection = None /\ (InitPeer(r) \/ ResetPeer(r))
    BY <2>1, QuietCalls
  <2>2. CASE GetPeer(r)
    <3>1. peer[r].connection = None
      BY <2>2 DEF GetPeer
    <3>2. CASE GetPeerSingle(r)
      <4>1. cache \in Seq(Items) /\ cache # <<>> /\ TakeItem(r, 1)
        BY <3>2 DEF GetPeerSingle, IInv, TypeOK
      <4>2. 1 \in DOMAIN cache
        BY <4>1, TailIsRemoveAt
      <4> QED BY <3>1, <4>1, <4>2, TakeItemBorrows
    <3>3. ASSUME NEW p \in Peers, GetPeerMulti(r, p) PROVE Pool!Next
      BY <3>1, <3>3, TakeItemBorrows DEF GetPeerMulti
    <3>4. ASSUME NEW p \in Peers, RejectPeer(r, p) PROVE UNCHANGED Pool!vars
      BY <3>1, <3>4, RejectQuiet
    <3>5. ASSUME NEW p \in Peers, RejectPeerNoSlot(r, p) \/ OpenFails(r, p)
          PROVE  UNCHANGED Pool!vars
      BY <3>1, <3>5, QuietCalls
    <3>6. ASSUME NEW p \in Peers, NEW connecting \in BOOLEAN,
                 OpenPeer(r, p, connecting)
          PROVE  Pool!Next
      BY <3>1, <3>6, OpenPeerOpens
    <3> QED BY <2>2, <3>2, <3>3, <3>4, <3>5, <3>6 DEF GetPeer
  <2>3. CASE Proceed(r)
    <3>1. peer[r].connection \in Conns
      BY <2>3, SlotsApart DEF Proceed, Connected
    <3> QED BY <2>3, <3>1, QuietCalls, QuietEvents DEF Proceed
  <2>4. CASE Release(r)
    <3>1. ASSUME NEW failing \in BOOLEAN, FreePeerAgain(r, failing)
          PROVE  UNCHANGED Pool!vars
      BY <3>1, QuietCalls
    <3>2. ASSUME NEW failing \in BOOLEAN, NEW reusable \in BOOLEAN, Connected(r),
                 FreePeer(r, failing, reusable)
          PROVE  Pool!Next \/ UNCHANGED Pool!vars
      BY <3>1, <3>2, SavingReturns, ClosingDiscards DEF FreePeer
    <3> QED BY <2>4, <3>1, <3>2 DEF Release
  <2>5. CASE FreeRejected(r)
    BY <2>5, FreeRejectedQuiet
  <2> QED BY <1>1, <2>1, <2>2, <2>3, <2>4, <2>5 DEF RequestStep
<1>2. ASSUME NEW c \in Conns, CloseHandler(c) PROVE Pool!Next
  BY <1>2, CloseHandlerExpires
<1>3. ASSUME NEW c \in Conns, RunPosted(c) PROVE UNCHANGED Pool!vars
  BY <1>3, QuietEvents
<1>4. CASE UNCHANGED vars
  <2>1. Stack' = Stack /\ Users' = Users
    BY <1>4 DEF vars, Stack, Users, Connected
  <2> QED BY <2>1 DEF Pool!vars, Stack, Users
<1> QED BY <1>1, <1>2, <1>3, <1>4 DEF Next

\* Whatever the requests do, the pool of keepalive.c is a stack of idle
\* connections of at most max entries: every call is a Borrow, Open, Return,
\* Discard or Expire of ConnPool, or changes nothing that is seen from outside.
THEOREM ImplementsPool == Spec => ImplementsConnPool
<1>1. Spec => []IInv
  BY Invariance
<1> QED BY <1>1, InitPool, NextPool, PTL DEF ImplementsConnPool, Spec, Pool!Spec

=============================================================================
