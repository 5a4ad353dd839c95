-------------------------- MODULE Keepalive_proofs --------------------------
(***************************************************************************)
(* Theorems about Keepalive, for any number of requests, peers, slots and  *)
(* items, either mode and either overflow action.                          *)
(*                                                                         *)
(* The invariant is inductive because it says who owns each slot in terms  *)
(* that every call can check locally: an idle slot's c->data is a cached   *)
(* item that leads back to it, a used slot's c->data is the request that   *)
(* leads back to it.                                                       *)
(***************************************************************************)
EXTENDS Keepalive, SequenceTheorems, FiniteSetTheorems, TLAPS

(***************************************************************************)
(* Sequences without repetitions, which is what the two queues of cache    *)
(* items are: what inserting an element at the head and removing one, from *)
(* anywhere or from an end, does to them.                                  *)
(***************************************************************************)

\* Where Cons puts the elements.
LEMMA ConsElements ==
  ASSUME NEW S, NEW s \in Seq(S), NEW e \in S
  PROVE  /\ Cons(e, s) \in Seq(S)
         /\ Len(Cons(e, s)) = Len(s) + 1
         /\ DOMAIN Cons(e, s) = 1..(Len(s) + 1)
         /\ DOMAIN s = 1..Len(s)
         /\ Len(s) \in Nat
         /\ \A i \in 1..(Len(s) + 1) : Cons(e, s)[i] = IF i = 1 THEN e ELSE s[i - 1]
<1> DEFINE t == Cons(e, s)
<1>1. /\ <<e>> \in Seq(S)
      /\ Len(<<e>>) = 1
      /\ <<e>>[1] = e
  OBVIOUS
<1>2. /\ t \in Seq(S)
      /\ Len(t) = Len(s) + 1
      /\ DOMAIN t = 1..(Len(s) + 1)
      /\ DOMAIN s = 1..Len(s)
      /\ Len(s) \in Nat
  BY <1>1, ConcatProperties, LenProperties DEF Cons
<1>3. \A i \in 1..(Len(s) + 1) : t[i] = IF i = 1 THEN e ELSE s[i - 1]
  BY <1>1, <1>2, ConcatProperties DEF Cons
<1> QED BY <1>2, <1>3

\* Cons keeps a sequence without repetitions so, and adds its element.
LEMMA ConsQueue ==
  ASSUME NEW S, NEW s \in Seq(S), IsInjective(s), NEW e \in S, e \notin ToSet(s)
  PROVE  /\ Cons(e, s) \in Seq(S)
         /\ Len(Cons(e, s)) = Len(s) + 1
         /\ IsInjective(Cons(e, s))
         /\ ToSet(Cons(e, s)) = ToSet(s) \cup {e}
<1> DEFINE t == Cons(e, s)
<1>2. /\ t \in Seq(S)
      /\ Len(t) = Len(s) + 1
      /\ DOMAIN t = 1..(Len(s) + 1)
      /\ DOMAIN s = 1..Len(s)
      /\ Len(s) \in Nat
  BY ConsElements
<1>3. \A i \in 1..(Len(s) + 1) : t[i] = IF i = 1 THEN e ELSE s[i - 1]
  BY ConsElements
<1>4. \A i \in 2..(Len(s) + 1) : i - 1 \in DOMAIN s /\ t[i] = s[i - 1]
  BY <1>2, <1>3
<1>5. t[1] = e
  BY <1>2, <1>3
<1>6. IsInjective(t)
  <2> SUFFICES ASSUME NEW i \in 1..(Len(s) + 1), NEW j \in 1..(Len(s) + 1),
                      t[i] = t[j]
               PROVE  i = j
    BY <1>2 DEF IsInjective
  <2> HIDE DEF t
  <2>1. \A k \in 2..(Len(s) + 1) : t[k] # e
    BY <1>4 DEF ToSet
  <2>2. CASE i = 1 \/ j = 1
    BY <2>1, <2>2, <1>2, <1>5
  <2>3. CASE i # 1 /\ j # 1
    <3>1. i \in 2..(Len(s) + 1) /\ j \in 2..(Len(s) + 1)
      BY <2>3, <1>2
    <3>2. i - 1 \in DOMAIN s /\ j - 1 \in DOMAIN s /\ s[i - 1] = s[j - 1]
      BY <3>1, <1>4
    <3>3. i - 1 = j - 1
      BY <3>2 DEF IsInjective
    <3> QED BY <3>1, <3>3, <1>2
  <2> QED BY <2>2, <2>3
<1>7. ToSet(t) = ToSet(s) \cup {e}
  <2>1. ASSUME NEW x \in ToSet(t) PROVE x \in ToSet(s) \cup {e}
    BY <2>1, <1>2, <1>4, <1>5, SMTT(30) DEF ToSet
  <2>2. e \in ToSet(t)
    BY <1>2, <1>5 DEF ToSet
  <2>3. ASSUME NEW i \in DOMAIN s PROVE s[i] \in ToSet(t)
    <3>1. i + 1 \in 2..(Len(s) + 1) /\ (i + 1) - 1 = i
      BY <1>2
    <3>2. t[i + 1] = s[i] /\ i + 1 \in DOMAIN t
      BY <3>1, <1>2, <1>4
    <3> QED BY <3>2 DEF ToSet
  <2> QED BY <2>1, <2>2, <2>3 DEF ToSet
<1> QED BY <1>2, <1>6, <1>7

\* Where RemoveAt leaves the elements.
LEMMA RemoveAtElements ==
  ASSUME NEW S, NEW s \in Seq(S), NEW n \in DOMAIN s
  PROVE  /\ RemoveAt(s, n) \in Seq(S)
         /\ Len(RemoveAt(s, n)) = Len(s) - 1
         /\ DOMAIN RemoveAt(s, n) = 1..(Len(s) - 1)
         /\ DOMAIN s = 1..Len(s)
         /\ Len(s) \in Nat
         /\ \A i \in 1..(Len(s) - 1) :
              RemoveAt(s, n)[i] = IF i < n THEN s[i] ELSE s[i + 1]
<1> DEFINE a == SubSeq(s, 1, n - 1)
           b == SubSeq(s, n + 1, Len(s))
           t == RemoveAt(s, n)
<1>1. /\ Len(s) \in Nat
      /\ DOMAIN s = 1..Len(s)
      /\ n \in 1..Len(s)
      /\ \A i \in 1..Len(s) : s[i] \in S
  BY LenProperties
<1>2. /\ a \in Seq(S)
      /\ Len(a) = n - 1
      /\ \A i \in 1..(n - 1) : a[i] = s[i]
  <2>1. 1 \in Int /\ n - 1 \in Int /\ \A i \in 1..(n - 1) : s[i] \in S
    BY <1>1
  <2>2. /\ a \in Seq(S)
        /\ Len(a) = IF 1 <= n - 1 THEN (n - 1) - 1 + 1 ELSE 0
        /\ \A i \in 1..((n - 1) - 1 + 1) : a[i] = s[1 + i - 1]
    BY <2>1, SubSeqProperties
  <2> QED BY <1>1, <2>2
<1>3. /\ b \in Seq(S)
      /\ Len(b) = Len(s) - n
      /\ \A i \in 1..(Len(s) - n) : b[i] = s[n + i]
  <2>1. n + 1 \in Int /\ Len(s) \in Int /\ \A i \in (n + 1)..Len(s) : s[i] \in S
    BY <1>1
  <2>2. /\ b \in Seq(S)
        /\ Len(b) = IF n + 1 <= Len(s) THEN Len(s) - (n + 1) + 1 ELSE 0
        /\ \A i \in 1..(Len(s) - (n + 1) + 1) : b[i] = s[(n + 1) + i - 1]
    BY <2>1, SubSeqProperties
  <2> HIDE DEF b
  <2>3. Len(s) - (n + 1) + 1 = Len(s) - n
    BY <1>1
  <2>4. \A i \in 1..(Len(s) - n) : (n + 1) + i - 1 = n + i
    BY <1>1
  <2>5. Len(b) = Len(s) - n
    BY <1>1, <2>2, <2>3
  <2> QED BY <2>2, <2>3, <2>4, <2>5
<1>4. /\ t \in Seq(S)
      /\ Len(t) = Len(s) - 1
      /\ DOMAIN t = 1..(Len(s) - 1)
      /\ \A i \in 1..(Len(s) - 1) : t[i] = IF i < n THEN s[i] ELSE s[i + 1]
  <2>1. /\ t \in Seq(S)
        /\ Len(t) = Len(a) + Len(b)
        /\ \A i \in 1..(Len(a) + Len(b)) :
             t[i] = IF i <= Len(a) THEN a[i] ELSE b[i - Len(a)]
    BY <1>2, <1>3, ConcatProperties DEF RemoveAt
  <2>2. Len(a) + Len(b) = Len(s) - 1
    BY <1>1, <1>2, <1>3
  <2>3. ASSUME NEW i \in 1..(Len(s) - 1)
        PROVE  t[i] = IF i < n THEN s[i] ELSE s[i + 1]
    <3>1. CASE i < n
      BY <3>1, <2>1, <2>2, <1>1, <1>2
    <3>2. CASE ~(i < n)
      <4> HIDE DEF a, b, t
      <4>1. /\ i - (n - 1) \in 1..(Len(s) - n)
            /\ n + (i - (n - 1)) = i + 1
        BY <3>2, <1>1
      <4>2. t[i] = b[i - (n - 1)]
        <5>1. /\ i \in 1..(Len(a) + Len(b))
              /\ ~(i <= Len(a))
          BY <3>2, <2>2, <1>1, <1>2
        <5> QED BY <5>1, <2>1, <1>2
      <4> QED BY <3>2, <4>1, <4>2, <1>3
    <3> QED BY <3>1, <3>2
  <2> QED BY <2>1, <2>2, <2>3, LenProperties
<1> QED BY <1>1, <1>4

\* RemoveAt keeps a sequence without repetitions so, and removes one element.
LEMMA RemoveAtQueue ==
  ASSUME NEW S, NEW s \in Seq(S), IsInjective(s), NEW n \in DOMAIN s
  PROVE  /\ RemoveAt(s, n) \in Seq(S)
         /\ Len(RemoveAt(s, n)) = Len(s) - 1
         /\ IsInjective(RemoveAt(s, n))
         /\ ToSet(RemoveAt(s, n)) = ToSet(s) \ {s[n]}
         /\ s[n] \in S
<1> DEFINE t == RemoveAt(s, n)
<1>1. /\ Len(s) \in Nat
      /\ DOMAIN s = 1..Len(s)
      /\ n \in 1..Len(s)
      /\ \A i \in 1..Len(s) : s[i] \in S
  BY LenProperties
<1>4. /\ t \in Seq(S)
      /\ Len(t) = Len(s) - 1
      /\ DOMAIN t = 1..(Len(s) - 1)
      /\ \A i \in 1..(Len(s) - 1) : t[i] = IF i < n THEN s[i] ELSE s[i + 1]
  BY RemoveAtElements
<1>5. IsInjective(t)
  <2> SUFFICES ASSUME NEW i \in 1..(Len(s) - 1), NEW j \in 1..(Len(s) - 1),
                      t[i] = t[j]
               PROVE  i = j
    BY <1>4 DEF IsInjective
  <2> DEFINE shift(k) == IF k < n THEN k ELSE k + 1
  <2>1. \A k \in 1..(Len(s) - 1) : shift(k) \in DOMAIN s /\ t[k] = s[shift(k)]
    BY <1>1, <1>4
  <2>2. shift(i) = shift(j)
    BY <2>1 DEF IsInjective
  <2> QED BY <2>2, <1>1
<1>6. ToSet(t) = ToSet(s) \ {s[n]}
  <2>1. ASSUME NEW i \in 1..(Len(s) - 1) PROVE t[i] \in ToSet(s) \ {s[n]}
    <3> DEFINE k == IF i < n THEN i ELSE i + 1
    <3>1. k \in DOMAIN s /\ k # n /\ t[i] = s[k]
      BY <1>1, <1>4
    <3> QED BY <3>1 DEF IsInjective, ToSet
  <2>2. ASSUME NEW i \in DOMAIN s, i # n PROVE s[i] \in ToSet(t)
    <3> DEFINE k == IF i < n THEN i ELSE i - 1
    <3>1. k \in DOMAIN t /\ t[k] = s[i]
      BY <2>2, <1>1, <1>4
    <3> QED BY <3>1 DEF ToSet
  <2> QED BY <2>1, <2>2, <1>4 DEF ToSet
<1> QED BY <1>1, <1>4, <1>5, <1>6

\* Removing an end of a queue is a case of RemoveAt.
LEMMA FrontIsRemoveAt ==
  ASSUME NEW S, NEW s \in Seq(S), s # <<>>
  PROVE  /\ Len(s) \in DOMAIN s
         /\ Front(s) = RemoveAt(s, Len(s))
         /\ Last(s) = s[Len(s)]
<1>1. Len(s) \in Nat \ {0} /\ DOMAIN s = 1..Len(s)
  BY EmptySeq, LenProperties
<1>2. SubSeq(s, Len(s) + 1, Len(s)) = <<>>
  BY <1>1, SubSeqEmpty
<1>3. SubSeq(s, 1, Len(s) - 1) \in Seq(S)
  BY <1>1, SubSeqProperties, LenProperties
<1>4. Front(s) = RemoveAt(s, Len(s))
  BY <1>2, <1>3, ConcatEmptySeq DEF Front, RemoveAt
<1> QED BY <1>1, <1>4 DEF Last

LEMMA TailIsRemoveAt ==
  ASSUME NEW S, NEW s \in Seq(S), s # <<>>
  PROVE  /\ 1 \in DOMAIN s
         /\ Tail(s) = RemoveAt(s, 1)
         /\ Head(s) = s[1]
<1>1. Len(s) \in Nat \ {0} /\ DOMAIN s = 1..Len(s)
  BY EmptySeq, LenProperties
<1>2. SubSeq(s, 1, 1 - 1) = <<>>
  BY SubSeqEmpty
<1>3. Tail(s) = SubSeq(s, 1 + 1, Len(s)) /\ Tail(s) \in Seq(S)
  BY TailIsSubSeq, HeadTailProperties
<1>4. Tail(s) = RemoveAt(s, 1)
  BY <1>2, <1>3, ConcatEmptySeq DEF RemoveAt
<1> QED BY <1>1, <1>4

(***************************************************************************)
(* The invariant.                                                          *)
(***************************************************************************)

\* A cached item and its connection lead to each other.
CachedLeadsBack ==
  \A q \in ToSet(cache) :
    /\ item[q].connection \in Conns
    /\ item[q].sockaddr \in Peers
    /\ conn[item[q].connection].server = item[q].sockaddr
    /\ conn[item[q].connection].idle
    /\ conn[item[q].connection].data = q
    /\ conn[item[q].connection].timers = {}

\* An idle slot is the connection of a cached item.
IdleIsCached ==
  \A c \in Conns : conn[c].idle =>
    /\ conn[c].data \in ToSet(cache)
    /\ item[conn[c].data].connection = c

\* A request's connection is a used slot that leads back to the request.
HeldLeadsBack ==
  \A r \in Requests : peer[r].connection # None =>
    /\ conn[peer[r].connection].server \in {Fd0, peer[r].sockaddr}
    /\ peer[r].sockaddr \in Peers
    /\ ~conn[peer[r].connection].idle
    /\ conn[peer[r].connection].data = r

\* A used slot belongs to a request.
UsedIsHeld ==
  \A c \in Conns : conn[c].server # None /\ ~conn[c].idle =>
    \E r \in Requests : peer[r].connection = c

IInv ==
  /\ TypeOK
  /\ QueuesConserveItems
  /\ CachedLeadsBack
  /\ IdleIsCached
  /\ HeldLeadsBack
  /\ UsedIsHeld
  /\ FreeSlotsClean
  /\ ActiveConnsExact
  /\ RejectBoundsConns

-----------------------------------------------------------------------------
(* Counting the open connections.                                          *)

\* There are finitely many slots, so the open connections can be counted.
LEMMA OpenConnsFinite == IsFiniteSet(OpenConns) /\ Cardinality(OpenConns) \in Nat
<1>1. OpenConns \subseteq Conns
  BY DEF OpenConns
<1> QED BY <1>1, KeepaliveAssumption, FS_Subset, FS_CardinalityType

\* No connection is opened or closed.
LEMMA CountKept ==
  ASSUME ActiveConnsExact, active_conns' = active_conns, OpenConns' = OpenConns
  PROVE  ActiveConnsExact'
BY DEF ActiveConnsExact

\* One is opened.
LEMMA CountUp ==
  ASSUME ActiveConnsExact, active_conns' = active_conns + 1,
         NEW c, c \notin OpenConns, OpenConns' = OpenConns \cup {c}
  PROVE  ActiveConnsExact' /\ active_conns' \in Nat
BY OpenConnsFinite, FS_AddElement DEF ActiveConnsExact

\* One is closed.
LEMMA CountDown ==
  ASSUME ActiveConnsExact, active_conns' = active_conns - 1,
         NEW c, c \in OpenConns, OpenConns' = OpenConns \ {c}
  PROVE  ActiveConnsExact' /\ active_conns' \in Nat
<1>1. /\ IsFiniteSet(OpenConns \ {c})
      /\ Cardinality(OpenConns \ {c}) = Cardinality(OpenConns) - 1
  BY OpenConnsFinite, FS_RemoveElement
<1>2. Cardinality(OpenConns \ {c}) \in Nat
  BY <1>1, FS_CardinalityType
<1> QED BY <1>1, <1>2 DEF ActiveConnsExact

-----------------------------------------------------------------------------
(* The initial state.                                                      *)

\* After ngx_http_drizzle_keepalive_init every item is free and no slot is used.
LEMMA InitIInv == Init => IInv
<1> SUFFICES ASSUME Init PROVE IInv
  OBVIOUS
<1> USE KeepaliveAssumption DEF Init
<1>1. /\ free \in Seq(Items)
      /\ Len(free) = MaxCached
      /\ DOMAIN free = 1..MaxCached
      /\ cache = <<>>
      /\ Len(cache) = 0
      /\ cache \in Seq(Items)
      /\ DOMAIN cache = {}
  <2>1. \A i \in 1..MaxCached : MaxCached + 1 - i \in Items
    BY DEF Items
  <2>2. free = [i \in 1..MaxCached |-> MaxCached + 1 - i]
    BY DEF Items
  <2>3. free \in Seq(Items)
    BY <2>1, <2>2, IsASeq
  <2>4. Len(free) = MaxCached
    BY <2>2, <2>3, LenProperties
  <2> QED BY <2>2, <2>3, <2>4, EmptySeq
<1>2. \A c \in Conns : conn[c] = FreeSlot
  OBVIOUS
<1>3. OpenConns = {}
  BY <1>2 DEF OpenConns, FreeSlot
<1>4. Cardinality({}) = 0
  BY FS_EmptySet
<1>5. TypeOK
  BY <1>1, <1>4 DEF TypeOK, ItemType, ConnType, PeerType, FreeSlot, FreshPeer, TimerSets
<1>6. QueuesConserveItems
  <2>1. IsInjective(free)
    BY <1>1 DEF IsInjective, Items
  <2> QED BY <1>1, <2>1 DEF QueuesConserveItems, IsInjective, ToSet
<1>7. CachedLeadsBack /\ IdleIsCached
  BY <1>1, <1>2 DEF CachedLeadsBack, IdleIsCached, ToSet, FreeSlot
<1>8. HeldLeadsBack /\ UsedIsHeld /\ FreeSlotsClean
  BY <1>2 DEF HeldLeadsBack, UsedIsHeld, FreeSlotsClean, FreeSlot, FreshPeer
<1>9. ActiveConnsExact /\ RejectBoundsConns
  BY <1>3, <1>4 DEF ActiveConnsExact, RejectBoundsConns
<1> QED BY <1>5, <1>6, <1>7, <1>8, <1>9 DEF IInv

-----------------------------------------------------------------------------
(* Steps that leave every connection where it is.                          *)

\* Only what a request remembers changes.
LEMMA PeerStep ==
  ASSUME IInv,
         UNCHANGED <<cache, free, item, active_conns, conn>>,
         peer' \in [Requests -> PeerType],
         \A r \in Requests :
           /\ peer'[r].connection = peer[r].connection
           /\ peer[r].connection # None => peer'[r].sockaddr = peer[r].sockaddr
  PROVE  IInv'
<1>1. TypeOK' /\ QueuesConserveItems' /\ CachedLeadsBack' /\ IdleIsCached'
  BY DEF IInv, TypeOK, QueuesConserveItems, CachedLeadsBack, IdleIsCached
<1>2. HeldLeadsBack' /\ UsedIsHeld'
  BY DEF IInv, HeldLeadsBack, UsedIsHeld
<1>3. FreeSlotsClean' /\ ActiveConnsExact' /\ RejectBoundsConns'
  BY DEF IInv, FreeSlotsClean, ActiveConnsExact, RejectBoundsConns, OpenConns
<1> QED BY <1>1, <1>2, <1>3 DEF IInv

\* Only timers and posted events change, those of idle and free slots apart.
LEMMA SlotStep ==
  ASSUME IInv,
         UNCHANGED <<cache, free, item, active_conns, peer>>,
         conn' \in [Conns -> ConnType],
         \A c \in Conns :
           /\ conn'[c].server = conn[c].server
           /\ conn'[c].idle = conn[c].idle
           /\ conn'[c].data = conn[c].data
           /\ conn[c].idle => conn'[c].timers = conn[c].timers
           /\ conn[c].server = None => conn'[c] = conn[c]
  PROVE  IInv'
<1>1. TypeOK' /\ QueuesConserveItems'
  BY DEF IInv, TypeOK, QueuesConserveItems
<1>2. ToSet(cache)' = ToSet(cache)
  OBVIOUS
<1>3. CachedLeadsBack'
  BY <1>2 DEF IInv, CachedLeadsBack
<1>4. IdleIsCached'
  BY <1>2 DEF IInv, IdleIsCached
<1>5. HeldLeadsBack' /\ UsedIsHeld'
  BY DEF IInv, HeldLeadsBack, UsedIsHeld, TypeOK, PeerType
<1>6. FreeSlotsClean' /\ ActiveConnsExact' /\ RejectBoundsConns'
  BY DEF IInv, FreeSlotsClean, ActiveConnsExact, RejectBoundsConns, OpenConns
<1> QED BY <1>1, <1>3, <1>4, <1>5, <1>6 DEF IInv

-----------------------------------------------------------------------------
(* Reuse.                                                                  *)

\* get_peer reuses a cached connection: its slot changes owner, from the item
\* to the request.
LEMMA TakeItemStep ==
  ASSUME IInv, NEW r \in Requests, NEW i \in DOMAIN cache,
         peer[r].connection = None, TakeItem(r, i)
  PROVE  IInv'
<1> DEFINE q == cache[i]
           c == item[q].connection
<1> USE DEF IInv, TypeOK
<1>1. /\ cache' \in Seq(Items)
      /\ Len(cache') = Len(cache) - 1
      /\ IsInjective(cache')
      /\ ToSet(cache') = ToSet(cache) \ {q}
      /\ q \in Items
      /\ q \in ToSet(cache)
  <2>1. cache' = RemoveAt(cache, i) /\ IsInjective(cache)
    BY DEF TakeItem, QueuesConserveItems
  <2>2. q \in ToSet(cache)
    BY DEF ToSet
  <2> QED BY <2>1, <2>2, RemoveAtQueue
<1>2. /\ free' \in Seq(Items)
      /\ Len(free') = Len(free) + 1
      /\ IsInjective(free')
      /\ ToSet(free') = ToSet(free) \cup {q}
  <2>1. q \notin ToSet(free) /\ IsInjective(free)
    BY <1>1 DEF QueuesConserveItems
  <2> QED BY <1>1, <2>1, ConsQueue DEF TakeItem
<1>3. /\ c \in Conns
      /\ conn[c].server = item[q].sockaddr
      /\ item[q].sockaddr \in Peers
      /\ conn[c].idle
      /\ conn[c].data = q
  BY <1>1 DEF CachedLeadsBack
<1>4. item' = item /\ active_conns' = active_conns
  BY DEF TakeItem
<1>5. /\ conn' \in [Conns -> ConnType]
      /\ conn'[c].server = conn[c].server
      /\ conn'[c].idle = FALSE
      /\ conn'[c].data = r
      /\ \A d \in Conns \ {c} : conn'[d] = conn[d]
  <2>1. conn' = [conn EXCEPT ![c].idle = FALSE, ![c].data = r]
    BY DEF TakeItem
  <2> HIDE DEF c
  <2> QED BY <2>1, <1>3, ZenonT(60) DEF ConnType
<1>6. /\ peer' \in [Requests -> PeerType]
      /\ peer'[r].connection = c
      /\ peer'[r].sockaddr = item[q].sockaddr
      /\ \A s \in Requests \ {r} : peer'[s] = peer[s]
  <2>1. peer' = [peer EXCEPT ![r] =
                   [connection |-> c, sockaddr |-> item[q].sockaddr,
                    has_set_names |-> item[q].has_set_names,
                    failed |-> FALSE]]
    BY DEF TakeItem
  <2>2. item[q].has_set_names \in BOOLEAN
    BY <1>1 DEF ItemType
  <2> HIDE DEF c, q
  <2> QED BY <2>1, <2>2, <1>3 DEF PeerType
<1> HIDE DEF c, q
<1>7. TypeOK'
  BY <1>1, <1>2, <1>4, <1>5, <1>6
<1>8. QueuesConserveItems'
  BY <1>1, <1>2, LenProperties DEF QueuesConserveItems
<1>9. CachedLeadsBack'
  <2> SUFFICES ASSUME NEW p \in ToSet(cache) \ {q}
               PROVE  /\ item[p].connection \in Conns
                      /\ item[p].sockaddr \in Peers
                      /\ conn'[item[p].connection].server = item[p].sockaddr
                      /\ conn'[item[p].connection].idle
                      /\ conn'[item[p].connection].data = p
                      /\ conn'[item[p].connection].timers = {}
    BY <1>1, <1>4 DEF CachedLeadsBack
  <2>1. item[p].connection \in Conns \ {c}
    BY <1>3 DEF CachedLeadsBack
  <2> QED BY <2>1, <1>5 DEF CachedLeadsBack
<1>10. IdleIsCached'
  <2> SUFFICES ASSUME NEW d \in Conns, conn'[d].idle
               PROVE  /\ conn'[d].data \in ToSet(cache) \ {q}
                      /\ item[conn'[d].data].connection = d
    BY <1>1, <1>4 DEF IdleIsCached
  <2>1. d # c /\ conn'[d] = conn[d]
    BY <1>5
  <2> QED BY <2>1 DEF IdleIsCached, c
<1>11. HeldLeadsBack'
  <2> SUFFICES ASSUME NEW s \in Requests, peer'[s].connection # None
               PROVE  /\ conn'[peer'[s].connection].server \in {Fd0, peer'[s].sockaddr}
                      /\ peer'[s].sockaddr \in Peers
                      /\ ~conn'[peer'[s].connection].idle
                      /\ conn'[peer'[s].connection].data = s
    BY DEF HeldLeadsBack
  <2>1. CASE s = r
    BY <2>1, <1>3, <1>5, <1>6
  <2>2. CASE s # r
    <3>1. peer[s].connection \in Conns \ {c} /\ peer'[s] = peer[s]
      BY <2>2, <1>3, <1>6 DEF HeldLeadsBack, PeerType
    <3> QED BY <3>1, <1>5 DEF HeldLeadsBack
  <2> QED BY <2>1, <2>2
<1>12. UsedIsHeld'
  <2> SUFFICES ASSUME NEW d \in Conns, conn'[d].server # None, ~conn'[d].idle
               PROVE  \E s \in Requests : peer'[s].connection = d
    BY DEF UsedIsHeld
  <2>1. CASE d = c
    BY <2>1, <1>6
  <2>2. CASE d # c
    <3>1. PICK s \in Requests : peer[s].connection = d
      BY <2>2, <1>5 DEF UsedIsHeld
    <3>2. s # r
      BY <3>1, KeepaliveAssumption
    <3> QED BY <3>1, <3>2, <1>6
  <2> QED BY <2>1, <2>2
<1>13. FreeSlotsClean'
  BY <1>3, <1>5, KeepaliveAssumption DEF FreeSlotsClean
<1>14. ActiveConnsExact'
  <2>1. OpenConns' = OpenConns
    BY <1>3, <1>5 DEF OpenConns
  <2> QED BY <2>1, <1>4, CountKept
<1>15. RejectBoundsConns'
  BY <1>4 DEF RejectBoundsConns
<1> QED BY <1>7, <1>8, <1>9, <1>10, <1>11, <1>12, <1>13, <1>14, <1>15

-----------------------------------------------------------------------------
(* A request gets a slot of the connection table, and gives it back.       *)

\* The request r takes the free slot c, for a connection to p or a fake one.
LEMMA SlotTaken ==
  ASSUME IInv,
         NEW r \in Requests, peer[r].connection = None,
         NEW c \in Conns, conn[c].server = None,
         NEW p \in Peers, NEW v \in {Fd0, p},
         UNCHANGED <<cache, free, item>>,
         active_conns' \in Nat,
         conn' \in [Conns -> ConnType],
         conn'[c].server = v, ~conn'[c].idle, conn'[c].data = r,
         \A d \in Conns \ {c} : conn'[d] = conn[d],
         peer' \in [Requests -> PeerType],
         peer'[r].connection = c, peer'[r].sockaddr = p,
         \A s \in Requests \ {r} : peer'[s] = peer[s]
  PROVE  /\ TypeOK' /\ QueuesConserveItems' /\ CachedLeadsBack'
         /\ IdleIsCached' /\ HeldLeadsBack' /\ UsedIsHeld' /\ FreeSlotsClean'
<1> USE DEF IInv
<1>1. TypeOK' /\ QueuesConserveItems'
  BY DEF TypeOK, QueuesConserveItems
<1>2. ToSet(cache)' = ToSet(cache)
  OBVIOUS
<1>3. ~conn[c].idle
  BY DEF FreeSlotsClean, FreeSlot
<1>4. v # None
  BY KeepaliveAssumption
<1>5. CachedLeadsBack'
  <2> SUFFICES ASSUME NEW q \in ToSet(cache)
               PROVE  /\ item[q].connection \in Conns
                      /\ item[q].sockaddr \in Peers
                      /\ conn'[item[q].connection].server = item[q].sockaddr
                      /\ conn'[item[q].connection].idle
                      /\ conn'[item[q].connection].data = q
                      /\ conn'[item[q].connection].timers = {}
    BY <1>2 DEF CachedLeadsBack
  <2>1. item[q].connection \in Conns \ {c}
    BY <1>3 DEF CachedLeadsBack
  <2> QED BY <2>1 DEF CachedLeadsBack
<1>6. IdleIsCached'
  BY <1>2 DEF IdleIsCached
<1>7. HeldLeadsBack'
  <2> SUFFICES ASSUME NEW s \in Requests, peer'[s].connection # None
               PROVE  /\ conn'[peer'[s].connection].server \in {Fd0, peer'[s].sockaddr}
                      /\ peer'[s].sockaddr \in Peers
                      /\ ~conn'[peer'[s].connection].idle
                      /\ conn'[peer'[s].connection].data = s
    BY DEF HeldLeadsBack
  <2>1. CASE s = r
    BY <2>1
  <2>2. CASE s # r
    <3>1. peer'[s] = peer[s] /\ peer[s].connection \in Conns
      BY <2>2 DEF TypeOK, PeerType
    <3>2. peer[s].connection # c
      BY <3>1, <2>2, KeepaliveAssumption DEF HeldLeadsBack
    <3> QED BY <3>1, <3>2 DEF HeldLeadsBack
  <2> QED BY <2>1, <2>2
<1>8. UsedIsHeld'
  <2> SUFFICES ASSUME NEW d \in Conns, conn'[d].server # None, ~conn'[d].idle
               PROVE  \E s \in Requests : peer'[s].connection = d
    BY DEF UsedIsHeld
  <2>1. CASE d = c
    BY <2>1
  <2>2. CASE d # c
    <3>1. PICK s \in Requests : peer[s].connection = d
      BY <2>2 DEF UsedIsHeld
    <3>2. s # r
      BY <3>1, KeepaliveAssumption
    <3> QED BY <3>1, <3>2
  <2> QED BY <2>1, <2>2
<1>9. FreeSlotsClean'
  BY <1>4 DEF FreeSlotsClean
<1> QED BY <1>1, <1>5, <1>6, <1>7, <1>8, <1>9

\* The slot of r's connection goes back to the connection table.
LEMMA SlotFreed ==
  ASSUME IInv,
         NEW r \in Requests, peer[r].connection # None,
         UNCHANGED <<cache, free, item>>,
         active_conns' \in Nat,
         conn' = [conn EXCEPT ![peer[r].connection] = FreeSlot],
         peer' \in [Requests -> PeerType],
         peer'[r].connection = None,
         \A s \in Requests \ {r} : peer'[s] = peer[s]
  PROVE  /\ TypeOK' /\ QueuesConserveItems' /\ CachedLeadsBack'
         /\ IdleIsCached' /\ HeldLeadsBack' /\ UsedIsHeld' /\ FreeSlotsClean'
<1> DEFINE c == peer[r].connection
<1> USE DEF IInv
<1>1. /\ c \in Conns
      /\ ~conn[c].idle
      /\ conn[c].data = r
  BY DEF TypeOK, PeerType, HeldLeadsBack
<1>2. /\ FreeSlot \in ConnType
      /\ FreeSlot.server = None
      /\ ~FreeSlot.idle
  BY DEF FreeSlot, ConnType, TimerSets
<1>3. /\ conn' \in [Conns -> ConnType]
      /\ conn'[c] = FreeSlot
      /\ \A d \in Conns \ {c} : conn'[d] = conn[d]
  BY <1>1, <1>2 DEF TypeOK
<1> HIDE DEF c
<1>4. TypeOK' /\ QueuesConserveItems'
  BY <1>3 DEF TypeOK, QueuesConserveItems
<1>5. ToSet(cache)' = ToSet(cache)
  OBVIOUS
<1>6. CachedLeadsBack'
  <2> SUFFICES ASSUME NEW q \in ToSet(cache)
               PROVE  /\ item[q].connection \in Conns
                      /\ item[q].sockaddr \in Peers
                      /\ conn'[item[q].connection].server = item[q].sockaddr
                      /\ conn'[item[q].connection].idle
                      /\ conn'[item[q].connection].data = q
                      /\ conn'[item[q].connection].timers = {}
    BY <1>5 DEF CachedLeadsBack
  <2>1. item[q].connection \in Conns \ {c}
    BY <1>1 DEF CachedLeadsBack
  <2> QED BY <2>1, <1>3 DEF CachedLeadsBack
<1>7. IdleIsCached'
  BY <1>2, <1>3, <1>5 DEF IdleIsCached
<1>8. HeldLeadsBack'
  <2> SUFFICES ASSUME NEW s \in Requests, peer'[s].connection # None
               PROVE  /\ conn'[peer'[s].connection].server \in {Fd0, peer'[s].sockaddr}
                      /\ peer'[s].sockaddr \in Peers
                      /\ ~conn'[peer'[s].connection].idle
                      /\ conn'[peer'[s].connection].data = s
    BY DEF HeldLeadsBack
  <2>1. s # r
    OBVIOUS
  <2>2. peer'[s] = peer[s] /\ peer[s].connection \in Conns
    BY <2>1 DEF TypeOK, PeerType
  <2>3. peer[s].connection # c
    BY <2>1, <2>2, <1>1 DEF HeldLeadsBack
  <2> QED BY <2>2, <2>3, <1>3 DEF HeldLeadsBack
<1>9. UsedIsHeld'
  <2> SUFFICES ASSUME NEW d \in Conns, conn'[d].server # None, ~conn'[d].idle
               PROVE  \E s \in Requests : peer'[s].connection = d
    BY DEF UsedIsHeld
  <2>1. d # c /\ conn'[d] = conn[d]
    BY <1>2, <1>3
  <2>2. PICK s \in Requests : peer[s].connection = d
    BY <2>1 DEF UsedIsHeld
  <2> QED BY <2>1, <2>2 DEF c
<1>10. FreeSlotsClean'
  BY <1>3 DEF FreeSlotsClean
<1> QED BY <1>4, <1>6, <1>7, <1>8, <1>9, <1>10

\* get_peer opens a connection: one more is counted.
LEMMA OpenPeerStep ==
  ASSUME IInv, NEW r \in Requests, NEW p \in Peers, NEW connecting \in BOOLEAN,
         peer[r].connection = None, OpenPeer(r, p, connecting)
  PROVE  IInv'
<1> USE DEF IInv
<1>1. PICK c \in FreeSlots :
        /\ conn' = [conn EXCEPT ![c].server = p, ![c].data = r,
                                ![c].timers = IF connecting
                                              THEN @ \cup {"write"} ELSE @]
        /\ peer' = [peer EXCEPT ![r] = ChosenPeer(r, p, c)]
  BY DEF OpenPeer
<1>2. c \in Conns /\ conn[c].server = None /\ conn[c] = FreeSlot
  BY <1>1 DEF FreeSlots, FreeSlotsClean
<1>3. /\ conn' \in [Conns -> ConnType]
      /\ conn'[c].server = p
      /\ ~conn'[c].idle
      /\ conn'[c].data = r
      /\ \A d \in Conns \ {c} : conn'[d] = conn[d]
  <2>1. PICK T \in TimerSets :
          conn' = [conn EXCEPT ![c].server = p, ![c].data = r, ![c].timers = T]
    <3>1. conn[c].timers = {}
      BY <1>2 DEF FreeSlot
    <3>2. {} \in TimerSets /\ {} \cup {"write"} \in TimerSets
      BY DEF TimerSets
    <3> QED BY <1>1, <3>1, <3>2
  <2>2. conn[c] \in ConnType
    BY <1>2 DEF TypeOK
  <2>3. ~conn[c].idle
    BY <1>2 DEF FreeSlot
  <2> QED BY <2>1, <2>2, <2>3, <1>2 DEF TypeOK, ConnType
<1>4. /\ peer' \in [Requests -> PeerType]
      /\ peer'[r].connection = c
      /\ peer'[r].sockaddr = p
      /\ \A s \in Requests \ {r} : peer'[s] = peer[s]
  BY <1>1, <1>2 DEF TypeOK, PeerType, ChosenPeer
<1>5. ActiveConnsExact' /\ active_conns' \in Nat
  <2>1. c \notin OpenConns /\ OpenConns' = OpenConns \cup {c}
    BY <1>2, <1>3, KeepaliveAssumption DEF OpenConns
  <2>2. active_conns' = active_conns + 1
    BY DEF OpenPeer
  <2> QED BY <2>1, <2>2, CountUp
<1>6. RejectBoundsConns'
  BY KeepaliveAssumption DEF OpenPeer, PoolFull, RejectBoundsConns, TypeOK
<1>7. UNCHANGED <<cache, free, item>>
  BY DEF OpenPeer
<1> QED BY <1>2, <1>3, <1>4, <1>5, <1>6, <1>7, SlotTaken

\* get_peer rejects with a fake connection, which is not counted.
LEMMA RejectPeerStep ==
  ASSUME IInv, NEW r \in Requests, NEW p \in Peers,
         peer[r].connection = None, RejectPeer(r, p)
  PROVE  IInv'
<1> USE DEF IInv
<1>1. PICK c \in FreeSlots :
        /\ conn' = [conn EXCEPT ![c].server = Fd0, ![c].data = r,
                                ![c].timers = @ \cup {"write"}]
        /\ peer' = [peer EXCEPT ![r] = ChosenPeer(r, p, c)]
  BY DEF RejectPeer
<1>2. c \in Conns /\ conn[c].server = None /\ conn[c] = FreeSlot
  BY <1>1 DEF FreeSlots, FreeSlotsClean
<1>3. /\ conn' \in [Conns -> ConnType]
      /\ conn'[c].server = Fd0
      /\ ~conn'[c].idle
      /\ conn'[c].data = r
      /\ \A d \in Conns \ {c} : conn'[d] = conn[d]
  <2>1. PICK T \in TimerSets :
          conn' = [conn EXCEPT ![c].server = Fd0, ![c].data = r, ![c].timers = T]
    <3>1. conn[c].timers = {}
      BY <1>2 DEF FreeSlot
    <3>2. {} \in TimerSets /\ {} \cup {"write"} \in TimerSets
      BY DEF TimerSets
    <3> QED BY <1>1, <3>1, <3>2
  <2>2. conn[c] \in ConnType
    BY <1>2 DEF TypeOK
  <2>3. ~conn[c].idle
    BY <1>2 DEF FreeSlot
  <2> QED BY <2>1, <2>2, <2>3, <1>2 DEF TypeOK, ConnType
<1>4. /\ peer' \in [Requests -> PeerType]
      /\ peer'[r].connection = c
      /\ peer'[r].sockaddr = p
      /\ \A s \in Requests \ {r} : peer'[s] = peer[s]
  BY <1>1, <1>2 DEF TypeOK, PeerType, ChosenPeer
<1>5. UNCHANGED <<cache, free, item, active_conns>>
  BY DEF RejectPeer
<1>6. ActiveConnsExact'
  <2>1. OpenConns' = OpenConns
    BY <1>2, <1>3, KeepaliveAssumption DEF OpenConns
  <2> QED BY <2>1, <1>5, CountKept
<1>7. RejectBoundsConns' /\ active_conns' \in Nat
  BY <1>5 DEF RejectBoundsConns, TypeOK
<1> QED BY <1>2, <1>3, <1>4, <1>5, <1>6, <1>7, SlotTaken

\* The handler cleans up after a rejection: the fake connection was not counted.
LEMMA FreeRejectedStep ==
  ASSUME IInv, NEW r \in Requests, FreeRejected(r)
  PROVE  IInv'
<1> USE DEF IInv
<1> DEFINE c == peer[r].connection
<1>1. /\ c \in Conns
      /\ c # None
      /\ conn[c].server = Fd0
      /\ conn' = [conn EXCEPT ![c] = FreeSlot]
      /\ UNCHANGED <<cache, free, item, active_conns>>
  BY DEF FreeRejected, TypeOK, PeerType
<1>2. /\ peer' \in [Requests -> PeerType]
      /\ peer'[r].connection = None
      /\ \A s \in Requests \ {r} : peer'[s] = peer[s]
  BY DEF FreeRejected, TypeOK, PeerType
<1>3. ActiveConnsExact'
  <2>1. OpenConns' = OpenConns
    BY <1>1, KeepaliveAssumption DEF OpenConns, FreeSlot, TypeOK
  <2> QED BY <2>1, <1>1, CountKept
<1>4. RejectBoundsConns' /\ active_conns' \in Nat
  BY <1>1 DEF RejectBoundsConns, TypeOK
<1> QED BY <1>1, <1>2, <1>3, <1>4, SlotFreed

\* What free_peer leaves of dp.
LEMMA FreedPeer ==
  ASSUME TypeOK, NEW r \in Requests, NEW failing \in BOOLEAN,
         peer' = [peer EXCEPT ![r].connection = None,
                              ![r].failed = Failed(r, failing)]
  PROVE  /\ peer' \in [Requests -> PeerType]
         /\ peer'[r].connection = None
         /\ \A s \in Requests \ {r} : peer'[s] = peer[s]
<1>1. Failed(r, failing) \in BOOLEAN
  BY DEF Failed
<1> QED BY <1>1 DEF TypeOK, PeerType

\* free_peer closes the connection: one less is counted.
LEMMA FreePeerClosingStep ==
  ASSUME IInv, NEW r \in Requests, NEW failing \in BOOLEAN, NEW reusable \in BOOLEAN,
         Connected(r), FreePeerClosing(r, failing, reusable)
  PROVE  IInv'
<1> USE DEF IInv
<1> DEFINE c == peer[r].connection
<1>1. /\ c \in Conns
      /\ c # None
      /\ c \in OpenConns
      /\ conn' = [conn EXCEPT ![c] = FreeSlot]
      /\ active_conns' = active_conns - 1
      /\ UNCHANGED <<cache, free, item>>
  BY DEF FreePeerClosing, Connected, HeldLeadsBack, TypeOK, PeerType, OpenConns
<1>2. /\ peer' \in [Requests -> PeerType]
      /\ peer'[r].connection = None
      /\ \A s \in Requests \ {r} : peer'[s] = peer[s]
  BY FreedPeer DEF FreePeerClosing
<1>3. ActiveConnsExact' /\ active_conns' \in Nat
  <2>1. OpenConns' = OpenConns \ {c}
    BY <1>1, KeepaliveAssumption DEF OpenConns, FreeSlot, TypeOK
  <2> QED BY <2>1, <1>1, CountDown
<1>4. RejectBoundsConns'
  BY <1>1, KeepaliveAssumption DEF RejectBoundsConns, TypeOK
<1> QED BY <1>1, <1>2, <1>3, <1>4, SlotFreed

-----------------------------------------------------------------------------
(* A connection goes into the pool, and leaves it by the close handler.    *)

\* The item q takes r's connection; what q held before, if it was cached, is
\* closed.
LEMMA SlotSaved ==
  ASSUME IInv,
         NEW r \in Requests, Connected(r), NEW q \in Items,
         ToSet(cache') = ToSet(cache) \cup {q},
         cache' \in Seq(Items), free' \in Seq(Items),
         QueuesConserveItems',
         item' = [item EXCEPT ![q] = FilledItem(r)],
         active_conns' \in Nat,
         conn' \in [Conns -> ConnType],
         conn'[peer[r].connection] = IdleConn(peer[r].connection, q),
         \A d \in Conns \ {peer[r].connection} :
           conn'[d] = IF q \in ToSet(cache) /\ d = item[q].connection
                      THEN FreeSlot ELSE conn[d],
         peer' \in [Requests -> PeerType],
         peer'[r].connection = None,
         \A s \in Requests \ {r} : peer'[s] = peer[s]
  PROVE  /\ TypeOK' /\ CachedLeadsBack' /\ IdleIsCached' /\ HeldLeadsBack'
         /\ UsedIsHeld' /\ FreeSlotsClean'
<1> DEFINE c == peer[r].connection
<1> USE DEF IInv
<1>1. /\ c \in Conns
      /\ c # None
      /\ ~conn[c].idle
      /\ conn[c].data = r
      /\ conn[c].server = peer[r].sockaddr
      /\ peer[r].sockaddr \in Peers
  BY DEF Connected, HeldLeadsBack, TypeOK, PeerType
<1>2. /\ item' \in [Items -> ItemType]
      /\ item'[q].connection = c
      /\ item'[q].sockaddr = peer[r].sockaddr
      /\ \A p \in Items \ {q} : item'[p] = item[p]
  <2>1. FilledItem(r) \in ItemType
    BY DEF FilledItem, TypeOK, PeerType, ItemType
  <2> QED BY <2>1 DEF FilledItem, TypeOK
<1>3. /\ conn'[c].server = conn[c].server
      /\ conn'[c].idle
      /\ conn'[c].data = q
      /\ conn'[c].timers = {}
  BY <1>1 DEF IdleConn, TypeOK, ConnType
<1>4. /\ FreeSlot.server = None
      /\ ~FreeSlot.idle
  BY DEF FreeSlot
<1>5. ToSet(cache) \subseteq Items
  BY LenProperties DEF TypeOK, ToSet
<1> HIDE DEF c
<1>6. TypeOK'
  BY <1>2 DEF TypeOK
<1>7. CachedLeadsBack'
  <2> SUFFICES ASSUME NEW p \in ToSet(cache) \cup {q}
               PROVE  /\ item'[p].connection \in Conns
                      /\ item'[p].sockaddr \in Peers
                      /\ conn'[item'[p].connection].server = item'[p].sockaddr
                      /\ conn'[item'[p].connection].idle
                      /\ conn'[item'[p].connection].data = p
                      /\ conn'[item'[p].connection].timers = {}
    BY DEF CachedLeadsBack
  <2>1. CASE p = q
    BY <2>1, <1>1, <1>2, <1>3
  <2>2. CASE p # q
    <3> DEFINE d == item[p].connection
    <3>1. p \in ToSet(cache) /\ item'[p] = item[p]
      BY <2>2, <1>2, <1>5
    <3>2. d \in Conns /\ d # c
      BY <3>1, <1>1 DEF CachedLeadsBack
    <3>3. q \in ToSet(cache) => d # item[q].connection
      BY <3>1, <2>2 DEF CachedLeadsBack
    <3>4. conn'[d] = conn[d]
      BY <3>2, <3>3 DEF c
    <3>5. /\ item[p].sockaddr \in Peers
          /\ conn[d].server = item[p].sockaddr
          /\ conn[d].idle
          /\ conn[d].data = p
          /\ conn[d].timers = {}
      BY <3>1 DEF CachedLeadsBack
    <3> QED BY <3>1, <3>2, <3>4, <3>5
  <2> QED BY <2>1, <2>2
<1>8. IdleIsCached'
  <2> SUFFICES ASSUME NEW d \in Conns, conn'[d].idle
               PROVE  /\ conn'[d].data \in ToSet(cache) \cup {q}
                      /\ item'[conn'[d].data].connection = d
    BY DEF IdleIsCached
  <2>1. CASE d = c
    BY <2>1, <1>2, <1>3
  <2>2. CASE d # c
    <3>1. /\ conn'[d] = conn[d]
          /\ ~(q \in ToSet(cache) /\ d = item[q].connection)
      BY <2>2, <1>4 DEF c
    <3>2. conn[d].data \in ToSet(cache) /\ item[conn[d].data].connection = d
      BY <3>1 DEF IdleIsCached
    <3>3. conn[d].data # q
      BY <3>1, <3>2
    <3> QED BY <3>1, <3>2, <3>3, <1>2, <1>5
  <2> QED BY <2>1, <2>2
<1>9. HeldLeadsBack'
  <2> SUFFICES ASSUME NEW s \in Requests, peer'[s].connection # None
               PROVE  /\ conn'[peer'[s].connection].server \in {Fd0, peer'[s].sockaddr}
                      /\ peer'[s].sockaddr \in Peers
                      /\ ~conn'[peer'[s].connection].idle
                      /\ conn'[peer'[s].connection].data = s
    BY DEF HeldLeadsBack
  <2> DEFINE d == peer[s].connection
  <2>1. s # r /\ peer'[s] = peer[s]
    OBVIOUS
  <2>2. d \in Conns /\ ~conn[d].idle /\ conn[d].data = s
    BY <2>1 DEF TypeOK, PeerType, HeldLeadsBack
  <2>3. d # c
    BY <2>1, <2>2, <1>1
  <2>4. q \in ToSet(cache) => d # item[q].connection
    BY <2>2 DEF CachedLeadsBack
  <2>5. conn'[d] = conn[d]
    BY <2>2, <2>3, <2>4 DEF c
  <2> QED BY <2>1, <2>5 DEF HeldLeadsBack
<1>10. UsedIsHeld'
  <2> SUFFICES ASSUME NEW d \in Conns, conn'[d].server # None, ~conn'[d].idle
               PROVE  \E s \in Requests : peer'[s].connection = d
    BY DEF UsedIsHeld
  <2>1. d # c /\ conn'[d] = conn[d]
    BY <1>3, <1>4 DEF c
  <2>2. PICK s \in Requests : peer[s].connection = d
    BY <2>1 DEF UsedIsHeld
  <2> QED BY <2>1, <2>2 DEF c
<1>11. FreeSlotsClean'
  <2> SUFFICES ASSUME NEW d \in Conns, conn'[d].server = None
               PROVE  conn'[d] = FreeSlot
    BY DEF FreeSlotsClean
  <2>1. d # c
    BY <1>1, <1>3, KeepaliveAssumption
  <2> QED BY <2>1 DEF FreeSlotsClean, c
<1> QED BY <1>6, <1>7, <1>8, <1>9, <1>10, <1>11

\* Saving a connection leaves a well-formed slot.
LEMMA IdleConnType ==
  ASSUME TypeOK, NEW c \in Conns, NEW q \in Items
  PROVE  IdleConn(c, q) \in ConnType
BY DEF TypeOK, IdleConn, ConnType, TimerSets

\* free_peer saves the connection in a free item.
LEMMA SaveInFreeItemStep ==
  ASSUME IInv, NEW r \in Requests, Connected(r), SaveInFreeItem(r),
         peer' \in [Requests -> PeerType],
         peer'[r].connection = None,
         \A s \in Requests \ {r} : peer'[s] = peer[s]
  PROVE  IInv'
<1> DEFINE c == peer[r].connection
           q == Head(free)
<1> USE DEF IInv
<1>1. /\ free # <<>>
      /\ free \in Seq(Items)
      /\ cache \in Seq(Items)
      /\ IsInjective(free)
      /\ IsInjective(cache)
      /\ ToSet(cache) \cap ToSet(free) = {}
      /\ Len(cache) + Len(free) = MaxCached
  BY DEF SaveInFreeItem, TypeOK, QueuesConserveItems
<1>2. /\ free' \in Seq(Items)
      /\ Len(free') = Len(free) - 1
      /\ IsInjective(free')
      /\ ToSet(free') = ToSet(free) \ {q}
      /\ q \in Items
      /\ q \in ToSet(free)
  <2>1. 1 \in DOMAIN free /\ free' = RemoveAt(free, 1) /\ q = free[1]
    BY <1>1, TailIsRemoveAt DEF SaveInFreeItem
  <2>2. q \in ToSet(free)
    BY <2>1 DEF ToSet
  <2> QED BY <1>1, <2>1, <2>2, RemoveAtQueue
<1>3. /\ cache' \in Seq(Items)
      /\ Len(cache') = Len(cache) + 1
      /\ IsInjective(cache')
      /\ ToSet(cache') = ToSet(cache) \cup {q}
      /\ q \notin ToSet(cache)
  <2>1. q \notin ToSet(cache)
    BY <1>1, <1>2
  <2>2. cache' = Cons(q, cache)
    BY DEF SaveInFreeItem
  <2> HIDE DEF q
  <2> QED BY <1>1, <1>2, <2>1, <2>2, ConsQueue
<1>4. QueuesConserveItems'
  BY <1>1, <1>2, <1>3, LenProperties DEF QueuesConserveItems
<1>5. /\ item' = [item EXCEPT ![q] = FilledItem(r)]
      /\ conn' = [conn EXCEPT ![c] = IdleConn(c, q)]
      /\ active_conns' = active_conns
  BY DEF SaveInFreeItem
<1>6. c \in Conns /\ conn[c].server \in Peers
  BY DEF Connected, HeldLeadsBack, TypeOK, PeerType
<1> HIDE DEF c, q
<1>7. /\ conn' \in [Conns -> ConnType]
      /\ conn'[c] = IdleConn(c, q)
      /\ \A d \in Conns \ {c} : conn'[d] = conn[d]
  BY <1>2, <1>5, <1>6, IdleConnType DEF TypeOK
<1>8. TypeOK' /\ CachedLeadsBack' /\ IdleIsCached' /\ HeldLeadsBack'
      /\ UsedIsHeld' /\ FreeSlotsClean'
  <2>1. active_conns' \in Nat
    BY <1>5 DEF TypeOK
  <2> QED BY <1>2, <1>3, <1>4, <1>5, <1>7, <2>1, SlotSaved DEF c
<1>9. ActiveConnsExact'
  <2>1. conn'[c].server = conn[c].server
    BY <1>6, <1>7 DEF IdleConn, TypeOK, ConnType
  <2>2. OpenConns' = OpenConns
    BY <2>1, <1>7 DEF OpenConns
  <2> QED BY <2>2, <1>5, CountKept
<1>10. RejectBoundsConns'
  BY <1>5 DEF RejectBoundsConns
<1> QED BY <1>4, <1>8, <1>9, <1>10

\* free_peer saves the connection in the item of the one it closes.
LEMMA SaveEvictingStep ==
  ASSUME IInv, NEW r \in Requests, Connected(r), MaxCached > 0, SaveEvicting(r),
         peer' \in [Requests -> PeerType],
         peer'[r].connection = None,
         \A s \in Requests \ {r} : peer'[s] = peer[s]
  PROVE  IInv'
<1> DEFINE c == peer[r].connection
           q == Last(cache)
           e == item[q].connection
<1> USE DEF IInv
<1>1. /\ free = <<>>
      /\ cache \in Seq(Items)
      /\ IsInjective(cache)
      /\ Len(cache) = MaxCached
      /\ cache # <<>>
  <2>1. free = <<>> /\ Len(free) = 0
    BY EmptySeq DEF SaveEvicting
  <2>2. cache \in Seq(Items) /\ IsInjective(cache)
        /\ Len(cache) + Len(free) = MaxCached
    BY DEF TypeOK, QueuesConserveItems
  <2>3. Len(cache) = MaxCached
    BY <2>1, <2>2, LenProperties
  <2> QED BY <2>1, <2>2, <2>3, EmptySeq
<1>2. /\ Front(cache) \in Seq(Items)
      /\ Len(Front(cache)) = Len(cache) - 1
      /\ IsInjective(Front(cache))
      /\ ToSet(Front(cache)) = ToSet(cache) \ {q}
      /\ q \in Items
      /\ q \in ToSet(cache)
  <2>1. /\ Len(cache) \in DOMAIN cache
        /\ Front(cache) = RemoveAt(cache, Len(cache))
        /\ q = cache[Len(cache)]
    BY <1>1, FrontIsRemoveAt
  <2>2. q \in ToSet(cache)
    BY <2>1 DEF ToSet
  <2> QED BY <1>1, <2>1, <2>2, RemoveAtQueue
<1>3. /\ cache' = Cons(q, Front(cache))
      /\ item' = [item EXCEPT ![q] = FilledItem(r)]
      /\ conn' = [conn EXCEPT ![e] = FreeSlot, ![c] = IdleConn(c, q)]
      /\ active_conns' = active_conns - 1
      /\ free' = free
  BY DEF SaveEvicting
<1>4. /\ c \in Conns /\ conn[c].server \in Peers /\ ~conn[c].idle
      /\ e \in Conns /\ conn[e].server \in Peers /\ conn[e].idle
  BY <1>2 DEF Connected, HeldLeadsBack, CachedLeadsBack, TypeOK, PeerType
<1> HIDE DEF c, q, e
<1>5. /\ cache' \in Seq(Items)
      /\ Len(cache') = MaxCached
      /\ IsInjective(cache')
      /\ ToSet(cache') = ToSet(cache) \cup {q}
  <2>1. q \notin ToSet(Front(cache))
    BY <1>2
  <2>2. /\ cache' \in Seq(Items)
        /\ Len(cache') = Len(Front(cache)) + 1
        /\ IsInjective(cache')
        /\ ToSet(cache') = ToSet(Front(cache)) \cup {q}
    BY <1>2, <1>3, <2>1, ConsQueue
  <2> QED BY <1>1, <1>2, <2>2, KeepaliveAssumption
<1>6. QueuesConserveItems'
  <2>1. ToSet(free') = {} /\ Len(free') = 0 /\ IsInjective(free')
    BY <1>1, <1>3 DEF ToSet, IsInjective
  <2> QED BY <1>5, <2>1, KeepaliveAssumption DEF QueuesConserveItems
<1>7. /\ conn' \in [Conns -> ConnType]
      /\ conn'[c] = IdleConn(c, q)
      /\ conn'[e] = FreeSlot
      /\ \A d \in Conns \ {c, e} : conn'[d] = conn[d]
      /\ c # e
  <2>1. FreeSlot \in ConnType
    BY DEF FreeSlot, ConnType, TimerSets
  <2>2. IdleConn(c, q) \in ConnType
    BY <1>2, <1>4, IdleConnType DEF TypeOK
  <2>3. conn \in [Conns -> ConnType]
    BY DEF TypeOK
  <2> QED BY <1>3, <1>4, <2>1, <2>2, <2>3
<1>8. ActiveConnsExact' /\ active_conns' \in Nat
  <2>1. /\ conn'[c].server = conn[c].server
        /\ conn'[e].server = None
    BY <1>4, <1>7 DEF IdleConn, TypeOK, ConnType, FreeSlot
  <2>2. OpenConns' = OpenConns \ {e} /\ e \in OpenConns
    BY <1>4, <2>1, <1>7, KeepaliveAssumption DEF OpenConns
  <2> QED BY <2>2, <1>3, CountDown
<1>9. /\ TypeOK' /\ CachedLeadsBack' /\ IdleIsCached' /\ HeldLeadsBack'
      /\ UsedIsHeld' /\ FreeSlotsClean'
  <2>1. \A d \in Conns \ {c} :
          conn'[d] = IF q \in ToSet(cache) /\ d = item[q].connection
                     THEN FreeSlot ELSE conn[d]
    BY <1>2, <1>7 DEF e
  <2>2. free' \in Seq(Items)
    BY <1>3 DEF TypeOK
  <2> QED BY <1>2, <1>3, <1>5, <1>6, <1>7, <1>8, <2>1, <2>2, SlotSaved DEF c
<1>10. RejectBoundsConns'
  BY <1>3, KeepaliveAssumption DEF RejectBoundsConns, TypeOK
<1> QED BY <1>6, <1>8, <1>9, <1>10

\* free_peer saves the connection, in either item.
LEMMA FreePeerSavingStep ==
  ASSUME IInv, NEW r \in Requests, NEW failing \in BOOLEAN, NEW reusable \in BOOLEAN,
         Connected(r), FreePeerSaving(r, failing, reusable)
  PROVE  IInv'
<1>1. /\ peer' \in [Requests -> PeerType]
      /\ peer'[r].connection = None
      /\ \A s \in Requests \ {r} : peer'[s] = peer[s]
  BY FreedPeer DEF FreePeerSaving, IInv
<1>2. MaxCached > 0
  BY DEF FreePeerSaving, Saves
<1>3. CASE SaveInFreeItem(r)
  BY <1>1, <1>3, SaveInFreeItemStep
<1>4. CASE SaveEvicting(r)
  BY <1>1, <1>2, <1>4, SaveEvictingStep
<1> QED BY <1>3, <1>4 DEF FreePeerSaving

\* The close handler frees an idle connection's slot and its item.
LEMMA CloseHandlerStep ==
  ASSUME IInv, NEW c \in Conns, CloseHandler(c)
  PROVE  IInv'
<1> USE DEF IInv
<1>1. PICK i \in DOMAIN cache :
        /\ cache[i] = conn[c].data
        /\ cache' = RemoveAt(cache, i)
        /\ free' = Cons(cache[i], free)
  BY DEF CloseHandler
<1> DEFINE q == cache[i]
<1>2. /\ conn[c].idle
      /\ conn[c].data = q
      /\ conn' = [conn EXCEPT ![c] = FreeSlot]
      /\ active_conns' = active_conns - 1
      /\ UNCHANGED <<item, peer>>
  BY <1>1 DEF CloseHandler
<1>3. /\ cache' \in Seq(Items)
      /\ Len(cache') = Len(cache) - 1
      /\ IsInjective(cache')
      /\ ToSet(cache') = ToSet(cache) \ {q}
      /\ q \in Items
      /\ q \in ToSet(cache)
  <2>1. IsInjective(cache)
    BY DEF QueuesConserveItems
  <2>2. q \in ToSet(cache)
    BY DEF ToSet
  <2> QED BY <1>1, <2>1, <2>2, RemoveAtQueue DEF TypeOK
<1>4. /\ free' \in Seq(Items)
      /\ Len(free') = Len(free) + 1
      /\ IsInjective(free')
      /\ ToSet(free') = ToSet(free) \cup {q}
  <2>1. q \notin ToSet(free) /\ IsInjective(free)
    BY <1>3 DEF QueuesConserveItems
  <2> QED BY <1>1, <1>3, <2>1, ConsQueue DEF TypeOK
<1>5. item[q].connection = c /\ conn[c].server \in Peers
  BY <1>2, <1>3 DEF IdleIsCached, CachedLeadsBack
<1> HIDE DEF q
<1>6. /\ conn' \in [Conns -> ConnType]
      /\ conn'[c] = FreeSlot
      /\ \A d \in Conns \ {c} : conn'[d] = conn[d]
      /\ FreeSlot.server = None
      /\ ~FreeSlot.idle
  <2>1. FreeSlot \in ConnType
    BY DEF FreeSlot, ConnType, TimerSets
  <2> QED BY <1>2, <2>1 DEF TypeOK, FreeSlot
<1>7. ActiveConnsExact' /\ active_conns' \in Nat
  <2>1. OpenConns' = OpenConns \ {c} /\ c \in OpenConns
    BY <1>5, <1>6, KeepaliveAssumption DEF OpenConns
  <2> QED BY <2>1, <1>2, CountDown
<1>8. TypeOK'
  BY <1>2, <1>3, <1>4, <1>6, <1>7 DEF TypeOK
<1>9. QueuesConserveItems'
  BY <1>3, <1>4, LenProperties DEF QueuesConserveItems, TypeOK
<1>10. CachedLeadsBack'
  <2> SUFFICES ASSUME NEW p \in ToSet(cache) \ {q}
               PROVE  /\ item[p].connection \in Conns
                      /\ item[p].sockaddr \in Peers
                      /\ conn'[item[p].connection].server = item[p].sockaddr
                      /\ conn'[item[p].connection].idle
                      /\ conn'[item[p].connection].data = p
                      /\ conn'[item[p].connection].timers = {}
    BY <1>2, <1>3 DEF CachedLeadsBack
  <2>1. item[p].connection \in Conns \ {c}
    BY <1>2 DEF CachedLeadsBack
  <2> QED BY <2>1, <1>6 DEF CachedLeadsBack
<1>11. IdleIsCached'
  <2> SUFFICES ASSUME NEW d \in Conns, conn'[d].idle
               PROVE  /\ conn'[d].data \in ToSet(cache) \ {q}
                      /\ item[conn'[d].data].connection = d
    BY <1>2, <1>3 DEF IdleIsCached
  <2>1. d # c /\ conn'[d] = conn[d]
    BY <1>6
  <2> QED BY <2>1, <1>5 DEF IdleIsCached
<1>12. HeldLeadsBack'
  <2> SUFFICES ASSUME NEW s \in Requests, peer[s].connection # None
               PROVE  conn'[peer[s].connection] = conn[peer[s].connection]
    BY <1>2 DEF HeldLeadsBack
  <2> QED BY <1>2, <1>6 DEF HeldLeadsBack, TypeOK, PeerType
<1>13. UsedIsHeld'
  BY <1>2, <1>6 DEF UsedIsHeld
<1>14. FreeSlotsClean'
  BY <1>6 DEF FreeSlotsClean
<1>15. RejectBoundsConns'
  BY <1>2, KeepaliveAssumption DEF RejectBoundsConns, TypeOK
<1> QED BY <1>7, <1>8, <1>9, <1>10, <1>11, <1>12, <1>13, <1>14, <1>15

-----------------------------------------------------------------------------
(* Every call.                                                             *)

\* The calls that change only the peer data of a request.
LEMMA PeerCallStep ==
  ASSUME IInv, NEW r \in Requests,
         \/ InitPeer(r) \/ ResetPeer(r) \/ SetNames(r)
         \/ \E p \in Peers : RejectPeerNoSlot(r, p) \/ OpenFails(r, p)
         \/ \E failing \in BOOLEAN : FreePeerAgain(r, failing),
         peer[r].connection = None \/ SetNames(r)
  PROVE  IInv'
<1>1. peer \in [Requests -> PeerType]
  BY DEF IInv, TypeOK
<1>2. CASE InitPeer(r) /\ peer[r].connection = None
  BY <1>1, <1>2, PeerStep DEF InitPeer, FreshPeer, PeerType
<1>3. CASE ResetPeer(r) /\ peer[r].connection = None
  BY <1>1, <1>3, PeerStep DEF ResetPeer, PeerType
<1>4. CASE SetNames(r)
  BY <1>1, <1>4, PeerStep DEF SetNames, PeerType
<1>5. ASSUME NEW p \in Peers, RejectPeerNoSlot(r, p) \/ OpenFails(r, p),
             peer[r].connection = None
      PROVE  IInv'
  <2>1. /\ peer' = [peer EXCEPT ![r] = ChosenPeer(r, p, None)]
        /\ UNCHANGED <<cache, free, item, active_conns, conn>>
    BY <1>5 DEF RejectPeerNoSlot, OpenFails
  <2>2. ChosenPeer(r, p, None) \in PeerType /\ ChosenPeer(r, p, None).connection = None
    BY <1>1 DEF ChosenPeer, PeerType
  <2> QED BY <1>1, <1>5, <2>1, <2>2, PeerStep
<1>6. ASSUME NEW failing \in BOOLEAN, FreePeerAgain(r, failing)
      PROVE  IInv'
  <2>1. Failed(r, failing) \in BOOLEAN
    BY DEF Failed
  <2> QED BY <1>1, <1>6, <2>1, PeerStep DEF FreePeerAgain, PeerType
<1>7. CASE ~SetNames(r) /\ peer[r].connection = None
  BY <1>2, <1>3, <1>5, <1>6, <1>7
<1> QED BY <1>4, <1>7

\* The calls that change only the timers and the posted event of one used slot.
LEMMA TimersStep ==
  ASSUME IInv, NEW r \in Requests, Connected(r), NEW timers \in TimerSets,
         SetTimers(r, timers)
  PROVE  IInv'
<1> DEFINE c == peer[r].connection
<1>1. /\ conn \in [Conns -> ConnType]
      /\ c \in Conns
      /\ ~conn[c].idle
      /\ conn[c].server # None
  BY KeepaliveAssumption DEF IInv, TypeOK, PeerType, Connected, HeldLeadsBack
<1>2. conn' = [conn EXCEPT ![c].timers = timers]
  BY DEF SetTimers
<1> HIDE DEF c
<1>3. conn' \in [Conns -> ConnType]
  BY <1>1, <1>2 DEF ConnType
<1> QED BY <1>1, <1>2, <1>3, SlotStep DEF SetTimers, ConnType

\* The event loop posts the write event of a used slot, or runs a posted one.
LEMMA PostedStep ==
  ASSUME IInv, NEW c \in Conns,
         (Post(c) /\ conn[c].server # None) \/ RunPosted(c)
  PROVE  IInv'
<1>1. conn \in [Conns -> ConnType]
  BY DEF IInv, TypeOK
<1>2. conn[c].server # None
  BY DEF RunPosted, IInv, FreeSlotsClean, FreeSlot
<1>3. PICK b \in BOOLEAN : conn' = [conn EXCEPT ![c].posted = b]
  BY DEF Post, RunPosted
<1>4. conn' \in [Conns -> ConnType]
  BY <1>1, <1>3 DEF ConnType
<1>5. UNCHANGED <<cache, free, item, active_conns, peer>>
  BY DEF Post, RunPosted
<1> QED BY <1>1, <1>2, <1>3, <1>4, <1>5, SlotStep DEF ConnType

\* get_peer, whichever connection it finds or makes.
LEMMA GetPeerStep ==
  ASSUME IInv, NEW r \in Requests, GetPeer(r)
  PROVE  IInv'
<1>1. peer[r].connection = None
  BY DEF GetPeer
<1>2. CASE GetPeerSingle(r)
  <2>1. 1 \in DOMAIN cache
    BY <1>2, EmptySeq, LenProperties DEF GetPeerSingle, IInv, TypeOK
  <2> QED BY <1>1, <1>2, <2>1, TakeItemStep DEF GetPeerSingle
<1>3. ASSUME NEW p \in Peers, GetPeerMulti(r, p)
      PROVE  IInv'
  BY <1>1, <1>3, TakeItemStep DEF GetPeerMulti
<1>4. ASSUME NEW p \in Peers, RejectPeer(r, p)
      PROVE  IInv'
  BY <1>1, <1>4, RejectPeerStep
<1>5. ASSUME NEW p \in Peers, RejectPeerNoSlot(r, p) \/ OpenFails(r, p)
      PROVE  IInv'
  BY <1>1, <1>5, PeerCallStep
<1>6. ASSUME NEW p \in Peers, NEW connecting \in BOOLEAN, OpenPeer(r, p, connecting)
      PROVE  IInv'
  BY <1>1, <1>6, OpenPeerStep
<1> QED BY <1>2, <1>3, <1>4, <1>5, <1>6 DEF GetPeer

\* free_peer, of a request with a connection or without one.
LEMMA ReleaseStep ==
  ASSUME IInv, NEW r \in Requests, Release(r)
  PROVE  IInv'
<1>1. PICK failing \in BOOLEAN, reusable \in BOOLEAN :
        \/ Connected(r) /\ FreePeer(r, failing, reusable)
        \/ FreePeerAgain(r, failing)
  BY DEF Release
<1>2. CASE Connected(r) /\ FreePeerSaving(r, failing, reusable)
  BY <1>2, FreePeerSavingStep
<1>3. CASE Connected(r) /\ FreePeerClosing(r, failing, reusable)
  BY <1>3, FreePeerClosingStep
<1>4. CASE FreePeerAgain(r, failing)
  <2>1. peer[r].connection = None
    BY <1>4 DEF FreePeerAgain
  <2> QED BY <1>4, <2>1, PeerCallStep
<1> QED BY <1>1, <1>2, <1>3, <1>4 DEF FreePeer

\* What a request does with the connection it has.
LEMMA ProceedStep ==
  ASSUME IInv, NEW r \in Requests, Proceed(r)
  PROVE  IInv'
<1>1. Connected(r)
  BY DEF Proceed
<1>2. CASE SetNames(r)
  BY <1>2, PeerCallStep
<1>3. ASSUME NEW timers \in TimerSets, SetTimers(r, timers)
      PROVE  IInv'
  BY <1>1, <1>3, TimersStep
<1>4. CASE Post(peer[r].connection)
  <2>1. /\ peer[r].connection \in Conns
        /\ conn[peer[r].connection].server # None
    BY <1>1, KeepaliveAssumption DEF IInv, TypeOK, PeerType, Connected, HeldLeadsBack
  <2> QED BY <1>4, <2>1, PostedStep
<1> QED BY <1>2, <1>3, <1>4 DEF Proceed

\* Nothing happens.
LEMMA StutterStep ==
  ASSUME IInv, UNCHANGED vars
  PROVE  IInv'
<1>1. peer' \in [Requests -> PeerType]
  BY DEF IInv, TypeOK, vars
<1> QED BY <1>1, PeerStep DEF vars

\* Every call of the event loop preserves the invariant.
LEMMA NextIInv == IInv /\ [Next]_vars => IInv'
<1> SUFFICES ASSUME IInv, [Next]_vars PROVE IInv'
  OBVIOUS
<1>1. ASSUME NEW r \in Requests, peer[r].connection = None, InitPeer(r)
      PROVE  IInv'
  BY <1>1, PeerCallStep
<1>2. ASSUME NEW r \in Requests, peer[r].connection = None, ResetPeer(r)
      PROVE  IInv'
  BY <1>2, PeerCallStep
<1>3. ASSUME NEW r \in Requests, GetPeer(r)
      PROVE  IInv'
  BY <1>3, GetPeerStep
<1>4. ASSUME NEW r \in Requests, Proceed(r)
      PROVE  IInv'
  BY <1>4, ProceedStep
<1>5. ASSUME NEW r \in Requests, Release(r)
      PROVE  IInv'
  BY <1>5, ReleaseStep
<1>6. ASSUME NEW r \in Requests, FreeRejected(r)
      PROVE  IInv'
  BY <1>6, FreeRejectedStep
<1>7. ASSUME NEW c \in Conns, CloseHandler(c)
      PROVE  IInv'
  BY <1>7, CloseHandlerStep
<1>8. ASSUME NEW c \in Conns, RunPosted(c)
      PROVE  IInv'
  BY <1>8, PostedStep
<1>9. CASE UNCHANGED vars
  BY <1>9, StutterStep
<1> QED
  BY <1>1, <1>2, <1>3, <1>4, <1>5, <1>6, <1>7, <1>8, <1>9 DEF Next, RequestStep

-----------------------------------------------------------------------------
(* What the invariant says of the properties of Keepalive.                 *)

\* A connection is open iff it is a cached item's or a request's, no
\* connection is both, and no two items or requests have the same one.
LEMMA OwnersExclusive == IInv => ExclusiveOwner
<1> SUFFICES ASSUME IInv PROVE ExclusiveOwner
  OBVIOUS
<1> USE DEF IInv
<1>1. \A i \in DOMAIN cache : cache[i] \in ToSet(cache)
  BY DEF ToSet
<1>2. \A q \in ToSet(cache) : \E i \in DOMAIN cache : cache[i] = q
  BY DEF ToSet
<1>3. \A r \in Requests : peer[r].connection # None => peer[r].connection \in Conns
  BY DEF TypeOK, PeerType
<1>4. OpenConns \subseteq IdleConns \cup HeldConns
  <2> SUFFICES ASSUME NEW c \in OpenConns PROVE c \in IdleConns \cup HeldConns
    OBVIOUS
  <2>1. c \in Conns /\ conn[c].server \in Peers /\ conn[c].server \notin {None, Fd0}
    BY KeepaliveAssumption DEF OpenConns
  <2>2. CASE conn[c].idle
    <3>1. PICK i \in DOMAIN cache : cache[i] = conn[c].data
      BY <2>1, <2>2, <1>2 DEF IdleIsCached
    <3> QED BY <2>1, <2>2, <3>1 DEF IdleIsCached, IdleConns
  <2>3. CASE ~conn[c].idle
    <3>1. PICK r \in Requests : peer[r].connection = c
      BY <2>1, <2>3 DEF UsedIsHeld
    <3>2. Connected(r)
      BY <2>1, <3>1, KeepaliveAssumption DEF Connected
    <3> QED BY <3>1, <3>2 DEF HeldConns
  <2> QED BY <2>2, <2>3
<1>5. \A c \in IdleConns : c \in OpenConns /\ conn[c].idle
  BY <1>1 DEF IdleConns, CachedLeadsBack, OpenConns
<1>6. \A c \in HeldConns : c \in OpenConns /\ ~conn[c].idle
  BY <1>3 DEF HeldConns, Connected, HeldLeadsBack, OpenConns
<1>7. \A i, j \in DOMAIN cache :
        item[cache[i]].connection = item[cache[j]].connection => i = j
  <2> SUFFICES ASSUME NEW i \in DOMAIN cache, NEW j \in DOMAIN cache,
                      item[cache[i]].connection = item[cache[j]].connection
               PROVE  i = j
    OBVIOUS
  <2>1. cache[i] = cache[j]
    BY <1>1 DEF CachedLeadsBack
  <2> QED BY <2>1 DEF QueuesConserveItems, IsInjective
<1>8. \A r, s \in Requests :
        /\ peer[r].connection = peer[s].connection
        /\ peer[r].connection # None
        => r = s
  BY DEF HeldLeadsBack
<1>9. OpenConns = IdleConns \cup HeldConns /\ IdleConns \cap HeldConns = {}
  BY <1>4, <1>5, <1>6
<1> QED BY <1>7, <1>8, <1>9 DEF ExclusiveOwner

\* The cached items are as the close handler and the next user expect them.
LEMMA PooledFaithful == IInv => PooledItemsFaithful
BY DEF IInv, CachedLeadsBack, PooledItemsFaithful, ToSet

\* The inductive invariant holds in every reachable state.
THEOREM Invariance == Spec => []IInv
BY InitIInv, NextIInv, PTL DEF Spec

\* Every variable keeps its type; in particular active_conns, an unsigned
\* number in the code, never goes below zero.
THEOREM TypeCorrect == Spec => []TypeOK
<1>1. IInv => TypeOK
  BY DEF IInv
<1> QED BY <1>1, Invariance, PTL

\* The five places of keepalive.c that move an item between the queues never
\* lose one or queue it twice.
THEOREM ItemsConserved == Spec => []QueuesConserveItems
<1>1. IInv => QueuesConserveItems
  BY DEF IInv
<1> QED BY <1>1, Invariance, PTL

\* No connection is ever used by two requests, used while it is idle in the
\* pool, or open with nobody to close it.
THEOREM NoSharedOrLeakedConnection == Spec => []ExclusiveOwner
BY Invariance, OwnersExclusive, PTL

\* What is cached with a connection is true of it whenever its read event may
\* run the close handler or get_peer may hand it out.
THEOREM PooledItemsStayFaithful == Spec => []PooledItemsFaithful
BY Invariance, PooledFaithful, PTL

\* No slot goes back to nginx with a timer running or an event posted.
THEOREM SlotsReturnedClean == Spec => []FreeSlotsClean
<1>1. IInv => FreeSlotsClean
  BY DEF IInv
<1> QED BY <1>1, Invariance, PTL

\* active_conns is the number of open connections, on every path.
THEOREM ActiveConnsCounted == Spec => []ActiveConnsExact
<1>1. IInv => ActiveConnsExact
  BY DEF IInv
<1> QED BY <1>1, Invariance, PTL

\* With overflow=reject, at most max connections are open at any time.
THEOREM NeverMoreThanMax ==
  Spec => [](MaxCached > 0 /\ Reject => Cardinality(OpenConns) <= MaxCached)
<1>1. IInv => (MaxCached > 0 /\ Reject => Cardinality(OpenConns) <= MaxCached)
  BY DEF IInv, ActiveConnsExact, RejectBoundsConns
<1> QED BY <1>1, Invariance, PTL

\* The same of the counter that get_peer compares with max.
THEOREM RejectBounds == Spec => []RejectBoundsConns
<1>1. IInv => RejectBoundsConns
  BY DEF IInv
<1> QED BY <1>1, Invariance, PTL
=============================================================================
