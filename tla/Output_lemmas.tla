--------------------------- MODULE Output_lemmas ---------------------------
(***************************************************************************)
(* What the operators of Output do, for any sizes of buffers and fields:   *)
(* the recursive functions (the capacity and the contents of a chain, the  *)
(* reader of the format) on a sequence that grows; a chain of buffers of   *)
(* which the client takes some; and every operation on the buffers, from   *)
(* queue_buf and request_mem to output_bufs and its failures.              *)
(*                                                                         *)
(* Induction is by the set of the numbers, or of the sequences, that have  *)
(* a property: if it were not all of them there would be a least one       *)
(* outside (WFMin).                                                        *)
(***************************************************************************)
EXTENDS Output, SequenceTheorems, FiniteSetTheorems, WellFoundedInduction, TLAPS

-----------------------------------------------------------------------------
(* Induction, and the recursive functions.                                  *)

\* Induction over the natural numbers, with the property as a set.
LEMMA NatSet ==
  ASSUME NEW T \in SUBSET Nat, 0 \in T, \A n \in T : n + 1 \in T
  PROVE  T = Nat
<1> DEFINE less == {ss \in Nat \X Nat : ss[1] < ss[2]}
<1> SUFFICES ASSUME Nat \ T # {} PROVE FALSE
  OBVIOUS
<1>1. IsWellFoundedOn(less, Nat)
  BY NatLessThanWellFounded DEF OpToRel
<1>2. PICK n \in Nat \ T : \A m \in Nat \ T : <<m, n>> \notin less
  <2> HIDE DEF less
  <2> QED BY <1>1, WFMin
<1>3. n - 1 \in Nat /\ n - 1 \notin T
  OBVIOUS
<1>4. <<n - 1, n>> \in less
  BY <1>3
<1> QED BY <1>2, <1>3, <1>4

\* Induction over sequences, likewise.
LEMMA SeqSet ==
  ASSUME NEW S, NEW T \in SUBSET Seq(S), <<>> \in T,
         \A s \in T, e \in S : Append(s, e) \in T
  PROVE  T = Seq(S)
<1> DEFINE N == {n \in Nat : \A s \in Seq(S) : Len(s) = n => s \in T}
<1>1. 0 \in N
  <2>1. ASSUME NEW s \in Seq(S), Len(s) = 0 PROVE s = <<>>
    BY <2>1, EmptySeq
  <2> QED BY <2>1
<1>2. ASSUME NEW n \in N PROVE n + 1 \in N
  <2> SUFFICES ASSUME NEW s \in Seq(S), Len(s) = n + 1 PROVE s \in T
    BY <1>2
  <2>1. s # <<>>
    BY <1>2
  <2>2. PICK t \in Seq(S), e \in S : s = Append(t, e)
    BY <2>1, SequenceEmptyOrAppend
  <2>3. Len(t) = n
    BY <2>2, AppendProperties, LenProperties
  <2> QED BY <1>2, <2>2, <2>3
<1>3. N = Nat
  <2> HIDE DEF N
  <2>1. N \in SUBSET Nat
    BY DEF N
  <2> QED BY <1>1, <1>2, <2>1, NatSet
<1> QED BY <1>3, LenProperties

-----------------------------------------------------------------------------
\* f[i] is the capacity of the first i buffers.
Sums(f, bufs, n) ==
  f = [i \in 0..n |-> IF i = 0 THEN 0 ELSE f[i - 1] + bufs[i].cap]

\* There are such sums,
LEMMA SumsExist == \A bufs : \A n \in Nat : \E f : Sums(f, bufs, n)
<1> SUFFICES ASSUME NEW bufs PROVE \A n \in Nat : \E f : Sums(f, bufs, n)
  OBVIOUS
<1> DEFINE T == {n \in Nat : \E f : Sums(f, bufs, n)}
<1>1. 0 \in T
  <2>1. Sums([i \in 0..0 |-> 0], bufs, 0)
    BY DEF Sums
  <2> QED BY <2>1
<1>2. ASSUME NEW n \in T PROVE n + 1 \in T
  <2>1. PICK f : Sums(f, bufs, n)
    BY <1>2
  <2> DEFINE g == [i \in 0..(n + 1) |->
                     IF i = 0 THEN 0
                     ELSE IF i = n + 1 THEN f[n] + bufs[i].cap ELSE f[i]]
  <2>2. \A i \in 0..n : f[i] = g[i]
    BY <2>1 DEF Sums
  <2>3. \A i \in 1..n : f[i] = f[i - 1] + bufs[i].cap
    BY <2>1 DEF Sums
  <2>0. n \in Nat
    BY <1>2
  <2>4. \A i \in 0..(n + 1) :
          g[i] = IF i = 0 THEN 0 ELSE g[i - 1] + bufs[i].cap
    <3> SUFFICES ASSUME NEW i \in 0..(n + 1)
                 PROVE  g[i] = IF i = 0 THEN 0 ELSE g[i - 1] + bufs[i].cap
      OBVIOUS
    <3>1. CASE i = 0
      BY <2>0, <3>1
    <3>2. CASE i \in 1..n
      <4>1. i # 0 /\ i # n + 1 /\ i - 1 \in 0..n
        BY <2>0, <3>2
      <4>2. g[i] = f[i] /\ g[i - 1] = f[i - 1]
        BY <2>2, <3>2, <4>1
      <4> HIDE DEF g
      <4> QED BY <2>3, <3>2, <4>1, <4>2
    <3>3. CASE i = n + 1
      <4>1. g[i] = f[n] + bufs[i].cap
        BY <2>0, <3>3
      <4>2. i # 0 /\ i - 1 = n /\ n \in 0..n
        BY <2>0, <3>3
      <4>3. g[i - 1] = f[n]
        BY <2>2, <4>2
      <4> HIDE DEF g
      <4> QED BY <4>1, <4>2, <4>3
    <3> QED BY <2>0, <3>1, <3>2, <3>3
  <2>5. Sums(g, bufs, n + 1)
    BY <2>4 DEF Sums
  <2> HIDE DEF g
  <2> QED BY <2>5
<1>3. T \in SUBSET Nat
  OBVIOUS
<1> HIDE DEF T
<1>4. T = Nat
  BY <1>1, <1>2, <1>3, NatSet
<1> QED BY <1>4 DEF T

\* and Capacity is the last of them.
LEMMA CapacitySums ==
  ASSUME NEW bufs, Len(bufs) \in Nat
  PROVE  \E f : Sums(f, bufs, Len(bufs)) /\ Capacity(bufs) = f[Len(bufs)]
<1>1. \E f : Sums(f, bufs, Len(bufs))
  BY SumsExist
<1>2. Capacity(bufs) = (CHOOSE f : Sums(f, bufs, Len(bufs)))[Len(bufs)]
  BY DEF Capacity, Sums
<1> QED BY <1>1, <1>2

\* Sums of sequences that begin alike begin alike.
LEMMA SumsAgree ==
  ASSUME NEW n \in Nat, NEW m \in Nat, n <= m, NEW b, NEW c, NEW f, NEW g,
         Sums(f, b, n), Sums(g, c, m), \A i \in 1..n : b[i] = c[i]
  PROVE  f[n] = g[n]
<1> DEFINE T == {i \in Nat : i <= n => f[i] = g[i]}
<1>1. 0 \in T
  BY DEF Sums
<1>2. ASSUME NEW i \in T PROVE i + 1 \in T
  <2> SUFFICES ASSUME i + 1 <= n PROVE f[i + 1] = g[i + 1]
    BY <1>2
  <2>0. i \in Nat /\ (i <= n => f[i] = g[i])
    BY <1>2
  <2>1. f[i] = g[i] /\ i + 1 \in 1..n /\ i + 1 \in 0..m /\ i + 1 \in 0..n
           /\ (i + 1) - 1 = i /\ i + 1 # 0
    BY <2>0
  <2>2. f[i + 1] = f[i] + b[i + 1].cap
    BY <2>1 DEF Sums
  <2>3. g[i + 1] = g[i] + c[i + 1].cap
    BY <2>1 DEF Sums
  <2> QED BY <2>1, <2>2, <2>3
<1>3. T \in SUBSET Nat
  OBVIOUS
<1> HIDE DEF T
<1>4. T = Nat
  BY <1>1, <1>2, <1>3, NatSet
<1> QED BY <1>4 DEF T

\* An empty chain has no capacity;
LEMMA CapacityOfNone == Capacity(<<>>) = 0
<1>1. PICK f : Sums(f, <<>>, Len(<<>>)) /\ Capacity(<<>>) = f[Len(<<>>)]
  BY CapacitySums, EmptySeq
<1> QED BY <1>1, EmptySeq DEF Sums

\* a buffer at its end adds its own.
LEMMA CapacityOfAppend ==
  ASSUME NEW S, NEW bufs \in Seq(S), NEW b \in S
  PROVE  Capacity(Append(bufs, b)) = Capacity(bufs) + b.cap
<1> DEFINE more == Append(bufs, b)
<1>1. /\ Len(bufs) \in Nat /\ Len(more) = Len(bufs) + 1
      /\ \A i \in 1..Len(bufs) : bufs[i] = more[i]
      /\ more[Len(bufs) + 1] = b
  BY AppendProperties, LenProperties
<1> HIDE DEF more
<1>2. PICK f : Sums(f, bufs, Len(bufs)) /\ Capacity(bufs) = f[Len(bufs)]
  BY <1>1, CapacitySums
<1>3. PICK g : Sums(g, more, Len(more)) /\ Capacity(more) = g[Len(more)]
  BY <1>1, CapacitySums
<1>4. f[Len(bufs)] = g[Len(bufs)]
  BY <1>1, <1>2, <1>3, SumsAgree
<1>5. g[Len(bufs) + 1] = g[(Len(bufs) + 1) - 1] + more[Len(bufs) + 1].cap
  BY <1>1, <1>3 DEF Sums
<1> QED BY <1>1, <1>2, <1>3, <1>4, <1>5 DEF more
\* f[i] is the reader's state behind the first i bytes.
Reads(f, bytes, n) ==
  f = [i \in 0..n |-> IF i = 0 THEN Rds!Start ELSE Rds!ReadByte(f[i - 1], bytes[i])]

\* There are such readings,
LEMMA ReadsExist == \A bytes : \A n \in Nat : \E f : Reads(f, bytes, n)
<1> SUFFICES ASSUME NEW bytes PROVE \A n \in Nat : \E f : Reads(f, bytes, n)
  OBVIOUS
<1> DEFINE T == {n \in Nat : \E f : Reads(f, bytes, n)}
<1>1. 0 \in T
  <2>1. Reads([i \in 0..0 |-> Rds!Start], bytes, 0)
    BY DEF Reads
  <2> QED BY <2>1
<1>2. ASSUME NEW n \in T PROVE n + 1 \in T
  <2>1. PICK f : Reads(f, bytes, n)
    BY <1>2
  <2> DEFINE g == [i \in 0..(n + 1) |->
                     IF i = 0 THEN Rds!Start
                     ELSE IF i = n + 1 THEN Rds!ReadByte(f[n], bytes[i]) ELSE f[i]]
  <2>2. \A i \in 0..n : f[i] = g[i]
    BY <2>1 DEF Reads
  <2>3. \A i \in 1..n : f[i] = Rds!ReadByte(f[i - 1], bytes[i])
    BY <2>1 DEF Reads
  <2>0. n \in Nat
    BY <1>2
  <2>4. \A i \in 0..(n + 1) :
          g[i] = IF i = 0 THEN Rds!Start ELSE Rds!ReadByte(g[i - 1], bytes[i])
    <3> SUFFICES ASSUME NEW i \in 0..(n + 1)
                 PROVE  g[i] = IF i = 0 THEN Rds!Start ELSE Rds!ReadByte(g[i - 1], bytes[i])
      OBVIOUS
    <3>1. CASE i = 0
      BY <2>0, <3>1
    <3>2. CASE i \in 1..n
      <4>1. i # 0 /\ i # n + 1 /\ i - 1 \in 0..n
        BY <2>0, <3>2
      <4>2. g[i] = f[i] /\ g[i - 1] = f[i - 1]
        BY <2>2, <3>2, <4>1
      <4> HIDE DEF g
      <4> QED BY <2>3, <3>2, <4>1, <4>2
    <3>3. CASE i = n + 1
      <4>1. g[i] = Rds!ReadByte(f[n], bytes[i])
        BY <2>0, <3>3
      <4>2. i # 0 /\ i - 1 = n /\ n \in 0..n
        BY <2>0, <3>3
      <4>3. g[i - 1] = f[n]
        BY <2>2, <4>2
      <4> HIDE DEF g
      <4> QED BY <4>1, <4>2, <4>3
    <3> QED BY <2>0, <3>1, <3>2, <3>3
  <2>5. Reads(g, bytes, n + 1)
    BY <2>4 DEF Reads
  <2> HIDE DEF g
  <2> QED BY <2>5
<1>3. T \in SUBSET Nat
  OBVIOUS
<1> HIDE DEF T
<1>4. T = Nat
  BY <1>1, <1>2, <1>3, NatSet
<1> QED BY <1>4 DEF T

\* and Parse is the last of them.
LEMMA ParseReads ==
  ASSUME NEW bytes, Len(bytes) \in Nat
  PROVE  \E f : Reads(f, bytes, Len(bytes)) /\ Rds!Parse(bytes) = f[Len(bytes)]
<1>1. \E f : Reads(f, bytes, Len(bytes))
  BY ReadsExist
<1>2. Rds!Parse(bytes) = (CHOOSE f : Reads(f, bytes, Len(bytes)))[Len(bytes)]
  BY DEF Rds!Parse, Reads
<1> QED BY <1>1, <1>2

\* Readings of sequences that begin alike begin alike.
LEMMA ReadsAgree ==
  ASSUME NEW n \in Nat, NEW m \in Nat, n <= m, NEW b, NEW c, NEW f, NEW g,
         Reads(f, b, n), Reads(g, c, m), \A i \in 1..n : b[i] = c[i]
  PROVE  f[n] = g[n]
<1> DEFINE T == {i \in Nat : i <= n => f[i] = g[i]}
<1>1. 0 \in T
  BY DEF Reads
<1>2. ASSUME NEW i \in T PROVE i + 1 \in T
  <2> SUFFICES ASSUME i + 1 <= n PROVE f[i + 1] = g[i + 1]
    BY <1>2
  <2>0. i \in Nat /\ (i <= n => f[i] = g[i])
    BY <1>2
  <2>1. f[i] = g[i] /\ i + 1 \in 1..n /\ i + 1 \in 0..m /\ i + 1 \in 0..n
           /\ (i + 1) - 1 = i /\ i + 1 # 0
    BY <2>0
  <2>2. f[i + 1] = Rds!ReadByte(f[i], b[i + 1])
    BY <2>1 DEF Reads
  <2>3. g[i + 1] = Rds!ReadByte(g[i], c[i + 1])
    BY <2>1 DEF Reads
  <2> QED BY <2>1, <2>2, <2>3
<1>3. T \in SUBSET Nat
  OBVIOUS
<1> HIDE DEF T
<1>4. T = Nat
  BY <1>1, <1>2, <1>3, NatSet
<1> QED BY <1>4 DEF T

\* Before the first byte the reader is at the start;
LEMMA ParseOfNone == Rds!Parse(<<>>) = Rds!Start
<1>1. PICK f : Reads(f, <<>>, Len(<<>>)) /\ Rds!Parse(<<>>) = f[Len(<<>>)]
  BY ParseReads, EmptySeq
<1> QED BY <1>1, EmptySeq DEF Reads

\* behind one byte more it is where that byte takes it.
LEMMA ParseOfAppend ==
  ASSUME NEW S, NEW bytes \in Seq(S), NEW b \in S
  PROVE  Rds!Parse(Append(bytes, b)) = Rds!ReadByte(Rds!Parse(bytes), b)
<1> DEFINE more == Append(bytes, b)
<1>1. /\ Len(bytes) \in Nat /\ Len(more) = Len(bytes) + 1
      /\ \A i \in 1..Len(bytes) : bytes[i] = more[i]
      /\ more[Len(bytes) + 1] = b
  BY AppendProperties, LenProperties
<1> HIDE DEF more
<1>2. PICK f : Reads(f, bytes, Len(bytes)) /\ Rds!Parse(bytes) = f[Len(bytes)]
  BY <1>1, ParseReads
<1>3. PICK g : Reads(g, more, Len(more)) /\ Rds!Parse(more) = g[Len(more)]
  BY <1>1, ParseReads
<1>4. f[Len(bytes)] = g[Len(bytes)]
  BY <1>1, <1>2, <1>3, ReadsAgree
<1>5. g[Len(bytes) + 1] =
        Rds!ReadByte(g[(Len(bytes) + 1) - 1], more[Len(bytes) + 1])
  BY <1>1, <1>3 DEF Reads
<1>6. (Len(bytes) + 1) - 1 = Len(bytes)
  BY <1>1
<1>7. Rds!Parse(more) = Rds!ReadByte(Rds!Parse(bytes), b)
  BY <1>1, <1>2, <1>3, <1>4, <1>5, <1>6
<1> QED BY <1>7 DEF more

\* f[i] is the first i sequences, one after the other.
Joins(f, seqs, n) ==
  f = [i \in 1..n |-> IF i = 1 THEN seqs[i] ELSE f[i - 1] \o seqs[i]]

\* There are such joins,
LEMMA JoinsExist == \A seqs : \A n \in Nat : \E f : Joins(f, seqs, n)
<1> SUFFICES ASSUME NEW seqs PROVE \A n \in Nat : \E f : Joins(f, seqs, n)
  OBVIOUS
<1> DEFINE T == {n \in Nat : \E f : Joins(f, seqs, n)}
<1>1. 0 \in T
  <2>1. Joins([i \in 1..0 |-> 0], seqs, 0)
    BY DEF Joins
  <2> QED BY <2>1
<1>2. ASSUME NEW n \in T PROVE n + 1 \in T
  <2>0. n \in Nat
    BY <1>2
  <2>1. PICK f : Joins(f, seqs, n)
    BY <1>2
  <2> DEFINE g == [i \in 1..(n + 1) |->
                     IF i = 1 THEN seqs[i]
                     ELSE IF i = n + 1 THEN f[n] \o seqs[i] ELSE f[i]]
  <2>2. \A i \in 1..n : f[i] = g[i]
    BY <2>0, <2>1 DEF Joins
  <2>3. \A i \in 2..n : f[i] = f[i - 1] \o seqs[i]
    <3>1. \A i \in 1..n : f[i] = IF i = 1 THEN seqs[i] ELSE f[i - 1] \o seqs[i]
      BY <2>1 DEF Joins
    <3>2. \A i \in 2..n : i \in 1..n /\ i # 1
      BY <2>0
    <3> QED BY <3>1, <3>2
  <2>4. \A i \in 1..(n + 1) :
          g[i] = IF i = 1 THEN seqs[i] ELSE g[i - 1] \o seqs[i]
    <3> SUFFICES ASSUME NEW i \in 1..(n + 1)
                 PROVE  g[i] = IF i = 1 THEN seqs[i] ELSE g[i - 1] \o seqs[i]
      OBVIOUS
    <3>1. CASE i = 1
      BY <2>0, <3>1
    <3>2. CASE i \in 2..n
      <4>1. i # 1 /\ i # n + 1 /\ i \in 1..n /\ i - 1 \in 1..n
        BY <2>0, <3>2
      <4>2. g[i] = f[i] /\ g[i - 1] = f[i - 1]
        BY <2>2, <4>1
      <4> HIDE DEF g
      <4> QED BY <2>3, <3>2, <4>1, <4>2
    <3>3. CASE i = n + 1 /\ i # 1
      <4>1. g[i] = f[n] \o seqs[i]
        BY <2>0, <3>3
      <4>2. i # 1 /\ i - 1 = n /\ n \in 1..n
        BY <2>0, <3>3
      <4>3. g[i - 1] = f[n]
        BY <2>2, <4>2
      <4> HIDE DEF g
      <4> QED BY <4>1, <4>2, <4>3
    <3> QED BY <2>0, <3>1, <3>2, <3>3
  <2>5. Joins(g, seqs, n + 1)
    BY <2>4 DEF Joins
  <2> HIDE DEF g
  <2> QED BY <2>0, <2>5
<1>3. T \in SUBSET Nat
  OBVIOUS
<1> HIDE DEF T
<1>4. T = Nat
  BY <1>1, <1>2, <1>3, NatSet
<1> QED BY <1>4 DEF T

\* and FlattenSeq is the last of them.
LEMMA FlattenJoins ==
  ASSUME NEW seqs, Len(seqs) \in Nat \ {0}
  PROVE  \E f : Joins(f, seqs, Len(seqs)) /\ FlattenSeq(seqs) = f[Len(seqs)]
<1>1. \E f : Joins(f, seqs, Len(seqs))
  BY JoinsExist
<1>2. FlattenSeq(seqs) = (CHOOSE f : Joins(f, seqs, Len(seqs)))[Len(seqs)]
  BY DEF FlattenSeq, Joins
<1> QED BY <1>1, <1>2

\* Joins of sequences that begin alike begin alike.
LEMMA JoinsAgree ==
  ASSUME NEW n \in Nat \ {0}, NEW m \in Nat, n <= m, NEW b, NEW c, NEW f, NEW g,
         Joins(f, b, n), Joins(g, c, m), \A i \in 1..n : b[i] = c[i]
  PROVE  f[n] = g[n]
<1> DEFINE T == {i \in Nat : i + 1 <= n => f[i + 1] = g[i + 1]}
<1>1. 0 \in T
  <2>1. 1 \in 1..n /\ 1 \in 1..m /\ 0 + 1 = 1
    OBVIOUS
  <2>2. f[1] = b[1] /\ g[1] = c[1]
    BY <2>1 DEF Joins
  <2> QED BY <2>1, <2>2
<1>2. ASSUME NEW i \in T PROVE i + 1 \in T
  <2>0. i \in Nat /\ (i + 1 <= n => f[i + 1] = g[i + 1])
    BY <1>2
  <2> SUFFICES ASSUME i + 2 <= n PROVE f[i + 2] = g[i + 2]
    BY <2>0
  <2>1. f[i + 1] = g[i + 1] /\ i + 2 \in 1..n /\ i + 2 \in 1..m
           /\ (i + 2) - 1 = i + 1 /\ i + 2 # 1
    BY <2>0
  <2>2. f[i + 2] = f[(i + 2) - 1] \o b[i + 2]
    BY <2>1, ZenonT(30) DEF Joins
  <2>3. g[i + 2] = g[(i + 2) - 1] \o c[i + 2]
    BY <2>1, ZenonT(30) DEF Joins
  <2> QED BY <2>1, <2>2, <2>3
<1>3. T \in SUBSET Nat
  OBVIOUS
<1> HIDE DEF T
<1>4. T = Nat
  BY <1>1, <1>2, <1>3, NatSet
<1>5. n - 1 \in T /\ (n - 1) + 1 = n
  BY <1>4
<1> QED BY <1>5 DEF T

\* One sequence more comes behind the others.
LEMMA FlattenOfAppend ==
  ASSUME NEW S, NEW seqs \in Seq(Seq(S)), NEW s \in Seq(S)
  PROVE  FlattenSeq(Append(seqs, s)) =
           IF seqs = <<>> THEN s ELSE FlattenSeq(seqs) \o s
<1> DEFINE more == Append(seqs, s)
<1>1. /\ Len(seqs) \in Nat /\ Len(more) = Len(seqs) + 1
      /\ \A i \in 1..Len(seqs) : seqs[i] = more[i]
      /\ more[Len(seqs) + 1] = s
  BY AppendProperties, LenProperties
<1> HIDE DEF more
<1>2. PICK g : Joins(g, more, Len(more)) /\ FlattenSeq(more) = g[Len(more)]
  BY <1>1, FlattenJoins
<1>3. CASE seqs = <<>>
  <2>1. Len(more) = 1
    BY <1>1, <1>3, EmptySeq
  <2>2. g[1] = more[1]
    <3>1. 1 \in 1..Len(more)
      BY <2>1
    <3> QED BY <1>2, <3>1, ZenonT(30) DEF Joins
  <2>3. more[1] = s
    <3>1. Len(seqs) + 1 = 1
      BY <1>1, <2>1
    <3> QED BY <1>1, <3>1
  <2> QED BY <1>2, <1>3, <2>1, <2>2, <2>3 DEF more
<1>4. CASE seqs # <<>>
  <2>1. Len(seqs) \in Nat \ {0}
    BY <1>4, EmptySeq
  <2>2. PICK f : Joins(f, seqs, Len(seqs)) /\ FlattenSeq(seqs) = f[Len(seqs)]
    BY <2>1, FlattenJoins
  <2>3. f[Len(seqs)] = g[Len(seqs)]
    <3>1. Len(more) \in Nat /\ Len(seqs) <= Len(more)
      BY <1>1
    <3> QED BY <1>1, <1>2, <2>1, <2>2, <3>1, JoinsAgree
  <2>4. Len(seqs) + 1 \in 1..Len(more) /\ Len(seqs) + 1 # 1
    BY <1>1, <2>1
  <2>5. g[Len(seqs) + 1] = g[(Len(seqs) + 1) - 1] \o more[Len(seqs) + 1]
    BY <1>2, <2>4, ZenonT(30) DEF Joins
  <2>6. (Len(seqs) + 1) - 1 = Len(seqs)
    BY <1>1
  <2>7. FlattenSeq(more) = FlattenSeq(seqs) \o s
    BY <1>1, <1>2, <2>2, <2>3, <2>5, <2>6
  <2> QED BY <1>4, <2>7 DEF more
<1> QED BY <1>3, <1>4

RdsByte == [t : {"head", "col", "row", "length", "text"}, n : Int]

\* A buffer of the chain: it has bytes, no more than fit, and it is not smaller
\* than drizzle_buffer_size.
Buffer == {b \in [cap : Nat, data : Seq(RdsByte)] :
             Len(b.data) \in 1..b.cap /\ b.cap >= BufSize}

\* The parts of a stream.
LEMMA Concats ==
  ASSUME NEW S, NEW s \in Seq(S), NEW t \in Seq(S), NEW u \in Seq(S)
  PROVE  /\ s \o t \in Seq(S)
         /\ Len(s \o t) = Len(s) + Len(t)
         /\ Len(s) \in Nat /\ Len(t) \in Nat
         /\ (s \o t) \o u = s \o (t \o u)
         /\ s \o <<>> = s /\ <<>> \o s = s
<1>1. s \o t \in Seq(S) /\ Len(s \o t) = Len(s) + Len(t)
  BY ConcatProperties
<1>2. Len(s) \in Nat /\ Len(t) \in Nat
  BY LenProperties
<1>3. (s \o t) \o u = s \o (t \o u)
  BY ConcatAssociative
<1>4. s \o <<>> = s /\ <<>> \o s = s
  BY ConcatEmptySeq
<1> QED BY <1>1, <1>2, <1>3, <1>4

\* Concatenation is associative, for streams
LEMMA Assoc == \A s, t, u \in Seq(RdsByte) : (s \o t) \o u = s \o (t \o u)
<1> TAKE s, t, u \in Seq(RdsByte)
<1> QED BY ConcatAssociative

\* and for chains of buffers.
LEMMA BufAssoc == \A s, t, u \in Seq(Buffer) : (s \o t) \o u = s \o (t \o u)
<1> TAKE s, t, u \in Seq(Buffer)
<1> QED BY ConcatAssociative

\* An empty chain holds no bytes,
LEMMA ContentsOfNone == Contents(<<>>) = <<>>
<1>1. [i \in DOMAIN <<>> |-> <<>>[i].data] = <<>>
  OBVIOUS
<1>2. FlattenSeq(<<>>) = <<>>
  BY EmptySeq DEF FlattenSeq
<1> QED BY <1>1, <1>2 DEF Contents

\* the data of a chain is a sequence of streams,
LEMMA DataOfBuffers ==
  ASSUME NEW bufs \in Seq(Buffer)
  PROVE  [i \in DOMAIN bufs |-> bufs[i].data] \in Seq(Seq(RdsByte))
<1>1. Len(bufs) \in Nat /\ DOMAIN bufs = 1..Len(bufs)
  BY LenProperties
<1>2. \A i \in 1..Len(bufs) : bufs[i].data \in Seq(RdsByte)
  BY ElementOfSeq DEF Buffer
<1> QED BY <1>1, <1>2

\* a buffer at the end of a chain puts its bytes behind the others',
LEMMA ContentsOfAppend ==
  ASSUME NEW bufs \in Seq(Buffer), NEW b \in Buffer,
         Contents(bufs) \in Seq(RdsByte)
  PROVE  Contents(Append(bufs, b)) = Contents(bufs) \o b.data
<1> DEFINE data(s) == [i \in DOMAIN s |-> s[i].data]
<1>1. data(bufs) \in Seq(Seq(RdsByte)) /\ b.data \in Seq(RdsByte)
  BY DataOfBuffers DEF Buffer
<1>2. data(Append(bufs, b)) = Append(data(bufs), b.data)
  <2>1. Append(bufs, b) \in Seq(Buffer)
    BY AppendProperties
  <2>2. data(Append(bufs, b)) \in Seq(Seq(RdsByte))
    BY <2>1, DataOfBuffers
  <2>3. Append(data(bufs), b.data) \in Seq(Seq(RdsByte))
    BY <1>1, AppendProperties
  <2>4. /\ Len(data(bufs)) = Len(bufs) /\ Len(bufs) \in Nat
        /\ Len(data(Append(bufs, b))) = Len(bufs) + 1
        /\ Len(Append(data(bufs), b.data)) = Len(bufs) + 1
        /\ DOMAIN bufs = 1..Len(bufs)
        /\ DOMAIN Append(bufs, b) = 1..(Len(bufs) + 1)
    <3>1. DOMAIN data(bufs) = 1..Len(bufs) /\ Len(bufs) \in Nat
            /\ DOMAIN bufs = 1..Len(bufs)
      BY LenProperties
    <3>2. Len(data(bufs)) \in Nat /\ DOMAIN data(bufs) = 1..Len(data(bufs))
      BY <1>1, LenProperties
    <3>3. Len(data(bufs)) = Len(bufs)
      BY <3>1, <3>2
    <3>4. DOMAIN Append(bufs, b) = 1..(Len(bufs) + 1)
      BY <2>1, <3>1, AppendProperties, LenProperties
    <3>5. Len(data(Append(bufs, b))) \in Nat
          /\ DOMAIN data(Append(bufs, b)) = 1..Len(data(Append(bufs, b)))
      BY <2>2, LenProperties
    <3>6. Len(data(Append(bufs, b))) = Len(bufs) + 1
      BY <3>1, <3>4, <3>5
    <3> QED BY <1>1, <3>1, <3>3, <3>4, <3>6, AppendProperties
  <2>5. ASSUME NEW i \in 1..(Len(bufs) + 1)
        PROVE  data(Append(bufs, b))[i] = Append(data(bufs), b.data)[i]
    <3>1. CASE i = Len(bufs) + 1
      <4>1. Append(bufs, b)[i] = b
        BY <3>1, AppendProperties
      <4>2. Append(data(bufs), b.data)[i] = b.data
        BY <1>1, <2>4, <3>1, AppendProperties
      <4> QED BY <2>4, <4>1, <4>2
    <3>2. CASE i \in 1..Len(bufs)
      <4>1. Append(bufs, b)[i] = bufs[i]
        BY <3>2, AppendProperties
      <4>2. Append(data(bufs), b.data)[i] = data(bufs)[i]
        BY <1>1, <2>4, <3>2, AppendProperties
      <4> QED BY <2>4, <3>2, <4>1, <4>2
    <3> QED BY <2>4, <3>1, <3>2
  <2>6. \A x, y \in Seq(Seq(RdsByte)) :
          Len(x) = Len(y) /\ (\A i \in 1..Len(x) : x[i] = y[i]) => x = y
    BY SeqEqual
  <2> HIDE DEF data
  <2> QED BY <2>2, <2>3, <2>4, <2>5, <2>6
<1> HIDE DEF data
<1>3. Contents(Append(bufs, b)) =
        IF data(bufs) = <<>> THEN b.data ELSE Contents(bufs) \o b.data
  BY <1>1, <1>2, FlattenOfAppend DEF Contents, data
<1>4. data(bufs) = <<>> => Contents(bufs) = <<>>
  BY EmptySeq DEF Contents, data, FlattenSeq
<1> QED BY <1>1, <1>3, <1>4, ConcatEmptySeq

\* a chain holds a stream,
LEMMA ContentsType ==
  ASSUME NEW bufs \in Seq(Buffer)
  PROVE  Contents(bufs) \in Seq(RdsByte)
<1> DEFINE T == {s \in Seq(Buffer) : Contents(s) \in Seq(RdsByte)}
<1>1. <<>> \in T
  BY ContentsOfNone, EmptySeq
<1>2. ASSUME NEW s \in T, NEW b \in Buffer PROVE Append(s, b) \in T
  <2>1. b.data \in Seq(RdsByte)
    BY DEF Buffer
  <2>2. Contents(Append(s, b)) = Contents(s) \o b.data
    BY ContentsOfAppend
  <2>3. Contents(s) \o b.data \in Seq(RdsByte)
    BY <2>1, ConcatProperties
  <2>4. Append(s, b) \in Seq(Buffer)
    BY AppendProperties
  <2> QED BY <2>2, <2>3, <2>4
<1>3. T \in SUBSET Seq(Buffer)
  OBVIOUS
<1> HIDE DEF T
<1>4. T = Seq(Buffer)
  BY <1>1, <1>2, <1>3, SeqSet
<1> QED BY <1>4 DEF T

\* and two chains hold the one's behind the other's.
LEMMA ContentsOfConcat ==
  ASSUME NEW s \in Seq(Buffer), NEW t \in Seq(Buffer)
  PROVE  Contents(s \o t) = Contents(s) \o Contents(t)
<1> DEFINE T == {u \in Seq(Buffer) : Contents(s \o u) = Contents(s) \o Contents(u)}
<1>1. <<>> \in T
  BY ContentsOfNone, ContentsType, EmptySeq, ConcatEmptySeq
<1>2. ASSUME NEW u \in T, NEW b \in Buffer PROVE Append(u, b) \in T
  <2>1. Append(u, b) = u \o <<b>> /\ <<b>> \in Seq(Buffer)
        /\ Append(s \o u, b) = (s \o u) \o <<b>> /\ s \o u \in Seq(Buffer)
    BY AppendIsConcat, ConcatProperties
  <2>2. s \o Append(u, b) = Append(s \o u, b)
    BY <2>1, ConcatAssociative
  <2>3. Contents(Append(s \o u, b)) = Contents(s \o u) \o b.data
    BY <2>1, ContentsOfAppend, ContentsType
  <2>4. Contents(Append(u, b)) = Contents(u) \o b.data
    BY ContentsOfAppend, ContentsType
  <2>5. b.data \in Seq(RdsByte)
    BY DEF Buffer
  <2>6. Contents(s) \o (Contents(u) \o b.data) = (Contents(s) \o Contents(u)) \o b.data
    <3>1. Contents(s) \in Seq(RdsByte) /\ Contents(u) \in Seq(RdsByte)
      BY ContentsType
    <3> QED BY <2>5, <3>1, Assoc
  <2> QED BY <2>2, <2>3, <2>4, <2>6, AppendProperties
<1>3. T \in SUBSET Seq(Buffer)
  OBVIOUS
<1> HIDE DEF T
<1>4. T = Seq(Buffer)
  BY <1>1, <1>2, <1>3, SeqSet
<1> QED BY <1>4 DEF T

\* The capacity of a chain covers its contents, and drizzle_buffer_size for
\* each of its buffers.
LEMMA CapacityFacts ==
  ASSUME NEW bufs \in Seq(Buffer)
  PROVE  /\ Capacity(bufs) \in Nat
         /\ Len(Contents(bufs)) <= Capacity(bufs)
         /\ BufSize * Len(bufs) <= Capacity(bufs)
<1> DEFINE T == {s \in Seq(Buffer) : /\ Capacity(s) \in Nat
                                      /\ Len(Contents(s)) <= Capacity(s)
                                      /\ BufSize * Len(s) <= Capacity(s)}
<1>0. BufSize \in Nat
  BY OutputAssumption
<1>1. <<>> \in T
  BY <1>0, CapacityOfNone, ContentsOfNone, EmptySeq
<1>2. ASSUME NEW s \in T, NEW b \in Buffer PROVE Append(s, b) \in T
  <2>1. /\ Append(s, b) \in Seq(Buffer) /\ Len(Append(s, b)) = Len(s) + 1
        /\ Len(s) \in Nat
    BY AppendProperties, LenProperties
  <2>2. Capacity(Append(s, b)) = Capacity(s) + b.cap
    BY CapacityOfAppend
  <2>3. Len(Contents(Append(s, b))) = Len(Contents(s)) + Len(b.data)
    <3>1. Contents(s) \in Seq(RdsByte) /\ b.data \in Seq(RdsByte)
      BY ContentsType DEF Buffer
    <3> QED BY <3>1, ContentsOfAppend, ConcatProperties
  <2>4. /\ b.cap \in Nat /\ Len(b.data) <= b.cap /\ BufSize <= b.cap
        /\ Len(b.data) \in Nat
    BY DEF Buffer
  <2>5. Len(Contents(s)) \in Nat
    BY ContentsType, LenProperties
  <2>6. BufSize * (Len(s) + 1) = BufSize * Len(s) + BufSize
    BY <1>0, <2>1
  <2>7. BufSize * Len(s) \in Nat
    BY <1>0, <2>1
  <2>8. Capacity(s) \in Nat /\ Len(Contents(s)) <= Capacity(s) /\ BufSize * Len(s) <= Capacity(s)
    OBVIOUS
  <2> HIDE DEF T
  <2>9. /\ Capacity(Append(s, b)) \in Nat
        /\ Len(Contents(Append(s, b))) <= Capacity(Append(s, b))
        /\ BufSize * Len(Append(s, b)) <= Capacity(Append(s, b))
    <3>1. Capacity(Append(s, b)) \in Nat
      BY <2>2, <2>4, <2>8
    <3>2. Len(Contents(Append(s, b))) <= Capacity(Append(s, b))
      BY <2>2, <2>3, <2>4, <2>5, <2>8
    <3>3. BufSize * Len(Append(s, b)) = BufSize * Len(s) + BufSize
      BY <2>1, <2>6
    <3>4. BufSize * Len(s) + BufSize <= Capacity(s) + b.cap
      BY <1>0, <2>4, <2>7, <2>8
    <3> QED BY <2>2, <3>1, <3>2, <3>3, <3>4
  <2> QED BY <2>1, <2>9 DEF T
<1>3. T \in SUBSET Seq(Buffer)
  OBVIOUS
<1> HIDE DEF T
<1>4. T = Seq(Buffer)
  BY <1>1, <1>2, <1>3, SeqSet
<1> QED BY <1>4 DEF T

\* What the reader makes of a stream that goes on.

\* A byte after an error, or after the end, is an error,
LEMMA ErrorStays ==
  ASSUME NEW s \in Seq(RdsByte), ~Rds!Legal(s), NEW t \in Seq(RdsByte)
  PROVE  ~Rds!Legal(s \o t)
<1> DEFINE T == {u \in Seq(RdsByte) : ~Rds!Legal(s \o u)}
<1>1. <<>> \in T
  BY EmptySeq, ConcatEmptySeq
<1>2. ASSUME NEW u \in T, NEW b \in RdsByte PROVE Append(u, b) \in T
  <2>1. s \o Append(u, b) = Append(s \o u, b) /\ s \o u \in Seq(RdsByte)
        /\ Append(u, b) \in Seq(RdsByte)
    <3>1. <<b>> \in Seq(RdsByte) /\ s \o u \in Seq(RdsByte)
      BY ConcatProperties
    <3>2. Append(u, b) = u \o <<b>> /\ Append(s \o u, b) = (s \o u) \o <<b>>
      BY <3>1, AppendIsConcat
    <3>3. s \o (u \o <<b>>) = (s \o u) \o <<b>>
      BY <3>1, ConcatAssociative
    <3> QED BY <3>1, <3>2, <3>3, AppendProperties
  <2>2. Rds!Parse(s \o Append(u, b)) = Rds!ReadByte(Rds!Parse(s \o u), b)
    BY <2>1, ParseOfAppend
  <2>3. Rds!Parse(s \o u).expect = "error"
    BY DEF Rds!Legal
  <2>4. Rds!Parse(s \o Append(u, b)).expect = "error"
    BY <2>2, <2>3 DEF Rds!ReadByte, Rds!Failed, Rds!Start
  <2> QED BY <2>1, <2>4 DEF Rds!Legal
<1>3. T \in SUBSET Seq(RdsByte)
  OBVIOUS
<1> HIDE DEF T
<1>4. T = Seq(RdsByte)
  BY <1>1, <1>2, <1>3, SeqSet
<1> QED BY <1>4 DEF T

\* so what begins a legal stream is legal, and has its end only if it is all
\* of it.
LEMMA Beginnings ==
  ASSUME NEW s \in Seq(RdsByte), NEW t \in Seq(RdsByte), Rds!Legal(s \o t)
  PROVE  Rds!Legal(s) /\ (Rds!Accepts(s) => t = <<>>)
<1>1. Rds!Legal(s)
  BY ErrorStays
<1>2. ASSUME Rds!Accepts(s), t # <<>> PROVE FALSE
  <2>1. /\ Head(t) \in RdsByte /\ Tail(t) \in Seq(RdsByte)
        /\ t = <<Head(t)>> \o Tail(t)
    BY <1>2
  <2>2. <<Head(t)>> \in Seq(RdsByte) /\ Append(s, Head(t)) \in Seq(RdsByte)
        /\ Append(s, Head(t)) = s \o <<Head(t)>>
    BY <2>1, AppendIsConcat, AppendProperties
  <2>3. s \o t = Append(s, Head(t)) \o Tail(t)
    <3>1. s \o (<<Head(t)>> \o Tail(t)) = (s \o <<Head(t)>>) \o Tail(t)
      BY <2>1, <2>2, ConcatAssociative
    <3> QED BY <2>1, <2>2, <3>1
  <2>4. Rds!Parse(Append(s, Head(t))) = Rds!ReadByte(Rds!Parse(s), Head(t))
    BY <2>1, ParseOfAppend
  <2>5. ~Rds!Legal(Append(s, Head(t)))
    BY <1>2, <2>4 DEF Rds!Legal, Rds!Accepts, Rds!ReadByte, Rds!Failed, Rds!Start
  <2> QED BY <2>1, <2>2, <2>3, <2>5, ErrorStays
<1> QED BY <1>1, <1>2

\* A state of the reader.
Reader(e, c, l, t) == [expect |-> e, cols |-> c, left |-> l, text |-> t]

\* Behind a field, with l of the row's fields to come when it began.
NextField(c, l) ==
  IF l > 1 THEN Reader("length", c, l - 1, 0) ELSE Reader("row", c, 0, 0)

\* Behind a column, likewise.
NextColumn(c, l) ==
  IF l > 1 THEN Reader("col", c, l - 1, 0) ELSE Reader("row", c, 0, 0)

\* A record with these fields and no others.
LEMMA Exactly ==
  ASSUME NEW e, NEW c, NEW l, NEW t,
         NEW s \in [expect : {e}, cols : {c}, left : {l}, text : {t}]
  PROVE  s = Reader(e, c, l, t)
BY DEF Reader

\* Its fields.
LEMMA Fields ==
  ASSUME NEW e, NEW c, NEW l, NEW t
  PROVE  /\ Reader(e, c, l, t).expect = e
         /\ Reader(e, c, l, t).cols = c
         /\ Reader(e, c, l, t).left = l
         /\ Reader(e, c, l, t).text = t
BY DEF Reader

\* The reader's steps.
LEMMA TextStep ==
  ASSUME NEW c, NEW l, NEW m \in Int, m > 0
  PROVE  Rds!ReadByte(Reader("text", c, l, m), Rds!Text) =
           IF m > 1 THEN Reader("text", c, l, m - 1) ELSE NextField(c, l)
<1> DEFINE r == Reader("text", c, l, m)
<1>1. r.expect = "text" /\ r.text = m /\ r.left = l
  BY DEF Reader
<1>2. [r EXCEPT !.text = @ - 1] = Reader("text", c, l, m - 1)
  BY DEF Reader
<1>3. Rds!NextAtom(r, "length") = NextField(c, l)
  <2>0. PICK k : k = l - 1
    OBVIOUS
  <2>1. [r EXCEPT !.expect = "length", !.left = k, !.text = 0] \in
          [expect : {"length"}, cols : {c}, left : {k}, text : {0}]
    BY DEF Reader
  <2>2. [r EXCEPT !.expect = "row", !.left = 0, !.text = 0] \in
          [expect : {"row"}, cols : {c}, left : {0}, text : {0}]
    BY DEF Reader
  <2>3. [r EXCEPT !.expect = "length", !.left = k, !.text = 0] = Reader("length", c, k, 0)
    BY <2>1, Exactly
  <2>4. [r EXCEPT !.expect = "row", !.left = 0, !.text = 0] = Reader("row", c, 0, 0)
    BY <2>2, Exactly
  <2>5. r.left = l
    BY Fields
  <2> HIDE DEF r
  <2> QED BY <2>0, <2>3, <2>4, <2>5 DEF Rds!NextAtom, NextField
<1> HIDE DEF r
<1>4. CASE m > 1
  <2>1. Rds!ReadByte(r, Rds!Text) = [r EXCEPT !.text = @ - 1]
    BY <1>1, <1>4 DEF Rds!ReadByte, Rds!Byte, Rds!Text
  <2> QED BY <1>2, <1>4, <2>1 DEF r
<1>5. CASE m = 1
  <2>1. Rds!ReadByte(r, Rds!Text) = Rds!NextAtom(r, "length")
    BY <1>1, <1>5 DEF Rds!ReadByte, Rds!Byte, Rds!Text
  <2> QED BY <1>3, <1>5, <2>1 DEF r
<1> QED BY <1>4, <1>5

\* the length of a field,
LEMMA LengthStep ==
  ASSUME NEW c, NEW l, NEW n \in Int
  PROVE  Rds!ReadByte(Reader("length", c, l, 0), Rds!Byte("length", n)) =
           IF n > 0 THEN Reader("text", c, l, n) ELSE NextField(c, l)
<1> DEFINE r == Reader("length", c, l, 0)
           b == Rds!Byte("length", n)
<1>1. r.expect = "length" /\ r.left = l /\ b.t = "length" /\ b.n = n
  BY DEF Reader, Rds!Byte
<1>2. [r EXCEPT !.expect = "text", !.text = b.n] = Reader("text", c, l, n)
  <2>1. [r EXCEPT !.expect = "text", !.text = b.n] \in
          [expect : {"text"}, cols : {c}, left : {l}, text : {n}]
    BY <1>1 DEF Reader
  <2> QED BY <2>1, Exactly
<1>3. Rds!NextAtom(r, "length") = NextField(c, l)
  <2>0. PICK k : k = l - 1
    OBVIOUS
  <2>1. [r EXCEPT !.expect = "length", !.left = k, !.text = 0] \in
          [expect : {"length"}, cols : {c}, left : {k}, text : {0}]
    BY DEF Reader
  <2>2. [r EXCEPT !.expect = "row", !.left = 0, !.text = 0] \in
          [expect : {"row"}, cols : {c}, left : {0}, text : {0}]
    BY DEF Reader
  <2>3. [r EXCEPT !.expect = "length", !.left = k, !.text = 0] = Reader("length", c, k, 0)
    BY <2>1, Exactly
  <2>4. [r EXCEPT !.expect = "row", !.left = 0, !.text = 0] = Reader("row", c, 0, 0)
    BY <2>2, Exactly
  <2>5. r.left = l
    BY Fields
  <2> HIDE DEF r
  <2> QED BY <2>0, <2>3, <2>4, <2>5 DEF Rds!NextAtom, NextField
<1> HIDE DEF r, b
<1>4. CASE n > 0
  <2>1. Rds!ReadByte(r, b) = [r EXCEPT !.expect = "text", !.text = b.n]
    BY <1>1, <1>4 DEF Rds!ReadByte
  <2> QED BY <1>2, <1>4, <2>1 DEF r, b
<1>5. CASE n <= 0
  <2>1. Rds!ReadByte(r, b) = Rds!NextAtom(r, "length")
    BY <1>1, <1>5 DEF Rds!ReadByte
  <2> QED BY <1>3, <1>5, <2>1 DEF r, b
<1> QED BY <1>4, <1>5

\* the byte that tells a row from the end of the rows,
LEMMA RowStep ==
  ASSUME NEW c
  PROVE  /\ Rds!ReadByte(Reader("row", c, 0, 0), Rds!Byte("row", 0)) =
              Reader("end", c, 0, 0)
         /\ Rds!ReadByte(Reader("row", c, 0, 0), Rds!Byte("row", 1)) =
              Reader("length", c, c, 0)
<1> DEFINE r == Reader("row", c, 0, 0)
<1>1. r.expect = "row" /\ r.cols = c
  BY DEF Reader
<1>2. /\ [r EXCEPT !.expect = "end"] = Reader("end", c, 0, 0)
      /\ [r EXCEPT !.expect = "length", !.left = r.cols] = Reader("length", c, c, 0)
  <2>1. /\ [r EXCEPT !.expect = "end"] \in
             [expect : {"end"}, cols : {c}, left : {0}, text : {0}]
        /\ [r EXCEPT !.expect = "length", !.left = r.cols] \in
             [expect : {"length"}, cols : {c}, left : {c}, text : {0}]
    BY DEF Reader
  <2> QED BY <2>1, Exactly
<1>3. Rds!Byte("row", 0) # Rds!Byte("row", 1)
  <2>1. Rds!Byte("row", 0).n = 0 /\ Rds!Byte("row", 1).n = 1
    BY DEF Rds!Byte
  <2> QED BY <2>1
<1> HIDE DEF r
<1>4. Rds!ReadByte(r, Rds!Byte("row", 0)) = [r EXCEPT !.expect = "end"]
  BY <1>1, <1>3 DEF Rds!ReadByte
<1>5. Rds!ReadByte(r, Rds!Byte("row", 1)) =
        [r EXCEPT !.expect = "length", !.left = r.cols]
  BY <1>1, <1>3 DEF Rds!ReadByte
<1> QED BY <1>2, <1>4, <1>5 DEF r

\* a column,
LEMMA ColumnStep ==
  ASSUME NEW c, NEW l \in Int
  PROVE  Rds!ReadByte(Rds!ReadByte(Reader("col", c, l, 0), Rds!Byte("col", 0)),
                      Rds!Text) = NextColumn(c, l)
<1> DEFINE r == Reader("col", c, l, 0)
           q == Reader("name", c, l, 0)
<1>1. r.expect = "col" /\ q.expect = "name" /\ Rds!Byte("col", 0).t = "col"
  BY DEF Reader, Rds!Byte
<1>2. [r EXCEPT !.expect = "name"] = q
  BY DEF Reader
<1>3. Rds!NextAtom(q, "col") = NextColumn(c, l)
  <2>0. PICK k : k = l - 1
    OBVIOUS
  <2>1. [q EXCEPT !.expect = "col", !.left = k, !.text = 0] \in
          [expect : {"col"}, cols : {c}, left : {k}, text : {0}]
    BY DEF Reader
  <2>2. [q EXCEPT !.expect = "row", !.left = 0, !.text = 0] \in
          [expect : {"row"}, cols : {c}, left : {0}, text : {0}]
    BY DEF Reader
  <2>3. [q EXCEPT !.expect = "col", !.left = k, !.text = 0] = Reader("col", c, k, 0)
    BY <2>1, Exactly
  <2>4. [q EXCEPT !.expect = "row", !.left = 0, !.text = 0] = Reader("row", c, 0, 0)
    BY <2>2, Exactly
  <2>5. q.left = l
    BY Fields
  <2> HIDE DEF q
  <2> QED BY <2>0, <2>3, <2>4, <2>5 DEF Rds!NextAtom, NextColumn
<1> HIDE DEF r, q
<1>4. Rds!ReadByte(r, Rds!Byte("col", 0)) = [r EXCEPT !.expect = "name"]
  BY <1>1 DEF Rds!ReadByte
<1>5. Rds!ReadByte(q, Rds!Text) = Rds!NextAtom(q, "col")
  BY <1>1 DEF Rds!ReadByte, Rds!Text
<1> QED BY <1>2, <1>3, <1>4, <1>5 DEF r

\* and a header.
LEMMA HeaderStep ==
  ASSUME NEW n \in Nat
  PROVE  Rds!ReadByte(Rds!ReadByte(Rds!Start, Rds!Byte("head", n)), Rds!Text) =
           IF n = 0 THEN Reader("end", 0, 0, 0) ELSE Reader("col", n, n, 0)
<1> DEFINE b == Rds!Byte("head", n)
           q == Reader("info", n, n, 0)
<1>0. Rds!Start = Reader("head", 0, 0, 0)
  BY DEF Rds!Start, Reader
<1>1. Rds!Start.expect = "head" /\ b.t = "head" /\ b.n = n
      /\ q.expect = "info" /\ q.cols = n
  BY DEF Rds!Start, Rds!Byte, Reader
<1>2. [Rds!Start EXCEPT !.expect = "info", !.cols = b.n, !.left = b.n] = q
  <2>1. PICK k : k = n
    OBVIOUS
  <2>2. [Rds!Start EXCEPT !.expect = "info", !.cols = k, !.left = k] \in
          [expect : {"info"}, cols : {k}, left : {k}, text : {0}]
    BY <1>0 DEF Reader
  <2>3. [Rds!Start EXCEPT !.expect = "info", !.cols = k, !.left = k] =
          Reader("info", k, k, 0)
    BY <2>2, Exactly
  <2> QED BY <1>1, <2>1, <2>3
<1>3. [q EXCEPT !.expect = IF q.cols = 0 THEN "end" ELSE "col"] =
        IF n = 0 THEN Reader("end", 0, 0, 0) ELSE Reader("col", n, n, 0)
  BY DEF Reader
<1> HIDE DEF b, q
<1>4. Rds!ReadByte(Rds!Start, b) =
        [Rds!Start EXCEPT !.expect = "info", !.cols = b.n, !.left = b.n]
  BY <1>1 DEF Rds!ReadByte
<1>5. Rds!ReadByte(q, Rds!Text) =
        [q EXCEPT !.expect = IF q.cols = 0 THEN "end" ELSE "col"]
  BY <1>1 DEF Rds!ReadByte
<1> QED BY <1>2, <1>3, <1>4, <1>5 DEF b

\* Text is a stream of its length, and one byte more makes it longer by one.
LEMMA TextType ==
  ASSUME NEW n \in Nat
  PROVE  /\ Text(n) \in Seq(RdsByte) /\ Len(Text(n)) = n
         /\ Rds!Text \in RdsByte
         /\ Text(0) = <<>> /\ Text(1) = <<Rds!Text>>
         /\ Text(n + 1) = Append(Text(n), Rds!Text)
<1>1. Rds!Text \in RdsByte
  BY DEF Rds!Text, Rds!Byte, RdsByte
<1>2. \A m \in Nat : Text(m) \in Seq(RdsByte) /\ Len(Text(m)) = m
  BY <1>1 DEF Text
<1>3. Text(n + 1) = Append(Text(n), Rds!Text)
  <2>1. Append(Text(n), Rds!Text) \in Seq(RdsByte)
        /\ Len(Append(Text(n), Rds!Text)) = n + 1
    BY <1>1, <1>2, AppendProperties
  <2>2. ASSUME NEW i \in 1..(n + 1)
        PROVE  Text(n + 1)[i] = Append(Text(n), Rds!Text)[i]
    <3>1. Text(n + 1)[i] = Rds!Text
      BY DEF Text
    <3>0. Text(n) \in Seq(RdsByte) /\ Len(Text(n)) = n /\ n \in Nat
      BY <1>2
    <3>2. CASE i = n + 1
      <4>1. Append(Text(n), Rds!Text)[n + 1] = Rds!Text
        BY <1>1, <3>0, AppendProperties
      <4> QED BY <3>1, <3>2, <4>1
    <3>3. CASE i \in 1..n
      <4>1. Text(n)[i] = Rds!Text
        BY <3>3 DEF Text
      <4>2. Append(Text(n), Rds!Text)[i] = Text(n)[i]
        BY <1>1, <3>0, <3>3, AppendProperties
      <4> QED BY <3>1, <4>1, <4>2
    <3> QED BY <3>0, <3>2, <3>3
  <2> QED BY <1>2, <2>1, <2>2, SeqEqual
<1>4. Text(0) = <<>>
  BY <1>2, EmptySeq
<1>5. Text(1) = <<Rds!Text>>
  BY <1>1 DEF Text
<1> QED BY <1>1, <1>2, <1>3, <1>4, <1>5

\* The text of a field, read in parts.
LEMMA TextRead ==
  ASSUME NEW s \in Seq(RdsByte), NEW c, NEW l, NEW m \in Nat, NEW k \in Nat,
         Rds!Parse(s) = Reader("text", c, l, m), k <= m, k > 0
  PROVE  Rds!Parse(s \o Text(k)) =
           IF k < m THEN Reader("text", c, l, m - k) ELSE NextField(c, l)
<1> DEFINE T == {i \in Nat : i < m =>
                   Rds!Parse(s \o Text(i)) = Reader("text", c, l, m - i)}
<1>1. 0 \in T
  <2>1. Text(0) = <<>>
    BY TextType
  <2>2. s \o <<>> = s
    BY ConcatEmptySeq
  <2>3. m - 0 = m
    OBVIOUS
  <2>4. Rds!Parse(s \o Text(0)) = Reader("text", c, l, m - 0)
    BY <2>1, <2>2, <2>3
  <2> QED BY <2>4
<1>2. ASSUME NEW i \in Nat
      PROVE  Rds!Parse(s \o Text(i + 1)) =
               Rds!ReadByte(Rds!Parse(s \o Text(i)), Rds!Text)
  <2>1. Text(i) \in Seq(RdsByte) /\ Rds!Text \in RdsByte
        /\ Text(i + 1) = Append(Text(i), Rds!Text)
    BY TextType
  <2>2. s \o Text(i) \in Seq(RdsByte) /\ <<Rds!Text>> \in Seq(RdsByte)
    BY <2>1, ConcatProperties
  <2>3. s \o Append(Text(i), Rds!Text) = Append(s \o Text(i), Rds!Text)
    <3>0. PICK t \in Seq(RdsByte) : t = s \o Text(i)
      BY <2>2
    <3>1. /\ Append(Text(i), Rds!Text) = Text(i) \o <<Rds!Text>>
          /\ Append(s \o Text(i), Rds!Text) = (s \o Text(i)) \o <<Rds!Text>>
      <4>1. Append(Text(i), Rds!Text) = Text(i) \o <<Rds!Text>>
        BY <2>1, AppendIsConcat
      <4>2. Append(t, Rds!Text) = t \o <<Rds!Text>>
        BY <2>1, AppendIsConcat
      <4> QED BY <3>0, <4>1, <4>2
    <3>2. s \o (Text(i) \o <<Rds!Text>>) = (s \o Text(i)) \o <<Rds!Text>>
      <4>1. PICK x \in Seq(RdsByte) : x = Text(i)
        BY <2>1
      <4>2. PICK y \in Seq(RdsByte) : y = <<Rds!Text>>
        BY <2>2
      <4>3. s \o (x \o y) = (s \o x) \o y
        BY Assoc, ZenonT(40)
      <4> QED BY <4>1, <4>2, <4>3
    <3> QED BY <3>1, <3>2
  <2> QED BY <2>1, <2>2, <2>3, ParseOfAppend
<1>3. ASSUME NEW i \in T PROVE i + 1 \in T
  <2>0. i \in Nat
    BY <1>3
  <2> SUFFICES ASSUME i + 1 < m
               PROVE  Rds!Parse(s \o Text(i + 1)) = Reader("text", c, l, m - (i + 1))
    BY <2>0
  <2>1. Rds!Parse(s \o Text(i)) = Reader("text", c, l, m - i)
    BY <1>3
  <2>2. Rds!ReadByte(Reader("text", c, l, m - i), Rds!Text) =
          Reader("text", c, l, (m - i) - 1)
    BY <2>0, TextStep
  <2>3. (m - i) - 1 = m - (i + 1)
    BY <2>0
  <2> QED BY <1>2, <2>0, <2>1, <2>2, <2>3
<1>4. T \in SUBSET Nat
  OBVIOUS
<1> HIDE DEF T
<1>5. T = Nat
  BY <1>1, <1>3, <1>4, NatSet
<1>6. CASE k < m
  BY <1>5, <1>6 DEF T
<1>7. CASE k = m
  <2>1. k - 1 \in Nat /\ k - 1 < m /\ (k - 1) + 1 = k /\ m - (k - 1) = 1
    BY <1>7
  <2>2. Rds!Parse(s \o Text(k - 1)) = Reader("text", c, l, 1)
    BY <1>5, <2>1 DEF T
  <2>3. Rds!ReadByte(Reader("text", c, l, 1), Rds!Text) = NextField(c, l)
    BY TextStep
  <2>4. Rds!Parse(s \o Text(k)) = NextField(c, l)
    BY <1>2, <2>1, <2>2, <2>3
  <2> QED BY <1>7, <2>4
<1> QED BY <1>6, <1>7

-----------------------------------------------------------------------------
(* The chain of buffers.                                                    *)

IoType ==
  [buf : [cap : Nat, data : Seq(RdsByte)], avail : Nat, out : Seq(Buffer),
   busy : Seq(Buffer), free : Seq(Nat), buffered : Nat, blocked : BOOLEAN,
   seen_end : BOOLEAN, header_sent : BOOLEAN, taken : Seq(RdsByte),
   active : BOOLEAN, delayed : BOOLEAN,
   timer : {"none", "send", "delay", "expired"}]

\* All bytes, those the client has included; those that are left of them when
\* the request ends; how many wait; how many buffers there are.
Sent(o) == o.taken \o Contents(Chain(o)) \o o.buf.data
Given(o) == o.taken \o Contents(o.busy)
Held(o) == Len(Contents(Chain(o)) \o o.buf.data)
Count(o) == Len(o.free) + Len(Chain(o)) + (IF o.buf = NoBuf THEN 0 ELSE 1)

\* The counters are right.
Stored(o) ==
  /\ o \in IoType
  /\ o.avail + Len(o.buf.data) = o.buf.cap
  /\ o.buffered = Capacity(Chain(o))
  /\ o.buf = NoBuf \/ o.buf.cap >= BufSize

\* The timer and the flags of the client's connection.
Client(o) ==
  /\ o.timer = "delay" <=> o.delayed
  /\ o.delayed => o.active /\ o.blocked
  /\ ~o.header_sent => o.taken = <<>> /\ o.busy = <<>>

\* The types and sizes of what is in the buffers.
LEMMA ChainFacts ==
  ASSUME NEW o \in IoType
  PROVE  /\ Chain(o) \in Seq(Buffer)
         /\ Len(Chain(o)) = Len(o.busy) + Len(o.out)
         /\ Len(o.busy) \in Nat /\ Len(o.out) \in Nat /\ Len(o.free) \in Nat
         /\ Contents(Chain(o)) \in Seq(RdsByte)
         /\ Contents(o.busy) \in Seq(RdsByte)
         /\ o.taken \in Seq(RdsByte)
         /\ o.buf.data \in Seq(RdsByte) /\ Len(o.buf.data) \in Nat
         /\ Len(Contents(Chain(o))) \in Nat
         /\ Held(o) = Len(Contents(Chain(o))) + Len(o.buf.data)
         /\ Sent(o) \in Seq(RdsByte)
         /\ Given(o) \in Seq(RdsByte)
         /\ o.out = <<>> => Chain(o) = o.busy
<1>1. /\ o.busy \in Seq(Buffer) /\ o.out \in Seq(Buffer) /\ o.free \in Seq(Nat)
      /\ o.taken \in Seq(RdsByte) /\ o.buf.data \in Seq(RdsByte)
  BY DEF IoType
<1>2. Chain(o) \in Seq(Buffer) /\ Len(Chain(o)) = Len(o.busy) + Len(o.out)
  BY <1>1, ConcatProperties DEF Chain
<1>3. /\ Contents(Chain(o)) \in Seq(RdsByte)
      /\ Contents(o.busy) \in Seq(RdsByte)
  BY <1>1, <1>2, ContentsType
<1>4. Held(o) = Len(Contents(Chain(o))) + Len(o.buf.data)
  BY <1>1, <1>3, ConcatProperties DEF Held
<1>5. Sent(o) \in Seq(RdsByte) /\ Given(o) \in Seq(RdsByte)
  <2>1. o.taken \o Contents(Chain(o)) \in Seq(RdsByte)
    BY <1>1, <1>3, ConcatProperties
  <2> QED BY <2>1, <1>1, <1>3, ConcatProperties DEF Sent, Given
<1>6. o.out = <<>> => Chain(o) = o.busy
  BY <1>1, ConcatEmptySeq DEF Chain
<1>7. /\ Len(o.busy) \in Nat /\ Len(o.out) \in Nat /\ Len(o.free) \in Nat
      /\ Len(o.buf.data) \in Nat /\ Len(Contents(Chain(o))) \in Nat
  BY <1>1, <1>3, LenProperties
<1> QED BY <1>1, <1>2, <1>3, <1>4, <1>5, <1>6, <1>7

\* The fields that ngx_http_drizzle_queue_buf leaves alone.
SameClient(o, p) ==
  /\ p.taken = o.taken /\ p.busy = o.busy /\ p.free = o.free
  /\ p.blocked = o.blocked /\ p.active = o.active /\ p.delayed = o.delayed
  /\ p.timer = o.timer /\ p.header_sent = o.header_sent

\* Queueing the current buffer moves bytes, and changes neither the stream nor
\* the number of buffers.
LEMMA Queued ==
  ASSUME NEW o, Stored(o)
  PROVE  /\ Stored(QueueBuf(o))
         /\ SameClient(o, QueueBuf(o)) /\ QueueBuf(o).seen_end = o.seen_end
         /\ Sent(QueueBuf(o)) = Sent(o) /\ Held(QueueBuf(o)) = Held(o)
         /\ Count(QueueBuf(o)) = Count(o)
         /\ QueueBuf(o).buf.data = <<>>
         /\ o.buf.data # <<>> => QueueBuf(o).buf = NoBuf
         /\ Len(Chain(QueueBuf(o))) <=
              Len(Chain(o)) + (IF o.buf = NoBuf THEN 0 ELSE 1)
<1>0. o \in IoType
  BY DEF Stored
<1>1. CASE o.buf.data = <<>>
  BY <1>0, <1>1, ChainFacts DEF QueueBuf, SameClient
<1>2. CASE o.buf.data # <<>>
  <2> DEFINE q == [o EXCEPT !.out = Append(@, o.buf), !.buffered = @ + o.buf.cap,
                            !.buf = NoBuf, !.avail = 0]
  <2>1. QueueBuf(o) = q
    BY <1>2 DEF QueueBuf
  <2>2. /\ q.out = Append(o.out, o.buf) /\ q.buffered = o.buffered + o.buf.cap
        /\ q.buf = NoBuf /\ q.avail = 0
        /\ SameClient(o, q) /\ q.seen_end = o.seen_end
    BY <1>0 DEF IoType, SameClient
  <2>3. o.buf \in Buffer
    <3>1. o.buf \in [cap : Nat, data : Seq(RdsByte)]
      BY <1>0 DEF IoType
    <3>2. o.buf # NoBuf
      BY <1>2 DEF NoBuf
    <3>3. Len(o.buf.data) \in 1..o.buf.cap
      BY <1>0, <1>2, <3>1, EmptySeq DEF Stored, IoType
    <3> QED BY <3>1, <3>2, <3>3 DEF Stored, Buffer
  <2>4. NoBuf \in [cap : Nat, data : Seq(RdsByte)] /\ NoBuf.cap = 0
        /\ NoBuf.data = <<>> /\ Len(<<>>) = 0
    BY EmptySeq DEF NoBuf
  <2>5. q \in IoType
    <3>1. Append(o.out, o.buf) \in Seq(Buffer)
      BY <1>0, <2>3, AppendProperties DEF IoType
    <3>2. o.buffered + o.buf.cap \in Nat
      BY <1>0 DEF IoType
    <3> QED BY <1>0, <2>4, <3>1, <3>2 DEF IoType
  <2> HIDE DEF q
  <2>6. Chain(q) = Append(Chain(o), o.buf)
    <3>1. /\ o.busy \in Seq(Buffer) /\ o.out \in Seq(Buffer)
          /\ <<o.buf>> \in Seq(Buffer)
      BY <1>0, <2>3 DEF IoType
    <3>2. Append(o.out, o.buf) = o.out \o <<o.buf>>
          /\ Append(Chain(o), o.buf) = Chain(o) \o <<o.buf>>
      <4>1. Append(o.out, o.buf) = o.out \o <<o.buf>>
        BY <2>3, <3>1, AppendIsConcat
      <4>2. Chain(o) \in Seq(Buffer)
        BY <1>0, ChainFacts
      <4>3. Append(Chain(o), o.buf) = Chain(o) \o <<o.buf>>
        BY <2>3, <4>2, AppendIsConcat
      <4> QED BY <4>1, <4>3
    <3>3. o.busy \o (o.out \o <<o.buf>>) = (o.busy \o o.out) \o <<o.buf>>
      BY <3>1, BufAssoc
    <3> QED BY <2>2, <3>2, <3>3 DEF Chain, SameClient
  <2>7. Contents(Chain(q)) = Contents(Chain(o)) \o o.buf.data
    BY <1>0, <2>3, <2>6, ChainFacts, ContentsOfAppend
  <2>8. q.buffered = Capacity(Chain(q))
    <3>1. Chain(o) \in Seq(Buffer)
      BY <1>0, ChainFacts
    <3>2. Capacity(Append(Chain(o), o.buf)) = Capacity(Chain(o)) + o.buf.cap
      BY <2>3, <3>1, CapacityOfAppend
    <3>3. o.buffered = Capacity(Chain(o))
      BY DEF Stored
    <3> QED BY <2>2, <2>6, <3>2, <3>3
  <2>9. Stored(q)
    BY <2>2, <2>4, <2>5, <2>8 DEF Stored
  <2>10. Contents(Chain(o)) \in Seq(RdsByte) /\ o.buf.data \in Seq(RdsByte)
         /\ o.taken \in Seq(RdsByte)
    BY <1>0, ChainFacts
  <2>11. (Contents(Chain(o)) \o o.buf.data) \o <<>> = Contents(Chain(o)) \o o.buf.data
    BY <2>10, ConcatProperties, ConcatEmptySeq
  <2>12. (o.taken \o (Contents(Chain(o)) \o o.buf.data)) \o <<>> =
           (o.taken \o Contents(Chain(o))) \o o.buf.data
    <3>1. o.taken \o (Contents(Chain(o)) \o o.buf.data) =
            (o.taken \o Contents(Chain(o))) \o o.buf.data
      BY <2>10, Assoc
    <3>2. (o.taken \o Contents(Chain(o))) \o o.buf.data \in Seq(RdsByte)
      BY <1>0, ChainFacts DEF Sent
    <3> QED BY <3>1, <3>2, ConcatEmptySeq
  <2>13. Sent(q) = Sent(o) /\ Held(q) = Held(o)
    BY <2>2, <2>4, <2>7, <2>11, <2>12 DEF Sent, Held, SameClient
  <2>14. Len(Chain(q)) = Len(Chain(o)) + 1 /\ Len(Chain(o)) \in Nat
    BY <1>0, <2>3, <2>6, ChainFacts, AppendProperties
  <2>15. o.buf # NoBuf
    BY <1>2 DEF NoBuf
  <2>16. Count(q) = Count(o)
    <3>1. q.free = o.free /\ Len(o.free) \in Nat
      BY <1>0, <2>2, ChainFacts DEF SameClient
    <3>2. Count(q) = Len(q.free) + Len(Chain(q)) + 0
      BY <2>2 DEF Count
    <3>3. Count(o) = Len(o.free) + Len(Chain(o)) + 1
      BY <2>15 DEF Count
    <3>4. Len(q.free) = Len(o.free) /\ Len(o.free) \in Nat
      BY <3>1
    <3>5. ASSUME NEW a \in Nat, NEW b \in Nat PROVE a + (b + 1) + 0 = a + b + 1
      OBVIOUS
    <3> QED BY <2>14, <3>2, <3>3, <3>4, <3>5
  <2> QED BY <2>1, <2>2, <2>4, <2>9, <2>13, <2>14, <2>15, <2>16
<1> QED BY <1>1, <1>2

\* What of the chain o the client has taken in p, and where the buffers are.
Moves(o, p) ==
  /\ p.out = <<>> /\ p.busy \in Seq(Buffer) /\ p.free \in Seq(Nat)
  /\ \E x \in Seq(RdsByte) :
       /\ p.taken = o.taken \o x
       /\ Contents(Chain(o)) = x \o Contents(p.busy)
  /\ Len(p.free) + Len(p.busy) = Len(o.free) + Len(Chain(o))
  /\ Len(p.busy) <= Len(Chain(o))
  /\ p.buf = o.buf /\ p.avail = o.avail /\ p.seen_end = o.seen_end
  /\ p.header_sent = o.header_sent /\ p.active = o.active

\* A sequence and its first element.
LEMMA HeadAndTail ==
  ASSUME NEW S, NEW s \in Seq(S), s # <<>>
  PROVE  /\ s[1] \in S /\ Tail(s) \in Seq(S) /\ Len(s) \in Nat \ {0}
         /\ s = <<s[1]>> \o Tail(s) /\ Len(Tail(s)) = Len(s) - 1
<1>1. Len(s) \in Nat \ {0}
  BY EmptySeq
<1>2. 1 \in 1..Len(s) /\ Len(s) \in 1..Len(s) /\ 1 + 1 = 2
  BY <1>1
<1>3. SubSeq(s, 1, Len(s)) = <<s[1]>> \o SubSeq(s, 1 + 1, Len(s))
  BY <1>2, SubSeqRecursiveFirst
<1>4. SubSeq(s, 1, Len(s)) = s /\ Tail(s) = SubSeq(s, 2, Len(s))
  BY SubSeqFull, TailIsSubSeq
<1>5. s[1] \in S /\ Tail(s) \in Seq(S) /\ Len(Tail(s)) = Len(s) - 1
  BY <1>2, ElementOfSeq, HeadTailProperties
<1> QED BY <1>1, <1>2, <1>3, <1>4, <1>5

\* A sequence cut in two.
LEMMA Cut ==
  ASSUME NEW S, NEW s \in Seq(S), NEW n \in 0..Len(s)
  PROVE  /\ SubSeq(s, 1, n) \in Seq(S) /\ SubSeq(s, n + 1, Len(s)) \in Seq(S)
         /\ Len(SubSeq(s, 1, n)) = n
         /\ Len(SubSeq(s, n + 1, Len(s))) = Len(s) - n
         /\ s = SubSeq(s, 1, n) \o SubSeq(s, n + 1, Len(s))
<1>0. Len(s) \in Nat /\ n \in Nat /\ n <= Len(s)
  BY LenProperties
<1>1. \A i \in 1..Len(s) : s[i] \in S
  BY ElementOfSeq
<1>2. (\A i \in 1..n : s[i] \in S) /\ (\A i \in (n + 1)..Len(s) : s[i] \in S)
  BY <1>0, <1>1
<1>3. SubSeq(s, 1, n) \in Seq(S)
      /\ Len(SubSeq(s, 1, n)) = IF 1 <= n THEN n - 1 + 1 ELSE 0
  BY <1>0, <1>2, SubSeqProperties
<1>4. SubSeq(s, n + 1, Len(s)) \in Seq(S)
      /\ Len(SubSeq(s, n + 1, Len(s))) =
           IF n + 1 <= Len(s) THEN Len(s) - (n + 1) + 1 ELSE 0
  <2>1. n + 1 \in Int /\ Len(s) \in Int
    BY <1>0
  <2> QED BY <1>2, <2>1, SubSeqProperties
<1>5. SubSeq(s, 1, n) \o SubSeq(s, n + 1, Len(s)) = SubSeq(s, 1, Len(s))
  <2>1. 1 \in 1..(Len(s) + 1) /\ n \in (1 - 1)..Len(s) /\ Len(s) \in n..Len(s)
    BY <1>0
  <2> QED BY <2>1, ConcatAdjacentSubSeq
<1>6. SubSeq(s, 1, Len(s)) = s
  BY SubSeqFull
<1>7. Len(SubSeq(s, 1, n)) = n /\ Len(SubSeq(s, n + 1, Len(s))) = Len(s) - n
  BY <1>0, <1>3, <1>4
<1> QED BY <1>3, <1>4, <1>5, <1>6, <1>7

\* The bytes of one buffer, and of those behind it.
LEMMA ContentsOfFirst ==
  ASSUME NEW b \in Buffer, NEW bufs \in Seq(Buffer)
  PROVE  /\ <<b>> \o bufs \in Seq(Buffer)
         /\ Len(<<b>> \o bufs) = Len(bufs) + 1
         /\ Contents(<<b>> \o bufs) = b.data \o Contents(bufs)
<1>1. <<b>> = Append(<<>>, b) /\ <<>> \in Seq(Buffer) /\ <<b>> \in Seq(Buffer)
      /\ Len(<<b>>) = 1
  BY EmptySeq
<1>2. b.data \in Seq(RdsByte) /\ <<>> \in Seq(RdsByte)
  BY EmptySeq DEF Buffer
<1>3. Contents(<<b>>) = Contents(<<>>) \o b.data
  BY <1>1, <1>2, ContentsOfNone, ContentsOfAppend
<1>4. Contents(<<b>>) = b.data
  BY <1>2, <1>3, ContentsOfNone, ConcatEmptySeq
<1>5. Len(<<b>> \o bufs) = Len(<<b>>) + Len(bufs) /\ <<b>> \o bufs \in Seq(Buffer)
  BY <1>1, ConcatProperties
<1>6. Len(bufs) \in Nat
  BY LenProperties
<1>7. Contents(<<b>> \o bufs) = Contents(<<b>>) \o Contents(bufs)
  BY <1>1, ContentsOfConcat
<1>8. Len(<<b>> \o bufs) = Len(bufs) + 1
  BY <1>1, <1>5, <1>6
<1>9. Contents(<<b>> \o bufs) = b.data \o Contents(bufs)
  BY <1>4, <1>7
<1> QED BY <1>5, <1>8, <1>9

\* A buffer of which k bytes are taken.
LEMMA BehindFacts ==
  ASSUME NEW b \in Buffer, NEW k \in Nat, k < Len(b.data)
  PROVE  /\ Behind(b, k) \in Buffer
         /\ SubSeq(b.data, 1, k) \in Seq(RdsByte)
         /\ b.data = SubSeq(b.data, 1, k) \o Behind(b, k).data
<1>1. b.data \in Seq(RdsByte) /\ b.cap \in Nat /\ Len(b.data) \in Nat
      /\ b \in [cap : Nat, data : Seq(RdsByte)]
      /\ Len(b.data) <= b.cap /\ b.cap >= BufSize
  BY DEF Buffer
<1>2. k \in 0..Len(b.data)
  BY <1>1
<1>3. /\ SubSeq(b.data, 1, k) \in Seq(RdsByte)
      /\ SubSeq(b.data, k + 1, Len(b.data)) \in Seq(RdsByte)
      /\ Len(SubSeq(b.data, k + 1, Len(b.data))) = Len(b.data) - k
      /\ b.data = SubSeq(b.data, 1, k) \o SubSeq(b.data, k + 1, Len(b.data))
  BY <1>1, <1>2, Cut
<1>4. Behind(b, k).cap = b.cap
      /\ Behind(b, k).data = SubSeq(b.data, k + 1, Len(b.data))
      /\ Behind(b, k) \in [cap : Nat, data : Seq(RdsByte)]
  BY <1>1, <1>3 DEF Behind
<1>5. Len(Behind(b, k).data) \in 1..b.cap
  BY <1>1, <1>3, <1>4
<1>6. Behind(b, k) \in Buffer
  BY <1>1, <1>4, <1>5 DEF Buffer
<1> QED BY <1>3, <1>4, <1>6

\* The first buffer of a chain, of which k bytes are taken.
LEMMA PartTaken ==
  ASSUME NEW left \in Seq(Buffer), left # <<>>, NEW k \in Nat,
         k < Len(left[1].data)
  PROVE  /\ <<Behind(left[1], k)>> \o Tail(left) \in Seq(Buffer)
         /\ Len(<<Behind(left[1], k)>> \o Tail(left)) = Len(left)
         /\ SubSeq(left[1].data, 1, k) \in Seq(RdsByte)
         /\ Contents(left) = SubSeq(left[1].data, 1, k)
                               \o Contents(<<Behind(left[1], k)>> \o Tail(left))
<1> DEFINE b == left[1]
           c == Behind(b, k)
           part == SubSeq(b.data, 1, k)
           rest == Tail(left)
<1>1. b \in Buffer /\ rest \in Seq(Buffer) /\ left = <<b>> \o rest
      /\ Len(left) \in Nat \ {0} /\ Len(rest) = Len(left) - 1
  BY HeadAndTail
<1>2. c \in Buffer /\ part \in Seq(RdsByte) /\ b.data = part \o c.data
  BY <1>1, BehindFacts
<1> HIDE DEF b, c, part, rest
<1>3. Contents(left) = b.data \o Contents(rest)
  BY <1>1, ContentsOfFirst
<1>4. /\ Contents(<<c>> \o rest) = c.data \o Contents(rest)
      /\ <<c>> \o rest \in Seq(Buffer)
      /\ Len(<<c>> \o rest) = Len(rest) + 1
  BY <1>1, <1>2, ContentsOfFirst
<1>5. c.data \in Seq(RdsByte) /\ Contents(rest) \in Seq(RdsByte)
  BY <1>1, <1>2, ContentsType DEF Buffer
<1>6. (part \o c.data) \o Contents(rest) = part \o (c.data \o Contents(rest))
  BY <1>2, <1>5, Assoc
<1>7. Len(<<c>> \o rest) = Len(left)
  BY <1>1, <1>4
<1>8. Contents(left) = part \o Contents(<<c>> \o rest)
  BY <1>2, <1>3, <1>4, <1>6
<1> QED BY <1>2, <1>4, <1>7, <1>8 DEF b, c, part, rest

\* Where a position of the client cuts the chain.
LEMMA PositionFacts ==
  ASSUME NEW chain \in Seq(Buffer), NEW n, NEW k, <<n, k>> \in Positions(chain)
  PROVE  /\ n \in 0..Len(chain) /\ k \in Nat /\ n \in Nat
         /\ k # 0 => n < Len(chain) /\ k < Len(chain[n + 1].data)
<1>1. Len(chain) \in Nat
  BY LenProperties
<1>2. \/ n = Len(chain) /\ k = 0
      \/ \E m \in 0..(Len(chain) - 1) :
           n = m /\ k \in 0..(Len(chain[m + 1].data) - 1)
  BY DEF Positions
<1>3. ASSUME NEW m \in 0..(Len(chain) - 1), n = m,
             k \in 0..(Len(chain[m + 1].data) - 1)
      PROVE  n \in 0..Len(chain) /\ k \in Nat /\ n < Len(chain)
             /\ k < Len(chain[n + 1].data)
  <2>1. m + 1 \in 1..Len(chain)
    BY <1>1
  <2>2. chain[m + 1] \in Buffer
    BY <2>1, ElementOfSeq
  <2>3. Len(chain[m + 1].data) \in Nat
    BY <2>2 DEF Buffer
  <2> QED BY <1>1, <1>3, <2>3
<1>4. CASE n = Len(chain) /\ k = 0
  BY <1>1, <1>4
<1> QED BY <1>1, <1>2, <1>3, <1>4

\* What is behind n elements begins with the next one.
LEMMA FirstBehind ==
  ASSUME NEW S, NEW s \in Seq(S), NEW n \in Nat, n < Len(s)
  PROVE  /\ SubSeq(s, n + 1, Len(s)) # <<>>
         /\ SubSeq(s, n + 1, Len(s))[1] = s[n + 1]
<1>1. Len(s) \in Nat /\ n \in 0..Len(s)
  BY LenProperties
<1>2. n + 1 \in 1..Len(s) /\ Len(s) \in (n + 1)..Len(s) /\ Len(s) - n # 0
  BY <1>1
<1>3. SubSeq(s, n + 1, Len(s)) \in Seq(S)
      /\ Len(SubSeq(s, n + 1, Len(s))) = Len(s) - n
  BY <1>1, Cut
<1>4. SubSeq(s, n + 1, Len(s)) # <<>>
  BY <1>2, <1>3, EmptySeq
<1>5. Head(SubSeq(s, n + 1, Len(s))) = s[n + 1]
  BY <1>2, HeadTailOfSubSeq
<1>6. ASSUME NEW t \in Seq(S), t # <<>> PROVE Head(t) = t[1]
  BY <1>6
<1> QED BY <1>3, <1>4, <1>5, <1>6

\* What of a chain is left behind the first n buffers, what of it the client
\* takes further if it takes k bytes more, and what is then left.
Left(chain, n) == SubSeq(chain, n + 1, Len(chain))
Part(left, k) == IF k = 0 THEN <<>> ELSE SubSeq(left[1].data, 1, k)
Kept(left, k) == IF k = 0 THEN left ELSE <<Behind(left[1], k)>> \o Tail(left)
Caps(chain, n) == [i \in 1..n |-> chain[n + 1 - i].cap]

\* The buffers in front of the position and those behind it make up the chain.
LEMMA LeftFacts ==
  ASSUME NEW chain \in Seq(Buffer), NEW n, NEW k, <<n, k>> \in Positions(chain)
  PROVE  /\ Left(chain, n) \in Seq(Buffer) /\ Len(Left(chain, n)) = Len(chain) - n
         /\ SubSeq(chain, 1, n) \in Seq(Buffer)
         /\ chain = SubSeq(chain, 1, n) \o Left(chain, n)
         /\ n \in 0..Len(chain) /\ k \in Nat
         /\ k # 0 => Left(chain, n) # <<>> /\ k < Len(Left(chain, n)[1].data)
<1>1. /\ n \in 0..Len(chain) /\ k \in Nat /\ n \in Nat
      /\ k # 0 => n < Len(chain) /\ k < Len(chain[n + 1].data)
  BY PositionFacts
<1>2. /\ Left(chain, n) \in Seq(Buffer) /\ Len(Left(chain, n)) = Len(chain) - n
      /\ SubSeq(chain, 1, n) \in Seq(Buffer)
      /\ chain = SubSeq(chain, 1, n) \o Left(chain, n)
  BY <1>1, Cut DEF Left
<1>3. n < Len(chain) => Left(chain, n) # <<>> /\ Left(chain, n)[1] = chain[n + 1]
  BY <1>1, FirstBehind DEF Left
<1> QED BY <1>1, <1>2, <1>3

\* The bytes that are taken of the first buffer left, and those that are not.
LEMMA PartFacts ==
  ASSUME NEW left \in Seq(Buffer), NEW k \in Nat,
         k # 0 => left # <<>> /\ k < Len(left[1].data)
  PROVE  /\ Kept(left, k) \in Seq(Buffer) /\ Len(Kept(left, k)) = Len(left)
         /\ Part(left, k) \in Seq(RdsByte)
         /\ Contents(left) = Part(left, k) \o Contents(Kept(left, k))
<1>1. CASE k = 0
  <2>1. Kept(left, k) = left /\ Part(left, k) = <<>>
    BY <1>1 DEF Kept, Part
  <2>2. Contents(left) \in Seq(RdsByte)
    BY ContentsType
  <2>3. <<>> \o Contents(left) = Contents(left) /\ <<>> \in Seq(RdsByte)
    BY <2>2, ConcatEmptySeq, EmptySeq
  <2> QED BY <2>1, <2>3
<1>2. CASE k # 0
  <2>1. Kept(left, k) = <<Behind(left[1], k)>> \o Tail(left)
        /\ Part(left, k) = SubSeq(left[1].data, 1, k)
    BY <1>2 DEF Kept, Part
  <2>2. left # <<>> /\ k < Len(left[1].data)
    BY <1>2
  <2> QED BY <2>1, <2>2, PartTaken
<1> QED BY <1>1, <1>2

\* The buffers that are recycled.
LEMMA CapsFacts ==
  ASSUME NEW chain \in Seq(Buffer), NEW n \in 0..Len(chain)
  PROVE  Caps(chain, n) \in Seq(Nat) /\ Len(Caps(chain, n)) = n
<1>1. Len(chain) \in Nat /\ n \in Nat /\ n <= Len(chain)
  BY LenProperties
<1>2. ASSUME NEW i \in 1..n PROVE chain[n + 1 - i].cap \in Nat
  <2>1. n + 1 - i \in 1..Len(chain)
    BY <1>1
  <2>2. chain[n + 1 - i] \in Buffer
    BY <2>1, ElementOfSeq
  <2> QED BY <2>2 DEF Buffer
<1>3. Caps(chain, n) \in [1..n -> Nat]
  BY <1>2 DEF Caps
<1> QED BY <1>1, <1>3

\* What the client takes of a chain, and what is left of it.
LEMMA Cutting ==
  ASSUME NEW chain \in Seq(Buffer), NEW n, NEW k, <<n, k>> \in Positions(chain)
  PROVE  /\ Kept(Left(chain, n), k) \in Seq(Buffer)
         /\ Len(Kept(Left(chain, n), k)) = Len(chain) - n
         /\ n \in 0..Len(chain)
         /\ Contents(SubSeq(chain, 1, n)) \in Seq(RdsByte)
         /\ Part(Left(chain, n), k) \in Seq(RdsByte)
         /\ Contents(chain) =
              (Contents(SubSeq(chain, 1, n)) \o Part(Left(chain, n), k))
                \o Contents(Kept(Left(chain, n), k))
         /\ Caps(chain, n) \in Seq(Nat) /\ Len(Caps(chain, n)) = n
<1>1. /\ Left(chain, n) \in Seq(Buffer) /\ Len(Left(chain, n)) = Len(chain) - n
      /\ SubSeq(chain, 1, n) \in Seq(Buffer)
      /\ chain = SubSeq(chain, 1, n) \o Left(chain, n)
      /\ n \in 0..Len(chain) /\ k \in Nat
      /\ k # 0 => Left(chain, n) # <<>> /\ k < Len(Left(chain, n)[1].data)
  BY LeftFacts
<1>2. /\ Kept(Left(chain, n), k) \in Seq(Buffer)
      /\ Len(Kept(Left(chain, n), k)) = Len(Left(chain, n))
      /\ Part(Left(chain, n), k) \in Seq(RdsByte)
      /\ Contents(Left(chain, n)) =
           Part(Left(chain, n), k) \o Contents(Kept(Left(chain, n), k))
  BY <1>1, PartFacts
<1>3. /\ Contents(SubSeq(chain, 1, n)) \in Seq(RdsByte)
      /\ Contents(Kept(Left(chain, n), k)) \in Seq(RdsByte)
  BY <1>1, <1>2, ContentsType
<1>4. Contents(chain) = Contents(SubSeq(chain, 1, n)) \o Contents(Left(chain, n))
  BY <1>1, ContentsOfConcat
<1>5. (Contents(SubSeq(chain, 1, n)) \o Part(Left(chain, n), k))
        \o Contents(Kept(Left(chain, n), k)) =
      Contents(SubSeq(chain, 1, n)) \o (Part(Left(chain, n), k)
        \o Contents(Kept(Left(chain, n), k)))
  BY <1>2, <1>3, Assoc
<1>6. Caps(chain, n) \in Seq(Nat) /\ Len(Caps(chain, n)) = n
  BY <1>1, CapsFacts
<1>7. Contents(chain) =
        (Contents(SubSeq(chain, 1, n)) \o Part(Left(chain, n), k))
          \o Contents(Kept(Left(chain, n), k))
  BY <1>2, <1>4, <1>5
<1> QED BY <1>1, <1>2, <1>3, <1>6, <1>7

\* ngx_chain_update_chains moves the buffers, and leaves the client's flags
\* alone.
LEMMA TakenMoves ==
  ASSUME NEW o \in IoType, NEW n, NEW k, <<n, k>> \in Positions(Chain(o)),
         NEW p, p = Taken(o, n, k)
  PROVE  /\ Moves(o, p)
         /\ p \in IoType
         /\ p.buffered = Capacity(p.busy)
         /\ p.blocked = o.blocked /\ p.delayed = o.delayed /\ p.timer = o.timer
<1>1. /\ Chain(o) \in Seq(Buffer) /\ Len(Chain(o)) \in Nat
      /\ o.taken \in Seq(RdsByte) /\ o.free \in Seq(Nat) /\ Len(o.free) \in Nat
  <2>1. o.free \in Seq(Nat)
    BY DEF IoType
  <2>2. Chain(o) \in Seq(Buffer) /\ o.taken \in Seq(RdsByte) /\ Len(o.free) \in Nat
    BY ChainFacts
  <2> QED BY <2>1, <2>2, LenProperties
<1>2. PICK busy : busy = Kept(Left(Chain(o), n), k)
  OBVIOUS
<1>3. PICK gone : gone = Contents(SubSeq(Chain(o), 1, n))
  OBVIOUS
<1>4. PICK part : part = Part(Left(Chain(o), n), k)
  OBVIOUS
<1>6. PICK caps : caps = Caps(Chain(o), n)
  OBVIOUS
<1>7. /\ busy \in Seq(Buffer) /\ Len(busy) = Len(Chain(o)) - n
      /\ n \in 0..Len(Chain(o))
      /\ gone \in Seq(RdsByte) /\ part \in Seq(RdsByte)
      /\ Contents(Chain(o)) = (gone \o part) \o Contents(busy)
      /\ caps \in Seq(Nat) /\ Len(caps) = n
  BY <1>1, <1>2, <1>3, <1>4, <1>6, Cutting
<1>8. PICK s : s = Sorted(o, n, k)
  OBVIOUS
<1>9. s = [o EXCEPT !.taken = @ \o gone \o part, !.free = caps \o @,
                    !.busy = busy, !.out = <<>>]
  BY <1>2, <1>3, <1>4, <1>6, <1>8 DEF Sorted, Kept, Left, Part, Caps
<1>10. PICK taken : taken = o.taken \o gone \o part
  OBVIOUS
<1>11. PICK free : free = caps \o o.free
  OBVIOUS
<1>12. s = [o EXCEPT !.taken = taken, !.free = free, !.busy = busy, !.out = <<>>]
  BY <1>9, <1>10, <1>11
<1>13. PICK x : x = gone \o part
  OBVIOUS
<1>14. x \in Seq(RdsByte) /\ taken = o.taken \o x /\ taken \in Seq(RdsByte)
  <2>1. x \in Seq(RdsByte)
    <3>1. gone \o part \in Seq(RdsByte)
      BY <1>7, ConcatProperties
    <3> QED BY <1>13, <3>1
  <2>2. taken = o.taken \o x
    BY <1>1, <1>7, <1>10, <1>13, Assoc
  <2> QED BY <1>1, <2>1, <2>2, ConcatProperties
<1>15. free \in Seq(Nat) /\ Len(free) = n + Len(o.free)
  <2>1. caps \o o.free \in Seq(Nat) /\ Len(caps \o o.free) = Len(caps) + Len(o.free)
    BY <1>1, <1>7, ConcatProperties
  <2> QED BY <1>7, <1>11, <2>1
<1>16. Capacity(busy) \in Nat
  BY <1>7, CapacityFacts
<1>17. PICK c : c = Capacity(busy)
  OBVIOUS
<1>18. <<>> \in Seq(Buffer)
  BY EmptySeq
<1>19. s.busy = busy
  BY <1>12 DEF IoType
<1>20. p = [s EXCEPT !.buffered = c]
  BY <1>8, <1>17, <1>19 DEF Taken
<1>21. /\ p.taken = taken /\ p.free = free /\ p.busy = busy /\ p.out = <<>>
       /\ p.buf = o.buf /\ p.avail = o.avail /\ p.seen_end = o.seen_end
       /\ p.header_sent = o.header_sent /\ p.active = o.active
       /\ p.blocked = o.blocked /\ p.delayed = o.delayed /\ p.timer = o.timer
       /\ p.buffered = c
  BY <1>12, <1>20 DEF IoType
<1>22. p \in IoType
  <2>1. s \in IoType
    BY <1>7, <1>12, <1>14, <1>15, <1>18 DEF IoType
  <2>2. c \in Nat
    BY <1>16, <1>17
  <2> QED BY <1>20, <2>1, <2>2 DEF IoType
<1>23. Moves(o, p)
  <2>1. Len(p.free) + Len(p.busy) = Len(o.free) + Len(Chain(o))
        /\ Len(p.busy) <= Len(Chain(o))
    <3>1. Len(free) + Len(busy) = Len(o.free) + Len(Chain(o))
          /\ Len(busy) <= Len(Chain(o))
      BY <1>1, <1>7, <1>15
    <3> QED BY <1>21, <3>1
  <2>2. \E y \in Seq(RdsByte) : /\ p.taken = o.taken \o y
                               /\ Contents(Chain(o)) = y \o Contents(p.busy)
    BY <1>7, <1>13, <1>14, <1>21
  <2> QED BY <1>7, <1>15, <1>21, <2>1, <2>2 DEF Moves
<1> QED BY <1>17, <1>21, <1>22, <1>23

\* Moving bytes to the client keeps the stream, and frees what it keeps no
\* longer.
LEMMA MovesKeep ==
  ASSUME NEW o \in IoType, NEW p \in IoType, Moves(o, p)
  PROVE  /\ Chain(p) = p.busy
         /\ Sent(p) = Sent(o) /\ Held(p) <= Held(o) /\ Count(p) = Count(o)
         /\ Len(Chain(p)) <= Len(Chain(o))
         /\ \E x \in Seq(RdsByte) : p.taken = o.taken \o x
<1>1. PICK x \in Seq(RdsByte) : /\ p.taken = o.taken \o x
                                /\ Contents(Chain(o)) = x \o Contents(p.busy)
  BY DEF Moves
<1>2. p.out = <<>> /\ p.buf = o.buf
      /\ Len(p.free) + Len(p.busy) = Len(o.free) + Len(Chain(o))
      /\ Len(p.busy) <= Len(Chain(o))
  BY DEF Moves
<1>3. Chain(p) = p.busy
  <2>1. p.busy \in Seq(Buffer)
    BY DEF IoType
  <2> QED BY <1>2, <2>1, ConcatEmptySeq DEF Chain
<1>4. /\ o.taken \in Seq(RdsByte) /\ Contents(p.busy) \in Seq(RdsByte)
      /\ o.buf.data \in Seq(RdsByte)
  BY ChainFacts
<1>5. (o.taken \o x) \o Contents(p.busy) = o.taken \o (x \o Contents(p.busy))
  <2>1. PICK t \in Seq(RdsByte) : t = o.taken
    BY <1>4
  <2>2. PICK y \in Seq(RdsByte) : y = Contents(p.busy)
    BY <1>4
  <2>3. (t \o x) \o y = t \o (x \o y)
    BY Assoc
  <2> QED BY <2>1, <2>2, <2>3
<1>6. Sent(p) = Sent(o)
  BY <1>1, <1>2, <1>3, <1>5 DEF Sent
<1>7. Held(p) <= Held(o)
  <2>1. /\ Held(p) = Len(Contents(Chain(p))) + Len(p.buf.data)
        /\ Held(o) = Len(Contents(Chain(o))) + Len(o.buf.data)
        /\ Len(o.buf.data) \in Nat
    BY ChainFacts
  <2>2. Len(Contents(Chain(o))) = Len(x) + Len(Contents(p.busy))
        /\ Len(x) \in Nat /\ Len(Contents(p.busy)) \in Nat
    BY <1>1, <1>4, ConcatProperties, LenProperties
  <2>3. Held(p) = Len(Contents(p.busy)) + Len(o.buf.data)
    BY <1>2, <1>3, <2>1
  <2>4. ASSUME NEW a \in Nat, NEW b \in Nat, NEW c \in Nat
        PROVE  b + c <= (a + b) + c
    OBVIOUS
  <2>5. Held(o) = (Len(x) + Len(Contents(p.busy))) + Len(o.buf.data)
    BY <2>1, <2>2
  <2> QED BY <2>1, <2>2, <2>3, <2>4, <2>5
<1>8. Count(p) = Count(o)
  <2>1. PICK k : k = IF o.buf = NoBuf THEN 0 ELSE 1
    OBVIOUS
  <2>2. Count(p) = Len(p.free) + Len(p.busy) + k
    BY <1>2, <1>3, <2>1 DEF Count
  <2>3. Count(o) = Len(o.free) + Len(Chain(o)) + k
    BY <2>1 DEF Count
  <2> QED BY <1>2, <2>2, <2>3
<1> QED BY <1>1, <1>2, <1>3, <1>6, <1>7, <1>8

\* What nginx and the client make of the buffers they are given: the stream
\* goes on from where it was, and the counters are right.
Passes(o, p) ==
  /\ Stored(p) /\ Client(p)
  /\ Sent(p) = Sent(o) /\ Held(p) <= Held(o) /\ Count(p) = Count(o)
  /\ \E x \in Seq(RdsByte) : p.taken = o.taken \o x
  /\ p.out = <<>> /\ p.active = o.active
  /\ p.timer = o.timer \/ p.timer = "delay"

\* The fields that nginx's answer leaves alone.
SameBuffers(q, p) ==
  /\ p.out = q.out /\ p.busy = q.busy /\ p.free = q.free /\ p.taken = q.taken
  /\ p.buf = q.buf /\ p.avail = q.avail /\ p.seen_end = q.seen_end
  /\ p.header_sent = q.header_sent /\ p.active = q.active
  /\ p.buffered = q.buffered

\* The client takes some of the chain, and the flags change.
LEMMA PassedOn ==
  ASSUME NEW o, Stored(o), Client(o), o.header_sent,
         NEW n, NEW k, <<n, k>> \in Positions(Chain(o)),
         NEW q, q = Taken(o, n, k),
         NEW p \in IoType, SameBuffers(q, p),
         p.timer = "delay" <=> p.delayed, p.delayed => o.active /\ p.blocked,
         p.timer = o.timer \/ p.timer = "delay"
  PROVE  /\ Passes(o, p) /\ p.buf = o.buf /\ p.avail = o.avail
         /\ p.seen_end = o.seen_end /\ p.header_sent
         /\ Len(Chain(p)) <= Len(Chain(o))
<1>1. o \in IoType
  BY DEF Stored
<1>2. /\ Moves(o, q) /\ q \in IoType /\ q.buffered = Capacity(q.busy)
  BY <1>1, TakenMoves
<1>5. Moves(o, p)
  BY <1>2 DEF Moves, SameBuffers
<1>6. /\ Chain(p) = p.busy
      /\ Sent(p) = Sent(o) /\ Held(p) <= Held(o) /\ Count(p) = Count(o)
      /\ Len(Chain(p)) <= Len(Chain(o))
      /\ \E x \in Seq(RdsByte) : p.taken = o.taken \o x
  BY <1>1, <1>5, MovesKeep
<1>7. /\ p.out = <<>> /\ p.buf = o.buf /\ p.avail = o.avail
      /\ p.seen_end = o.seen_end /\ p.header_sent = o.header_sent
      /\ p.active = o.active
  BY <1>5 DEF Moves
<1>8. Stored(p)
  BY <1>2, <1>6, <1>7 DEF Stored, SameBuffers
<1>9. Client(p)
  BY <1>7 DEF Client
<1> QED BY <1>6, <1>7, <1>8, <1>9 DEF Passes

\* The client may take nothing.
LEMMA NoPosition == ASSUME NEW chain \in Seq(Buffer)
                    PROVE <<0, 0>> \in Positions(chain)
<1>1. Len(chain) \in Nat
  BY LenProperties
<1>2. CASE Len(chain) = 0
  BY <1>2 DEF Positions
<1>3. CASE Len(chain) # 0
  <2>1. 0 \in 0..(Len(chain) - 1) /\ 0 + 1 \in 1..Len(chain) /\ 0 + 1 = 1
    BY <1>1, <1>3
  <2>2. chain[1] \in Buffer
    BY <2>1, ElementOfSeq
  <2>3. 0 \in 0..(Len(chain[0 + 1].data) - 1)
    BY <2>1, <2>2 DEF Buffer
  <2> QED BY <2>1, <2>3 DEF Positions
<1> QED BY <1>2, <1>3

\* ngx_http_output_filter.
LEMMA FilteredPasses ==
  ASSUME NEW o, Stored(o), Client(o), o.header_sent, NEW first \in BOOLEAN,
         NEW p \in Filtered(o, first)
  PROVE  /\ Passes(o, p) /\ p.buf = o.buf /\ p.avail = o.avail
         /\ p.seen_end = o.seen_end /\ p.header_sent
         /\ Len(Chain(p)) <= Len(Chain(o))
<1>1. o \in IoType /\ Chain(o) \in Seq(Buffer)
  BY ChainFacts DEF Stored
<1>2. <<0, 0>> \in Positions(Chain(o))
  BY <1>1, NoPosition
<1>3. o.delayed \in BOOLEAN /\ o.timer \in {"none", "send", "delay", "expired"}
      /\ (o.timer = "delay" <=> o.delayed) /\ (o.delayed => o.active)
  BY <1>1 DEF IoType, Client
<1>4. ASSUME NEW n, NEW k, <<n, k>> \in Positions(Chain(o)), NEW b \in BOOLEAN,
             o.delayed => b = TRUE, p = [Taken(o, n, k) EXCEPT !.blocked = b]
      PROVE  /\ Passes(o, p) /\ p.buf = o.buf /\ p.avail = o.avail
             /\ p.seen_end = o.seen_end /\ p.header_sent
             /\ Len(Chain(p)) <= Len(Chain(o))
  <2>1. PICK q : q = Taken(o, n, k)
    OBVIOUS
  <2>2. q \in IoType /\ q.delayed = o.delayed /\ q.timer = o.timer
    BY <1>1, <1>4, <2>1, TakenMoves
  <2>3. p = [q EXCEPT !.blocked = b]
    BY <1>4, <2>1
  <2>4. /\ p \in IoType /\ SameBuffers(q, p) /\ p.blocked = b
        /\ p.delayed = q.delayed /\ p.timer = q.timer
    BY <2>2, <2>3 DEF IoType, SameBuffers
  <2>5. p.delayed => o.active /\ p.blocked
    BY <1>3, <1>4, <2>2, <2>4
  <2>6. (p.timer = "delay" <=> p.delayed) /\ p.timer = o.timer
    BY <1>3, <2>2, <2>4
  <2> QED BY <1>4, <2>1, <2>4, <2>5, <2>6, PassedOn, ZenonT(40)
<1>5. CASE ~o.active
  <2>1. PICK b \in BOOLEAN : p = [Taken(o, 0, 0) EXCEPT !.blocked = b]
    BY <1>5 DEF Filtered
  <2>2. ~o.delayed
    BY <1>3, <1>5
  <2> QED BY <1>2, <1>4, <2>1, <2>2
<1>6. CASE o.active /\ o.delayed
  <2>1. p = [Taken(o, 0, 0) EXCEPT !.blocked = TRUE]
    BY <1>6 DEF Filtered
  <2> QED BY <1>2, <1>4, <2>1
<1>7. CASE o.active /\ ~o.delayed
  <2>1. ASSUME NEW x \in Positions(Chain(o)) PROVE x = <<x[1], x[2]>>
    <3>1. \/ x = <<Len(Chain(o)), 0>>
          \/ \E m \in 0..(Len(Chain(o)) - 1) :
               x \in {m} \X (0..(Len(Chain(o)[m + 1].data) - 1))
      BY DEF Positions
    <3> QED BY <3>1
  <2>2. CASE \E x \in Positions(Chain(o)) :
               p = [Taken(o, x[1], x[2]) EXCEPT
                      !.blocked = x # <<Len(Chain(o)), 0>>]
    <3>1. PICK x \in Positions(Chain(o)) :
            p = [Taken(o, x[1], x[2]) EXCEPT !.blocked = x # <<Len(Chain(o)), 0>>]
      BY <2>2
    <3>2. <<x[1], x[2]>> \in Positions(Chain(o))
      BY <2>1
    <3>3. PICK b \in BOOLEAN : b = (x # <<Len(Chain(o)), 0>>)
      OBVIOUS
    <3>4. p = [Taken(o, x[1], x[2]) EXCEPT !.blocked = b]
      BY <3>1, <3>3
    <3> QED BY <1>4, <1>7, <3>2, <3>4
  <2>3. CASE \E x \in Positions(Chain(o)) :
               p = [Taken(o, x[1], x[2]) EXCEPT
                      !.blocked = TRUE, !.delayed = TRUE, !.timer = "delay"]
    <3>1. PICK x \in Positions(Chain(o)) :
            p = [Taken(o, x[1], x[2]) EXCEPT
                   !.blocked = TRUE, !.delayed = TRUE, !.timer = "delay"]
      BY <2>3
    <3>2. <<x[1], x[2]>> \in Positions(Chain(o))
      BY <2>1
    <3>3. PICK q : q = Taken(o, x[1], x[2])
      OBVIOUS
    <3>4. q \in IoType
      BY <1>1, <3>2, <3>3, TakenMoves
    <3>5. p = [q EXCEPT !.blocked = TRUE, !.delayed = TRUE, !.timer = "delay"]
      BY <3>1, <3>3
    <3>6. /\ p \in IoType /\ SameBuffers(q, p)
          /\ p.blocked /\ p.delayed /\ p.timer = "delay"
      BY <3>4, <3>5 DEF IoType, SameBuffers
    <3> QED BY <1>7, <3>2, <3>3, <3>6, PassedOn
  <2> QED BY <1>7, <2>2, <2>3 DEF Filtered
<1> QED BY <1>5, <1>6, <1>7

\* Sizes are numbers, and a client that takes nothing has what it had.
LEMMA Sizes ==
  \A o \in IoType : /\ Held(o) \in Nat /\ Len(Chain(o)) \in Nat
                     /\ Len(Contents(o.busy)) \in Nat
                     /\ o.taken \in Seq(RdsByte) /\ o.taken = o.taken \o <<>>
<1> TAKE o \in IoType
<1>1. /\ o.taken \in Seq(RdsByte) /\ Contents(o.busy) \in Seq(RdsByte)
      /\ Len(Contents(Chain(o))) \in Nat /\ Len(o.buf.data) \in Nat
      /\ Chain(o) \in Seq(Buffer)
      /\ Held(o) = Len(Contents(Chain(o))) + Len(o.buf.data)
  BY ChainFacts
<1>2. Held(o) \in Nat
  BY <1>1
<1> QED BY <1>1, <1>2, LenProperties, ConcatEmptySeq

\* A change of flags only.
LEMMA FlagsKeep ==
  ASSUME NEW o, Stored(o), NEW r \in IoType,
         r.out = o.out, r.busy = o.busy, r.free = o.free, r.taken = o.taken,
         r.buf = o.buf, r.avail = o.avail, r.buffered = o.buffered
  PROVE  /\ Stored(r) /\ Chain(r) = Chain(o) /\ Sent(r) = Sent(o)
         /\ Held(r) = Held(o) /\ Count(r) = Count(o)
BY DEF Stored, Chain, Sent, Held, Count

\* The flags of the client's connection do not depend on the buffers.
LEMMA SameClientKept ==
  ASSUME NEW o, NEW q, SameClient(o, q), Client(o)
  PROVE  Client(q)
BY DEF SameClient, Client

\* The end of the stream has been queued, if it was there.
LEMMA EndedFacts ==
  ASSUME NEW o, Stored(o), Client(o), NEW q, q = Ended(o)
  PROVE  /\ Stored(q) /\ Client(q) /\ SameClient(o, q)
         /\ Sent(q) = Sent(o) /\ Held(q) = Held(o) /\ Count(q) = Count(o)
         /\ ~q.seen_end
         /\ o.seen_end => q.buf.data = <<>>
         /\ ~o.seen_end => q = o
<1>0. o \in IoType
  BY DEF Stored
<1>1. CASE o.seen_end
  <2>1. PICK r : r = [o EXCEPT !.seen_end = FALSE]
    OBVIOUS
  <2>2. /\ r \in IoType /\ ~r.seen_end
        /\ r.out = o.out /\ r.busy = o.busy /\ r.free = o.free /\ r.taken = o.taken
        /\ r.buf = o.buf /\ r.avail = o.avail /\ r.buffered = o.buffered
    BY <1>0, <2>1 DEF IoType
  <2>3. SameClient(o, r)
    BY <1>0, <2>1 DEF IoType, SameClient
  <2>4. /\ Stored(r) /\ Sent(r) = Sent(o) /\ Held(r) = Held(o)
        /\ Count(r) = Count(o)
    BY <2>2, FlagsKeep
  <2>5. q = QueueBuf(r)
    BY <1>1, <2>1 DEF Ended
  <2>6. /\ Stored(q) /\ SameClient(r, q) /\ q.seen_end = r.seen_end
        /\ Sent(q) = Sent(r) /\ Held(q) = Held(r) /\ Count(q) = Count(r)
        /\ q.buf.data = <<>>
    BY <2>4, <2>5, Queued
  <2>7. SameClient(o, q)
    BY <2>3, <2>6 DEF SameClient
  <2> QED BY <1>1, <2>2, <2>4, <2>6, <2>7, SameClientKept
<1>2. CASE ~o.seen_end
  BY <1>2 DEF Ended, SameClient
<1> QED BY <1>1, <1>2

\* ngx_http_drizzle_output_bufs.
LEMMA OutputBufsPasses ==
  ASSUME NEW o, Stored(o), Client(o), NEW p \in OutputBufs(o)
  PROVE  /\ Passes(o, p) /\ ~p.seen_end
         /\ o.seen_end => p.buf.data = <<>>
         /\ ~o.seen_end => /\ p.buf = o.buf /\ p.avail = o.avail
                           /\ Len(Chain(p)) <= Len(Chain(o))
<1>1. PICK q : q = Ended(o)
  OBVIOUS
<1>2. /\ Stored(q) /\ Client(q) /\ SameClient(o, q)
      /\ Sent(q) = Sent(o) /\ Held(q) = Held(o) /\ Count(q) = Count(o)
      /\ ~q.seen_end
      /\ o.seen_end => q.buf.data = <<>>
      /\ ~o.seen_end => q = o
  BY <1>1, EndedFacts
<1>0. o \in IoType /\ q \in IoType
  BY <1>2 DEF Stored
<1>3. /\ Held(o) \in Nat /\ Len(Chain(o)) \in Nat /\ Held(q) \in Nat
      /\ o.taken \in Seq(RdsByte) /\ o.taken = o.taken \o <<>>
  BY <1>0, Sizes
<1>4. CASE ~q.header_sent /\ q.out = <<>>
  <2>1. p = q
    BY <1>1, <1>4 DEF OutputBufs
  <2>2. q.taken = o.taken \o <<>> /\ <<>> \in Seq(RdsByte)
    BY <1>2, <1>3, EmptySeq DEF SameClient
  <2>3. q.active = o.active /\ q.timer = o.timer
    BY <1>2 DEF SameClient
  <2>4. Passes(o, q)
    <3>1. Held(q) <= Held(o)
      BY <1>2, <1>3
    <3>2. \E x \in Seq(RdsByte) : q.taken = o.taken \o x
      BY <2>2
    <3> QED BY <1>2, <1>4, <2>3, <3>1, <3>2 DEF Passes
  <2> QED BY <1>2, <1>3, <2>1, <2>4
<1>5. CASE ~(~q.header_sent /\ q.out = <<>>)
  <2>1. PICK r : r = [q EXCEPT !.header_sent = TRUE]
    OBVIOUS
  <2>2. /\ r \in IoType /\ r.seen_end = q.seen_end
        /\ r.out = q.out /\ r.busy = q.busy /\ r.free = q.free /\ r.taken = q.taken
        /\ r.buf = q.buf /\ r.avail = q.avail /\ r.buffered = q.buffered
        /\ r.header_sent /\ r.timer = q.timer /\ r.delayed = q.delayed
        /\ r.blocked = q.blocked /\ r.active = q.active
    BY <1>0, <2>1 DEF IoType
  <2>3. /\ Stored(r) /\ Chain(r) = Chain(q) /\ Sent(r) = Sent(q)
        /\ Held(r) = Held(q) /\ Count(r) = Count(q)
    BY <1>2, <2>2, FlagsKeep
  <2>4. Client(r)
    BY <1>2, <2>2 DEF Client
  <2>5. p \in Filtered(r, ~q.header_sent) /\ (~q.header_sent) \in BOOLEAN
    BY <1>1, <1>5, <2>1 DEF OutputBufs
  <2>6. /\ Passes(r, p) /\ p.buf = r.buf /\ p.avail = r.avail
        /\ p.seen_end = r.seen_end /\ p.header_sent
        /\ Len(Chain(p)) <= Len(Chain(r))
    BY <2>2, <2>3, <2>4, <2>5, FilteredPasses
  <2>7. r.taken = o.taken /\ r.active = o.active /\ r.timer = o.timer
    BY <1>2, <2>2 DEF SameClient
  <2>8. Passes(o, p)
    BY <1>2, <2>3, <2>6, <2>7 DEF Passes
  <2> QED BY <1>2, <2>2, <2>3, <2>6, <2>8
<1> QED BY <1>4, <1>5

-----------------------------------------------------------------------------
(* Failures.                                                                *)

\* What is left when a request ends with the buffers p: the beginning of the
\* stream, with what the client has already.
Ending(o, p) ==
  /\ p \in IoType
  /\ \E x \in Seq(RdsByte) : p.taken = o.taken \o x
  /\ \E y \in Seq(RdsByte) : Sent(o) = Given(p) \o y
  /\ ~p.header_sent => p.taken = <<>> /\ p.busy = <<>>
  /\ Len(p.busy) <= Count(o) /\ Len(Contents(p.busy)) <= Held(o)
  /\ p.active = o.active

\* The first buffers of the chain begin the stream.
LEMMA FirstBuffers ==
  ASSUME NEW o \in IoType, NEW first \in Seq(Buffer), NEW rest \in Seq(Buffer),
         Chain(o) = first \o rest
  PROVE  /\ \E y \in Seq(RdsByte) : Sent(o) = (o.taken \o Contents(first)) \o y
         /\ Len(first) <= Count(o) /\ Len(Contents(first)) <= Held(o)
<1>1. /\ o.taken \in Seq(RdsByte) /\ o.buf.data \in Seq(RdsByte)
      /\ Len(o.buf.data) \in Nat /\ Len(o.free) \in Nat
      /\ Held(o) = Len(Contents(Chain(o))) + Len(o.buf.data)
  BY ChainFacts
<1>2. Contents(first) \in Seq(RdsByte) /\ Contents(rest) \in Seq(RdsByte)
      /\ Len(Contents(first)) \in Nat /\ Len(Contents(rest)) \in Nat
      /\ Len(first) \in Nat /\ Len(rest) \in Nat
  BY ContentsType, LenProperties
<1>3. Contents(Chain(o)) = Contents(first) \o Contents(rest)
  BY ContentsOfConcat
<1>4. Len(Contents(Chain(o))) = Len(Contents(first)) + Len(Contents(rest))
  BY <1>2, <1>3, ConcatProperties
<1>5. Len(Chain(o)) = Len(first) + Len(rest)
  BY ConcatProperties
<1>6. Sent(o) = (o.taken \o Contents(first)) \o (Contents(rest) \o o.buf.data)
  <2>1. o.taken \o (Contents(first) \o Contents(rest)) =
          (o.taken \o Contents(first)) \o Contents(rest)
    BY <1>1, <1>2, Assoc
  <2>2. o.taken \o Contents(first) \in Seq(RdsByte)
    BY <1>1, <1>2, ConcatProperties
  <2>3. ((o.taken \o Contents(first)) \o Contents(rest)) \o o.buf.data =
          (o.taken \o Contents(first)) \o (Contents(rest) \o o.buf.data)
    BY <1>1, <1>2, <2>2, Assoc
  <2> QED BY <1>3, <2>1, <2>3 DEF Sent
<1>7. Contents(rest) \o o.buf.data \in Seq(RdsByte)
  BY <1>1, <1>2, ConcatProperties
<1>8. Len(Contents(first)) <= Held(o)
  <2>1. ASSUME NEW a \in Nat, NEW b \in Nat, NEW c \in Nat PROVE a <= (a + b) + c
    OBVIOUS
  <2>2. Held(o) = (Len(Contents(first)) + Len(Contents(rest))) + Len(o.buf.data)
    BY <1>1, <1>4
  <2> QED BY <1>1, <1>2, <2>1, <2>2
<1>9. Len(first) <= Count(o)
  <2>0. (IF o.buf = NoBuf THEN 0 ELSE 1) \in Nat
    OBVIOUS
  <2>1. PICK k : k = IF o.buf = NoBuf THEN 0 ELSE 1
    OBVIOUS
  <2>2. k \in Nat /\ Count(o) = Len(o.free) + (Len(first) + Len(rest)) + k
    BY <1>5, <2>0, <2>1 DEF Count
  <2>3. ASSUME NEW a \in Nat, NEW b \in Nat, NEW c \in Nat, NEW d \in Nat
        PROVE  b <= a + (b + c) + d
    OBVIOUS
  <2>4. PICK a \in Nat : a = Len(o.free)
    BY <1>1
  <2>5. PICK b \in Nat : b = Len(first)
    BY <1>2
  <2>6. PICK c \in Nat : c = Len(rest)
    BY <1>2
  <2>7. b <= a + (b + c) + k
    BY <2>2, <2>3
  <2> QED BY <2>2, <2>4, <2>5, <2>6, <2>7
<1> QED BY <1>6, <1>7, <1>8, <1>9

\* A request may end with the buffers as they are,
LEMMA EndsHere ==
  ASSUME NEW o \in IoType, Client(o)
  PROVE  Ending(o, o)
<1>1. o.busy \in Seq(Buffer) /\ o.out \in Seq(Buffer) /\ Chain(o) = o.busy \o o.out
  BY DEF IoType, Chain
<1>2. /\ \E y \in Seq(RdsByte) : Sent(o) = (o.taken \o Contents(o.busy)) \o y
      /\ Len(o.busy) <= Count(o) /\ Len(Contents(o.busy)) <= Held(o)
  BY <1>1, FirstBuffers
<1>3. o.taken = o.taken \o <<>> /\ <<>> \in Seq(RdsByte)
  BY ChainFacts, ConcatEmptySeq, EmptySeq
<1> QED BY <1>2, <1>3 DEF Ending, Given, Client

\* or with what is left of them after the stream has moved on.
LEMMA EndingAfter ==
  ASSUME NEW o \in IoType, NEW q \in IoType, NEW p, Ending(q, p),
         Sent(q) = Sent(o), Held(q) <= Held(o), Count(q) = Count(o),
         \E x \in Seq(RdsByte) : q.taken = o.taken \o x, q.active = o.active
  PROVE  Ending(o, p)
<1>1. PICK x \in Seq(RdsByte) : q.taken = o.taken \o x
  OBVIOUS
<1>2. PICK z \in Seq(RdsByte) : p.taken = q.taken \o z
  BY DEF Ending
<1>3. o.taken \in Seq(RdsByte)
  BY ChainFacts
<1>4. x \o z \in Seq(RdsByte)
  BY ConcatProperties
<1>5. (o.taken \o x) \o z = o.taken \o (x \o z)
  BY <1>3, Assoc
<1>6. p.taken = o.taken \o (x \o z)
  BY <1>1, <1>2, <1>5
<1>7. Len(Contents(p.busy)) <= Held(o)
  <2>1. p \in IoType /\ Len(Contents(p.busy)) <= Held(q)
    BY DEF Ending
  <2>3. Held(q) \in Nat /\ Held(o) \in Nat /\ Len(Contents(p.busy)) \in Nat
    BY <2>1, Sizes
  <2> QED BY <2>1, <2>3
<1> QED BY <1>4, <1>6, <1>7 DEF Ending

\* The header is refused, or nginx keeps some of the buffers.
LEMMA OutputBufsFailsEnding ==
  ASSUME NEW o, Stored(o), Client(o), NEW p \in OutputBufsFails(o)
  PROVE  Ending(o, p)
<1>1. PICK q : q = Ended(o)
  OBVIOUS
<1>2. /\ Stored(q) /\ Client(q) /\ SameClient(o, q)
      /\ Sent(q) = Sent(o) /\ Held(q) = Held(o) /\ Count(q) = Count(o)
  BY <1>1, EndedFacts
<1>3. o \in IoType /\ q \in IoType
  BY <1>2 DEF Stored
<1>9. /\ Held(o) \in Nat /\ Held(q) \in Nat
      /\ o.taken \in Seq(RdsByte) /\ o.taken = o.taken \o <<>>
  BY <1>3, Sizes
<1>4. q.taken = o.taken \o <<>> /\ <<>> \in Seq(RdsByte) /\ q.active = o.active
      /\ Held(q) <= Held(o)
  BY <1>2, <1>9, EmptySeq DEF SameClient
<1>5. ASSUME Ending(q, p) PROVE Ending(o, p)
  BY <1>2, <1>3, <1>4, <1>5, EndingAfter
<1>6. CASE p = o
  BY <1>3, <1>6, EndsHere
<1>7. CASE p = q
  BY <1>2, <1>3, <1>5, <1>7, EndsHere
<1>8. CASE \E n \in Len(q.busy)..Len(Chain(q)) :
             p = [q EXCEPT !.busy = SubSeq(Chain(q), 1, n), !.out = <<>>,
                           !.header_sent = TRUE]
  <2>1. PICK n \in Len(q.busy)..Len(Chain(q)) :
          p = [q EXCEPT !.busy = SubSeq(Chain(q), 1, n), !.out = <<>>,
                        !.header_sent = TRUE]
    BY <1>8
  <2>2. Chain(q) \in Seq(Buffer) /\ Len(q.busy) \in Nat
    BY <1>3, ChainFacts
  <2>3. n \in 0..Len(Chain(q))
    BY <2>2, LenProperties
  <2>4. PICK first : first = SubSeq(Chain(q), 1, n)
    OBVIOUS
  <2>5. PICK rest : rest = SubSeq(Chain(q), n + 1, Len(Chain(q)))
    OBVIOUS
  <2>6. first \in Seq(Buffer) /\ rest \in Seq(Buffer) /\ Chain(q) = first \o rest
    BY <2>2, <2>3, <2>4, <2>5, Cut
  <2>7. /\ \E y \in Seq(RdsByte) : Sent(q) = (q.taken \o Contents(first)) \o y
        /\ Len(first) <= Count(q) /\ Len(Contents(first)) <= Held(q)
    BY <1>3, <2>6, FirstBuffers
  <2>8. p = [q EXCEPT !.busy = first, !.out = <<>>, !.header_sent = TRUE]
    BY <2>1, <2>4
  <2>9. <<>> \in Seq(Buffer)
    BY EmptySeq
  <2>10. /\ p \in IoType /\ p.busy = first /\ p.taken = q.taken
         /\ p.header_sent /\ p.active = q.active
    BY <1>3, <2>6, <2>8, <2>9 DEF IoType
  <2>11. q.taken = q.taken \o <<>> /\ <<>> \in Seq(RdsByte)
    BY <1>3, ChainFacts, ConcatEmptySeq, EmptySeq
  <2>12. Ending(q, p)
    BY <2>7, <2>10, <2>11 DEF Ending, Given
  <2> QED BY <1>5, <2>12
<1> QED BY <1>1, <1>6, <1>7, <1>8 DEF OutputBufsFails

\* What nginx has taken may be where the request ends.
LEMMA PassesEnding ==
  ASSUME NEW o \in IoType, NEW p, Passes(o, p)
  PROVE  Ending(o, p)
<1>1. p \in IoType /\ Client(p)
  BY DEF Passes, Stored
<1>2. Ending(p, p)
  BY <1>1, EndsHere
<1> QED BY <1>1, <1>2, EndingAfter DEF Passes

\* request_mem or submit_mem fails.
LEMMA EncodingFailsEnding ==
  ASSUME Stored(io), Client(io), NEW p \in EncodingFails
  PROVE  Ending(io, p)
<1>1. PICK q : q = QueueBuf(io)
  OBVIOUS
<1>2. /\ Stored(q) /\ SameClient(io, q)
      /\ Sent(q) = Sent(io) /\ Held(q) = Held(io) /\ Count(q) = Count(io)
  BY <1>1, Queued
<1>3. Client(q) /\ io \in IoType /\ q \in IoType
  BY <1>2, SameClientKept DEF Stored
<1>4. /\ Held(io) \in Nat /\ Held(q) \in Nat /\ q.taken = io.taken \o <<>>
      /\ <<>> \in Seq(RdsByte) /\ q.active = io.active
  BY <1>2, <1>3, Sizes, EmptySeq DEF SameClient
<1>5. Ending(q, p)
  <2>1. CASE p = q
    BY <1>3, <2>1, EndsHere
  <2>2. CASE p \in OutputBufsFails(q)
    BY <1>2, <1>3, <2>2, OutputBufsFailsEnding
  <2>3. CASE p \in OutputBufs(q)
    <3>1. Passes(q, p)
      BY <1>2, <1>3, <2>3, OutputBufsPasses
    <3> QED BY <1>3, <3>1, PassesEnding
  <2> QED BY <1>1, <2>1, <2>2, <2>3 DEF EncodingFails
<1>6. Held(q) <= Held(io)
  BY <1>2, <1>4
<1> QED BY <1>2, <1>3, <1>4, <1>5, <1>6, EndingAfter

-----------------------------------------------------------------------------
(* Encoding.                                                                *)

\* The greatest of two numbers
LEMMA MaxOfTwo ==
  ASSUME NEW a \in Int, NEW b \in Int
  PROVE  Max({a, b}) \in {a, b} /\ Max({a, b}) >= a /\ Max({a, b}) >= b
<1>1. \E m \in {a, b} : \A y \in {a, b} : m >= y
  BY a >= b \/ b >= a
<1>2. Max({a, b}) \in {a, b} /\ \A y \in {a, b} : Max({a, b}) >= y
  BY <1>1 DEF Max
<1> QED BY <1>2

\* and of three.
LEMMA MaxOfThree ==
  ASSUME NEW a \in Int, NEW b \in Int, NEW c \in Int
  PROVE  Max({a, b, c}) \in {a, b, c} /\ Max({a, b, c}) >= a
         /\ Max({a, b, c}) >= b /\ Max({a, b, c}) >= c
<1>1. \E m \in {a, b, c} : \A y \in {a, b, c} : m >= y
  <2>1. \/ a >= b /\ a >= c
        \/ b >= a /\ b >= c
        \/ c >= a /\ c >= b
    OBVIOUS
  <2>2. a >= a /\ b >= b /\ c >= c
    OBVIOUS
  <2> QED BY <2>1, <2>2
<1>2. Max({a, b, c}) \in {a, b, c} /\ \A y \in {a, b, c} : Max({a, b, c}) >= y
  BY <1>1 DEF Max
<1> QED BY <1>2

\* A buffer for an atom is large enough for it, and not smaller than
\* drizzle_buffer_size.
LEMMA BufferForFacts ==
  ASSUME NEW o \in IoType, NEW len \in Nat
  PROVE  /\ BufferFor(o, len) \in Nat
         /\ BufferFor(o, len) >= len /\ BufferFor(o, len) >= BufSize
<1>0. BufSize \in Nat
  BY OutputAssumption
<1>1. CASE o.free = <<>>
  <2>1. {len, BufSize} \cup (IF o.free = <<>> THEN {} ELSE {Head(o.free)}) =
          {len, BufSize}
    BY <1>1
  <2>2. BufferFor(o, len) = Max({len, BufSize})
    BY <2>1 DEF BufferFor
  <2> QED BY <1>0, <2>2, MaxOfTwo
<1>2. CASE o.free # <<>>
  <2>0. o.free \in Seq(Nat)
    BY DEF IoType
  <2>4. PICK h : h = Head(o.free)
    OBVIOUS
  <2>1. h \in Nat
    BY <1>2, <2>0, <2>4, HeadTailProperties
  <2>2. {len, BufSize} \cup (IF o.free = <<>> THEN {} ELSE {Head(o.free)}) =
          {len, BufSize, h}
    BY <1>2, <2>4
  <2>3. BufferFor(o, len) = Max({len, BufSize, h})
    BY <2>2 DEF BufferFor
  <2>5. len \in Int /\ BufSize \in Int /\ h \in Int
    BY <1>0, <2>1
  <2>6. Max({len, BufSize, h}) \in {len, BufSize, h}
        /\ Max({len, BufSize, h}) >= len /\ Max({len, BufSize, h}) >= BufSize
    BY <2>5, MaxOfThree
  <2> QED BY <1>0, <2>1, <2>3, <2>6
<1> QED BY <1>1, <1>2

\* A quotient plus one is more than the exact quotient.
LEMMA Below ==
  ASSUME NEW a \in Int, NEW b \in Nat, b > 0
  PROVE  a \div b \in Int /\ a < b * ((a \div b) + 1)
OBVIOUS

\* Multiplication is monotonic.
LEMMA Times ==
  ASSUME NEW b \in Nat, NEW x \in Int, NEW y \in Int, x <= y
  PROVE  b * x <= b * y
OBVIOUS

\* The most buffers there may be.
MaxBuffers == (MaxBuffered - 2) \div BufSize + 2

\* Below the threshold there are few buffers in the chain: len of them, of
\* which there is one more than before, k, if another one is begun.
LEMMA FewBuffers ==
  ASSUME NEW len \in Nat, NEW cap \in Nat, BufSize * len <= cap,
         NEW data \in Nat, cap + data < MaxBuffered,
         NEW k \in {0, 1}, k = 1 => data > 0,
         NEW more \in Nat, more <= len + k
  PROVE  more + 1 <= MaxBuffers
<1>0. BufSize \in Nat /\ BufSize > 0 /\ MaxBuffered \in Nat
  BY OutputAssumption
<1>1. PICK d : d = (MaxBuffered - 2) \div BufSize
  OBVIOUS
<1>2. d \in Int /\ MaxBuffered - 2 < BufSize * (d + 1)
  BY <1>0, <1>1, Below
<1>3. SUFFICES ASSUME more > d + 1 PROVE FALSE
  BY <1>1, <1>2 DEF MaxBuffers
<1>4. CASE k = 1
  <2>1. d + 1 <= len /\ d + 1 \in Int
    BY <1>2, <1>3, <1>4
  <2>2. BufSize * (d + 1) <= BufSize * len
    BY <1>0, <2>1, Times
  <2>3. BufSize * (d + 1) \in Int /\ BufSize * len \in Int
    BY <1>0, <1>2
  <2> QED BY <1>0, <1>2, <1>4, <2>2, <2>3
<1>5. CASE k = 0
  <2>1. (d + 1) + 1 <= len /\ (d + 1) + 1 \in Int
    BY <1>2, <1>3, <1>5
  <2>2. BufSize * ((d + 1) + 1) <= BufSize * len
    BY <1>0, <2>1, Times
  <2>3. BufSize * ((d + 1) + 1) = BufSize * (d + 1) + BufSize
    BY <1>0, <1>2
  <2>4. BufSize * (d + 1) \in Int /\ BufSize * len \in Int
    BY <1>0, <1>2
  <2> QED BY <1>0, <1>2, <2>2, <2>3, <2>4
<1> QED BY <1>4, <1>5

\* Between two atoms the current buffer, if there is one, has bytes.
Filled(o) == o.buf = NoBuf \/ o.buf.data # <<>>

\* A buffer with room for an atom, the current one or another.
Roomy(o, p, len) ==
  /\ Stored(p) /\ Client(p) /\ ~p.seen_end
  /\ p.buf # NoBuf /\ p.avail >= len
  /\ Sent(p) = Sent(o) /\ Held(p) <= Held(o) /\ Count(p) <= MaxBuffers
  /\ \E x \in Seq(RdsByte) : p.taken = o.taken \o x
  /\ p.active = o.active
  /\ p.timer = o.timer \/ p.timer = "delay"

\* A new buffer, or one of free_bufs.
LEMMA NewBufFacts ==
  ASSUME NEW o, Stored(o), o.buf = NoBuf, NEW len \in Nat,
         Count(o) <= MaxBuffers, Len(Chain(o)) + 1 <= MaxBuffers,
         NEW p, p = NewBuf(o, len)
  PROVE  /\ Stored(p) /\ p.seen_end = o.seen_end
         /\ p.taken = o.taken /\ p.busy = o.busy /\ p.blocked = o.blocked
         /\ p.active = o.active /\ p.delayed = o.delayed /\ p.timer = o.timer
         /\ p.header_sent = o.header_sent
         /\ p.buf # NoBuf /\ p.avail >= len
         /\ Sent(p) = Sent(o) /\ Held(p) = Held(o) /\ Count(p) <= MaxBuffers
<1>0. o \in IoType /\ o.free \in Seq(Nat)
  BY DEF Stored, IoType
<1>1. PICK c : c = BufferFor(o, len)
  OBVIOUS
<1>2. c \in Nat /\ c >= len /\ c >= BufSize
  BY <1>0, <1>1, BufferForFacts
<1>3. PICK free : free = IF o.free = <<>> THEN o.free ELSE Tail(o.free)
  OBVIOUS
<1>4. /\ free \in Seq(Nat) /\ Len(free) \in Nat /\ Len(o.free) \in Nat
      /\ o.free = <<>> => Len(free) = 0
      /\ o.free # <<>> => Len(free) = Len(o.free) - 1
  <2>1. CASE o.free = <<>>
    <3>1. Len(<<>>) = 0 /\ <<>> \in Seq(Nat)
      BY EmptySeq
    <3> QED BY <1>3, <2>1, <3>1
  <2>2. CASE o.free # <<>>
    <3>1. Tail(o.free) \in Seq(Nat) /\ Len(Tail(o.free)) = Len(o.free) - 1
      BY <1>0, <2>2, HeadTailProperties
    <3>2. free = Tail(o.free)
      BY <1>3, <2>2
    <3> QED BY <1>0, <2>2, <3>1, <3>2, LenProperties
  <2> QED BY <2>1, <2>2
<1>5. p = [o EXCEPT !.buf = [cap |-> c, data |-> <<>>], !.avail = c, !.free = free]
  BY <1>1, <1>3 DEF NewBuf
<1>6. PICK b : b = [cap |-> c, data |-> <<>>]
  OBVIOUS
<1>7. b \in [cap : Nat, data : Seq(RdsByte)] /\ b.cap = c /\ b.data = <<>>
      /\ NoBuf.data = <<>> /\ NoBuf.cap = 0 /\ Len(<<>>) = 0
  BY <1>2, <1>6, EmptySeq DEF NoBuf
<1>8. p = [o EXCEPT !.buf = b, !.avail = c, !.free = free]
  BY <1>5, <1>6
<1>9. /\ p \in IoType /\ p.buf = b /\ p.avail = c /\ p.free = free
      /\ p.out = o.out /\ p.busy = o.busy /\ p.taken = o.taken
      /\ p.buffered = o.buffered /\ p.seen_end = o.seen_end
  <2>1. b \in [cap : Nat, data : Seq(RdsByte)] /\ c \in Nat /\ free \in Seq(Nat)
    BY <1>2, <1>4, <1>7
  <2>2. p \in IoType
    BY <1>0, <1>8, <2>1 DEF IoType
  <2> QED BY <1>0, <1>8, <2>2 DEF IoType
<1>10. /\ p.blocked = o.blocked /\ p.active = o.active /\ p.delayed = o.delayed
       /\ p.timer = o.timer /\ p.header_sent = o.header_sent
  BY <1>0, <1>8 DEF IoType
<1>11. Chain(p) = Chain(o)
  BY <1>9 DEF Chain
<1>12. BufSize \in Nat /\ BufSize > 0
  BY OutputAssumption
<1>13. b # NoBuf
  BY <1>2, <1>7, <1>12
<1>14. Stored(p)
  <2>1. p.avail + Len(p.buf.data) = p.buf.cap
    BY <1>2, <1>7, <1>9
  <2>2. p.buf = NoBuf \/ p.buf.cap >= BufSize
    BY <1>2, <1>7, <1>9
  <2> QED BY <1>9, <1>11, <2>1, <2>2 DEF Stored
<1>15. Sent(p) = Sent(o) /\ Held(p) = Held(o)
  BY <1>7, <1>9, <1>11 DEF Sent, Held
<1>16. Count(p) <= MaxBuffers
  <2>1. Count(p) = Len(free) + Len(Chain(o)) + 1
    BY <1>9, <1>11, <1>13 DEF Count
  <2>2. Count(o) = Len(o.free) + Len(Chain(o)) + 0
    BY DEF Count
  <2>3. Len(Chain(o)) \in Nat /\ MaxBuffers \in Int
    <3>1. BufSize \in Nat /\ BufSize > 0 /\ MaxBuffered - 2 \in Int
      BY OutputAssumption
    <3> QED BY <1>0, <3>1, Sizes, Below DEF MaxBuffers
  <2> QED BY <1>4, <2>1, <2>2, <2>3
<1> QED BY <1>2, <1>9, <1>10, <1>13, <1>14, <1>15, <1>16

\* ngx_http_drizzle_request_mem.
LEMMA RequestMemFacts ==
  ASSUME NEW o, Stored(o), Client(o), Filled(o), ~o.seen_end,
         PendingOutput(o) < MaxBuffered, Count(o) <= MaxBuffers,
         NEW len \in Nat, NEW p \in RequestMem(o, len)
  PROVE  Roomy(o, p, len)
<1>0. /\ o \in IoType /\ Held(o) \in Nat /\ Len(Chain(o)) \in Nat
      /\ o.taken = o.taken \o <<>> /\ <<>> \in Seq(RdsByte)
  <2>1. o \in IoType
    BY DEF Stored
  <2> QED BY <2>1, Sizes, EmptySeq
<1>1. CASE o.buf # NoBuf /\ o.avail >= len
  <2>1. p = o
    BY <1>1 DEF RequestMem
  <2>2. Held(o) <= Held(o)
    BY <1>0
  <2>3. \E x \in Seq(RdsByte) : o.taken = o.taken \o x
    BY <1>0
  <2> QED BY <1>1, <2>1, <2>2, <2>3 DEF Roomy
<1>2. CASE ~(o.buf # NoBuf /\ o.avail >= len)
  <2>1. PICK q : q = QueueBuf(o)
    OBVIOUS
  <2>2. /\ Stored(q) /\ SameClient(o, q) /\ q.seen_end = o.seen_end
        /\ Sent(q) = Sent(o) /\ Held(q) = Held(o) /\ Count(q) = Count(o)
        /\ o.buf.data # <<>> => q.buf = NoBuf
        /\ Len(Chain(q)) <= Len(Chain(o)) + (IF o.buf = NoBuf THEN 0 ELSE 1)
    BY <2>1, Queued
  <2>3. q.buf = NoBuf
    <3>1. CASE o.buf = NoBuf
      <4>1. o.buf.data = <<>>
        BY <3>1 DEF NoBuf
      <4> QED BY <2>1, <3>1, <4>1 DEF QueueBuf
    <3> QED BY <2>2, <3>1 DEF Filled
  <2>4. Client(q)
    BY <2>2, SameClientKept
  <2>5. PICK r \in OutputBufs(q) : p = NewBuf(r, len)
    BY <1>2, <2>1 DEF RequestMem
  <2>6. /\ Passes(q, r) /\ ~r.seen_end /\ r.buf = NoBuf
        /\ Len(Chain(r)) <= Len(Chain(q))
    BY <2>2, <2>3, <2>4, <2>5, OutputBufsPasses
  <2>7. /\ Stored(r) /\ Client(r)
        /\ Sent(r) = Sent(q) /\ Held(r) <= Held(q) /\ Count(r) = Count(q)
        /\ \E x \in Seq(RdsByte) : r.taken = q.taken \o x
        /\ r.active = q.active /\ (r.timer = q.timer \/ r.timer = "delay")
    BY <2>6 DEF Passes
  <2>8. /\ r \in IoType /\ q \in IoType
        /\ Len(Chain(r)) \in Nat /\ Len(Chain(q)) \in Nat /\ Held(r) \in Nat
    <3>1. r \in IoType /\ q \in IoType
      BY <2>2, <2>7 DEF Stored
    <3> QED BY <3>1, Sizes
  <2>9. Len(Chain(r)) + 1 <= MaxBuffers
    <3>1. PICK k \in {0, 1} : k = IF o.buf = NoBuf THEN 0 ELSE 1
      OBVIOUS
    <3>2. Len(Chain(r)) <= Len(Chain(o)) + k
      BY <1>0, <2>2, <2>6, <2>8, <3>1
    <3>3. /\ Chain(o) \in Seq(Buffer) /\ Len(o.buf.data) \in Nat
          /\ o.buf.data \in Seq(RdsByte)
      BY <1>0, ChainFacts
    <3>4. Capacity(Chain(o)) \in Nat /\ BufSize * Len(Chain(o)) <= Capacity(Chain(o))
      BY <3>3, CapacityFacts
    <3>5. Capacity(Chain(o)) + Len(o.buf.data) < MaxBuffered
      BY DEF PendingOutput, Stored
    <3>6. k = 1 => Len(o.buf.data) > 0
      <4> SUFFICES ASSUME k = 1 PROVE Len(o.buf.data) > 0
        OBVIOUS
      <4>1. o.buf # NoBuf
        BY <3>1
      <4>2. o.buf.data # <<>>
        BY <4>1 DEF Filled
      <4>3. Len(o.buf.data) # 0
        BY <3>3, <4>2, EmptySeq
      <4> QED BY <3>3, <4>3
    <3> QED BY <1>0, <2>8, <3>2, <3>3, <3>4, <3>5, <3>6, FewBuffers
  <2>10. Count(r) <= MaxBuffers
    BY <2>2, <2>7
  <2>11. /\ Stored(p) /\ p.seen_end = r.seen_end
         /\ p.taken = r.taken /\ p.busy = r.busy /\ p.blocked = r.blocked
         /\ p.active = r.active /\ p.delayed = r.delayed /\ p.timer = r.timer
         /\ p.header_sent = r.header_sent
         /\ p.buf # NoBuf /\ p.avail >= len
         /\ Sent(p) = Sent(r) /\ Held(p) = Held(r) /\ Count(p) <= MaxBuffers
    <3>1. Stored(r) /\ r.buf = NoBuf
      BY <2>6, <2>7
    <3> QED BY <2>5, <2>9, <2>10, <3>1, NewBufFacts
  <2>12. Client(p)
    BY <2>7, <2>11 DEF Client
  <2>13. Sent(p) = Sent(o) /\ Held(p) <= Held(o)
    BY <1>0, <2>2, <2>7, <2>8, <2>11
  <2>14. /\ \E x \in Seq(RdsByte) : p.taken = o.taken \o x
         /\ p.active = o.active /\ (p.timer = o.timer \/ p.timer = "delay")
    BY <2>2, <2>7, <2>11 DEF SameClient
  <2> QED BY <2>6, <2>11, <2>12, <2>13, <2>14 DEF Roomy
<1> QED BY <1>1, <1>2

\* An atom has been encoded: the stream is longer by its bytes.
Longer(o, p, bytes, end) ==
  /\ Stored(p) /\ Client(p) /\ Filled(p) /\ p.seen_end = end
  /\ Sent(p) = Sent(o) \o bytes /\ Held(p) <= Held(o) + Len(bytes)
  /\ Count(p) <= MaxBuffers
  /\ \E x \in Seq(RdsByte) : p.taken = o.taken \o x
  /\ p.active = o.active
  /\ p.timer = o.timer \/ p.timer = "delay"

\* The bytes of an atom in the current buffer.
LEMMA BytesStored ==
  ASSUME NEW o, Stored(o), Client(o), o.buf # NoBuf,
         NEW bytes \in Seq(RdsByte), bytes # <<>>, Len(bytes) <= o.avail,
         NEW p, p = [o EXCEPT !.buf.data = @ \o bytes, !.avail = @ - Len(bytes)]
  PROVE  /\ Stored(p) /\ Client(p) /\ p.buf # NoBuf /\ p.buf.data # <<>>
         /\ Sent(p) = Sent(o) \o bytes /\ Held(p) = Held(o) + Len(bytes)
         /\ Count(p) = Count(o)
         /\ SameClient(o, p) /\ p.seen_end = o.seen_end
<1>0. o \in IoType
  BY DEF Stored
<1>1. /\ o.taken \in Seq(RdsByte) /\ Contents(Chain(o)) \in Seq(RdsByte)
      /\ o.buf.data \in Seq(RdsByte) /\ Len(o.buf.data) \in Nat
      /\ Len(Contents(Chain(o))) \in Nat
      /\ Held(o) = Len(Contents(Chain(o))) + Len(o.buf.data)
  BY <1>0, ChainFacts
<1>2. Len(bytes) \in Nat \ {0}
  BY EmptySeq
<1>3. PICK data : data = o.buf.data \o bytes
  OBVIOUS
<1>4. data \in Seq(RdsByte) /\ Len(data) = Len(o.buf.data) + Len(bytes)
  BY <1>1, <1>3, ConcatProperties
<1>5. PICK avail : avail = o.avail - Len(bytes)
  OBVIOUS
<1>6. o.buf \in [cap : Nat, data : Seq(RdsByte)] /\ o.avail \in Nat
  BY <1>0 DEF IoType
<1>7. avail \in Nat
  BY <1>2, <1>5, <1>6
<1>8. PICK buf : buf = [o.buf EXCEPT !.data = data]
  OBVIOUS
<1>9. buf \in [cap : Nat, data : Seq(RdsByte)] /\ buf.cap = o.buf.cap
      /\ buf.data = data
  BY <1>4, <1>6, <1>8
<1>10. p = [o EXCEPT !.buf = buf, !.avail = avail]
  BY <1>3, <1>5, <1>8
<1>11. p \in IoType
  BY <1>0, <1>7, <1>9, <1>10 DEF IoType
<1>12. p.buf = buf /\ p.avail = avail /\ p.out = o.out /\ p.buffered = o.buffered
       /\ SameClient(o, p) /\ p.seen_end = o.seen_end
  BY <1>0, <1>10 DEF IoType, SameClient
<1>13. Chain(p) = Chain(o)
  BY <1>12 DEF Chain, SameClient
<1>14. data # <<>>
  <2>1. Len(data) # 0
    BY <1>1, <1>2, <1>4
  <2> QED BY <2>1, EmptySeq
<1>15. p.buf # NoBuf /\ p.buf.data # <<>>
  BY <1>9, <1>12, <1>14 DEF NoBuf
<1>16. Stored(p)
  <2>1. o.avail + Len(o.buf.data) = o.buf.cap /\ o.buf.cap >= BufSize
        /\ o.buffered = Capacity(Chain(o))
    BY DEF Stored
  <2>2. p.avail + Len(p.buf.data) = p.buf.cap
    <3>1. avail + Len(data) = o.buf.cap
      BY <1>1, <1>2, <1>4, <1>5, <1>6, <2>1
    <3> QED BY <1>9, <1>12, <3>1
  <2> QED BY <1>9, <1>11, <1>12, <1>13, <2>1, <2>2 DEF Stored
<1>17. Client(p)
  BY <1>12, SameClientKept
<1>18. Sent(p) = Sent(o) \o bytes
  <2>1. o.taken \o Contents(Chain(o)) \in Seq(RdsByte)
    BY <1>1, ConcatProperties
  <2>2. ((o.taken \o Contents(Chain(o))) \o o.buf.data) \o bytes =
          (o.taken \o Contents(Chain(o))) \o (o.buf.data \o bytes)
    BY <1>1, <2>1, Assoc
  <2> QED BY <1>3, <1>9, <1>12, <1>13, <2>2 DEF Sent, SameClient
<1>19. Held(p) = Held(o) + Len(bytes)
  <2>1. Held(p) = Len(Contents(Chain(p))) + Len(p.buf.data)
    BY <1>11, ChainFacts
  <2>2. Held(p) = Len(Contents(Chain(o))) + (Len(o.buf.data) + Len(bytes))
    BY <1>4, <1>9, <1>12, <1>13, <2>1
  <2>3. ASSUME NEW a \in Nat, NEW b \in Nat, NEW c \in Nat
        PROVE  a + (b + c) = (a + b) + c
    OBVIOUS
  <2>4. Held(p) = (Len(Contents(Chain(o))) + Len(o.buf.data)) + Len(bytes)
    BY <1>1, <1>2, <2>2, <2>3
  <2> QED BY <1>1, <2>4
<1>20. Count(p) = Count(o)
  <2>1. p.free = o.free
    BY <1>12 DEF SameClient
  <2> QED BY <1>13, <1>15, <2>1 DEF Count
<1> QED BY <1>12, <1>15, <1>16, <1>17, <1>18, <1>19, <1>20

\* An atom is encoded.
LEMMA EncodedFacts ==
  ASSUME Stored(io), Client(io), Filled(io), ~io.seen_end,
         PendingOutput(io) < MaxBuffered, Count(io) <= MaxBuffers,
         NEW bytes \in Seq(RdsByte), bytes # <<>>, NEW end \in BOOLEAN,
         NEW p \in Encoded(bytes, end)
  PROVE  Longer(io, p, bytes, end)
<1>0. Len(bytes) \in Nat
  BY LenProperties
<1>1. PICK o \in RequestMem(io, Len(bytes)) :
        p = SubmitMem([o EXCEPT !.seen_end = @ \/ end], bytes)
  BY DEF Encoded
<1>2. Roomy(io, o, Len(bytes))
  BY <1>0, <1>1, RequestMemFacts
<1>3. /\ Stored(o) /\ Client(o) /\ ~o.seen_end
      /\ o.buf # NoBuf /\ o.avail >= Len(bytes)
      /\ Sent(o) = Sent(io) /\ Held(o) <= Held(io) /\ Count(o) <= MaxBuffers
      /\ \E x \in Seq(RdsByte) : o.taken = io.taken \o x
      /\ o.active = io.active /\ (o.timer = io.timer \/ o.timer = "delay")
  BY <1>2 DEF Roomy
<1>4. o \in IoType
  BY <1>3 DEF Stored
<1>5. PICK r : r = [o EXCEPT !.seen_end = @ \/ end]
  OBVIOUS
<1>6. /\ r \in IoType /\ r.seen_end = end
      /\ r.out = o.out /\ r.buf = o.buf /\ r.avail = o.avail
      /\ r.buffered = o.buffered /\ SameClient(o, r)
  <2>1. r.seen_end = end
    <3>1. r.seen_end = (o.seen_end \/ end)
      BY <1>4, <1>5 DEF IoType
    <3> QED BY <1>3, <3>1
  <2> QED BY <1>4, <1>5, <2>1 DEF IoType, SameClient
<1>7. /\ Stored(r) /\ Client(r) /\ Sent(r) = Sent(o) /\ Held(r) = Held(o)
      /\ Count(r) = Count(o)
  <2>1. r.busy = o.busy /\ r.free = o.free /\ r.taken = o.taken
    BY <1>6 DEF SameClient
  <2> QED BY <1>3, <1>6, <2>1, FlagsKeep, SameClientKept
<1>8. PICK q : q = [r EXCEPT !.buf.data = @ \o bytes, !.avail = @ - Len(bytes)]
  OBVIOUS
<1>9. /\ Stored(q) /\ Client(q) /\ q.buf # NoBuf /\ q.buf.data # <<>>
      /\ Sent(q) = Sent(r) \o bytes /\ Held(q) = Held(r) + Len(bytes)
      /\ Count(q) = Count(r)
      /\ SameClient(r, q) /\ q.seen_end = r.seen_end
  <2>1. r.buf # NoBuf /\ Len(bytes) <= r.avail
    <3>1. o.avail \in Nat
      BY <1>4 DEF IoType
    <3> QED BY <1>0, <1>3, <1>6, <3>1
  <2> QED BY <1>7, <1>8, <2>1, BytesStored
<1>10. p = IF q.avail = 0 THEN QueueBuf(q) ELSE q
  BY <1>1, <1>5, <1>8 DEF SubmitMem
<1>11. /\ Stored(p) /\ Client(p) /\ Filled(p) /\ p.seen_end = end
       /\ Sent(p) = Sent(q) /\ Held(p) = Held(q) /\ Count(p) = Count(q)
       /\ SameClient(q, p)
  <2>1. CASE q.avail = 0
    <3>1. p = QueueBuf(q)
      BY <1>10, <2>1
    <3>2. /\ Stored(p) /\ SameClient(q, p) /\ p.seen_end = q.seen_end
          /\ Sent(p) = Sent(q) /\ Held(p) = Held(q) /\ Count(p) = Count(q)
          /\ p.buf = NoBuf
      BY <1>9, <3>1, Queued
    <3> QED BY <1>6, <1>9, <3>2, SameClientKept DEF Filled
  <2>2. CASE q.avail # 0
    <3>1. p = q
      BY <1>10, <2>2
    <3> QED BY <1>6, <1>9, <3>1 DEF Filled, SameClient
  <2> QED BY <2>1, <2>2
<1>12. Sent(p) = Sent(io) \o bytes
  BY <1>3, <1>7, <1>9, <1>11
<1>13. Held(p) <= Held(io) + Len(bytes)
  <2>1. io \in IoType
    BY DEF Stored
  <2>2. Held(io) \in Nat /\ Held(o) \in Nat
    BY <1>4, <2>1, Sizes
  <2>3. Held(p) = Held(o) + Len(bytes)
    BY <1>7, <1>9, <1>11
  <2> QED BY <1>0, <1>3, <2>2, <2>3
<1>14. Count(p) <= MaxBuffers
  BY <1>3, <1>7, <1>9, <1>11
<1>15. /\ p.taken = o.taken /\ p.active = o.active /\ p.timer = o.timer
  BY <1>6, <1>9, <1>11 DEF SameClient
<1> QED BY <1>3, <1>11, <1>12, <1>13, <1>14, <1>15 DEF Longer

=============================================================================
