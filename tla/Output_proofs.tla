--------------------------- MODULE Output_proofs ---------------------------
(***************************************************************************)
(* Theorems about Output, for any sizes of buffers, threshold, columns,    *)
(* rows and fields.                                                        *)
(*                                                                         *)
(* The invariant is inductive because it says, for each function of the    *)
(* module and each point of the result set, where a reader of the stream   *)
(* is behind all the bytes encoded so far.  The buffers may then do with   *)
(* these bytes what they like as long as they keep their order, and what   *)
(* is left when a request fails is the beginning of a stream that a reader *)
(* has followed.                                                           *)
(***************************************************************************)
EXTENDS Output_lemmas

-----------------------------------------------------------------------------
(* The inductive invariant.                                                 *)

\* What the reader of the stream expects when the module is here.
Expected(f, d, l) ==
  IF f = "done" THEN Reader("end", l.cols, 0, 0)
  ELSE IF d.state = "send_query" THEN Rds!Start
  ELSE IF d.state = "recv_cols" THEN NextColumn(l.cols, (l.cols - l.col) + 1)
  ELSE IF ~d.row \/ l.field = l.cols THEN Reader("row", l.cols, 0, 0)
  ELSE IF l.offset = 0 THEN Reader("length", l.cols, l.cols - l.field, 0)
  ELSE Reader("text", l.cols, l.cols - l.field, l.total - l.offset)

\* How far libdrizzle is in the result set.
LibOK(l) ==
  /\ l \in [cols : Nat, col : Nat, row : Nat, field : Nat, offset : Nat,
            total : Nat, answered : BOOLEAN]
  /\ l.col <= l.cols /\ l.field <= l.cols /\ l.total <= MaxField
  /\ l.offset < l.total \/ (l.offset = 0 /\ l.total = 0)
  /\ l.field = l.cols => l.total = 0

DpType == [state : {"send_query", "recv_cols", "recv_rows"},
           row : BOOLEAN, paused : BOOLEAN]

\* The function that runs goes with the state of dp and with libdrizzle's.
Agrees(f, d, l) ==
  /\ f = "send_query" => d.state = "send_query" /\ l.col = 0
  /\ f \in {"recv_cols", "read_col"} => d.state = "recv_cols"
  /\ f \in {"recv_rows", "read_row", "recv_fields", "read_field"} =>
       d.state = "recv_rows"
  /\ f \in {"recv_fields", "read_field"} => d.row
  /\ f = "read_row" => ~d.row
  /\ f \in {"wait", "flush", "drain"} => d.state # "send_query"
  /\ d.row => d.state = "recv_rows"
  /\ ~d.row => l.field = 0 /\ l.total = 0
  /\ d.state # "send_query" => l.cols > 0
  /\ f # "done" => ~l.answered
  /\ f = "done" => l.answered

\* The buffers, and the stream they hold, while the request goes on.
Streaming(o, f, d, l) ==
  /\ Stored(o) /\ Client(o) /\ Filled(o)
  /\ o.seen_end <=> f = "done"
  /\ Rds!Parse(Sent(o)) = Expected(f, d, l)
  /\ f \in {"send_query", "read_col", "read_row", "read_field"} =>
       PendingOutput(o) < MaxBuffered

\* The pause and the client's timer.
Pausing(o, f, d) ==
  /\ d.paused => f \in {"wait", "drain"}
  /\ f = "drain" => d.paused
  /\ o.timer \in {"send", "expired"} => d.paused
  /\ f = "wait" /\ d.paused /\ o.active /\ ~o.delayed => o.timer = "send"
  /\ f = "wait" /\ o.timer = "expired" => ~o.active

\* Nothing is left but what nginx has got.
Closed(o, d, l) ==
  /\ o \in IoType
  /\ o.buf = NoBuf /\ o.avail = 0 /\ o.out = <<>> /\ o.free = <<>>
  /\ o.timer = "none" /\ ~o.delayed /\ ~d.paused
  /\ Rds!Legal(Sent(o)) /\ (Rds!Accepts(Sent(o)) => l.answered)

\* The bounds.
Bounded(o) == Held(o) < MaxBuffered + MaxAtom /\ Count(o) <= MaxBuffers

Good(o, d, l, f, s) ==
  /\ f \in Functions /\ s \in {"open", "whole", "cut", "page"}
  /\ f = "finished" <=> s # "open"
  /\ d \in DpType /\ LibOK(l)
  /\ Bounded(o)
  /\ f # "finished" => Agrees(f, d, l) /\ Streaming(o, f, d, l) /\ Pausing(o, f, d)
  /\ f = "finished" => Closed(o, d, l)

IInv == Good(io, dp, lib, fn, status)

\* A prefix, as the abstract specification says it.
LEMMA Prefix ==
  ASSUME NEW S, NEW s \in Seq(S), NEW x \in Seq(S)
  PROVE  Rds!IsPrefix(s, s \o x)
<1>1. Len(s) \in Nat /\ Len(x) \in Nat
  BY LenProperties
<1>2. Len(s \o x) = Len(s) + Len(x)
  BY ConcatProperties
<1>3. SubSeq(s \o x, 1, Len(s)) = SubSeq(s, 1, Len(s))
  <2>1. CASE Len(s) = 0
    BY <2>1, SubSeqEmpty
  <2>2. CASE Len(s) # 0
    <3>1. 1 \in 1..Len(s) /\ Len(s) \in 1..Len(s)
      BY <1>1, <2>2
    <3> QED BY <3>1, SubSeqOfConcat1
  <2> QED BY <2>1, <2>2
<1> QED BY <1>1, <1>2, <1>3 DEF Rds!IsPrefix

\* The reader is at the end exactly behind the last atom, and never fails.
LEMMA ExpectedFacts ==
  ASSUME NEW f, NEW d \in DpType, NEW l
  PROVE  /\ Expected(f, d, l).expect # "error"
         /\ Expected(f, d, l).expect = "end" <=> f = "done"
<1>1. CASE f = "done"
  <2>1. Expected(f, d, l) = Reader("end", l.cols, 0, 0)
    BY <1>1 DEF Expected
  <2> QED BY <1>1, <2>1, Fields
<1>2. CASE f # "done"
  <2>1. Rds!Start.expect = "head"
    BY DEF Rds!Start
  <2>2. \A c, n : Reader("row", c, 0, 0).expect = "row"
                  /\ Reader("col", c, n, 0).expect = "col"
                  /\ Reader("length", c, n, 0).expect = "length"
    BY Fields
  <2>3. \A c, n, t : Reader("text", c, n, t).expect = "text"
    BY Fields
  <2>4. \A c, n : NextColumn(c, n).expect \in {"col", "row"}
    BY <2>2 DEF NextColumn
  <2>5. Expected(f, d, l).expect \in {"head", "col", "row", "length", "text"}
    BY <1>2, <2>1, <2>2, <2>3, <2>4 DEF Expected
  <2> QED BY <1>2, <2>5
<1> QED BY <1>1, <1>2

\* In every state the stream is legal, and it has its end only when the
\* database's answer has been read.
LEMMA Legality ==
  ASSUME NEW o, NEW d, NEW l, NEW f, NEW s, Good(o, d, l, f, s)
  PROVE  /\ o \in IoType /\ Rds!Legal(Sent(o))
         /\ Rds!Accepts(Sent(o)) => l.answered
         /\ s = "open" => (Rds!Accepts(Sent(o)) <=> f = "done")
<1>1. CASE f = "finished"
  BY <1>1 DEF Good, Closed
<1>2. CASE f # "finished"
  <2>1. /\ Streaming(o, f, d, l) /\ Agrees(f, d, l) /\ d \in DpType
        /\ s = "open"
    BY <1>2 DEF Good
  <2>2. o \in IoType /\ Rds!Parse(Sent(o)) = Expected(f, d, l)
    BY <2>1 DEF Streaming, Stored
  <2>3. /\ Expected(f, d, l).expect # "error"
        /\ Expected(f, d, l).expect = "end" <=> f = "done"
    BY <2>1, ExpectedFacts
  <2>4. f = "done" => l.answered
    BY <2>1 DEF Agrees
  <2> QED BY <2>2, <2>3, <2>4 DEF Rds!Legal, Rds!Accepts
<1> QED BY <1>1, <1>2

\* The longest atom and the number of buffers are numbers.
LEMMA Bounds ==
  /\ MaxAtom \in Nat /\ MaxAtom >= 2 /\ MaxAtom >= 1 + MaxField
  /\ MaxBuffers \in Int
<1>0. BufSize \in Nat /\ BufSize > 0 /\ MaxBuffered - 2 \in Int
  BY OutputAssumption
<1>1. PICK k : k = 1 + MaxField
  OBVIOUS
<1>2. k \in Nat
  BY <1>1, OutputAssumption
<1>3. MaxAtom = Max({2, k})
  BY <1>1 DEF MaxAtom
<1>4. 2 \in Int /\ k \in Int
  BY <1>2
<1>5. Max({2, k}) \in {2, k} /\ Max({2, k}) >= 2 /\ Max({2, k}) >= k
  BY <1>4, MaxOfTwo
<1> QED BY <1>0, <1>1, <1>2, <1>3, <1>5, Below DEF MaxBuffers

\* The bounds hold on when there is no more than before,
LEMMA BoundedPasses ==
  ASSUME NEW o \in IoType, Bounded(o), NEW p \in IoType,
         Held(p) <= Held(o), Count(p) <= Count(o)
  PROVE  Bounded(p)
<1>1. Held(o) \in Nat /\ Held(p) \in Nat
  BY Sizes
<1>2. MaxAtom \in Nat /\ MaxBuffers \in Int /\ MaxBuffered \in Nat
  BY Bounds, OutputAssumption
<1>4. Count(o) \in Int /\ Count(p) \in Int
  <2>1. /\ Len(o.free) \in Nat /\ Len(p.free) \in Nat
        /\ Len(Chain(o)) \in Nat /\ Len(Chain(p)) \in Nat
    BY Sizes, ChainFacts
  <2> QED BY <2>1 DEF Count
<1> QED BY <1>1, <1>2, <1>4 DEF Bounded

\* and when an atom is encoded while the pending output is below the threshold.
LEMMA BoundedLonger ==
  ASSUME NEW o, Stored(o), PendingOutput(o) < MaxBuffered,
         NEW bytes \in Seq(RdsByte), Len(bytes) <= MaxAtom, NEW end,
         NEW p, Longer(o, p, bytes, end)
  PROVE  Bounded(p)
<1>1. o \in IoType /\ p \in IoType
  BY DEF Stored, Longer
<1>2. /\ Chain(o) \in Seq(Buffer) /\ Len(Contents(Chain(o))) \in Nat
      /\ Len(o.buf.data) \in Nat /\ Held(o) = Len(Contents(Chain(o))) + Len(o.buf.data)
      /\ o.buffered \in Nat
  BY <1>1, ChainFacts DEF IoType
<1>3. Len(Contents(Chain(o))) <= o.buffered
  BY <1>2, CapacityFacts DEF Stored
<1>4. Held(o) < MaxBuffered
  BY <1>2, <1>3, OutputAssumption DEF PendingOutput
<1>5. Held(p) \in Nat /\ Held(o) \in Nat /\ Len(bytes) \in Nat
  BY <1>1, Sizes, LenProperties
<1>6. MaxAtom \in Nat
  BY Bounds
<1>7. Held(p) <= Held(o) + Len(bytes) /\ Count(p) <= MaxBuffers
  BY DEF Longer
<1>8. Held(p) < MaxBuffered + MaxAtom
  BY <1>4, <1>5, <1>6, <1>7, OutputAssumption
<1> QED BY <1>7, <1>8 DEF Bounded

-----------------------------------------------------------------------------
(* The steps.                                                               *)

\* What the abstract specification does in a step.
Abstract == [Rds!Next]_(Rds!vars)

\* The stream goes on.
Writes ==
  /\ fn # "finished" /\ fn' # "finished" /\ status' = status
  /\ \E x \in Seq(RdsByte) : Sent(io') = Sent(io) \o x
  /\ \E x \in Seq(RdsByte) : io'.taken = io.taken \o x
  /\ lib.answered => lib'.answered

\* This is the abstract specification's Write.
LEMMA WritesAbstract ==
  ASSUME IInv, IInv', Writes
  PROVE  Abstract
<1>1. Good(io, dp, lib, fn, status) /\ Good(io', dp', lib', fn', status')
  BY DEF IInv
<1>2. /\ io \in IoType /\ io' \in IoType /\ Rds!Legal(Sent(io'))
      /\ Rds!Accepts(Sent(io')) => lib'.answered
  BY <1>1, Legality
<1>3. status = "open" /\ status' = "open"
  BY <1>1 DEF Good, Writes
<1>4. PICK x \in Seq(RdsByte) : Sent(io') = Sent(io) \o x
  BY DEF Writes
<1>5. PICK y \in Seq(RdsByte) : io'.taken = io.taken \o y
  BY DEF Writes
<1>6. Sent(io) \in Seq(RdsByte) /\ io.taken \in Seq(RdsByte)
  BY <1>2, ChainFacts
<1>7. Rds!IsPrefix(Sent(io), Sent(io')) /\ Rds!IsPrefix(io.taken, io'.taken)
  BY <1>4, <1>5, <1>6, Prefix
<1>8. Rds!IsPrefix(io'.taken, Sent(io'))
  <2>1. /\ io'.taken \in Seq(RdsByte) /\ Contents(Chain(io')) \in Seq(RdsByte)
        /\ io'.buf.data \in Seq(RdsByte)
    BY <1>2, ChainFacts
  <2>2. Sent(io') = io'.taken \o (Contents(Chain(io')) \o io'.buf.data)
    <3>1. (io'.taken \o Contents(Chain(io'))) \o io'.buf.data =
            io'.taken \o (Contents(Chain(io')) \o io'.buf.data)
      BY <2>1, Assoc, ZenonT(60)
    <3> QED BY <3>1 DEF Sent
  <2>3. Contents(Chain(io')) \o io'.buf.data \in Seq(RdsByte)
    BY <2>1, ConcatProperties
  <2> QED BY <2>1, <2>2, <2>3, Prefix
<1>9. Rds!Write
  BY <1>2, <1>3, <1>7, <1>8 DEF Writes, Rds!Write, Rds!Delivers, Sent
<1> QED BY <1>9 DEF Abstract, Rds!Next

\* What finalize_request leaves of the buffers.
LeftOver(o) ==
  [o EXCEPT !.buf = NoBuf, !.avail = 0, !.out = <<>>, !.free = <<>>,
            !.buffered = 0, !.blocked = FALSE, !.seen_end = FALSE,
            !.delayed = FALSE, !.timer = "none"]

\* The fields of what is left.
LEMMA LeftFields ==
  ASSUME NEW o \in IoType, NEW p, p = LeftOver(o)
  PROVE  /\ p \in IoType /\ p.buf = NoBuf /\ p.avail = 0 /\ p.out = <<>>
         /\ p.free = <<>> /\ p.timer = "none" /\ ~p.delayed
         /\ p.taken = o.taken /\ p.busy = o.busy /\ p.active = o.active
<1>1. PICK b : b = NoBuf
  OBVIOUS
<1>2. b \in [cap : Nat, data : Seq(RdsByte)]
  BY <1>1, EmptySeq DEF NoBuf
<1>3. <<>> \in Seq(Buffer) /\ <<>> \in Seq(Nat)
  BY EmptySeq
<1>4. p = [o EXCEPT !.buf = b, !.avail = 0, !.out = <<>>, !.free = <<>>,
                    !.buffered = 0, !.blocked = FALSE, !.seen_end = FALSE,
                    !.delayed = FALSE, !.timer = "none"]
  BY <1>1 DEF LeftOver
<1>5. p \in IoType
  <2>1. PICK r : r = [o EXCEPT !.buf = b, !.avail = 0, !.out = <<>>, !.free = <<>>]
    OBVIOUS
  <2>2. r \in IoType
    BY <1>2, <1>3, <2>1 DEF IoType
  <2>3. PICK t : t = [r EXCEPT !.buffered = 0, !.blocked = FALSE, !.seen_end = FALSE]
    OBVIOUS
  <2>4. t \in IoType
    BY <2>2, <2>3 DEF IoType
  <2>5. p = [t EXCEPT !.delayed = FALSE, !.timer = "none"]
    BY <1>4, <2>1, <2>3
  <2> QED BY <2>4, <2>5 DEF IoType
<1>6. /\ p.buf = b /\ p.avail = 0 /\ p.out = <<>>
      /\ p.free = <<>> /\ p.timer = "none" /\ ~p.delayed
      /\ p.taken = o.taken /\ p.busy = o.busy /\ p.active = o.active
  BY <1>4 DEF IoType
<1> QED BY <1>1, <1>5, <1>6

\* The stream is then what nginx has got.
LEMMA EndedStream ==
  ASSUME NEW p \in IoType, p.buf = NoBuf, p.out = <<>>
  PROVE  /\ Chain(p) = p.busy /\ Sent(p) = Given(p)
         /\ Held(p) = Len(Contents(p.busy))
<1>1. /\ Chain(p) = p.busy /\ Contents(p.busy) \in Seq(RdsByte)
      /\ Given(p) \in Seq(RdsByte) /\ p.buf.data = <<>>
  <2>1. p.buf.data = <<>>
    BY DEF NoBuf
  <2> QED BY <2>1, ChainFacts
<1> QED BY <1>1, ConcatEmptySeq DEF Sent, Held, Given

\* What is left of a request that ends: the beginning of a legal stream, with
\* its end only if the whole stream is left.
LEMMA EndsFacts ==
  ASSUME NEW q \in IoType, Bounded(q), Rds!Legal(Sent(q)),
         NEW o, Ending(q, o), NEW p, p = LeftOver(o)
  PROVE  /\ p \in IoType /\ p.buf = NoBuf /\ p.avail = 0 /\ p.out = <<>>
         /\ p.free = <<>> /\ p.timer = "none" /\ ~p.delayed
         /\ p.active = q.active
         /\ Bounded(p) /\ Sent(p) = Given(o)
         /\ Rds!Legal(Sent(p)) /\ (Rds!Accepts(Sent(p)) => Rds!Accepts(Sent(q)))
         /\ Rds!IsPrefix(Sent(p), Sent(q))
         /\ Rds!IsPrefix(q.taken, p.taken) /\ Rds!IsPrefix(p.taken, Sent(p))
<1>1. /\ o \in IoType /\ o.active = q.active
      /\ \E x \in Seq(RdsByte) : o.taken = q.taken \o x
      /\ \E y \in Seq(RdsByte) : Sent(q) = Given(o) \o y
      /\ Len(o.busy) <= Count(q) /\ Len(Contents(o.busy)) <= Held(q)
  BY DEF Ending
<1>2. /\ p \in IoType /\ p.buf = NoBuf /\ p.avail = 0 /\ p.out = <<>>
      /\ p.free = <<>> /\ p.timer = "none" /\ ~p.delayed
      /\ p.taken = o.taken /\ p.busy = o.busy /\ p.active = o.active
  BY <1>1, LeftFields
<1>3. /\ Chain(p) = p.busy /\ Sent(p) = Given(p)
      /\ Held(p) = Len(Contents(p.busy))
  BY <1>2, EndedStream
<1>4. Sent(p) = Given(o)
  BY <1>2, <1>3 DEF Given
<1>5. Count(p) <= Count(q) /\ Held(p) <= Held(q)
  <2>1. Len(<<>>) = 0 /\ Len(p.busy) \in Nat
    BY <1>2, EmptySeq, ChainFacts
  <2>2. Count(p) = 0 + Len(p.busy) + 0
    BY <1>2, <1>3, <2>1 DEF Count
  <2> QED BY <1>1, <1>2, <1>3, <2>1, <2>2
<1>6. Bounded(p)
  BY <1>2, <1>5, BoundedPasses
<1>7. PICK x \in Seq(RdsByte) : o.taken = q.taken \o x
  BY <1>1
<1>8. PICK y \in Seq(RdsByte) : Sent(q) = Sent(p) \o y
  BY <1>1, <1>4
<1>9. /\ q.taken \in Seq(RdsByte) /\ Sent(p) \in Seq(RdsByte)
      /\ p.taken \in Seq(RdsByte) /\ Contents(p.busy) \in Seq(RdsByte)
  BY <1>2, ChainFacts
<1>10. Rds!IsPrefix(Sent(p), Sent(q)) /\ Rds!IsPrefix(q.taken, p.taken)
  BY <1>2, <1>7, <1>8, <1>9, Prefix
<1>11. Rds!IsPrefix(p.taken, Sent(p))
  <2>1. Sent(p) = p.taken \o Contents(p.busy)
    BY <1>3 DEF Given
  <2> QED BY <1>9, <2>1, Prefix
<1>12. Rds!Legal(Sent(p)) /\ (Rds!Accepts(Sent(p)) => y = <<>>)
  BY <1>8, <1>9, Beginnings
<1>13. Rds!Accepts(Sent(p)) => Rds!Accepts(Sent(q))
  BY <1>8, <1>9, <1>12, ConcatEmptySeq
<1> QED BY <1>1, <1>2, <1>4, <1>6, <1>10, <1>11, <1>12, <1>13

\* What the request may do next: it keeps the invariant, and is a step of the
\* abstract specification.
Step == IInv' /\ Abstract

\* The request ends: with its whole stream, with a part of it, or with an error
\* page and no stream.
LEMMA EndsStep ==
  ASSUME IInv, fn # "finished", NEW o, Ending(io, o),
         NEW how \in {"whole", "cut", "page"}, Ends(o, how),
         how = "page" => Given(o) = <<>>,
         how = "whole" => Given(o) = Sent(io) /\ fn = "done" /\ lib'.answered = lib.answered,
         LibOK(lib'), lib.answered => lib'.answered
  PROVE  Step
<1>1. /\ Good(io, dp, lib, fn, status) /\ io \in IoType /\ Rds!Legal(Sent(io))
      /\ status = "open" => (Rds!Accepts(Sent(io)) <=> fn = "done")
      /\ Rds!Accepts(Sent(io)) => lib.answered
  BY Legality DEF IInv
<1>2. Bounded(io) /\ dp \in DpType /\ status = "open"
  BY <1>1 DEF Good
<1>3. /\ io' = LeftOver(o) /\ dp' = [dp EXCEPT !.paused = FALSE]
      /\ fn' = "finished" /\ status' = how
  BY DEF Ends, LeftOver
<1>4. /\ io' \in IoType /\ io'.buf = NoBuf /\ io'.avail = 0 /\ io'.out = <<>>
      /\ io'.free = <<>> /\ io'.timer = "none" /\ ~io'.delayed
      /\ Bounded(io') /\ Sent(io') = Given(o)
      /\ Rds!Legal(Sent(io')) /\ (Rds!Accepts(Sent(io')) => Rds!Accepts(Sent(io)))
      /\ Rds!IsPrefix(Sent(io'), Sent(io))
      /\ Rds!IsPrefix(io.taken, io'.taken) /\ Rds!IsPrefix(io'.taken, Sent(io'))
  BY <1>1, <1>2, <1>3, EndsFacts
<1>5. dp' \in DpType /\ ~dp'.paused
  BY <1>2, <1>3 DEF DpType
<1>6. Closed(io', dp', lib')
  BY <1>1, <1>4, <1>5 DEF Closed
<1>7. Good(io', dp', lib', fn', status')
  BY <1>3, <1>4, <1>5, <1>6 DEF Good, Functions
<1>8. Abstract
  <2>1. CASE how = "whole"
    <3>1. Rds!EndWhole
      BY <1>1, <1>2, <1>3, <1>4, <2>1 DEF Rds!EndWhole, Rds!Delivers, Sent
    <3> QED BY <3>1 DEF Abstract, Rds!Next
  <2>2. CASE how # "whole"
    <3>1. Rds!EndCut
      BY <1>1, <1>2, <1>3, <1>4, <2>2 DEF Rds!EndCut, Rds!Delivers, Sent
    <3> QED BY <3>1 DEF Abstract, Rds!Next
  <2> QED BY <2>1, <2>2
<1> QED BY <1>7, <1>8 DEF Step, IInv

\* A failure.
LEMMA FailsStep ==
  ASSUME IInv, fn # "finished", NEW o, Ending(io, o), Fails(o),
         LibOK(lib'), lib.answered => lib'.answered
  PROVE  Step
<1>1. PICK how \in {"whole", "cut", "page"} :
        how = IF o.header_sent THEN "cut" ELSE "page"
  OBVIOUS
<1>2. Ends(o, how)
  BY <1>1 DEF Fails
<1>3. how = "page" => Given(o) = <<>>
  <2> SUFFICES ASSUME how = "page" PROVE Given(o) = <<>>
    OBVIOUS
  <2>1. o.taken = <<>> /\ o.busy = <<>>
    BY <1>1 DEF Ending
  <2>2. Given(o) = <<>> \o <<>>
    BY <2>1, ContentsOfNone DEF Given
  <2>3. <<>> \in Seq(RdsByte)
    BY EmptySeq
  <2> QED BY <2>2, <2>3, ConcatEmptySeq
<1>4. how # "whole"
  BY <1>1
<1> QED BY <1>2, <1>3, <1>4, EndsStep

\* The buffers may move on, but the stream stays as it is.
Keeps(o, p) ==
  /\ Stored(p) /\ Client(p) /\ Filled(p) /\ ~p.seen_end
  /\ Sent(p) = Sent(o) /\ Held(p) <= Held(o) /\ Count(p) <= Count(o)
  /\ \E x \in Seq(RdsByte) : p.taken = o.taken \o x

\* What the invariant says of a request that goes on.
LEMMA OpenFacts ==
  ASSUME IInv, fn # "finished"
  PROVE  /\ io \in IoType /\ Bounded(io) /\ dp \in DpType /\ LibOK(lib)
         /\ status = "open" /\ fn \in Functions
         /\ Agrees(fn, dp, lib) /\ Pausing(io, fn, dp)
         /\ Streaming(io, fn, dp, lib)
         /\ Stored(io) /\ Client(io) /\ Filled(io) /\ (io.seen_end <=> fn = "done")
         /\ Rds!Parse(Sent(io)) = Expected(fn, dp, lib)
         /\ fn \in {"send_query", "read_col", "read_row", "read_field"} =>
              PendingOutput(io) < MaxBuffered
         /\ io.timer \in {"none", "send", "delay", "expired"}
         /\ io.delayed \in BOOLEAN /\ io.active \in BOOLEAN /\ (io.timer = "delay" <=> io.delayed)
         /\ io.delayed => io.active /\ io.blocked
<1>1. Good(io, dp, lib, fn, status)
  BY DEF IInv
<1>2. /\ Bounded(io) /\ dp \in DpType /\ LibOK(lib) /\ status = "open"
      /\ fn \in Functions
      /\ Agrees(fn, dp, lib) /\ Pausing(io, fn, dp)
      /\ Streaming(io, fn, dp, lib)
  BY <1>1 DEF Good
<1>3. /\ Stored(io) /\ Client(io) /\ Filled(io) /\ (io.seen_end <=> fn = "done")
      /\ Rds!Parse(Sent(io)) = Expected(fn, dp, lib)
      /\ fn \in {"send_query", "read_col", "read_row", "read_field"} =>
           PendingOutput(io) < MaxBuffered
  BY <1>2 DEF Streaming
<1>4. io \in IoType
  BY <1>3 DEF Stored
<1>5. /\ io.timer \in {"none", "send", "delay", "expired"} /\ io.delayed \in BOOLEAN
      /\ io.active \in BOOLEAN
  BY <1>4 DEF IoType
<1>6. (io.timer = "delay" <=> io.delayed) /\ (io.delayed => io.active /\ io.blocked)
  BY <1>3 DEF Client
<1> QED BY <1>2, <1>3, <1>4, <1>5, <1>6

\* output_ready goes on only below the threshold.
LEMMA PendingNat ==
  ASSUME NEW o \in IoType
  PROVE  PendingOutput(o) \in Nat /\ (~Stops(o) => PendingOutput(o) < MaxBuffered)
<1>1. o.buffered \in Nat /\ Len(o.buf.data) \in Nat
  BY ChainFacts DEF IoType
<1>2. PendingOutput(o) \in Nat
  BY <1>1 DEF PendingOutput
<1> QED BY <1>2, OutputAssumption DEF Stops

\* A step that encodes nothing.
LEMMA GoesOn ==
  ASSUME IInv, fn # "finished", fn # "done",
         fn' \in Functions \ {"done", "finished"}, status' = status,
         Keeps(io, io'), dp' \in DpType, LibOK(lib'), lib.answered => lib'.answered,
         Agrees(fn', dp', lib'), Pausing(io', fn', dp'),
         Expected(fn', dp', lib') = Expected(fn, dp, lib),
         fn' \in {"send_query", "read_col", "read_row", "read_field"} =>
           PendingOutput(io') < MaxBuffered
  PROVE  Step
<1>1. /\ io \in IoType /\ Bounded(io) /\ status = "open"
      /\ Rds!Parse(Sent(io)) = Expected(fn, dp, lib)
  BY OpenFacts
<1>2. /\ Stored(io') /\ Client(io') /\ Filled(io') /\ ~io'.seen_end
      /\ Sent(io') = Sent(io) /\ Held(io') <= Held(io) /\ Count(io') <= Count(io)
      /\ \E x \in Seq(RdsByte) : io'.taken = io.taken \o x
  BY DEF Keeps
<1>3. io' \in IoType
  BY <1>2 DEF Stored
<1>4. Bounded(io')
  BY <1>1, <1>2, <1>3, BoundedPasses
<1>5. Streaming(io', fn', dp', lib')
  BY <1>1, <1>2 DEF Streaming
<1>6. Good(io', dp', lib', fn', status')
  BY <1>1, <1>4, <1>5 DEF Good
<1>7. Writes
  <2>1. Sent(io) \in Seq(RdsByte) /\ <<>> \in Seq(RdsByte)
    BY <1>1, ChainFacts, EmptySeq
  <2>2. Sent(io') = Sent(io) \o <<>>
    BY <1>2, <2>1, ConcatEmptySeq
  <2> QED BY <1>2, <2>1, <2>2 DEF Writes
<1>8. IInv'
  BY <1>6 DEF IInv
<1> QED BY <1>7, <1>8, WritesAbstract DEF Step

\* Doing nothing keeps the stream,
LEMMA KeepsSame ==
  ASSUME NEW o, Stored(o), Client(o), Filled(o), ~o.seen_end
  PROVE  Keeps(o, o)
<1>1. o \in IoType
  BY DEF Stored
<1>2. /\ Held(o) \in Nat /\ o.taken = o.taken \o <<>> /\ <<>> \in Seq(RdsByte)
      /\ Len(o.free) \in Nat /\ Len(Chain(o)) \in Nat
  BY <1>1, Sizes, ChainFacts, EmptySeq
<1>3. Count(o) \in Int
  <2>1. PICK k \in Nat : k = IF o.buf = NoBuf THEN 0 ELSE 1
    OBVIOUS
  <2>2. Count(o) = Len(o.free) + Len(Chain(o)) + k
    BY <2>1 DEF Count
  <2>3. Len(o.free) \in Nat /\ Len(Chain(o)) \in Nat
    BY <1>2
  <2> QED BY <2>1, <2>2, <2>3
<1>4. PICK h : h = Held(o)
  OBVIOUS
<1>5. PICK c : c = Count(o)
  OBVIOUS
<1>6. h <= h /\ c <= c
  BY <1>2, <1>3, <1>4, <1>5
<1>7. Held(o) <= Held(o) /\ Count(o) <= Count(o)
  BY <1>4, <1>5, <1>6
<1>8. \E x \in Seq(RdsByte) : o.taken = o.taken \o x
  BY <1>2
<1>9. Sent(o) = Sent(o)
  OBVIOUS
<1> QED BY <1>7, <1>8, <1>9 DEF Keeps

\* output_bufs, after the current buffer has been queued or not.
LEMMA KeepsBufs ==
  ASSUME NEW o, Stored(o), Client(o), Filled(o), ~o.seen_end,
         NEW p \in OutputBufs(o) \cup OutputBufs(QueueBuf(o))
  PROVE  /\ Keeps(o, p) /\ (p.timer = o.timer \/ p.timer = "delay")
         /\ p.active = o.active
<1>1. o \in IoType
  BY DEF Stored
<1>2. PICK q \in {o, QueueBuf(o)} : p \in OutputBufs(q)
  OBVIOUS
<1>3. Keeps(o, o)
  BY KeepsSame
<1>4. /\ Stored(q) /\ SameClient(o, q) /\ q.seen_end = o.seen_end
      /\ Sent(q) = Sent(o) /\ Held(q) = Held(o) /\ Count(q) = Count(o)
      /\ Filled(q)
  <2>1. CASE q = o
    BY <2>1 DEF SameClient
  <2>2. CASE q = QueueBuf(o)
    <3>1. /\ Stored(q) /\ SameClient(o, q) /\ q.seen_end = o.seen_end
          /\ Sent(q) = Sent(o) /\ Held(q) = Held(o) /\ Count(q) = Count(o)
          /\ o.buf.data # <<>> => q.buf = NoBuf
      BY <2>2, Queued
    <3>2. o.buf = NoBuf => q = o
      BY <2>2 DEF QueueBuf, NoBuf
    <3> QED BY <3>1, <3>2 DEF Filled
  <2> QED BY <1>2, <2>1, <2>2
<1>5. Client(q)
  BY <1>4, SameClientKept
<1>6. Passes(q, p) /\ ~p.seen_end /\ p.buf = q.buf
  BY <1>2, <1>4, <1>5, OutputBufsPasses
<1>7. /\ Stored(p) /\ Client(p)
      /\ Sent(p) = Sent(q) /\ Held(p) <= Held(q) /\ Count(p) = Count(q)
      /\ \E x \in Seq(RdsByte) : p.taken = q.taken \o x
      /\ p.active = q.active /\ (p.timer = q.timer \/ p.timer = "delay")
  BY <1>6 DEF Passes
<1>8. Filled(p)
  BY <1>4, <1>6 DEF Filled
<1>9. q.taken = o.taken /\ q.active = o.active /\ q.timer = o.timer
  BY <1>4 DEF SameClient
<1>10. Count(p) <= Count(o)
  BY <1>3, <1>4, <1>7 DEF Keeps
<1> QED BY <1>4, <1>6, <1>7, <1>8, <1>9, <1>10 DEF Keeps

\* An atom is encoded, or that fails.
LEMMA EncodeStep ==
  ASSUME IInv, fn \in {"send_query", "read_col", "read_row", "read_field"},
         NEW bytes \in Seq(RdsByte), bytes # <<>>, Len(bytes) <= MaxAtom,
         NEW end \in BOOLEAN, NEW next \in {"recv_cols", "recv_fields", "done"},
         end <=> next = "done", NEW d \in DpType, d.paused = dp.paused,
         Encode(bytes, end, next, d),
         LibOK(lib'), lib.answered => lib'.answered, Agrees(next, d, lib'),
         Rds!Parse(Sent(io) \o bytes) = Expected(next, d, lib')
  PROVE  Step
<1>1. /\ io \in IoType /\ Bounded(io) /\ status = "open" /\ Pausing(io, fn, dp)
      /\ Stored(io) /\ Client(io) /\ Filled(io) /\ ~io.seen_end
      /\ PendingOutput(io) < MaxBuffered
  BY OpenFacts
<1>2. CASE io' \in Encoded(bytes, end) /\ dp' = d /\ fn' = next /\ UNCHANGED status
  <2>1. Count(io) <= MaxBuffers
    BY <1>1 DEF Bounded
  <2>2. Longer(io, io', bytes, end)
    BY <1>1, <1>2, <2>1, EncodedFacts
  <2>3. Bounded(io')
    BY <1>1, <2>2, BoundedLonger
  <2>4. /\ Stored(io') /\ Client(io') /\ Filled(io') /\ io'.seen_end = end
        /\ Sent(io') = Sent(io) \o bytes
        /\ \E x \in Seq(RdsByte) : io'.taken = io.taken \o x
        /\ io'.timer = io.timer \/ io'.timer = "delay"
    BY <2>2 DEF Longer
  <2>5. Streaming(io', fn', dp', lib')
    BY <1>2, <2>4 DEF Streaming
  <2>6. Pausing(io', fn', dp')
    BY <1>1, <1>2, <2>4 DEF Pausing
  <2>7. Good(io', dp', lib', fn', status')
    BY <1>1, <1>2, <2>3, <2>5, <2>6 DEF Good, Functions
  <2>8. Writes
    BY <1>2, <2>4 DEF Writes
  <2>9. IInv'
    BY <2>7 DEF IInv
  <2> QED BY <2>8, <2>9, WritesAbstract DEF Step
<1>3. CASE \E o \in EncodingFails : Fails(o)
  <2>1. PICK o \in EncodingFails : Fails(o)
    BY <1>3
  <2>2. Ending(io, o)
    BY <1>1, EncodingFailsEnding
  <2> QED BY <2>1, <2>2, FailsStep
<1> QED BY <1>2, <1>3 DEF Encode

\* What the reader makes of one byte more, and of an atom of two bytes.
LEMMA OneByte ==
  ASSUME NEW s \in Seq(RdsByte), NEW a \in RdsByte
  PROVE  /\ <<a>> \in Seq(RdsByte) /\ <<a>> # <<>> /\ Len(<<a>>) = 1
         /\ Rds!Parse(s \o <<a>>) = Rds!ReadByte(Rds!Parse(s), a)
<1>1. s \o <<a>> = Append(s, a)
  BY AppendIsConcat
<1>2. /\ <<a>> \in Seq(RdsByte) /\ Len(<<a>>) = 1
  OBVIOUS
<1>3. <<a>> # <<>>
  BY <1>2
<1>4. Rds!Parse(Append(s, a)) = Rds!ReadByte(Rds!Parse(s), a)
  BY ParseOfAppend
<1> QED BY <1>1, <1>2, <1>3, <1>4

\* An atom of two parts.
LEMMA TwoParts ==
  ASSUME NEW s \in Seq(RdsByte), NEW x \in Seq(RdsByte), NEW y \in Seq(RdsByte),
         Len(x) = 1, Len(y) = 1, NEW b, b = x \o y
  PROVE  /\ b \in Seq(RdsByte) /\ b # <<>> /\ Len(b) = 2
         /\ s \o b = (s \o x) \o y /\ s \o x \in Seq(RdsByte)
<1>1. b \in Seq(RdsByte) /\ Len(b) = Len(x) + Len(y)
  BY Concats
<1>2. Len(b) = 2
  BY <1>1
<1>3. b # <<>>
  BY <1>2
<1>4. s \o b = (s \o x) \o y /\ s \o x \in Seq(RdsByte)
  BY Assoc, Concats
<1> QED BY <1>1, <1>2, <1>3, <1>4

\* An atom of one byte and a byte of text.
LEMMA TwoBytes ==
  ASSUME NEW s \in Seq(RdsByte), NEW a \in RdsByte, NEW b, b = <<a>> \o Text(1)
  PROVE  /\ b \in Seq(RdsByte) /\ b # <<>> /\ Len(b) = 2
         /\ Rds!Parse(s \o b) =
              Rds!ReadByte(Rds!ReadByte(Rds!Parse(s), a), Rds!Text)
<1>1. Rds!Text \in RdsByte /\ Text(1) = <<Rds!Text>>
  BY TextType
<1>2. PICK x \in Seq(RdsByte) : x = <<a>> /\ Len(x) = 1
  BY OneByte
<1>3. PICK y \in Seq(RdsByte) : y = Text(1) /\ Len(y) = 1
  BY TextType
<1>4. b = x \o y
  BY <1>2, <1>3
<1>5. /\ b \in Seq(RdsByte) /\ b # <<>> /\ Len(b) = 2
      /\ s \o b = (s \o x) \o y /\ s \o x \in Seq(RdsByte)
  BY <1>2, <1>3, <1>4, TwoParts
<1>6. Rds!Parse((s \o x) \o y) = Rds!ReadByte(Rds!Parse(s \o x), Rds!Text)
  <2>1. PICK t \in Seq(RdsByte) : t = s \o x
    BY <1>5
  <2>2. y = <<Rds!Text>>
    BY <1>1, <1>3
  <2>3. Rds!Parse(t \o <<Rds!Text>>) = Rds!ReadByte(Rds!Parse(t), Rds!Text)
    BY <1>1, OneByte
  <2> QED BY <2>1, <2>2, <2>3
<1>7. Rds!Parse(s \o x) = Rds!ReadByte(Rds!Parse(s), a)
  BY <1>2, OneByte
<1> QED BY <1>5, <1>6, <1>7

\* The bytes of the atoms.
LEMMA ByteType ==
  /\ Rds!Byte("col", 0) \in RdsByte
  /\ Rds!Byte("row", 0) \in RdsByte
  /\ Rds!Byte("row", 1) \in RdsByte
  /\ \A n \in Int : /\ Rds!Byte("head", n) \in RdsByte
                    /\ Rds!Byte("length", n) \in RdsByte
BY DEF Rds!Byte, RdsByte

\* libdrizzle or the database fails.
LEMMA ReadFailsStep ==
  ASSUME IInv, fn # "finished", ReadFails
  PROVE  Step
<1>1. io \in IoType /\ Client(io) /\ LibOK(lib)
  BY OpenFacts
<1>2. Fails(io) /\ lib' = lib
  BY DEF ReadFails
<1>3. LibOK(lib') /\ (lib.answered => lib'.answered)
  BY <1>1, <1>2
<1> QED BY <1>1, <1>2, <1>3, EndsHere, FailsStep

\* output_result_header.
LEMMA HeaderEncoded ==
  ASSUME IInv, OutputResultHeader
  PROVE  Step
<1>1. fn = "send_query"
  BY DEF OutputResultHeader
<1>2. /\ io \in IoType /\ dp \in DpType /\ LibOK(lib) /\ Agrees(fn, dp, lib)
      /\ Rds!Parse(Sent(io)) = Expected(fn, dp, lib)
  BY <1>1, OpenFacts
<1>3. PICK n \in 0..MaxCols :
        /\ lib' = [lib EXCEPT !.cols = n, !.answered = n = 0]
        /\ Encode(<<Rds!Byte("head", n)>> \o Text(1), n = 0,
                  IF n = 0 THEN "done" ELSE "recv_cols",
                  [dp EXCEPT !.state = IF n = 0 THEN @ ELSE "recv_cols"])
  BY DEF OutputResultHeader
<1>4. n \in Nat
  BY <1>3, OutputAssumption
<1>5. PICK b : b = <<Rds!Byte("head", n)>> \o Text(1)
  OBVIOUS
<1>6. PICK next : next = IF n = 0 THEN "done" ELSE "recv_cols"
  OBVIOUS
<1>7. PICK d : d = [dp EXCEPT !.state = IF n = 0 THEN @ ELSE "recv_cols"]
  OBVIOUS
<1>8. PICK end \in BOOLEAN : end = (n = 0)
  OBVIOUS
<1>9. Encode(b, end, next, d)
  BY <1>3, <1>5, <1>6, <1>7, <1>8
<1>10. /\ dp.state = "send_query" /\ ~dp.row /\ lib.col = 0 /\ lib.field = 0
       /\ lib.total = 0 /\ ~lib.answered
  BY <1>1, <1>2 DEF Agrees, DpType
<1>11. /\ d \in DpType /\ d.paused = dp.paused /\ ~d.row
       /\ d.state = IF n = 0 THEN "send_query" ELSE "recv_cols"
  BY <1>2, <1>7, <1>10 DEF DpType
<1>12. /\ lib'.cols = n /\ lib'.answered = end /\ lib'.col = 0
       /\ lib'.field = 0 /\ lib'.total = 0 /\ lib'.offset = 0
       /\ lib' \in [cols : Nat, col : Nat, row : Nat, field : Nat, offset : Nat,
                    total : Nat, answered : BOOLEAN]
  <2>1. lib' = [lib EXCEPT !.cols = n, !.answered = end]
    BY <1>3, <1>8
  <2>2. /\ lib \in [cols : Nat, col : Nat, row : Nat, field : Nat, offset : Nat,
                    total : Nat, answered : BOOLEAN]
        /\ lib.offset = 0
    BY <1>2, <1>10 DEF LibOK
  <2> QED BY <1>4, <1>10, <2>1, <2>2
<1>13. LibOK(lib')
  <2>1. 0 <= n /\ 0 <= MaxField
    BY <1>4, OutputAssumption
  <2> QED BY <1>4, <1>12, <2>1 DEF LibOK
<1>14. Agrees(next, d, lib')
  BY <1>4, <1>6, <1>8, <1>11, <1>12 DEF Agrees
<1>15. Sent(io) \in Seq(RdsByte) /\ Rds!Byte("head", n) \in RdsByte
  <2>1. Sent(io) \in Seq(RdsByte)
    BY <1>2, ChainFacts
  <2> QED BY <1>4, <2>1, ByteType
<1>16. /\ b \in Seq(RdsByte) /\ b # <<>> /\ Len(b) = 2
       /\ Rds!Parse(Sent(io) \o b) =
            Rds!ReadByte(Rds!ReadByte(Rds!Parse(Sent(io)), Rds!Byte("head", n)),
                         Rds!Text)
  BY <1>5, <1>15, TwoBytes
<1>17. Rds!Parse(Sent(io)) = Rds!Start
  BY <1>1, <1>2, <1>10 DEF Expected
<1>18. Rds!Parse(Sent(io) \o b) =
         IF n = 0 THEN Reader("end", 0, 0, 0) ELSE Reader("col", n, n, 0)
  BY <1>4, <1>16, <1>17, HeaderStep
<1>19. Rds!Parse(Sent(io) \o b) = Expected(next, d, lib')
  <2>1. CASE n = 0
    BY <1>6, <1>12, <1>18, <2>1 DEF Expected
  <2>2. CASE n # 0
    <3>1. (n - 0) + 1 > 1 /\ ((n - 0) + 1) - 1 = n
      BY <1>4, <2>2
    <3>2. NextColumn(n, (n - 0) + 1) = Reader("col", n, n, 0)
      BY <3>1 DEF NextColumn
    <3> QED BY <1>6, <1>11, <1>12, <1>18, <2>2, <3>2 DEF Expected
  <2> QED BY <2>1, <2>2
<1>20. Len(b) <= MaxAtom
  BY <1>16, Bounds
<1>21. /\ next \in {"recv_cols", "recv_fields", "done"} /\ (end <=> next = "done")
       /\ lib.answered => lib'.answered
  BY <1>6, <1>8, <1>10
<1> QED BY <1>1, <1>9, <1>11, <1>13, <1>14, <1>16, <1>19, <1>20, <1>21, EncodeStep

\* A column.
LEMMA ColumnEncoded ==
  ASSUME IInv, OutputCol
  PROVE  Step
<1>1. /\ fn = "read_col" /\ lib.col < lib.cols
      /\ lib' = [lib EXCEPT !.col = @ + 1]
      /\ Encode(<<Rds!Byte("col", 0)>> \o Text(1), FALSE, "recv_cols", dp)
  BY DEF OutputCol
<1>2. /\ io \in IoType /\ dp \in DpType /\ LibOK(lib) /\ Agrees(fn, dp, lib)
      /\ Rds!Parse(Sent(io)) = Expected(fn, dp, lib)
  BY <1>1, OpenFacts
<1>3. PICK b : b = <<Rds!Byte("col", 0)>> \o Text(1)
  OBVIOUS
<1>4. Sent(io) \in Seq(RdsByte) /\ Rds!Byte("col", 0) \in RdsByte
  <2>1. Sent(io) \in Seq(RdsByte)
    BY <1>2, ChainFacts
  <2> QED BY <2>1, ByteType
<1>5. /\ b \in Seq(RdsByte) /\ b # <<>> /\ Len(b) = 2
      /\ Rds!Parse(Sent(io) \o b) =
           Rds!ReadByte(Rds!ReadByte(Rds!Parse(Sent(io)), Rds!Byte("col", 0)),
                        Rds!Text)
  BY <1>3, <1>4, TwoBytes
<1>6. /\ dp.state = "recv_cols" /\ ~dp.row /\ lib.field = 0 /\ lib.total = 0
      /\ lib.cols > 0 /\ ~lib.answered
  BY <1>1, <1>2 DEF Agrees, DpType
<1>7. /\ lib'.cols = lib.cols /\ lib'.col = lib.col + 1 /\ lib'.field = 0
      /\ lib'.total = 0 /\ lib'.answered = lib.answered
      /\ lib.col \in Nat /\ lib.cols \in Nat
  BY <1>1, <1>2, <1>6 DEF LibOK
<1>8. LibOK(lib')
  BY <1>1, <1>2, <1>7 DEF LibOK
<1>9. Agrees("recv_cols", dp, lib')
  BY <1>6, <1>7 DEF Agrees
<1>10. PICK k \in Nat : k = lib.cols - lib.col
  BY <1>1, <1>7
<1>11. k + 1 > 1 /\ (k + 1) - 1 = k /\ (lib'.cols - lib'.col) + 1 = k
  BY <1>1, <1>7, <1>10
<1>12. Rds!Parse(Sent(io)) = Reader("col", lib.cols, k, 0)
  <2>1. Rds!Parse(Sent(io)) = NextColumn(lib.cols, k + 1)
    BY <1>1, <1>2, <1>6, <1>10 DEF Expected
  <2> QED BY <1>11, <2>1 DEF NextColumn
<1>13. Rds!Parse(Sent(io) \o b) = NextColumn(lib.cols, k)
  BY <1>5, <1>10, <1>12, ColumnStep
<1>14. Rds!Parse(Sent(io) \o b) = Expected("recv_cols", dp, lib')
  BY <1>6, <1>7, <1>11, <1>13 DEF Expected
<1>15. Len(b) <= MaxAtom
  BY <1>5, Bounds
<1>16. Encode(b, FALSE, "recv_cols", dp)
  BY <1>1, <1>3
<1>17. lib.answered => lib'.answered
  BY <1>7
<1> QED BY <1>1, <1>2, <1>5, <1>8, <1>9, <1>14, <1>15, <1>16, <1>17, EncodeStep

\* The columns end.
LEMMA ColumnsRead ==
  ASSUME IInv, ColumnsEnd
  PROVE  Step
<1>1. /\ fn = "read_col" /\ lib.col = lib.cols
      /\ dp' = [dp EXCEPT !.state = "recv_rows"] /\ fn' = "recv_rows"
      /\ io' = io /\ lib' = lib /\ status' = status
  BY DEF ColumnsEnd
<1>2. /\ io \in IoType /\ dp \in DpType /\ LibOK(lib) /\ Agrees(fn, dp, lib)
      /\ Pausing(io, fn, dp) /\ Stored(io) /\ Client(io) /\ Filled(io)
      /\ ~io.seen_end
  BY <1>1, OpenFacts
<1>3. /\ dp.state = "recv_cols" /\ ~dp.row /\ lib.field = 0 /\ lib.total = 0
      /\ lib.cols > 0 /\ ~lib.answered /\ ~dp.paused
  BY <1>1, <1>2 DEF Agrees, DpType, Pausing
<1>4. /\ dp' \in DpType /\ dp'.state = "recv_rows" /\ ~dp'.row /\ ~dp'.paused
  BY <1>1, <1>2, <1>3 DEF DpType
<1>5. Agrees(fn', dp', lib')
  BY <1>1, <1>3, <1>4 DEF Agrees
<1>6. Pausing(io', fn', dp')
  BY <1>1, <1>2, <1>3, <1>4 DEF Pausing
<1>7. Keeps(io, io')
  BY <1>1, <1>2, KeepsSame
<1>8. Expected(fn', dp', lib') = Expected(fn, dp, lib)
  <2>1. lib.cols \in Nat
    BY <1>2 DEF LibOK
  <2>2. ~((lib.cols - lib.col) + 1 > 1)
    BY <1>1, <2>1
  <2>3. Expected(fn, dp, lib) = Reader("row", lib.cols, 0, 0)
    BY <1>1, <1>3, <2>2 DEF Expected, NextColumn
  <2> QED BY <1>1, <1>4, <2>3 DEF Expected
<1>9. fn' \in Functions \ {"done", "finished"} /\ LibOK(lib')
  BY <1>1, <1>2 DEF Functions
<1> QED BY <1>1, <1>4, <1>5, <1>6, <1>7, <1>8, <1>9, GoesOn

\* libdrizzle has to wait for the database.
LEMMA WaitsStep ==
  ASSUME IInv, fn \in {"read_col", "read_row", "read_field"}, Waits
  PROVE  Step
<1>1. fn' = "flush" /\ io' = io /\ dp' = dp /\ lib' = lib /\ status' = status
  BY DEF Waits
<1>2. /\ io \in IoType /\ dp \in DpType /\ LibOK(lib) /\ Agrees(fn, dp, lib)
      /\ Pausing(io, fn, dp) /\ Stored(io) /\ Client(io) /\ Filled(io)
      /\ ~io.seen_end
  BY OpenFacts
<1>3. dp.state # "send_query" /\ ~dp.paused
  BY <1>2 DEF Agrees, Pausing
<1>4. Agrees(fn', dp', lib')
  BY <1>1, <1>2, <1>3 DEF Agrees
<1>5. Pausing(io', fn', dp')
  BY <1>1, <1>2, <1>3 DEF Pausing
<1>6. Keeps(io, io')
  BY <1>1, <1>2, KeepsSame
<1>7. Expected(fn', dp', lib') = Expected(fn, dp, lib)
  BY <1>1 DEF Expected
<1>8. fn' \in Functions \ {"done", "finished"} /\ LibOK(lib')
  BY <1>1, <1>2 DEF Functions
<1> QED BY <1>1, <1>2, <1>4, <1>5, <1>6, <1>7, <1>8, GoesOn

\* Two such changes are one.
LEMMA KeepsTransitive ==
  ASSUME NEW o \in IoType, NEW p \in IoType, NEW q \in IoType,
         Keeps(o, p), Keeps(p, q)
  PROVE  Keeps(o, q)
<1>1. /\ Stored(q) /\ Client(q) /\ Filled(q) /\ ~q.seen_end
      /\ Sent(p) = Sent(o) /\ Held(p) <= Held(o) /\ Count(p) <= Count(o)
      /\ Sent(q) = Sent(p) /\ Held(q) <= Held(p) /\ Count(q) <= Count(p)
  BY DEF Keeps
<1>2. PICK x \in Seq(RdsByte) : p.taken = o.taken \o x
  BY DEF Keeps
<1>3. PICK y \in Seq(RdsByte) : q.taken = p.taken \o y
  BY DEF Keeps
<1>4. x \o y \in Seq(RdsByte) /\ q.taken = o.taken \o (x \o y)
  <2>1. o.taken \in Seq(RdsByte)
    BY Sizes
  <2>2. x \o y \in Seq(RdsByte)
    BY Concats
  <2>3. (o.taken \o x) \o y = o.taken \o (x \o y)
    BY <2>1, Assoc
  <2> QED BY <1>2, <1>3, <2>2, <2>3
<1>5. /\ Held(o) \in Int /\ Held(p) \in Int /\ Held(q) \in Int
      /\ Count(o) \in Int /\ Count(p) \in Int /\ Count(q) \in Int
  <2>1. \A r \in IoType : Count(r) \in Int
    <3> TAKE r \in IoType
    <3>1. PICK k \in Nat : k = IF r.buf = NoBuf THEN 0 ELSE 1
      OBVIOUS
    <3>2. Count(r) = Len(r.free) + Len(Chain(r)) + k
      BY <3>1 DEF Count
    <3>3. Len(r.free) \in Nat /\ Len(Chain(r)) \in Nat
      BY Sizes, ChainFacts
    <3> QED BY <3>1, <3>2, <3>3
  <2>2. \A r \in IoType : Held(r) \in Int
    BY Sizes
  <2> QED BY <2>1, <2>2
<1>6. \A a, b, c \in Int : a <= b /\ b <= c => a <= c
  OBVIOUS
<1>7. Held(q) <= Held(o) /\ Count(q) <= Count(o)
  BY <1>1, <1>5, <1>6
<1>8. Sent(q) = Sent(o)
  BY <1>1
<1> QED BY <1>1, <1>4, <1>7, <1>8 DEF Keeps

\* The timer is set or deleted.
LEMMA TimerKeeps ==
  ASSUME NEW o, Stored(o), Client(o), Filled(o), ~o.seen_end,
         NEW t \in {"none", "send", "delay", "expired"}, t = "delay" <=> o.delayed,
         NEW p, p = [o EXCEPT !.timer = t]
  PROVE  /\ Keeps(o, p) /\ p \in IoType
         /\ p.timer = t /\ p.delayed = o.delayed /\ p.active = o.active
         /\ PendingOutput(p) = PendingOutput(o)
<1>1. o \in IoType
  BY DEF Stored
<1>2. /\ p \in IoType /\ p.timer = t /\ p.delayed = o.delayed
      /\ p.active = o.active /\ p.blocked = o.blocked
      /\ p.header_sent = o.header_sent /\ p.seen_end = o.seen_end
      /\ p.out = o.out /\ p.busy = o.busy /\ p.free = o.free
      /\ p.taken = o.taken /\ p.buf = o.buf /\ p.avail = o.avail
      /\ p.buffered = o.buffered
  BY <1>1 DEF IoType
<1>3. /\ Stored(p) /\ Sent(p) = Sent(o) /\ Held(p) = Held(o) /\ Count(p) = Count(o)
  BY <1>2, FlagsKeep
<1>4. Client(p)
  BY <1>2 DEF Client
<1>5. Filled(p)
  BY <1>2 DEF Filled
<1>6. /\ Held(o) <= Held(o) /\ Count(o) <= Count(o)
      /\ \E x \in Seq(RdsByte) : o.taken = o.taken \o x
  BY KeepsSame DEF Keeps
<1>7. Keeps(o, p)
  BY <1>2, <1>3, <1>4, <1>5, <1>6 DEF Keeps
<1> QED BY <1>2, <1>7 DEF PendingOutput

\* output_ready, where the request may go on with next.
LEMMA ReadyStep ==
  ASSUME IInv, NEW at \in {"recv_cols", "recv_rows", "recv_fields"},
         NEW next \in {"read_col", "recv_fields", "read_row", "read_field"},
         OutputReady(at, next),
         Agrees(next, dp, lib)
  PROVE  Step
<1>1. fn = at /\ lib' = lib
  BY DEF OutputReady
<1>2. /\ io \in IoType /\ dp \in DpType /\ LibOK(lib) /\ Agrees(fn, dp, lib)
      /\ Pausing(io, fn, dp) /\ Stored(io) /\ Client(io) /\ Filled(io)
      /\ ~io.seen_end /\ fn # "finished" /\ fn # "done"
  BY <1>1, OpenFacts
<1>3. ~dp.paused /\ dp.state # "send_query" /\ io.timer \notin {"send", "expired"}
  BY <1>1, <1>2 DEF Agrees, Pausing
<1>4. Expected(next, dp, lib) = Expected(fn, dp, lib)
  BY <1>1 DEF Expected
<1>5. next \in Functions \ {"done", "finished"}
  BY DEF Functions
<1>6. CASE ~Stops(io) /\ fn' = next /\ UNCHANGED <<io, dp, status>>
  <2>1. fn' = next /\ io' = io /\ dp' = dp /\ status' = status
    BY <1>6
  <2>2. Keeps(io, io')
    BY <1>2, <2>1, KeepsSame
  <2>3. Pausing(io', fn', dp')
    BY <1>2, <1>3, <2>1 DEF Pausing
  <2>4. PendingOutput(io') < MaxBuffered
    BY <1>2, <1>6, <2>1, PendingNat
  <2>5. Agrees(fn', dp', lib') /\ Expected(fn', dp', lib') = Expected(fn, dp, lib)
    BY <1>1, <1>4, <2>1
  <2> QED BY <1>1, <1>2, <1>5, <2>1, <2>2, <2>3, <2>4, <2>5, GoesOn
<1>7. ASSUME NEW o \in OutputBufs(QueueBuf(io)), UNCHANGED status,
             IF Stops(o)
             THEN /\ io' = [o EXCEPT !.timer = IF o.delayed THEN @ ELSE "send"]
                  /\ dp' = [dp EXCEPT !.paused = TRUE]
                  /\ fn' = "wait"
             ELSE io' = o /\ fn' = next /\ UNCHANGED dp
      PROVE  Step
  <2>1. /\ Keeps(io, o) /\ (o.timer = io.timer \/ o.timer = "delay")
    BY <1>2, KeepsBufs
  <2>2. /\ o \in IoType /\ Stored(o) /\ Client(o) /\ Filled(o) /\ ~o.seen_end
    BY <2>1 DEF Keeps, Stored
  <2>3. o.timer = "delay" <=> o.delayed
    BY <2>2 DEF Client
  <2>4. CASE Stops(o)
    <3>1. PICK t \in {"none", "send", "delay"} :
            t = IF o.delayed THEN o.timer ELSE "send"
      BY <2>3
    <3>2. io' = [o EXCEPT !.timer = t]
      BY <1>7, <2>4, <3>1
    <3>3. t = "delay" <=> o.delayed
      BY <2>3, <3>1
    <3>4. /\ Keeps(o, io') /\ io' \in IoType
          /\ io'.timer = t /\ io'.delayed = o.delayed
      BY <2>2, <3>2, <3>3, TimerKeeps
    <3>5. Keeps(io, io')
      BY <1>2, <2>1, <2>2, <3>4, KeepsTransitive
    <3>6. fn' = "wait" /\ dp' = [dp EXCEPT !.paused = TRUE] /\ status' = status
      BY <1>7, <2>4
    <3>7. /\ dp' \in DpType /\ dp'.paused /\ dp'.state = dp.state
          /\ dp'.row = dp.row
      BY <1>2, <3>6 DEF DpType
    <3>8. Agrees(fn', dp', lib')
      BY <1>1, <1>2, <1>3, <3>6, <3>7 DEF Agrees
    <3>9. Pausing(io', fn', dp')
      BY <3>1, <3>4, <3>6, <3>7 DEF Pausing
    <3>10. Expected(fn', dp', lib') = Expected(fn, dp, lib)
      BY <1>1, <3>6, <3>7 DEF Expected
    <3>11. fn' \in Functions \ {"done", "finished"}
      BY <3>6 DEF Functions
    <3> QED BY <1>1, <1>2, <3>5, <3>6, <3>7, <3>8, <3>9, <3>10, <3>11, GoesOn
  <2>5. CASE ~Stops(o)
    <3>1. io' = o /\ fn' = next /\ dp' = dp /\ status' = status
      BY <1>7, <2>5
    <3>2. Pausing(io', fn', dp')
      BY <1>3, <2>1, <3>1 DEF Pausing
    <3>3. PendingOutput(io') < MaxBuffered
      BY <2>2, <2>5, <3>1, PendingNat
    <3>4. Agrees(fn', dp', lib') /\ Expected(fn', dp', lib') = Expected(fn, dp, lib)
      BY <1>1, <1>4, <3>1
    <3> QED BY <1>1, <1>2, <1>5, <2>1, <3>1, <3>2, <3>3, <3>4, GoesOn
  <2> QED BY <2>4, <2>5
<1>8. ASSUME NEW o \in EncodingFails, Fails(o)
      PROVE  Step
  <2>1. Ending(io, o)
    BY <1>2, EncodingFailsEnding
  <2> QED BY <1>1, <1>2, <1>8, <2>1, FailsStep
<1> QED BY <1>6, <1>7, <1>8 DEF OutputReady

\* output_bufs at the end of process_events.
LEMMA FlushStep ==
  ASSUME IInv, Flush
  PROVE  Step
<1>1. fn = "flush" /\ lib' = lib
  BY DEF Flush
<1>2. /\ io \in IoType /\ dp \in DpType /\ LibOK(lib) /\ Agrees(fn, dp, lib)
      /\ Pausing(io, fn, dp) /\ Stored(io) /\ Client(io) /\ Filled(io)
      /\ ~io.seen_end /\ fn # "finished" /\ fn # "done"
  BY <1>1, OpenFacts
<1>3. ~dp.paused /\ dp.state # "send_query" /\ io.timer \notin {"send", "expired"}
  BY <1>1, <1>2 DEF Agrees, Pausing
<1>4. CASE io' \in OutputBufs(io) /\ fn' = "wait" /\ UNCHANGED <<dp, status>>
  <2>1. fn' = "wait" /\ dp' = dp /\ status' = status /\ io' \in OutputBufs(io)
    BY <1>4
  <2>2. Keeps(io, io') /\ (io'.timer = io.timer \/ io'.timer = "delay")
    BY <1>2, <2>1, KeepsBufs
  <2>3. Agrees(fn', dp', lib')
    BY <1>1, <1>2, <1>3, <2>1 DEF Agrees
  <2>4. Pausing(io', fn', dp')
    BY <1>3, <2>1, <2>2 DEF Pausing
  <2>5. Expected(fn', dp', lib') = Expected(fn, dp, lib)
    BY <1>1, <2>1 DEF Expected
  <2>6. fn' \in Functions \ {"done", "finished"}
    BY <2>1 DEF Functions
  <2> QED BY <1>1, <1>2, <2>1, <2>2, <2>3, <2>4, <2>5, <2>6, GoesOn
<1>5. ASSUME NEW o \in OutputBufsFails(io), Fails(o)
      PROVE  Step
  <2>1. Ending(io, o)
    BY <1>2, OutputBufsFailsEnding
  <2> QED BY <1>1, <1>2, <1>5, <2>1, FailsStep
<1> QED BY <1>4, <1>5 DEF Flush

\* A failure at an event.
LEMMA BreaksStep ==
  ASSUME IInv, fn # "finished", Fails(io), UNCHANGED lib
  PROVE  Step
<1>1. io \in IoType /\ Client(io) /\ LibOK(lib)
  BY OpenFacts
<1>2. LibOK(lib') /\ (lib.answered => lib'.answered)
  BY <1>1
<1> QED BY <1>1, <1>2, EndsHere, FailsStep

\* drain_output.
LEMMA DrainStep ==
  ASSUME IInv, DrainOutput
  PROVE  Step
<1>1. fn = "drain" /\ lib' = lib
  BY DEF DrainOutput
<1>2. /\ io \in IoType /\ dp \in DpType /\ LibOK(lib) /\ Agrees(fn, dp, lib)
      /\ Pausing(io, fn, dp) /\ Stored(io) /\ Client(io) /\ Filled(io)
      /\ ~io.seen_end /\ fn # "finished" /\ fn # "done"
  BY <1>1, OpenFacts
<1>3. dp.paused /\ dp.state \in {"recv_cols", "recv_rows"}
  BY <1>1, <1>2 DEF Agrees, Pausing, DpType
<1>4. ASSUME NEW o \in OutputBufs(io), UNCHANGED status,
             IF Stops(o)
             THEN /\ io' = [o EXCEPT !.timer = IF o.delayed THEN @ ELSE "send"]
                  /\ fn' = "wait"
                  /\ UNCHANGED dp
             ELSE /\ io' = TimerDeleted(o)
                  /\ fn' = dp.state
                  /\ dp' = [dp EXCEPT !.paused = FALSE]
      PROVE  Step
  <2>1. /\ Keeps(io, o)
    BY <1>2, KeepsBufs
  <2>2. /\ o \in IoType /\ Stored(o) /\ Client(o) /\ Filled(o) /\ ~o.seen_end
    BY <2>1 DEF Keeps, Stored
  <2>3. (o.timer = "delay" <=> o.delayed) /\ (o.delayed => o.blocked)
    BY <2>2 DEF Client
  <2>4. CASE Stops(o)
    <3>1. PICK t \in {"none", "send", "delay"} :
            t = IF o.delayed THEN o.timer ELSE "send"
      BY <2>3
    <3>2. io' = [o EXCEPT !.timer = t]
      BY <1>4, <2>4, <3>1
    <3>3. t = "delay" <=> o.delayed
      BY <2>3, <3>1
    <3>4. /\ Keeps(o, io') /\ io' \in IoType
          /\ io'.timer = t /\ io'.delayed = o.delayed
      BY <2>2, <3>2, <3>3, TimerKeeps
    <3>5. Keeps(io, io')
      BY <1>2, <2>1, <2>2, <3>4, KeepsTransitive
    <3>6. fn' = "wait" /\ dp' = dp /\ status' = status
      BY <1>4, <2>4
    <3>8. Agrees(fn', dp', lib')
      BY <1>1, <1>2, <1>3, <3>6 DEF Agrees
    <3>9. Pausing(io', fn', dp')
      BY <1>3, <3>1, <3>4, <3>6 DEF Pausing
    <3>10. Expected(fn', dp', lib') = Expected(fn, dp, lib)
      BY <1>1, <3>6 DEF Expected
    <3>11. fn' \in Functions \ {"done", "finished"}
      BY <3>6 DEF Functions
    <3> QED BY <1>1, <1>2, <3>5, <3>6, <3>8, <3>9, <3>10, <3>11, GoesOn
  <2>5. CASE ~Stops(o)
    <3>1. /\ io' = [o EXCEPT !.timer = "none"] /\ fn' = dp.state
          /\ dp' = [dp EXCEPT !.paused = FALSE] /\ status' = status
      BY <1>4, <2>5 DEF TimerDeleted
    <3>2. ~o.delayed
      BY <2>3, <2>5 DEF Stops
    <3>3. Keeps(o, io') /\ io' \in IoType /\ io'.timer = "none"
      BY <2>2, <3>1, <3>2, TimerKeeps
    <3>4. Keeps(io, io')
      BY <1>2, <2>1, <2>2, <3>3, KeepsTransitive
    <3>5. /\ dp' \in DpType /\ ~dp'.paused /\ dp'.state = dp.state
          /\ dp'.row = dp.row
      BY <1>2, <3>1 DEF DpType
    <3>6. Agrees(fn', dp', lib')
      BY <1>1, <1>2, <1>3, <3>1, <3>5 DEF Agrees
    <3>7. Pausing(io', fn', dp')
      BY <1>3, <3>1, <3>3, <3>5 DEF Pausing
    <3>8. Expected(fn', dp', lib') = Expected(fn, dp, lib)
      BY <1>1, <1>3, <3>1, <3>5 DEF Expected
    <3>9. fn' \in Functions \ {"done", "finished"} /\ fn' \in {"recv_cols", "recv_rows"}
      BY <1>3, <3>1 DEF Functions
    <3> QED BY <1>1, <1>2, <3>1, <3>4, <3>5, <3>6, <3>7, <3>8, <3>9, GoesOn
  <2> QED BY <2>4, <2>5
<1>5. ASSUME NEW o \in OutputBufsFails(io), Fails(o)
      PROVE  Step
  <2>1. Ending(io, o)
    BY <1>2, OutputBufsFailsEnding
  <2> QED BY <1>1, <1>2, <1>5, <2>1, FailsStep
<1>6. CASE Fails(io)
  BY <1>1, <1>2, <1>6, BreaksStep
<1> QED BY <1>4, <1>5, <1>6 DEF DrainOutput

\* A row, or the end of the rows.
LEMMA RowEncoded ==
  ASSUME IInv, OutputRow
  PROVE  Step
<1>1. /\ fn = "read_row"
      /\ lib' = [lib EXCEPT !.row = @ + 1]
      /\ Encode(<<Rds!Byte("row", 1)>>, FALSE, "recv_fields",
                [dp EXCEPT !.row = TRUE])
  BY DEF OutputRow
<1>2. /\ io \in IoType /\ dp \in DpType /\ LibOK(lib) /\ Agrees(fn, dp, lib)
      /\ Rds!Parse(Sent(io)) = Expected(fn, dp, lib)
  BY <1>1, OpenFacts
<1>3. PICK b : b = <<Rds!Byte("row", 1)>>
  OBVIOUS
<1>4. PICK d : d = [dp EXCEPT !.row = TRUE]
  OBVIOUS
<1>5. Sent(io) \in Seq(RdsByte) /\ Rds!Byte("row", 1) \in RdsByte
  <2>1. Sent(io) \in Seq(RdsByte)
    BY <1>2, ChainFacts
  <2> QED BY <2>1, ByteType
<1>6. /\ b \in Seq(RdsByte) /\ b # <<>> /\ Len(b) = 1
      /\ Rds!Parse(Sent(io) \o b) =
           Rds!ReadByte(Rds!Parse(Sent(io)), Rds!Byte("row", 1))
  BY <1>3, <1>5, OneByte
<1>7. /\ dp.state = "recv_rows" /\ ~dp.row /\ lib.field = 0 /\ lib.total = 0
      /\ lib.cols > 0 /\ ~lib.answered /\ lib.offset = 0
  BY <1>1, <1>2 DEF Agrees, DpType, LibOK
<1>8. /\ lib'.cols = lib.cols /\ lib'.field = 0 /\ lib'.offset = 0
      /\ lib'.total = 0 /\ lib'.answered = lib.answered
      /\ lib.cols \in Nat
  BY <1>1, <1>2, <1>7 DEF LibOK
<1>9. LibOK(lib')
  BY <1>1, <1>2, <1>7, <1>8 DEF LibOK
<1>10. d \in DpType /\ d.row /\ d.state = "recv_rows" /\ d.paused = dp.paused
  BY <1>2, <1>4, <1>7 DEF DpType
<1>11. Agrees("recv_fields", d, lib')
  BY <1>7, <1>8, <1>10 DEF Agrees
<1>12. Rds!Parse(Sent(io)) = Reader("row", lib.cols, 0, 0)
  BY <1>1, <1>2, <1>7 DEF Expected
<1>13. Rds!Parse(Sent(io) \o b) = Reader("length", lib.cols, lib.cols, 0)
  BY <1>6, <1>12, RowStep
<1>14. Rds!Parse(Sent(io) \o b) = Expected("recv_fields", d, lib')
  <2>1. lib.cols - 0 = lib.cols /\ lib.cols # 0
    BY <1>7, <1>8
  <2>2. Expected("recv_fields", d, lib') =
          Reader("length", lib'.cols, lib'.cols - lib'.field, 0)
    BY <1>8, <1>10, <2>1 DEF Expected
  <2> QED BY <1>8, <1>13, <2>1, <2>2
<1>15. Len(b) <= MaxAtom
  BY <1>6, Bounds
<1>16. Encode(b, FALSE, "recv_fields", d)
  BY <1>1, <1>3, <1>4
<1>17. lib.answered => lib'.answered
  BY <1>8
<1> QED BY <1>1, <1>6, <1>9, <1>10, <1>11, <1>14, <1>15, <1>16, <1>17, EncodeStep

\* The end of the rows.
LEMMA RowsEndEncoded ==
  ASSUME IInv, RowsEnd
  PROVE  Step
<1>1. /\ fn = "read_row"
      /\ lib' = [lib EXCEPT !.answered = TRUE]
      /\ Encode(<<Rds!Byte("row", 0)>>, TRUE, "done", dp)
  BY DEF RowsEnd
<1>2. /\ io \in IoType /\ dp \in DpType /\ LibOK(lib) /\ Agrees(fn, dp, lib)
      /\ Rds!Parse(Sent(io)) = Expected(fn, dp, lib)
  BY <1>1, OpenFacts
<1>3. PICK b : b = <<Rds!Byte("row", 0)>>
  OBVIOUS
<1>5. Sent(io) \in Seq(RdsByte) /\ Rds!Byte("row", 0) \in RdsByte
  <2>1. Sent(io) \in Seq(RdsByte)
    BY <1>2, ChainFacts
  <2> QED BY <2>1, ByteType
<1>6. /\ b \in Seq(RdsByte) /\ b # <<>> /\ Len(b) = 1
      /\ Rds!Parse(Sent(io) \o b) =
           Rds!ReadByte(Rds!Parse(Sent(io)), Rds!Byte("row", 0))
  BY <1>3, <1>5, OneByte
<1>7. /\ dp.state = "recv_rows" /\ ~dp.row /\ lib.field = 0 /\ lib.total = 0
      /\ lib.cols > 0 /\ ~lib.answered
  BY <1>1, <1>2 DEF Agrees, DpType
<1>8. /\ lib'.cols = lib.cols /\ lib'.field = 0 /\ lib'.total = 0
      /\ lib'.answered
  BY <1>1, <1>2, <1>7 DEF LibOK
<1>9. LibOK(lib')
  BY <1>1, <1>2, <1>7, <1>8 DEF LibOK
<1>10. Agrees("done", dp, lib')
  BY <1>7, <1>8 DEF Agrees
<1>11. Rds!Parse(Sent(io)) = Reader("row", lib.cols, 0, 0)
  BY <1>1, <1>2, <1>7 DEF Expected
<1>12. Rds!Parse(Sent(io) \o b) = Reader("end", lib.cols, 0, 0)
  BY <1>6, <1>11, RowStep
<1>13. Rds!Parse(Sent(io) \o b) = Expected("done", dp, lib')
  BY <1>8, <1>12 DEF Expected
<1>14. Len(b) <= MaxAtom
  BY <1>6, Bounds
<1>15. Encode(b, TRUE, "done", dp)
  BY <1>1, <1>3
<1> QED BY <1>1, <1>2, <1>6, <1>8, <1>9, <1>10, <1>13, <1>14, <1>15, EncodeStep

\* What the reader makes of a field, or of a part of one.
FieldComes(s, c, l, total, offset, len, length) ==
  /\ s \in Seq(RdsByte)
  /\ total \in Nat /\ offset \in Nat /\ len \in Nat /\ length \in Int
  /\ offset + len <= total
  /\ total = 0 => length <= 0
  /\ total # 0 => length = total /\ len > 0
  /\ Rds!Parse(s) = IF offset = 0 THEN Reader("length", c, l, 0)
                    ELSE Reader("text", c, l, total - offset)

\* The reader goes on behind it with the rest of the field, the next field, or
\* the next row.
LEMMA FieldParsed ==
  ASSUME NEW s, NEW c, NEW l, NEW total, NEW offset, NEW len, NEW length,
         FieldComes(s, c, l, total, offset, len, length),
         NEW b, b = FieldBytes(offset, len, length)
  PROVE  /\ b \in Seq(RdsByte) /\ b # <<>> /\ Len(b) <= 1 + len
         /\ Rds!Parse(s \o b) =
              IF offset + len = total THEN NextField(c, l)
              ELSE Reader("text", c, l, total - (offset + len))
<1>0. /\ s \in Seq(RdsByte)
      /\ total \in Nat /\ offset \in Nat /\ len \in Nat /\ length \in Int
      /\ offset + len <= total
      /\ total = 0 => length <= 0
      /\ total # 0 => length = total /\ len > 0
      /\ Rds!Parse(s) = IF offset = 0 THEN Reader("length", c, l, 0)
                        ELSE Reader("text", c, l, total - offset)
  BY DEF FieldComes
<1>1. PICK t \in Seq(RdsByte) : t = Text(len) /\ Len(t) = len
  BY <1>0, TextType
<1>2. CASE offset # 0
  <2>1. /\ total # 0 /\ len > 0 /\ total - offset \in Nat
        /\ len <= total - offset
    BY <1>0, <1>2
  <2>2. b = t
    <3>1. b = <<>> \o t
      BY <1>0, <1>1, <1>2 DEF FieldBytes
    <3> QED BY <1>0, <3>1, ConcatEmptySeq
  <2>3. PICK m \in Nat : m = total - offset
    BY <1>0, <2>1
  <2>4. Rds!Parse(s) = Reader("text", c, l, m)
    BY <1>0, <1>2, <2>3
  <2>5. Rds!Parse(s \o b) =
          IF len < m THEN Reader("text", c, l, m - len) ELSE NextField(c, l)
    BY <1>0, <1>1, <2>1, <2>2, <2>3, <2>4, TextRead
  <2>6. /\ len < m <=> offset + len # total
        /\ m - len = total - (offset + len)
    BY <1>0, <2>1, <2>3
  <2>7. b \in Seq(RdsByte) /\ Len(b) = len
    BY <1>0, <1>1, <2>2
  <2>8. b # <<>> /\ Len(b) <= 1 + len
    BY <1>0, <2>1, <2>7
  <2> QED BY <1>0, <2>5, <2>6, <2>7, <2>8
<1>3. CASE offset = 0
  <2>1. Rds!Byte("length", length) \in RdsByte
    BY <1>0, ByteType
  <2>2. PICK x \in Seq(RdsByte) :
          /\ x = <<Rds!Byte("length", length)>> /\ Len(x) = 1
          /\ Rds!Parse(s \o x) =
               Rds!ReadByte(Rds!Parse(s), Rds!Byte("length", length))
    BY <1>0, <2>1, OneByte
  <2>3. b = x \o t
    BY <1>0, <1>1, <1>3, <2>2 DEF FieldBytes
  <2>4. b \in Seq(RdsByte) /\ Len(b) = Len(x) + Len(t)
    BY <1>0, <2>3, Concats
  <2>5. Len(b) = 1 + len
    BY <1>0, <1>1, <2>2, <2>4
  <2>6. b # <<>> /\ Len(b) <= 1 + len
    BY <1>0, <2>4, <2>5
  <2>7. s \o b = (s \o x) \o t /\ s \o x \in Seq(RdsByte)
    <3>1. s \in Seq(RdsByte)
      BY <1>0
    <3>2. s \o (x \o t) = (s \o x) \o t
      BY <3>1, Assoc
    <3>3. s \o x \in Seq(RdsByte)
      BY <3>1, Concats
    <3> QED BY <2>3, <3>2, <3>3
  <2>8. Rds!Parse(s \o x) =
          IF length > 0 THEN Reader("text", c, l, length) ELSE NextField(c, l)
    BY <1>0, <1>3, <2>2, LengthStep
  <2>9. CASE total = 0
    <3>1. len = 0 /\ ~(length > 0) /\ offset + len = total
      BY <1>0, <1>3, <2>9
    <3>2. t = <<>>
      BY <1>0, <1>1, <3>1, TextType
    <3>3. s \o b = s \o x
      BY <1>0, <2>7, <3>2, ConcatEmptySeq
    <3> QED BY <1>0, <2>4, <2>6, <2>8, <3>1, <3>3
  <2>10. CASE total # 0
    <3>1. length = total /\ len > 0 /\ length > 0 /\ len <= total
      BY <1>0, <1>3, <2>10
    <3>2. Rds!Parse(s \o x) = Reader("text", c, l, total)
      BY <1>0, <2>8, <3>1
    <3>3. Rds!Parse((s \o x) \o t) =
            IF len < total THEN Reader("text", c, l, total - len)
            ELSE NextField(c, l)
      <4>1. PICK u \in Seq(RdsByte) : u = s \o x
        BY <1>0, <2>7
      <4>2. Rds!Parse(u) = Reader("text", c, l, total)
        BY <1>0, <3>2, <4>1
      <4>3. Rds!Parse(u \o Text(len)) =
              IF len < total THEN Reader("text", c, l, total - len)
              ELSE NextField(c, l)
        BY <1>0, <3>1, <4>2, TextRead
      <4> QED BY <1>0, <1>1, <4>1, <4>3
    <3>4. /\ len < total <=> offset + len # total
          /\ total - len = total - (offset + len)
      BY <1>0, <1>3, <3>1
    <3> QED BY <1>0, <2>4, <2>6, <2>7, <3>3, <3>4
  <2> QED BY <1>0, <2>9, <2>10
<1> QED BY <1>0, <1>2, <1>3

\* A field, or the part of it that has come.
LEMMA FieldEncoded ==
  ASSUME IInv, FieldRead
  PROVE  Step
<1>1. fn = "read_field" /\ lib.field < lib.cols
  BY DEF FieldRead
<1>2. /\ io \in IoType /\ dp \in DpType /\ LibOK(lib) /\ Agrees(fn, dp, lib)
      /\ Rds!Parse(Sent(io)) = Expected(fn, dp, lib)
      /\ Pausing(io, fn, dp) /\ Stored(io) /\ Client(io) /\ Filled(io)
      /\ ~io.seen_end
  BY <1>1, OpenFacts
<1>3. PICK total \in IF lib.total > 0 THEN {lib.total} ELSE 0..MaxField :
      \E len \in (IF lib.total > 0 THEN 1 ELSE 0)..(total - lib.offset) :
      \E length \in IF total = 0 THEN {0, Rds!NullLength} ELSE {total} :
       /\ lib' = IF lib.offset + len = total
                 THEN [lib EXCEPT !.field = @ + 1, !.offset = 0, !.total = 0]
                 ELSE [lib EXCEPT !.offset = @ + len, !.total = total]
       /\ OutputField(lib.offset, len, total, length)
  BY DEF FieldRead
<1>4. PICK len \in (IF lib.total > 0 THEN 1 ELSE 0)..(total - lib.offset) :
      \E length \in IF total = 0 THEN {0, Rds!NullLength} ELSE {total} :
       /\ lib' = IF lib.offset + len = total
                 THEN [lib EXCEPT !.field = @ + 1, !.offset = 0, !.total = 0]
                 ELSE [lib EXCEPT !.offset = @ + len, !.total = total]
       /\ OutputField(lib.offset, len, total, length)
  BY <1>3
<1>5. PICK length \in IF total = 0 THEN {0, Rds!NullLength} ELSE {total} :
       /\ lib' = IF lib.offset + len = total
                 THEN [lib EXCEPT !.field = @ + 1, !.offset = 0, !.total = 0]
                 ELSE [lib EXCEPT !.offset = @ + len, !.total = total]
       /\ OutputField(lib.offset, len, total, length)
  BY <1>4
<1>6. /\ lib \in [cols : Nat, col : Nat, row : Nat, field : Nat, offset : Nat,
                  total : Nat, answered : BOOLEAN]
      /\ lib.cols \in Nat /\ lib.col \in Nat /\ lib.field \in Nat
      /\ lib.offset \in Nat /\ lib.total \in Nat /\ lib.answered \in BOOLEAN
      /\ lib.col <= lib.cols /\ lib.total <= MaxField
      /\ lib.offset < lib.total \/ (lib.offset = 0 /\ lib.total = 0)
  BY <1>2 DEF LibOK
<1>7. /\ dp.state = "recv_rows" /\ dp.row /\ lib.cols > 0 /\ ~lib.answered
      /\ ~dp.paused
  BY <1>1, <1>2 DEF Agrees, DpType, Pausing
<1>8. /\ total \in Nat /\ total <= MaxField /\ len \in Nat
      /\ lib.offset + len <= total
      /\ lib.offset # 0 => total # 0 /\ len > 0 /\ total = lib.total
      /\ total = 0 => len = 0
  <2>1. CASE lib.total > 0
    BY <1>3, <1>4, <1>6, <2>1, OutputAssumption
  <2>2. CASE ~(lib.total > 0)
    <3>1. lib.offset = 0
      BY <1>6, <2>2
    <3> QED BY <1>3, <1>4, <2>2, <3>1, OutputAssumption
  <2> QED BY <2>1, <2>2
<1>9. length \in Int /\ (total = 0 => length <= 0) /\ (total # 0 => length = total)
  BY <1>5, <1>8 DEF Rds!NullLength
<1>10. /\ lib'.cols = lib.cols /\ lib'.answered = lib.answered
       /\ lib'.field = IF lib.offset + len = total THEN lib.field + 1 ELSE lib.field
       /\ lib'.offset = IF lib.offset + len = total THEN 0 ELSE lib.offset + len
       /\ lib'.total = IF lib.offset + len = total THEN 0 ELSE total
       /\ lib'.col = lib.col
       /\ lib' \in [cols : Nat, col : Nat, row : Nat, field : Nat, offset : Nat,
                    total : Nat, answered : BOOLEAN]
  <2>1. CASE lib.offset + len = total
    <3>1. PICK f \in Nat : f = lib.field + 1
      BY <1>6
    <3>2. lib' = [lib EXCEPT !.field = f, !.offset = 0, !.total = 0]
      BY <1>5, <2>1, <3>1
    <3>3. /\ lib' \in [cols : Nat, col : Nat, row : Nat, field : Nat,
                      offset : Nat, total : Nat, answered : BOOLEAN]
          /\ lib'.field = f /\ lib'.offset = 0 /\ lib'.total = 0
          /\ lib'.cols = lib.cols /\ lib'.answered = lib.answered
          /\ lib'.col = lib.col
      BY <1>6, <3>2
    <3> QED BY <2>1, <3>1, <3>3
  <2>2. CASE lib.offset + len # total
    <3>1. PICK f \in Nat : f = lib.offset + len
      BY <1>6, <1>8
    <3>2. lib' = [lib EXCEPT !.offset = f, !.total = total]
      BY <1>5, <2>2, <3>1
    <3>3. /\ lib' \in [cols : Nat, col : Nat, row : Nat, field : Nat,
                      offset : Nat, total : Nat, answered : BOOLEAN]
          /\ lib'.field = lib.field /\ lib'.offset = f /\ lib'.total = total
          /\ lib'.cols = lib.cols /\ lib'.answered = lib.answered
          /\ lib'.col = lib.col
      BY <1>6, <1>8, <3>2
    <3> QED BY <2>2, <3>1, <3>3
  <2> QED BY <2>1, <2>2
<1>11. LibOK(lib')
  <2>1. lib'.col <= lib'.cols /\ lib'.field <= lib'.cols
    BY <1>1, <1>6, <1>10
  <2>2. lib'.total <= MaxField
    BY <1>8, <1>10, OutputAssumption
  <2>3. lib'.offset < lib'.total \/ (lib'.offset = 0 /\ lib'.total = 0)
    BY <1>6, <1>8, <1>10
  <2>4. lib'.field = lib'.cols => lib'.total = 0
    BY <1>1, <1>6, <1>10
  <2> QED BY <1>10, <2>1, <2>2, <2>3, <2>4 DEF LibOK
<1>12. /\ lib.answered => lib'.answered
       /\ Agrees("recv_fields", dp, lib')
  BY <1>7, <1>10 DEF Agrees
<1>13. PICK l \in Nat : l = lib.cols - lib.field
  BY <1>1, <1>6
<1>14. PICK s \in Seq(RdsByte) : s = Sent(io)
  BY <1>2, ChainFacts
<1>15. Rds!Parse(s) = IF lib.offset = 0 THEN Reader("length", lib.cols, l, 0)
                      ELSE Reader("text", lib.cols, l, total - lib.offset)
  <2>1. lib.field # lib.cols
    BY <1>1, <1>6
  <2>2. Rds!Parse(s) = IF lib.offset = 0 THEN Reader("length", lib.cols, l, 0)
                       ELSE Reader("text", lib.cols, l, lib.total - lib.offset)
    BY <1>1, <1>2, <1>7, <1>13, <1>14, <2>1 DEF Expected
  <2> QED BY <1>8, <2>2
<1>16. Expected("recv_fields", dp, lib') =
         IF lib.offset + len = total THEN NextField(lib.cols, l)
         ELSE IF lib.offset + len = 0 THEN Reader("length", lib.cols, l, 0)
         ELSE Reader("text", lib.cols, l, total - (lib.offset + len))
  <2>1. CASE lib.offset + len = total
    <3>1. l > 1 <=> lib.field + 1 # lib.cols
      <4>1. ASSUME NEW a \in Nat, NEW b \in Nat, b < a
            PROVE  a - b > 1 <=> b + 1 # a
        BY <4>1
      <4>2. lib.cols - lib.field > 1 <=> lib.field + 1 # lib.cols
        BY <1>1, <1>6, <4>1
      <4> QED BY <1>13, <4>2
    <3>2. lib.cols - (lib.field + 1) = l - 1
      <4>1. ASSUME NEW a \in Nat, NEW b \in Nat PROVE a - (b + 1) = (a - b) - 1
        OBVIOUS
      <4>2. lib.cols - (lib.field + 1) = (lib.cols - lib.field) - 1
        BY <1>6, <4>1
      <4> QED BY <1>13, <4>2
    <3>3. Expected("recv_fields", dp, lib') =
            IF lib.field + 1 = lib.cols THEN Reader("row", lib.cols, 0, 0)
            ELSE Reader("length", lib.cols, lib.cols - (lib.field + 1), 0)
      BY <1>7, <1>10, <2>1 DEF Expected
    <3> QED BY <2>1, <3>1, <3>2, <3>3 DEF NextField
  <2>2. CASE lib.offset + len # total
    <3>1. lib.field # lib.cols
      BY <1>1, <1>6
    <3>2. /\ lib'.offset = lib.offset + len /\ lib'.total = total
          /\ lib'.field = lib.field
      BY <1>10, <2>2
    <3>3. Expected("recv_fields", dp, lib') =
            IF lib.offset + len = 0 THEN Reader("length", lib.cols, l, 0)
            ELSE Reader("text", lib.cols, l, total - (lib.offset + len))
      BY <1>7, <1>10, <1>13, <3>1, <3>2 DEF Expected
    <3> QED BY <2>2, <3>3
  <2> QED BY <2>1, <2>2
<1>17. CASE lib.offset = 0 /\ len = 0 /\ total # 0
  <2>1. /\ fn' = "recv_fields" /\ io' = io /\ dp' = dp /\ status' = status
    BY <1>5, <1>17 DEF OutputField
  <2>2. lib.offset + len # total /\ lib.offset + len = 0
    BY <1>17
  <2>3. Expected(fn', dp', lib') = Expected(fn, dp, lib)
    BY <1>2, <1>14, <1>15, <1>16, <1>17, <2>1, <2>2
  <2>4. Pausing(io', fn', dp')
    BY <1>1, <1>2, <1>7, <2>1 DEF Pausing
  <2>5. Keeps(io, io')
    BY <1>2, <2>1, KeepsSame
  <2>6. fn' \in Functions \ {"done", "finished"} /\ Agrees(fn', dp', lib')
    BY <1>12, <2>1 DEF Functions
  <2> QED BY <1>1, <1>2, <1>11, <1>12, <2>1, <2>3, <2>4, <2>5, <2>6, GoesOn
<1>18. CASE ~(lib.offset = 0 /\ len = 0 /\ total # 0)
  <2>1. PICK b : b = FieldBytes(lib.offset, len, length)
    OBVIOUS
  <2>2. Encode(b, FALSE, "recv_fields", dp)
    BY <1>5, <1>18, <2>1 DEF OutputField
  <2>3. total # 0 => length = total /\ len > 0
    BY <1>6, <1>8, <1>9, <1>18
  <2>4. /\ b \in Seq(RdsByte) /\ b # <<>> /\ Len(b) <= 1 + len
        /\ Rds!Parse(s \o b) =
             IF lib.offset + len = total THEN NextField(lib.cols, l)
             ELSE Reader("text", lib.cols, l, total - (lib.offset + len))
    <3>1. FieldComes(s, lib.cols, l, total, lib.offset, len, length)
      BY <1>6, <1>8, <1>9, <1>15, <2>3 DEF FieldComes
    <3> QED BY <2>1, <3>1, FieldParsed
  <2>5. lib.offset + len = total \/ lib.offset + len # 0
    BY <1>6, <1>8, <2>3
  <2>6. Rds!Parse(Sent(io) \o b) = Expected("recv_fields", dp, lib')
    BY <1>14, <1>16, <2>4, <2>5
  <2>7. Len(b) <= MaxAtom
    <3>1. Len(b) \in Nat /\ len <= MaxField
      <4>1. Len(b) \in Nat
        BY <2>4, LenProperties
      <4>2. ASSUME NEW x \in Nat, NEW y \in Nat, NEW z \in Nat, NEW m \in Nat,
                   x + y <= z, z <= m
            PROVE  y <= m
        BY <4>2
      <4>3. MaxField \in Nat
        BY OutputAssumption
      <4> QED BY <1>6, <1>8, <4>1, <4>2, <4>3
    <3> QED BY <1>8, <2>4, <3>1, Bounds, OutputAssumption
  <2> QED BY <1>1, <1>2, <1>11, <1>12, <2>2, <2>4, <2>6, <2>7, EncodeStep
<1> QED BY <1>17, <1>18

\* A row ends.
LEMMA RowEndsStep ==
  ASSUME IInv, RowEnds
  PROVE  Step
<1>1. /\ fn = "read_field" /\ lib.field = lib.cols
      /\ lib' = [lib EXCEPT !.field = 0] /\ dp' = [dp EXCEPT !.row = FALSE]
      /\ fn' = "recv_rows" /\ io' = io /\ status' = status
  BY DEF RowEnds
<1>2. /\ io \in IoType /\ dp \in DpType /\ LibOK(lib) /\ Agrees(fn, dp, lib)
      /\ Pausing(io, fn, dp) /\ Stored(io) /\ Client(io) /\ Filled(io)
      /\ ~io.seen_end
  BY <1>1, OpenFacts
<1>3. /\ dp.state = "recv_rows" /\ dp.row /\ lib.total = 0
      /\ lib.cols > 0 /\ ~lib.answered /\ ~dp.paused
  BY <1>1, <1>2 DEF Agrees, DpType, Pausing, LibOK
<1>4. /\ dp' \in DpType /\ dp'.state = "recv_rows" /\ ~dp'.row /\ ~dp'.paused
  BY <1>1, <1>2, <1>3 DEF DpType
<1>5. /\ lib'.field = 0 /\ lib'.total = 0 /\ lib'.cols = lib.cols
      /\ lib'.answered = lib.answered /\ LibOK(lib')
  BY <1>1, <1>2, <1>3 DEF LibOK
<1>6. Agrees(fn', dp', lib')
  BY <1>1, <1>3, <1>4, <1>5 DEF Agrees
<1>7. Pausing(io', fn', dp')
  BY <1>1, <1>2, <1>3, <1>4 DEF Pausing
<1>8. Keeps(io, io')
  BY <1>1, <1>2, KeepsSame
<1>9. Expected(fn', dp', lib') = Expected(fn, dp, lib)
  <2>1. Expected(fn, dp, lib) = Reader("row", lib.cols, 0, 0)
    BY <1>1, <1>3 DEF Expected
  <2> QED BY <1>1, <1>4, <1>5, <2>1 DEF Expected
<1>10. fn' \in Functions \ {"done", "finished"} /\ (lib.answered => lib'.answered)
  BY <1>1, <1>5 DEF Functions
<1> QED BY <1>1, <1>4, <1>5, <1>6, <1>7, <1>8, <1>9, <1>10, GoesOn

\* The connection to the database is ready.
LEMMA DbEventStep ==
  ASSUME IInv, DbEvent
  PROVE  Step
<1>1. /\ fn = "wait" /\ ~dp.paused /\ fn' = dp.state
      /\ io' = io /\ dp' = dp /\ lib' = lib /\ status' = status
  BY DEF DbEvent
<1>2. /\ io \in IoType /\ dp \in DpType /\ LibOK(lib) /\ Agrees(fn, dp, lib)
      /\ Pausing(io, fn, dp) /\ Stored(io) /\ Client(io) /\ Filled(io)
      /\ ~io.seen_end
  BY <1>1, OpenFacts
<1>3. dp.state \in {"recv_cols", "recv_rows"}
  BY <1>1, <1>2 DEF Agrees, DpType
<1>4. fn' \in Functions \ {"done", "finished"} /\ Agrees(fn', dp', lib')
  BY <1>1, <1>2, <1>3 DEF Agrees, Functions
<1>5. Pausing(io', fn', dp')
  BY <1>1, <1>2, <1>3 DEF Pausing
<1>6. Keeps(io, io')
  BY <1>1, <1>2, KeepsSame
<1>7. Expected(fn', dp', lib') = Expected(fn, dp, lib)
  BY <1>1, <1>3 DEF Expected
<1>8. fn' \notin {"send_query", "read_col", "read_row", "read_field"}
  BY <1>1, <1>3
<1> QED BY <1>1, <1>2, <1>4, <1>5, <1>6, <1>7, <1>8, GoesOn

\* The client's connection changes, and drain_output may be called.
LEMMA DrainsStep ==
  ASSUME IInv, fn = "wait", NEW o, Drains(o), Keeps(io, o),
         dp.paused \/ o.timer \notin {"send", "expired"}
  PROVE  Step
<1>1. /\ io' = o /\ fn' = (IF dp.paused THEN "drain" ELSE "wait")
      /\ dp' = dp /\ lib' = lib /\ status' = status
  BY DEF Drains
<1>2. /\ io \in IoType /\ dp \in DpType /\ LibOK(lib) /\ Agrees(fn, dp, lib)
      /\ Pausing(io, fn, dp)
  BY OpenFacts
<1>3. dp.state # "send_query"
  BY <1>2 DEF Agrees
<1>4. fn' \in {"wait", "drain"} /\ (fn' = "drain" <=> dp.paused)
  BY <1>1
<1>5. Agrees(fn', dp', lib')
  BY <1>1, <1>2, <1>3, <1>4 DEF Agrees
<1>6. Pausing(io', fn', dp')
  BY <1>1, <1>4 DEF Pausing
<1>7. Expected(fn', dp', lib') = Expected(fn, dp, lib)
  BY <1>1, <1>4 DEF Expected
<1>8. fn' \in Functions \ {"done", "finished"}
  BY <1>4 DEF Functions
<1>9. fn' \notin {"send_query", "read_col", "read_row", "read_field"}
  BY <1>4
<1>10. Keeps(io, io')
  BY <1>1
<1> QED BY <1>1, <1>2, <1>5, <1>6, <1>7, <1>8, <1>9, <1>10, GoesOn

\* The client can be written to.
LEMMA WriteEventStep ==
  ASSUME IInv, WriteEvent
  PROVE  Step
<1>1. fn = "wait" /\ dp.paused /\ Drains(io)
  BY DEF WriteEvent
<1>2. Keeps(io, io)
  BY <1>1, OpenFacts, KeepsSame
<1> QED BY <1>1, <1>2, DrainsStep

\* A change of the flags of the client's connection.
LEMMA FlagsStep ==
  ASSUME NEW o, Stored(o), Client(o), Filled(o), ~o.seen_end,
         NEW p \in IoType,
         p.out = o.out, p.busy = o.busy, p.free = o.free, p.taken = o.taken,
         p.buf = o.buf, p.avail = o.avail, p.buffered = o.buffered,
         p.seen_end = o.seen_end, Client(p)
  PROVE  Keeps(o, p)
<1>1. /\ Stored(p) /\ Sent(p) = Sent(o) /\ Held(p) = Held(o) /\ Count(p) = Count(o)
  BY FlagsKeep
<1>2. Filled(p)
  BY DEF Filled
<1>3. /\ Held(o) <= Held(o) /\ Count(o) <= Count(o)
      /\ \E x \in Seq(RdsByte) : o.taken = o.taken \o x
  BY KeepsSame DEF Keeps
<1> QED BY <1>1, <1>2, <1>3 DEF Keeps

\* A delay of limit_rate is over.
LEMMA DelayOverStep ==
  ASSUME IInv, DelayOver
  PROVE  Step
<1>1. /\ fn = "wait" /\ io.timer = "delay"
      /\ Drains([io EXCEPT !.timer = "none", !.delayed = FALSE])
  BY DEF DelayOver
<1>2. /\ io \in IoType /\ Stored(io) /\ Client(io) /\ Filled(io) /\ ~io.seen_end
  BY <1>1, OpenFacts
<1>3. PICK o : o = [io EXCEPT !.timer = "none", !.delayed = FALSE]
  OBVIOUS
<1>4. /\ o \in IoType /\ o.timer = "none" /\ ~o.delayed
      /\ o.out = io.out /\ o.busy = io.busy /\ o.free = io.free
      /\ o.taken = io.taken /\ o.buf = io.buf /\ o.avail = io.avail
      /\ o.buffered = io.buffered /\ o.seen_end = io.seen_end
      /\ o.header_sent = io.header_sent
  BY <1>2, <1>3 DEF IoType
<1>5. Client(o)
  BY <1>2, <1>4 DEF Client
<1>6. Keeps(io, o)
  BY <1>2, <1>4, <1>5, FlagsStep
<1>7. Drains(o)
  BY <1>1, <1>3
<1> QED BY <1>1, <1>4, <1>6, <1>7, DrainsStep

\* The subrequest's turn comes while the request goes on,
LEMMA ActivateStep ==
  ASSUME IInv, Activate, fn = "wait"
  PROVE  Step
<1>1. Drains([io EXCEPT !.active = TRUE])
  BY DEF Activate
<1>2. /\ io \in IoType /\ Stored(io) /\ Client(io) /\ Filled(io) /\ ~io.seen_end
      /\ Pausing(io, fn, dp)
  BY OpenFacts
<1>3. PICK o : o = [io EXCEPT !.active = TRUE]
  OBVIOUS
<1>4. /\ o \in IoType /\ o.timer = io.timer /\ o.delayed = io.delayed /\ o.active
      /\ o.out = io.out /\ o.busy = io.busy /\ o.free = io.free
      /\ o.taken = io.taken /\ o.buf = io.buf /\ o.avail = io.avail
      /\ o.buffered = io.buffered /\ o.seen_end = io.seen_end
      /\ o.header_sent = io.header_sent /\ o.blocked = io.blocked
  BY <1>2, <1>3 DEF IoType
<1>5. Client(o)
  BY <1>2, <1>4 DEF Client
<1>6. Keeps(io, o)
  BY <1>2, <1>4, <1>5, FlagsStep
<1>7. Drains(o)
  BY <1>1, <1>3
<1>8. dp.paused \/ o.timer \notin {"send", "expired"}
  BY <1>2, <1>4 DEF Pausing
<1> QED BY <1>6, <1>7, <1>8, DrainsStep

\* Out of turn, others change the timer of the client's connection.
LEMMA OutOfTurnStep ==
  ASSUME IInv, fn = "wait", dp.paused, ~io.active,
         NEW t \in {"none", "send", "expired"}, io' = [io EXCEPT !.timer = t],
         UNCHANGED <<dp, lib, fn, status>>
  PROVE  Step
<1>1. fn' = "wait" /\ fn' = fn /\ dp' = dp /\ lib' = lib /\ status' = status
  OBVIOUS
<1>2. /\ Stored(io) /\ Client(io) /\ Filled(io) /\ ~io.seen_end
      /\ dp \in DpType /\ LibOK(lib) /\ Agrees(fn, dp, lib) /\ ~io.delayed
  BY OpenFacts
<1>3. t \in {"none", "send", "delay", "expired"} /\ (t = "delay" <=> io.delayed)
  BY <1>2
<1>4. Keeps(io, io') /\ io'.timer = t /\ ~io'.active
  BY <1>2, <1>3, TimerKeeps
<1>5. Pausing(io', fn', dp')
  BY <1>1, <1>4 DEF Pausing
<1>6. Agrees(fn', dp', lib') /\ Expected(fn', dp', lib') = Expected(fn, dp, lib)
  BY <1>1, <1>2
<1>7. fn' \in Functions \ {"done", "finished"}
  BY <1>1 DEF Functions
<1> QED BY <1>1, <1>2, <1>4, <1>5, <1>6, <1>7, GoesOn

\* send_timeout runs out.
LEMMA SendTimeoutStep ==
  ASSUME IInv, SendTimeout
  PROVE  Step
<1>1. fn = "wait" /\ dp.paused
  BY DEF SendTimeout
<1>2. CASE Fails(io) /\ UNCHANGED lib
  BY <1>1, <1>2, BreaksStep
<1>3. CASE ExpiresOutOfTurn
  BY <1>1, <1>3, OutOfTurnStep DEF ExpiresOutOfTurn
<1> QED BY <1>2, <1>3 DEF SendTimeout

\* What nginx does with the buffers of a request that has ended.
LEMMA AfterwardsStep ==
  ASSUME IInv, fn = "finished", fn' = fn, dp' = dp, lib' = lib, status' = status,
         io' \in IoType, io'.buf = NoBuf, io'.avail = 0, io'.out = <<>>,
         io'.free = <<>>, io'.timer = "none", ~io'.delayed,
         Sent(io') = Sent(io), Held(io') <= Held(io), Count(io') <= Count(io),
         \E x \in Seq(RdsByte) : io'.taken = io.taken \o x
  PROVE  Step
<1>1. Good(io, dp, lib, fn, status)
  BY DEF IInv
<1>2. Bounded(io) /\ Closed(io, dp, lib) /\ io \in IoType /\ status # "open"
  BY <1>1 DEF Good, Closed
<1>3. Bounded(io')
  BY <1>2, BoundedPasses
<1>4. Closed(io', dp', lib')
  BY <1>2 DEF Closed
<1>5. Good(io', dp', lib', fn', status')
  BY <1>1, <1>3, <1>4 DEF Good
<1>6. PICK x \in Seq(RdsByte) : io'.taken = io.taken \o x
  OBVIOUS
<1>7. Rds!IsPrefix(io.taken, io'.taken)
  <2>1. io.taken \in Seq(RdsByte)
    BY <1>2, ChainFacts
  <2> QED BY <1>6, <2>1, Prefix
<1>8. Rds!IsPrefix(io'.taken, Sent(io'))
  <2>1. /\ io'.taken \in Seq(RdsByte) /\ Contents(io'.busy) \in Seq(RdsByte)
    BY ChainFacts
  <2>2. Sent(io') = io'.taken \o Contents(io'.busy)
    BY EndedStream DEF Given
  <2> QED BY <2>1, <2>2, Prefix
<1>9. Rds!Take
  BY <1>2, <1>7, <1>8 DEF Rds!Take, Rds!Delivers, Sent
<1>10. Abstract
  BY <1>9 DEF Abstract, Rds!Next
<1> QED BY <1>5, <1>10 DEF Step, IInv

\* or has ended,
LEMMA ActivateAfter ==
  ASSUME IInv, Activate, fn = "finished"
  PROVE  Step
<1>1. /\ Good(io, dp, lib, fn, status) /\ Closed(io, dp, lib)
  BY DEF IInv, Good
<1>2. /\ io \in IoType /\ io.buf = NoBuf /\ io.avail = 0 /\ io.out = <<>>
      /\ io.free = <<>> /\ io.timer = "none" /\ ~io.delayed /\ ~dp.paused
  BY <1>1 DEF Closed
<1>3. /\ io' = [io EXCEPT !.active = TRUE] /\ fn' = fn
      /\ dp' = dp /\ lib' = lib /\ status' = status
  BY <1>2 DEF Activate, Drains
<1>4. /\ io' \in IoType /\ io'.buf = io.buf /\ io'.avail = io.avail
      /\ io'.out = io.out /\ io'.free = io.free /\ io'.timer = io.timer
      /\ io'.delayed = io.delayed /\ io'.taken = io.taken /\ io'.busy = io.busy
  BY <1>2, <1>3 DEF IoType
<1>5. Chain(io') = Chain(io)
  BY <1>4 DEF Chain
<1>6. /\ Sent(io') = Sent(io) /\ Held(io') = Held(io) /\ Count(io') = Count(io)
  BY <1>4, <1>5 DEF Sent, Held, Count
<1>7. /\ Held(io) <= Held(io) /\ Count(io) <= Count(io)
      /\ \E x \in Seq(RdsByte) : io.taken = io.taken \o x
  <2>1. Held(io) \in Int /\ Len(io.free) \in Nat /\ Len(Chain(io)) \in Nat
        /\ io.taken = io.taken \o <<>>
    BY <1>2, Sizes, ChainFacts
  <2>2. PICK k \in Nat : k = IF io.buf = NoBuf THEN 0 ELSE 1
    OBVIOUS
  <2>3. Count(io) = Len(io.free) + Len(Chain(io)) + k
    BY <2>2 DEF Count
  <2>4. Count(io) \in Int
    BY <2>1, <2>3
  <2>5. <<>> \in Seq(RdsByte)
    BY EmptySeq
  <2>6. \A a \in Int : a <= a
    OBVIOUS
  <2> QED BY <2>1, <2>4, <2>5, <2>6
<1> QED BY <1>2, <1>3, <1>4, <1>6, <1>7, AfterwardsStep

\* nginx goes on sending.
LEMMA NginxSendsStep ==
  ASSUME IInv, NginxSends
  PROVE  Step
<1>1. /\ fn = "finished" /\ fn' = fn /\ dp' = dp /\ lib' = lib /\ status' = status
  BY DEF NginxSends
<1>2. PICK x \in Positions(Chain(io)) :
        io' = [Taken(io, x[1], x[2]) EXCEPT !.free = <<>>, !.buffered = 0]
  BY DEF NginxSends
<1>3. Closed(io, dp, lib)
  BY <1>1 DEF IInv, Good
<1>4. /\ io \in IoType /\ io.buf = NoBuf /\ io.avail = 0
      /\ io.timer = "none" /\ ~io.delayed
  BY <1>3 DEF Closed
<1>5. <<x[1], x[2]>> \in Positions(Chain(io))
  <2>1. \/ x = <<Len(Chain(io)), 0>>
        \/ \E m \in 0..(Len(Chain(io)) - 1) :
             x \in {m} \X (0..(Len(Chain(io)[m + 1].data) - 1))
    BY DEF Positions
  <2>2. x = <<x[1], x[2]>>
    BY <2>1
  <2> QED BY <2>2
<1>6. PICK q : q = Taken(io, x[1], x[2])
  OBVIOUS
<1>7. /\ Moves(io, q) /\ q \in IoType /\ q.timer = io.timer
      /\ q.delayed = io.delayed
  BY <1>4, <1>5, <1>6, TakenMoves
<1>8. /\ Chain(q) = q.busy /\ Sent(q) = Sent(io) /\ Held(q) <= Held(io)
      /\ Count(q) = Count(io)
      /\ \E y \in Seq(RdsByte) : q.taken = io.taken \o y
  BY <1>4, <1>7, MovesKeep
<1>9. q.buf = io.buf /\ q.avail = io.avail /\ q.out = <<>>
  BY <1>7 DEF Moves
<1>10. io' = [q EXCEPT !.free = <<>>, !.buffered = 0]
  BY <1>2, <1>6
<1>11. /\ io' \in IoType /\ io'.free = <<>> /\ io'.buf = q.buf
       /\ io'.avail = q.avail /\ io'.out = q.out /\ io'.timer = q.timer
       /\ io'.delayed = q.delayed /\ io'.taken = q.taken /\ io'.busy = q.busy
  <2>1. <<>> \in Seq(Nat)
    BY EmptySeq
  <2> QED BY <1>7, <1>10, <2>1 DEF IoType
<1>12. Chain(io') = Chain(q)
  BY <1>11 DEF Chain
<1>13. Sent(io') = Sent(q) /\ Held(io') = Held(q)
  BY <1>11, <1>12 DEF Sent, Held
<1>14. Count(io') <= Count(q)
  <2>1. PICK k \in Nat : k = IF q.buf = NoBuf THEN 0 ELSE 1
    OBVIOUS
  <2>2. Count(q) = Len(q.free) + Len(Chain(q)) + k
    BY <2>1 DEF Count
  <2>3. Count(io') = Len(io'.free) + Len(Chain(q)) + k
    BY <1>11, <1>12, <2>1 DEF Count
  <2>4. Len(io'.free) = 0
    BY <1>11, EmptySeq
  <2>5. Len(q.free) \in Nat /\ Len(Chain(q)) \in Nat
    BY <1>7, Sizes, ChainFacts
  <2> QED BY <2>1, <2>2, <2>3, <2>4, <2>5
<1>15. Sent(io') = Sent(io) /\ Held(io') <= Held(io) /\ Count(io') <= Count(io)
  BY <1>8, <1>13, <1>14
<1>16. \E y \in Seq(RdsByte) : io'.taken = io.taken \o y
  BY <1>8, <1>11
<1>17. /\ io'.buf = NoBuf /\ io'.avail = 0 /\ io'.out = <<>>
       /\ io'.timer = "none" /\ ~io'.delayed
  BY <1>4, <1>7, <1>9, <1>11
<1> QED BY <1>1, <1>11, <1>15, <1>16, <1>17, AfterwardsStep

\* The request ends when its header has been sent.
LEMMA EndingWithHeader ==
  ASSUME NEW q, NEW o, Ending(q, o), NEW p, p = [o EXCEPT !.header_sent = TRUE]
  PROVE  Ending(q, p) /\ Given(p) = Given(o) /\ p.header_sent
<1>1. o \in IoType
  BY DEF Ending
<1>2. /\ p \in IoType /\ p.taken = o.taken /\ p.busy = o.busy
      /\ p.active = o.active /\ p.header_sent
  BY <1>1 DEF IoType
<1>3. Given(p) = Given(o)
  BY <1>2 DEF Given
<1> QED BY <1>2, <1>3 DEF Ending

\* upstream_drizzle_done.
LEMMA DoneStep ==
  ASSUME IInv, Done
  PROVE  Step
<1>1. fn = "done" /\ lib' = lib
  BY DEF Done
<1>2. /\ io \in IoType /\ LibOK(lib) /\ Stored(io) /\ Client(io) /\ io.seen_end
  BY <1>1, OpenFacts
<1>3. LibOK(lib') /\ lib'.answered = lib.answered /\ fn # "finished"
  BY <1>1, <1>2
<1>4. ASSUME NEW o \in OutputBufs(io),
             Ends([o EXCEPT !.header_sent = TRUE], "whole")
      PROVE  Step
  <2>1. Passes(io, o) /\ o.buf.data = <<>>
    BY <1>2, OutputBufsPasses
  <2>2. Ending(io, o)
    BY <1>2, <2>1, PassesEnding
  <2>3. PICK p : p = [o EXCEPT !.header_sent = TRUE]
    OBVIOUS
  <2>4. Ending(io, p) /\ Given(p) = Given(o)
    BY <2>2, <2>3, EndingWithHeader
  <2>5. Given(o) = Sent(io)
    <3>1. o.out = <<>> /\ Sent(o) = Sent(io) /\ o \in IoType
      BY <2>1 DEF Passes, Stored
    <3>2. Chain(o) = o.busy /\ Given(o) \in Seq(RdsByte)
      BY <3>1, ChainFacts
    <3>3. Sent(o) = Given(o) \o <<>>
      BY <2>1, <3>2 DEF Sent, Given
    <3> QED BY <3>1, <3>2, <3>3, ConcatEmptySeq
  <2>6. Ends(p, "whole")
    BY <1>4, <2>3
  <2> QED BY <1>1, <1>3, <2>4, <2>5, <2>6, EndsStep
<1>5. ASSUME NEW o \in OutputBufsFails(io),
             Ends([o EXCEPT !.header_sent = TRUE], "cut")
      PROVE  Step
  <2>1. Ending(io, o)
    BY <1>2, OutputBufsFailsEnding
  <2>2. PICK p : p = [o EXCEPT !.header_sent = TRUE]
    OBVIOUS
  <2>3. Ending(io, p)
    BY <2>1, <2>2, EndingWithHeader
  <2>4. Ends(p, "cut")
    BY <1>5, <2>2
  <2> QED BY <1>3, <2>3, <2>4, EndsStep
<1> QED BY <1>4, <1>5 DEF Done

\* recv_cols,
LEMMA RecvColsStep ==
  ASSUME IInv, RecvCols
  PROVE  Step
<1>1. CASE OutputReady("recv_cols", "read_col")
  <2>1. fn = "recv_cols"
    BY <1>1 DEF OutputReady
  <2>2. Agrees(fn, dp, lib)
    BY <2>1, OpenFacts
  <2>3. Agrees("read_col", dp, lib)
    BY <2>1, <2>2 DEF Agrees
  <2> QED BY <1>1, <2>3, ReadyStep
<1>2. CASE OutputCol
  BY <1>2, ColumnEncoded
<1>3. CASE ColumnsEnd
  BY <1>3, ColumnsRead
<1>4. CASE fn = "read_col" /\ Waits
  BY <1>4, WaitsStep
<1>5. CASE fn = "read_col" /\ ReadFails
  BY <1>5, ReadFailsStep
<1> QED BY <1>1, <1>2, <1>3, <1>4, <1>5 DEF RecvCols

\* and recv_rows.
LEMMA RecvRowsStep ==
  ASSUME IInv, RecvRows
  PROVE  Step
<1>1. CASE OutputReady("recv_rows", IF dp.row THEN "recv_fields" ELSE "read_row")
  <2>1. fn = "recv_rows"
    BY <1>1 DEF OutputReady
  <2>2. Agrees(fn, dp, lib) /\ dp \in DpType
    BY <2>1, OpenFacts
  <2>3. CASE dp.row
    <3>1. Agrees("recv_fields", dp, lib)
      BY <2>1, <2>2, <2>3 DEF Agrees
    <3>2. OutputReady("recv_rows", "recv_fields")
      BY <1>1, <2>3
    <3> QED BY <3>1, <3>2, ReadyStep
  <2>4. CASE ~dp.row
    <3>1. Agrees("read_row", dp, lib)
      BY <2>1, <2>2, <2>4 DEF Agrees
    <3>2. OutputReady("recv_rows", "read_row")
      BY <1>1, <2>4
    <3> QED BY <3>1, <3>2, ReadyStep
  <2> QED BY <2>3, <2>4
<1>2. CASE OutputReady("recv_fields", "read_field")
  <2>1. fn = "recv_fields"
    BY <1>2 DEF OutputReady
  <2>2. Agrees(fn, dp, lib)
    BY <2>1, OpenFacts
  <2>3. Agrees("read_field", dp, lib)
    BY <2>1, <2>2 DEF Agrees
  <2> QED BY <1>2, <2>3, ReadyStep
<1>3. CASE OutputRow
  BY <1>3, RowEncoded
<1>4. CASE RowsEnd
  BY <1>4, RowsEndEncoded
<1>5. CASE FieldRead
  BY <1>5, FieldEncoded
<1>6. CASE RowEnds
  BY <1>6, RowEndsStep
<1>7. CASE fn \in {"read_row", "read_field"} /\ Waits
  BY <1>7, WaitsStep
<1>8. CASE fn \in {"read_row", "read_field"} /\ ReadFails
  BY <1>8, ReadFailsStep
<1> QED BY <1>1, <1>2, <1>3, <1>4, <1>5, <1>6, <1>7, <1>8 DEF RecvRows

\* Nothing happens.
LEMMA NothingStep ==
  ASSUME IInv, UNCHANGED vars
  PROVE  Step
<1>1. io' = io /\ dp' = dp /\ lib' = lib /\ fn' = fn /\ status' = status
  BY DEF vars
<1>2. IInv'
  BY <1>1 DEF IInv
<1>3. Abstract
  <2>1. Rds!vars' = Rds!vars
    BY <1>1 DEF Rds!vars, Contents, Chain
  <2> QED BY <2>1 DEF Abstract
<1> QED BY <1>2, <1>3 DEF Step

\* Every step keeps the invariant, and is one of the abstract specification.
LEMMA NextStep ==
  ASSUME IInv, [Next]_vars
  PROVE  Step
<1>1. CASE SendQuery
  <2>1. CASE OutputResultHeader
    BY <2>1, HeaderEncoded
  <2>2. CASE fn = "send_query" /\ ReadFails
    BY <2>2, ReadFailsStep
  <2> QED BY <1>1, <2>1, <2>2 DEF SendQuery
<1>2. CASE RecvCols
  BY <1>2, RecvColsStep
<1>3. CASE RecvRows
  BY <1>3, RecvRowsStep
<1>4. CASE Flush
  BY <1>4, FlushStep
<1>5. CASE DrainOutput
  BY <1>5, DrainStep
<1>6. CASE Done
  BY <1>6, DoneStep
<1>7. CASE DbEvent
  BY <1>7, DbEventStep
<1>8. CASE Breaks
  BY <1>8, BreaksStep DEF Breaks
<1>9. CASE WriteEvent
  BY <1>9, WriteEventStep
<1>10. CASE DelayOver
  BY <1>10, DelayOverStep
<1>11. CASE Activate
  <2>1. fn \in {"wait", "finished"}
    BY <1>11 DEF Activate
  <2> QED BY <1>11, <2>1, ActivateStep, ActivateAfter
<1>12. CASE SendTimeout
  BY <1>12, SendTimeoutStep
<1>13. CASE NginxSends
  BY <1>13, NginxSendsStep
<1>14. CASE Terminated
  BY <1>14, NothingStep DEF Terminated
<1>15. CASE UNCHANGED vars
  BY <1>15, NothingStep
<1>16. CASE OtherOutput
  BY <1>16, OutOfTurnStep DEF OtherOutput
<1> QED BY <1>1, <1>2, <1>3, <1>4, <1>5, <1>6, <1>7, <1>8, <1>9, <1>10, <1>11,
           <1>12, <1>13, <1>14, <1>15, <1>16 DEF Next, CpuStep

\* The invariant holds at first,
LEMMA InitGood ==
  ASSUME Init
  PROVE  IInv
<1>1. PICK b : b = NoBuf
  OBVIOUS
<1>2. /\ io \in [buf : {b}, avail : {0}, out : {<<>>}, busy : {<<>>},
                 free : {<<>>}, buffered : {0}, blocked : {FALSE},
                 seen_end : {FALSE}, header_sent : {FALSE}, taken : {<<>>},
                 active : BOOLEAN, delayed : {FALSE}, timer : {"none"}]
      /\ dp = [state |-> "send_query", row |-> FALSE, paused |-> FALSE]
      /\ lib = [cols |-> 0, col |-> 0, row |-> 0, field |-> 0, offset |-> 0,
                total |-> 0, answered |-> FALSE]
      /\ fn = "send_query" /\ status = "open"
  BY <1>1 DEF Init
<1>3. /\ b \in [cap : Nat, data : Seq(RdsByte)] /\ b.cap = 0 /\ b.data = <<>>
      /\ <<>> \in Seq(Buffer) /\ <<>> \in Seq(Nat) /\ <<>> \in Seq(RdsByte)
  BY <1>1, EmptySeq DEF NoBuf
<1>4. /\ io.buf = NoBuf /\ io.avail = 0 /\ io.out = <<>> /\ io.busy = <<>>
      /\ io.free = <<>> /\ io.buffered = 0 /\ ~io.seen_end /\ ~io.header_sent
      /\ io.taken = <<>> /\ ~io.delayed /\ io.timer = "none" /\ io.blocked = FALSE
  BY <1>1, <1>2
<1>5. io \in IoType
  BY <1>2, <1>3 DEF IoType
<1>6. Chain(io) = <<>>
  <2>1. Chain(io) = <<>> \o <<>>
    BY <1>4 DEF Chain
  <2> QED BY <1>3, <2>1, ConcatEmptySeq
<1>7. io.buf.data = <<>> /\ io.buf.cap = 0
  BY <1>4 DEF NoBuf
<1>8. Stored(io)
  BY <1>3, <1>4, <1>5, <1>6, <1>7, CapacityOfNone, EmptySeq DEF Stored
<1>9. Client(io) /\ Filled(io)
  BY <1>4 DEF Client, Filled
<1>10. Sent(io) = <<>> /\ Held(io) = 0
  <2>1. <<>> \o <<>> = <<>>
    BY <1>3, ConcatEmptySeq
  <2>2. Contents(Chain(io)) = <<>>
    BY <1>6, ContentsOfNone
  <2> QED BY <1>4, <1>7, <2>1, <2>2, EmptySeq DEF Sent, Held
<1>11. Count(io) = 0
  <2>1. Len(io.free) = 0 /\ Len(Chain(io)) = 0
    BY <1>3, <1>4, <1>6, EmptySeq
  <2>2. Count(io) = 0 + 0 + 0
    BY <1>4, <2>1 DEF Count
  <2> QED BY <2>2
<1>12. Bounded(io)
  <2>1. 0 < MaxBuffered + MaxAtom
    BY Bounds, OutputAssumption
  <2>2. 0 <= MaxBuffers
    <3>1. 0 + 1 <= MaxBuffers
      <4>1. 0 < MaxBuffered /\ BufSize * 0 <= 0
        BY OutputAssumption
      <4> QED BY <4>1, FewBuffers
    <3> QED BY <3>1, Bounds
  <2> QED BY <1>10, <1>11, <2>1, <2>2 DEF Bounded
<1>13. /\ dp \in DpType /\ LibOK(lib) /\ Agrees(fn, dp, lib)
       /\ Pausing(io, fn, dp)
  <2>1. 0 <= MaxField
    BY OutputAssumption
  <2>2. dp \in DpType
    BY <1>2 DEF DpType
  <2>3. LibOK(lib)
    BY <1>2, <2>1 DEF LibOK
  <2>4. Agrees(fn, dp, lib)
    BY <1>2 DEF Agrees
  <2>5. Pausing(io, fn, dp)
    BY <1>2, <1>4 DEF Pausing
  <2> QED BY <2>2, <2>3, <2>4, <2>5
<1>14. Streaming(io, fn, dp, lib)
  <2>1. Rds!Parse(Sent(io)) = Expected(fn, dp, lib)
    BY <1>2, <1>10, ParseOfNone DEF Expected
  <2>2. PendingOutput(io) < MaxBuffered
    <3>1. PendingOutput(io) = 0 + 0
      BY <1>4, <1>7, EmptySeq DEF PendingOutput
    <3>2. 0 < MaxBuffered
      BY OutputAssumption
    <3> QED BY <3>1, <3>2
  <2> QED BY <1>2, <1>4, <1>8, <1>9, <2>1, <2>2 DEF Streaming
<1> QED BY <1>2, <1>12, <1>13, <1>14 DEF IInv, Good, Functions

\* and the abstract specification is where it begins.
LEMMA InitAbstract ==
  ASSUME Init
  PROVE  Rds!Init
<1>1. io.taken = <<>> /\ io.out = <<>> /\ io.busy = <<>> /\ io.buf = NoBuf
  BY DEF Init
<1>2. <<>> \o <<>> = <<>>
  BY EmptySeq, ConcatEmptySeq
<1>3. Chain(io) = <<>>
  BY <1>1, <1>2 DEF Chain
<1>4. io.taken \o Contents(Chain(io)) \o io.buf.data = <<>>
  BY <1>1, <1>2, <1>3, ContentsOfNone DEF NoBuf
<1>5. lib.answered = FALSE /\ status = "open"
  BY DEF Init
<1> QED BY <1>1, <1>4, <1>5 DEF Rds!Init

\* The invariant is inductive and holds in every reachable state: it relates
\* every function of the module to where a reader of the stream is, and says of
\* the buffers what every operation on them relies on.
THEOREM Invariance == Spec => []IInv
<1>1. Init => IInv
  BY InitGood
<1>2. IInv /\ [Next]_vars => IInv'
  BY NextStep DEF Step
<1> QED BY <1>1, <1>2, PTL DEF Spec

\* What the invariant says of every request.
LEMMA GoodNow ==
  ASSUME IInv
  PROVE  /\ io \in IoType /\ dp \in DpType /\ LibOK(lib) /\ Bounded(io)
         /\ fn \in Functions /\ status \in {"open", "whole", "cut", "page"}
         /\ (fn = "finished" <=> status # "open")
         /\ fn # "finished" => /\ Stored(io) /\ Client(io)
                               /\ Pausing(io, fn, dp)
         /\ fn = "finished" => io.buf = NoBuf
<1>1. Good(io, dp, lib, fn, status)
  BY DEF IInv
<1>2. /\ dp \in DpType /\ LibOK(lib) /\ Bounded(io)
      /\ fn \in Functions /\ status \in {"open", "whole", "cut", "page"}
      /\ (fn = "finished" <=> status # "open")
  BY <1>1 DEF Good
<1>3. io \in IoType
  BY <1>1, Legality
<1>4. fn # "finished" => Stored(io) /\ Client(io) /\ Pausing(io, fn, dp)
  BY <1>1 DEF Good, Streaming
<1>5. fn = "finished" => io.buf = NoBuf
  BY <1>1 DEF Good, Closed
<1> QED BY <1>2, <1>3, <1>4, <1>5

\* The stream is made of bytes of the format, and the counters of the room left
\* and of the output that is buffered are never negative.
THEOREM TypeCorrect == Spec => []TypeOK
<1>1. ASSUME IInv PROVE TypeOK
  <2>1. /\ io \in IoType /\ dp \in DpType /\ LibOK(lib) /\ fn \in Functions
        /\ status \in {"open", "whole", "cut", "page"}
    BY <1>1, GoodNow
  <2>2. /\ io.taken \in Seq([t : {"head", "col", "row", "length", "text"}, n : Int])
        /\ io.avail \in Nat /\ io.buffered \in Nat /\ io.free \in Seq(Nat)
        /\ io.blocked \in BOOLEAN /\ io.seen_end \in BOOLEAN
        /\ io.header_sent \in BOOLEAN /\ io.active \in BOOLEAN
        /\ io.delayed \in BOOLEAN
        /\ io.timer \in {"none", "send", "delay", "expired"}
    BY <2>1 DEF IoType, RdsByte
  <2>3. Range(io.free) \subseteq Nat
    BY <2>2 DEF Range
  <2>4. \A f \in {"blocked", "seen_end", "header_sent", "active", "delayed"} :
          io[f] \in BOOLEAN
    BY <2>2
  <2>5. lib.offset \in 0..MaxField /\ lib.field \in 0..lib.cols
    BY <2>1, OutputAssumption DEF LibOK
  <2> QED BY <2>1, <2>2, <2>3, <2>4, <2>5 DEF TypeOK, DpType
<1>2. IInv => TypeOK
  BY <1>1
<1> QED BY <1>2, Invariance, PTL

\* No atom is written past the end of its buffer, also when request_mem reuses a
\* buffer of free_bufs that was allocated for a shorter one.
THEOREM AtomsFit == Spec => []NeverOverrun
<1>1. ASSUME IInv PROVE NeverOverrun
  <2>1. io \in IoType
    BY <1>1, GoodNow
  <2>2. Len(io.buf.data) <= io.buf.cap
    <3>1. CASE fn = "finished"
      <4>1. io.buf.data = <<>> /\ io.buf.cap = 0
        BY <1>1, <3>1, GoodNow DEF NoBuf
      <4> QED BY <4>1, EmptySeq
    <3>2. CASE fn # "finished"
      <4>1. io.avail + Len(io.buf.data) = io.buf.cap
        BY <1>1, <3>2, GoodNow DEF Stored
      <4>2. io.avail \in Nat /\ Len(io.buf.data) \in Nat
        BY <2>1, ChainFacts DEF IoType
      <4> QED BY <4>1, <4>2
    <3> QED BY <3>1, <3>2
  <2>3. \A b \in Range(Chain(io)) : Len(b.data) <= b.cap
    <3>1. Chain(io) \in Seq(Buffer)
      BY <2>1, ChainFacts
    <3>2. \A b \in Range(Chain(io)) : b \in Buffer
      BY <3>1 DEF Range
    <3> QED BY <3>2 DEF Buffer
  <2> QED BY <2>2, <2>3 DEF NeverOverrun, Buffers
<1>2. IInv => NeverOverrun
  BY <1>1
<1> QED BY <1>2, Invariance, PTL

\* avail_out and buffered_output, which are kept by increments and decrements,
\* are what counting again would give.
THEOREM CountersStayExact == Spec => []CountersExact
<1>1. ASSUME IInv PROVE CountersExact
  <2> SUFFICES ASSUME status = "open"
               PROVE  /\ io.avail = io.buf.cap - Len(io.buf.data)
                      /\ io.buffered = Capacity(Chain(io))
    BY DEF CountersExact
  <2>1. io \in IoType /\ Stored(io)
    BY <1>1, GoodNow
  <2>2. /\ io.avail + Len(io.buf.data) = io.buf.cap
        /\ io.buffered = Capacity(Chain(io))
    BY <2>1 DEF Stored
  <2>3. io.avail \in Nat /\ Len(io.buf.data) \in Nat
    BY <2>1, ChainFacts DEF IoType
  <2> QED BY <2>2, <2>3
<1>2. IInv => CountersExact
  BY <1>1
<1> QED BY <1>2, Invariance, PTL

\* What is pending for a client exceeds drizzle_max_buffered by less than one
\* atom, for any sizes: the threshold counts capacities, which cover the bytes.
THEOREM PendingStaysBounded == Spec => []PendingBounded
<1>1. IInv => PendingBounded
  BY GoodNow DEF Bounded, Held, PendingBounded
<1> QED BY <1>1, Invariance, PTL

\* A request never has more buffers than fit below the threshold and two, for
\* any number of columns, rows and bytes.
THEOREM BuffersStayFew == Spec => []BuffersReused
<1>1. IInv => BuffersReused
  BY GoodNow DEF Bounded, Count, MaxBuffers, BuffersReused
<1> QED BY <1>1, Invariance, PTL

\* A stream that reaches the client up to its end is the whole answer of the
\* database: what a failure cut short does not end where the format ends.
THEOREM TruncationIsTold == Spec => []TruncationDetectable
<1>1. ASSUME IInv, Rds!Accepts(io.taken) PROVE lib.answered
  <2>1. Good(io, dp, lib, fn, status)
    BY <1>1 DEF IInv
  <2>2. /\ io \in IoType /\ Rds!Legal(Sent(io))
        /\ Rds!Accepts(Sent(io)) => lib.answered
    BY <2>1, Legality
  <2>3. /\ io.taken \in Seq(RdsByte) /\ Contents(Chain(io)) \in Seq(RdsByte)
        /\ io.buf.data \in Seq(RdsByte)
    BY <2>2, ChainFacts
  <2>4. PICK rest \in Seq(RdsByte) : Sent(io) = io.taken \o rest
    <3>1. Sent(io) = io.taken \o (Contents(Chain(io)) \o io.buf.data)
      BY <2>3, Assoc DEF Sent
    <3>2. Contents(Chain(io)) \o io.buf.data \in Seq(RdsByte)
      BY <2>3, Concats
    <3> QED BY <3>1, <3>2
  <2>5. rest = <<>>
    BY <1>1, <2>2, <2>3, <2>4, Beginnings
  <2>6. Sent(io) = io.taken
    BY <2>3, <2>4, <2>5, ConcatEmptySeq
  <2> QED BY <1>1, <2>2, <2>6
<1>2. IInv => TruncationDetectable
  BY <1>1 DEF TruncationDetectable
<1> QED BY <1>2, Invariance, PTL

\* In every wait of a request whose turn has come the client's send_timeout runs
\* exactly if the request is paused for the client and nothing delays it. Out of
\* turn only a paused request has it, running or run out.
THEOREM TimersFollowPauses == Spec => []TimerFollowsPause
<1>1. ASSUME IInv, fn = "wait"
      PROVE  /\ io.active => (io.timer = "send" <=> dp.paused /\ ~io.delayed)
             /\ ~io.active /\ io.timer # "none" => dp.paused
             /\ io.timer = "expired" => ~io.active
             /\ io.timer = "delay" <=> io.delayed
  <2>1. Client(io) /\ Pausing(io, fn, dp) /\ io \in IoType
    BY <1>1, GoodNow
  <2>2. (io.timer = "delay" <=> io.delayed) /\ (io.delayed => io.active)
    BY <2>1 DEF Client
  <2>3. /\ io.timer \in {"send", "expired"} => dp.paused
        /\ dp.paused /\ io.active /\ ~io.delayed => io.timer = "send"
        /\ io.timer = "expired" => ~io.active
    BY <1>1, <2>1 DEF Pausing
  <2>4. io.timer \in {"none", "send", "delay", "expired"}
    BY <2>1 DEF IoType
  <2>5. io.timer = "send" => ~io.delayed
    BY <2>2
  <2>6. ~io.active /\ io.timer # "none" => dp.paused
    BY <2>2, <2>3, <2>4
  <2> QED BY <2>2, <2>3, <2>5, <2>6
<1>2. IInv => TimerFollowsPause
  BY <1>1 DEF TimerFollowsPause
<1> QED BY <1>2, Invariance, PTL

\* Every step of the module is a step of the abstract stream or leaves it alone:
\* bytes are never lost, doubled, out of order, or outside the format.
THEOREM ImplementsStream == Spec => ImplementsRdsStream
<1>1. Init => Rds!Init
  BY InitAbstract
<1>2. IInv /\ [Next]_vars => [Rds!Next]_(Rds!vars)
  BY NextStep DEF Step, Abstract
<1>3. Spec => Rds!Spec
  BY <1>1, <1>2, Invariance, PTL DEF Spec, Rds!Spec
<1> QED BY <1>3 DEF ImplementsRdsStream

=============================================================================
