--------------------------- MODULE Config_proofs ----------------------------
(***************************************************************************)
(* Theorems about Config, for any methods, upstreams and sizes, and any    *)
(* number of directives.                                                   *)
(*                                                                         *)
(* The properties speak of the directives as they are written and of the   *)
(* last request; the invariant says what of the directives every block's   *)
(* configuration holds, before the merge and after it.                     *)
(***************************************************************************)
EXTENDS Config, TLAPS

\* Directives, and the configuration of a block, as they are typed.
Directive ==
  [name : {"query"}, methods : SUBSET Methods]
    \cup [name : {"pass"}, target : Upstreams \cup {"$host"}]
    \cup [name : {"buf", "max"}, size : Nat]

Query == [key : SUBSET Methods, sql : Nat \X Nat]

SizeOrUnset == Nat \cup {Unset}

LocConf ==
  [default_query : Nat \X Nat,
   queries : Seq(Query),
   methods_set : SUBSET Methods,
   buf_size : SizeOrUnset, max_buffered : SizeOrUnset,
   complex_target : {"unset", "null", "$host"},
   upstream : Upstreams \cup {"null"}, handler : BOOLEAN]

Typed ==
  /\ conf \in [Blocks -> LocConf]
  /\ written \in [Blocks -> Seq(Directive)]
  /\ phase \in {"parse", "run", "refused"}
  /\ answer.status \in {"none", "405", "500", "sent", "crash"}
  /\ answer.status # "none" => answer.block \in Blocks

\* The drizzle_pass directives of a block.
Passes(b) == {i \in DOMAIN written[b] : written[b][i].name = "pass"}

\* A block's target is the one its own last drizzle_pass names.
TargetKept(b) ==
  /\ conf[b].handler <=> Passes(b) # {}
  /\ conf[b].complex_target = "unset" <=> Passes(b) = {}
  /\ Passes(b) # {} =>
       \E i \in Passes(b) :
         /\ \A j \in Passes(b) : j <= i
         /\ IF written[b][i].target = "$host"
            THEN conf[b].complex_target = "$host"
            ELSE /\ conf[b].complex_target = "null"
                 /\ conf[b].upstream = written[b][i].target

TargetsKept == \A b \in Blocks : TargetKept(b)

\* The queries among the directives of block b, as the C code keeps them.
QueriesIn(b, directives) ==
  {[key |-> directives[i].methods, sql |-> <<b, i>>] :
     i \in {j \in DOMAIN directives : directives[j].name = "query"}}

WrittenQueries(b) == IF b = 0 THEN {} ELSE QueriesIn(b, written[b])

\* Configuration c holds the queries of set W: the default query is the one for
\* no method, and no two of the others are for the same method.
QueriesOf(c, W) ==
  /\ {w \in W : w.key = {}} = IF c.default_query = NoQuery THEN {}
                              ELSE {[key |-> {}, sql |-> c.default_query]}
  /\ {c.queries[j] : j \in DOMAIN c.queries} = {w \in W : w.key # {}}
  /\ \A i, j \in DOMAIN c.queries :
       i # j => c.queries[i].key \cap c.queries[j].key = {}
  /\ \A m \in Methods : m \in c.methods_set <=>
       \E j \in DOMAIN c.queries : m \in c.queries[j].key

\* Before the merge a block has its own queries, afterwards those of the block
\* it takes them from.
QueriesKept ==
  \A b \in Blocks :
    /\ phase = "parse" => QueriesOf(conf[b], WrittenQueries(b))
    /\ phase = "run" => QueriesOf(conf[b], WrittenQueries(Source(b, "query")))

\* The sizes are defined and fit once the blocks are merged.
SizesKept == phase = "run" => SizesUsable

\* What is said of the last request; while directives are read there is none.
AnswerKept ==
  /\ answer.status # "none" => phase = "run"
  /\ QueryAsWritten
  /\ TargetAsWritten
  /\ HandlerHasTarget

IInv ==
  /\ Typed
  /\ TargetsKept
  /\ QueriesKept
  /\ SizesKept
  /\ AnswerKept

-----------------------------------------------------------------------------
(* Types.                                                                  *)

\* CreateLocConf and Init are well typed, and no block has anything.
LEMMA InitTyped == Init => Typed
BY DEF Init, Typed, CreateLocConf, LocConf, SizeOrUnset, NoQuery, Blocks,
       NoAnswer, Unset

\* A merged configuration is well typed, with sizes that are defined.
LEMMA MergeTyped ==
  ASSUME NEW prev \in LocConf, NEW own \in LocConf
  PROVE  /\ MergeLocConf(prev, own) \in LocConf
         /\ MergeLocConf(prev, own).buf_size \in Nat
         /\ MergeLocConf(prev, own).max_buffered \in Nat
<1>1. MergeQueries(prev, own) \in LocConf
  BY DEF MergeQueries, LocConf
<1>2. \A own2 \in LocConf :
        /\ MergeSize(own2.buf_size, prev.buf_size, PageSize) \in Nat
        /\ MergeSize(own2.max_buffered, prev.max_buffered, DefaultMax) \in Nat
  BY ConfigAssumption DEF MergeSize, LocConf, SizeOrUnset, DefaultMax, Unset
<1> QED BY <1>1, <1>2 DEF MergeLocConf, MergeSizes, LocConf, SizeOrUnset

\* One directive more is well typed.
LEMMA ReadsTyped ==
  ASSUME Typed, NEW b \in Blocks, NEW d \in Directive, NEW c \in LocConf,
         Reads(b, d, c)
  PROVE  Typed'
BY DEF Typed, Reads

\* What it changes: the end of the block's directives, and its configuration.
LEMMA ReadsFrame ==
  ASSUME Typed, NEW b \in Blocks, NEW d \in Directive, NEW c \in LocConf,
         Reads(b, d, c)
  PROVE  /\ phase = "parse" /\ phase' = "parse" /\ answer' = answer
         /\ conf'[b] = c
         /\ DOMAIN written'[b] = DOMAIN written[b] \cup {Len(written[b]) + 1}
         /\ DOMAIN written[b] = 1..Len(written[b]) /\ Len(written[b]) \in Nat
         /\ \A i \in DOMAIN written[b] : written'[b][i] = written[b][i]
         /\ written'[b][Len(written[b]) + 1] = d
         /\ \A o \in Blocks \ {b} :
              conf'[o] = conf[o] /\ written'[o] = written[o]
<1>1. written[b] \in Seq(Directive) /\ written'[b] = Append(written[b], d)
  BY DEF Typed, Reads
<1>2. /\ DOMAIN written[b] = 1..Len(written[b]) /\ Len(written[b]) \in Nat
      /\ DOMAIN written'[b] = 1..(Len(written[b]) + 1)
      /\ \A i \in 1..Len(written[b]) : written'[b][i] = written[b][i]
      /\ written'[b][Len(written[b]) + 1] = d
  BY <1>1
<1> QED BY <1>2 DEF Typed, Reads

-----------------------------------------------------------------------------
(* Reading a directive.                                                    *)

\* The targets are kept if this is so for the block of the directive.
LEMMA ReadsTargets ==
  ASSUME Typed, TargetsKept,
         NEW b \in Blocks, NEW d \in Directive, NEW c \in LocConf,
         Reads(b, d, c),
         \/ /\ d.name # "pass"
            /\ c.handler = conf[b].handler
            /\ c.complex_target = conf[b].complex_target
            /\ c.upstream = conf[b].upstream
         \/ /\ d.name = "pass"
            /\ c.handler = TRUE
            /\ IF d.target = "$host" THEN c.complex_target = "$host"
               ELSE c.complex_target = "null" /\ c.upstream = d.target
  PROVE  TargetsKept'
<1> USE ReadsFrame
<1>1. ASSUME NEW o \in Blocks \ {b} PROVE TargetKept(o)'
  <2>1. Passes(o)' = Passes(o)
    BY DEF Passes
  <2> QED BY <2>1 DEF TargetsKept, TargetKept
<1>2. CASE d.name # "pass"
  <2>1. Passes(b)' = Passes(b)
    BY <1>2 DEF Passes
  <2>2. \A i \in Passes(b) : written'[b][i] = written[b][i]
    BY DEF Passes
  <2>3. TargetKept(b)'
    BY <1>2, <2>1, <2>2 DEF TargetsKept, TargetKept
  <2> QED BY <1>1, <2>3 DEF TargetsKept
<1>3. CASE d.name = "pass"
  <2>1. Passes(b)' = Passes(b) \cup {Len(written[b]) + 1}
    BY <1>3 DEF Passes
  <2>2. \A j \in Passes(b)' : j <= Len(written[b]) + 1
    BY <2>1 DEF Passes
  <2>3. /\ conf'[b].handler = TRUE
        /\ conf'[b].complex_target # "unset"
        /\ IF written'[b][Len(written[b]) + 1].target = "$host"
           THEN conf'[b].complex_target = "$host"
           ELSE /\ conf'[b].complex_target = "null"
                /\ conf'[b].upstream = written'[b][Len(written[b]) + 1].target
    BY <1>3
  <2>4. TargetKept(b)'
    BY <2>1, <2>2, <2>3 DEF TargetKept
  <2> QED BY <1>1, <2>4 DEF TargetsKept
<1> QED BY <1>2, <1>3

\* A default query is added.
LEMMA AddDefault ==
  ASSUME NEW c, NEW d, NEW W, NEW p, QueriesOf(c, W),
         c.default_query = NoQuery, p # NoQuery, d.default_query = p,
         d.queries = c.queries, d.methods_set = c.methods_set
  PROVE  QueriesOf(d, W \cup {[key |-> {}, sql |-> p]})
BY DEF QueriesOf

\* A query is added for methods that had none.
LEMMA AddMethods ==
  ASSUME NEW c \in LocConf, NEW d, NEW W, NEW p, QueriesOf(c, W),
         NEW methods \in SUBSET Methods, methods # {},
         c.methods_set \cap methods = {}, d.default_query = c.default_query,
         d.queries = Append(c.queries, [key |-> methods, sql |-> p]),
         d.methods_set = c.methods_set \cup methods
  PROVE  QueriesOf(d, W \cup {[key |-> methods, sql |-> p]})
<1> DEFINE old == c.queries
           n == Len(old) + 1
           new == [key |-> methods, sql |-> p]
<1>1. /\ DOMAIN d.queries = DOMAIN old \cup {n}
      /\ n \notin DOMAIN old
      /\ \A j \in DOMAIN old : d.queries[j] = old[j]
      /\ d.queries[n] = new
  <2>1. old \in Seq(Query)
    BY DEF LocConf
  <2> QED BY <2>1
<1>2. \A j \in DOMAIN old : old[j].key \subseteq c.methods_set
  <2>1. \A j \in DOMAIN old : old[j].key \subseteq Methods
    <3>1. old \in Seq(Query)
      BY DEF LocConf
    <3>2. \A j \in DOMAIN old : old[j] \in Query
      BY <3>1
    <3> QED BY <3>2 DEF Query
  <2>2. \A m \in Methods : m \in c.methods_set <=>
          \E j \in DOMAIN old : m \in old[j].key
    BY DEF QueriesOf
  <2> QED BY <2>1, <2>2
<1>3. /\ {w \in W : w.key = {}} = IF c.default_query = NoQuery THEN {}
                                  ELSE {[key |-> {}, sql |-> c.default_query]}
      /\ {old[j] : j \in DOMAIN old} = {w \in W : w.key # {}}
      /\ \A i, j \in DOMAIN old : i # j => old[i].key \cap old[j].key = {}
      /\ \A m \in Methods : m \in c.methods_set <=>
           \E j \in DOMAIN old : m \in old[j].key
  BY DEF QueriesOf
<1>4. new.key = methods
  OBVIOUS
<1> HIDE DEF old, n, new
<1>5. \A i, j \in DOMAIN d.queries :
        i # j => d.queries[i].key \cap d.queries[j].key = {}
  <2>1. \A j \in DOMAIN old : old[j].key \cap methods = {}
    BY <1>2
  <2> SUFFICES ASSUME NEW i \in DOMAIN old \cup {n},
                      NEW j \in DOMAIN old \cup {n}, i # j
               PROVE  d.queries[i].key \cap d.queries[j].key = {}
    BY <1>1
  <2>2. CASE i \in DOMAIN old /\ j \in DOMAIN old
    BY <1>1, <1>3, <2>2
  <2>3. CASE i = n
    BY <1>1, <1>4, <2>1, <2>3
  <2>4. CASE j = n
    BY <1>1, <1>4, <2>1, <2>4
  <2> QED BY <2>2, <2>3, <2>4
<1>6. \A m \in Methods : m \in d.methods_set <=>
        \E j \in DOMAIN d.queries : m \in d.queries[j].key
  BY <1>1, <1>3, <1>4
<1>7. {d.queries[j] : j \in DOMAIN d.queries}
        = {old[j] : j \in DOMAIN old} \cup {new}
  BY <1>1
<1>8. {w \in W \cup {new} : w.key # {}} = {w \in W : w.key # {}} \cup {new}
  BY <1>4
<1>9. {w \in W \cup {new} : w.key = {}} = {w \in W : w.key = {}}
  BY <1>4
<1> QED BY <1>3, <1>5, <1>6, <1>7, <1>8, <1>9 DEF QueriesOf, new

\* A directive adds a query to its block, or none, and none to the others.
LEMMA ReadsQueries ==
  ASSUME Typed, NEW b \in Blocks, NEW d \in Directive, NEW c \in LocConf,
         Reads(b, d, c)
  PROVE  /\ Place(b) # NoQuery
         /\ WrittenQueries(b)' =
              IF d.name = "query"
              THEN WrittenQueries(b) \cup {[key |-> d.methods, sql |-> Place(b)]}
              ELSE WrittenQueries(b)
         /\ \A o \in Blocks \ {b} : WrittenQueries(o)' = WrittenQueries(o)
<1> USE ReadsFrame
<1>1. b # 0
  BY DEF Blocks
<1>2. Place(b) # NoQuery
  BY <1>1 DEF Place, NoQuery
<1>3. ASSUME NEW o \in Blocks \ {b} PROVE WrittenQueries(o)' = WrittenQueries(o)
  <2>1. written'[o] = written[o]
    OBVIOUS
  <2> QED BY <2>1 DEF WrittenQueries
<1>4. \A w : w \in WrittenQueries(b) <=>
        \E i \in DOMAIN written[b] :
          /\ written[b][i].name = "query"
          /\ w = [key |-> written[b][i].methods, sql |-> <<b, i>>]
  BY <1>1 DEF WrittenQueries, QueriesIn
<1>5. \A w : w \in WrittenQueries(b)' <=>
        \E i \in DOMAIN written'[b] :
          /\ written'[b][i].name = "query"
          /\ w = [key |-> written'[b][i].methods, sql |-> <<b, i>>]
  BY <1>1 DEF WrittenQueries, QueriesIn
<1>6. CASE d.name # "query"
  <2>1. \A w : w \in WrittenQueries(b)' <=> w \in WrittenQueries(b)
    BY <1>4, <1>5, <1>6
  <2> QED BY <1>2, <1>3, <1>6, <2>1
<1>7. CASE d.name = "query"
  <2> DEFINE new == [key |-> d.methods, sql |-> Place(b)]
  <2>1. \A w : w \in WrittenQueries(b)' <=>
          w \in WrittenQueries(b) \cup {new}
    BY <1>4, <1>5, <1>7 DEF Place
  <2> QED BY <1>2, <1>3, <1>7, <2>1
<1> QED BY <1>6, <1>7

\* While directives are read, nothing has been answered or merged.
LEMMA ReadsKeep ==
  ASSUME IInv, NEW b \in Blocks, NEW d \in Directive, NEW c \in LocConf,
         Reads(b, d, c), TargetsKept', QueriesOf(c, WrittenQueries(b)')
  PROVE  IInv'
<1> USE ReadsFrame
<1>1. Typed'
  BY ReadsTyped DEF IInv
<1>2. QueriesKept'
  <2> SUFFICES ASSUME NEW o \in Blocks
               PROVE  QueriesOf(conf'[o], WrittenQueries(o)')
    BY DEF QueriesKept, IInv
  <2>1. CASE o = b
    BY <2>1 DEF IInv
  <2>2. CASE o # b
    <3>1. QueriesOf(conf[o], WrittenQueries(o))
      BY DEF QueriesKept, IInv
    <3>2. WrittenQueries(o)' = WrittenQueries(o)
      BY <2>2, ReadsQueries DEF IInv
    <3>3. conf'[o] = conf[o]
      BY <2>2 DEF IInv
    <3> QED BY <3>1, <3>2, <3>3
  <2> QED BY <2>1, <2>2
<1>3. SizesKept'
  BY DEF SizesKept, IInv
<1>4. AnswerKept'
  <2>1. answer'.status = "none"
    BY DEF IInv, AnswerKept, Typed
  <2> QED BY <2>1 DEF AnswerKept, QueryAsWritten, TargetAsWritten, HandlerHasTarget
<1> QED BY <1>1, <1>2, <1>3, <1>4 DEF IInv

\* nginx refusing the configuration leaves nothing to be kept.
LEMMA RefusesKeep == ASSUME IInv, phase = "parse", Refuses PROVE IInv'
<1> USE DEF Refuses
<1>1. Typed'
  BY DEF IInv, Typed
<1>2. TargetsKept'
  BY DEF IInv, TargetsKept, TargetKept, Passes
<1>3. QueriesKept' /\ SizesKept'
  BY DEF QueriesKept, SizesKept
<1>4. AnswerKept'
  <2>1. answer'.status = "none"
    BY DEF IInv, AnswerKept, Typed
  <2> QED BY <2>1 DEF AnswerKept, QueryAsWritten, TargetAsWritten, HandlerHasTarget
<1> QED BY <1>1, <1>2, <1>3, <1>4 DEF IInv

\* drizzle_query <sql>
LEMMA DefaultQueryKeeps ==
  ASSUME IInv, NEW b \in Blocks, DefaultQuery(b) PROVE IInv'
<1> DEFINE d == [name |-> "query", methods |-> {}]
           c == [conf[b] EXCEPT !.default_query = Place(b)]
<1>1. CASE conf[b].default_query = NoQuery /\ Reads(b, d, c)
  <2>1. d \in Directive
    BY DEF Directive
  <2>2. conf[b] \in LocConf /\ written[b] \in Seq(Directive)
    BY DEF IInv, Typed
  <2>3. Place(b) \in Nat \X Nat
    BY <2>2 DEF Place, Blocks
  <2>4. c \in LocConf
    BY <2>2, <2>3 DEF LocConf
  <2>5. phase = "parse" /\ QueriesOf(conf[b], WrittenQueries(b))
    BY <1>1 DEF Reads, IInv, QueriesKept
  <2>6. /\ Place(b) # NoQuery
        /\ WrittenQueries(b)' =
             WrittenQueries(b) \cup {[key |-> {}, sql |-> Place(b)]}
    BY <1>1, <2>1, <2>4, ReadsQueries DEF IInv
  <2>7. QueriesOf(c, WrittenQueries(b)')
    <3>1. /\ c.default_query = Place(b) /\ c.queries = conf[b].queries
          /\ c.methods_set = conf[b].methods_set
      BY <2>2 DEF LocConf
    <3> HIDE DEF c
    <3> QED BY <1>1, <2>5, <2>6, <3>1, AddDefault
  <2>8. TargetsKept'
    <3>1. /\ c.handler = conf[b].handler
          /\ c.complex_target = conf[b].complex_target
          /\ c.upstream = conf[b].upstream
      BY <2>2 DEF LocConf
    <3> QED BY <1>1, <2>1, <2>4, <3>1, ReadsTargets DEF IInv
  <2> HIDE DEF c, d
  <2> QED BY <1>1, <2>1, <2>4, <2>7, <2>8, ReadsKeep
<1>2. CASE phase = "parse" /\ Refuses
  BY <1>2, RefusesKeep
<1> QED BY <1>1, <1>2 DEF DefaultQuery

\* drizzle_query <method>... <sql>
LEMMA MethodQueryKeeps ==
  ASSUME IInv, NEW b \in Blocks, NEW methods \in SUBSET Methods, methods # {},
         MethodQuery(b, methods)
  PROVE  IInv'
<1> DEFINE d == [name |-> "query", methods |-> methods]
           q == [key |-> methods, sql |-> Place(b)]
           c == [conf[b] EXCEPT !.queries = Append(@, q),
                                !.methods_set = @ \cup methods]
<1>1. CASE conf[b].methods_set \cap methods = {} /\ Reads(b, d, c)
  <2>1. d \in Directive
    BY DEF Directive
  <2>2. conf[b] \in LocConf /\ written[b] \in Seq(Directive)
    BY DEF IInv, Typed
  <2>3. Place(b) \in Nat \X Nat
    BY <2>2 DEF Place, Blocks
  <2>4. c \in LocConf
    <3>1. q \in Query
      BY <2>3 DEF Query
    <3>2. Append(conf[b].queries, q) \in Seq(Query)
      BY <2>2, <3>1 DEF LocConf
    <3> QED BY <2>2, <3>2 DEF LocConf
  <2>5. phase = "parse" /\ QueriesOf(conf[b], WrittenQueries(b))
    BY <1>1 DEF Reads, IInv, QueriesKept
  <2>6. WrittenQueries(b)' = WrittenQueries(b) \cup {q}
    BY <1>1, <2>1, <2>4, ReadsQueries DEF IInv
  <2>7. QueriesOf(c, WrittenQueries(b)')
    <3>1. /\ c.default_query = conf[b].default_query
          /\ c.queries = Append(conf[b].queries, q)
          /\ c.methods_set = conf[b].methods_set \cup methods
      BY <2>2 DEF LocConf
    <3> HIDE DEF c
    <3>2. conf[b].methods_set \cap methods = {}
      BY <1>1
    <3>3. QueriesOf(c, WrittenQueries(b) \cup {[key |-> methods, sql |-> Place(b)]})
      BY <2>2, <2>5, <3>1, <3>2, AddMethods
    <3> QED BY <2>6, <3>3
  <2>8. TargetsKept'
    <3>1. /\ c.handler = conf[b].handler
          /\ c.complex_target = conf[b].complex_target
          /\ c.upstream = conf[b].upstream
      BY <2>2 DEF LocConf
    <3> QED BY <1>1, <2>1, <2>4, <3>1, ReadsTargets DEF IInv
  <2> HIDE DEF c, d
  <2> QED BY <1>1, <2>1, <2>4, <2>7, <2>8, ReadsKeep
<1>2. CASE phase = "parse" /\ Refuses
  BY <1>2, RefusesKeep
<1> QED BY <1>1, <1>2 DEF MethodQuery

\* What the directives that are no drizzle_query have in common.
LEMMA OtherKeeps ==
  ASSUME IInv, NEW b \in Blocks, NEW d \in Directive, NEW c \in LocConf,
         Reads(b, d, c), d.name # "query", TargetsKept',
         c.default_query = conf[b].default_query,
         c.queries = conf[b].queries, c.methods_set = conf[b].methods_set
  PROVE  IInv'
<1>1. QueriesOf(conf[b], WrittenQueries(b))
  BY DEF Reads, IInv, QueriesKept
<1>2. WrittenQueries(b)' = WrittenQueries(b)
  BY ReadsQueries DEF IInv
<1>3. QueriesOf(c, WrittenQueries(b)')
  BY <1>1, <1>2 DEF QueriesOf
<1> QED BY <1>3, ReadsKeep

\* drizzle_pass
LEMMA PassKeeps ==
  ASSUME IInv, NEW b \in Blocks, NEW target \in Upstreams \cup {"$host"},
         Pass(b, target)
  PROVE  IInv'
<1> DEFINE d == [name |-> "pass", target |-> target]
           c == [conf[b] EXCEPT
                   !.handler = TRUE,
                   !.complex_target = IF target = "$host" THEN "$host" ELSE "null",
                   !.upstream = IF target = "$host" THEN @ ELSE target]
<1>1. CASE Reads(b, d, c)
  <2>1. d \in Directive
    BY DEF Directive
  <2>2. conf[b] \in LocConf
    BY DEF IInv, Typed
  <2>3. c \in LocConf
    BY <2>2 DEF LocConf
  <2>4. /\ c.default_query = conf[b].default_query
        /\ c.queries = conf[b].queries /\ c.methods_set = conf[b].methods_set
        /\ c.handler = TRUE
        /\ IF target = "$host" THEN c.complex_target = "$host"
           ELSE c.complex_target = "null" /\ c.upstream = target
    BY <2>2 DEF LocConf
  <2>5. d.name = "pass" /\ d.target = target
    OBVIOUS
  <2> HIDE DEF c, d
  <2>6. TargetsKept'
    BY <1>1, <2>1, <2>3, <2>4, <2>5, ReadsTargets DEF IInv
  <2> QED BY <1>1, <2>1, <2>3, <2>4, <2>5, <2>6, OtherKeeps
<1>2. CASE phase = "parse" /\ Refuses
  BY <1>2, RefusesKeep
<1> QED BY <1>1, <1>2 DEF Pass

\* drizzle_buffer_size and drizzle_max_buffered
LEMMA SizeKeeps ==
  ASSUME IInv, NEW b \in Blocks, NEW n \in Nat,
         BufferSize(b, n) \/ MaxBuffered(b, n)
  PROVE  IInv'
<1>1. ASSUME NEW d \in Directive, NEW c \in LocConf, Reads(b, d, c),
             d.name \in {"buf", "max"},
             c.default_query = conf[b].default_query,
             c.queries = conf[b].queries, c.methods_set = conf[b].methods_set,
             c.handler = conf[b].handler,
             c.complex_target = conf[b].complex_target,
             c.upstream = conf[b].upstream
      PROVE  IInv'
  <2>1. TargetsKept'
    BY <1>1, ReadsTargets DEF IInv
  <2> QED BY <1>1, <2>1, OtherKeeps
<1>2. conf[b] \in LocConf
  BY DEF IInv, Typed
<1>3. ASSUME Reads(b, [name |-> "buf", size |-> n], [conf[b] EXCEPT !.buf_size = n])
      PROVE  IInv'
  <2>1. /\ [name |-> "buf", size |-> n] \in Directive
        /\ [conf[b] EXCEPT !.buf_size = n] \in LocConf
    BY <1>2 DEF Directive, LocConf, SizeOrUnset
  <2> QED BY <1>1, <1>2, <1>3, <2>1 DEF LocConf
<1>4. ASSUME Reads(b, [name |-> "max", size |-> n],
                   [conf[b] EXCEPT !.max_buffered = n])
      PROVE  IInv'
  <2>1. /\ [name |-> "max", size |-> n] \in Directive
        /\ [conf[b] EXCEPT !.max_buffered = n] \in LocConf
    BY <1>2 DEF Directive, LocConf, SizeOrUnset
  <2> QED BY <1>1, <1>2, <1>4, <2>1 DEF LocConf
<1>5. ASSUME phase = "parse", Refuses PROVE IInv'
  BY <1>5, RefusesKeep
<1> QED BY <1>3, <1>4, <1>5 DEF BufferSize, MaxBuffered

-----------------------------------------------------------------------------
(* Merging.                                                                *)

\* Merging leaves a block's own target alone.
LEMMA MergeTarget ==
  ASSUME NEW prev \in LocConf, NEW own \in LocConf
  PROVE  /\ MergeLocConf(prev, own).handler = own.handler
         /\ MergeLocConf(prev, own).complex_target = own.complex_target
         /\ MergeLocConf(prev, own).upstream = own.upstream
<1>1. /\ MergeQueries(prev, own) \in LocConf
      /\ MergeQueries(prev, own).handler = own.handler
      /\ MergeQueries(prev, own).complex_target = own.complex_target
      /\ MergeQueries(prev, own).upstream = own.upstream
  BY DEF MergeQueries, LocConf
<1> QED BY <1>1 DEF MergeLocConf, MergeSizes, LocConf

\* A block without queries gets those of the block around it.
LEMMA MergeQueriesOf ==
  ASSUME NEW prev \in LocConf, NEW own \in LocConf, NEW V, NEW W,
         QueriesOf(prev, V), QueriesOf(own, W)
  PROVE  QueriesOf(MergeLocConf(prev, own), IF W = {} THEN V ELSE W)
<1> DEFINE c == MergeLocConf(prev, own)
           from == IF own.default_query # NoQuery \/ own.queries # <<>>
                   THEN own ELSE prev
<1>1. /\ c.default_query = from.default_query /\ c.queries = from.queries
      /\ c.methods_set = from.methods_set
  <2>1. /\ MergeQueries(prev, own) \in LocConf
        /\ MergeQueries(prev, own).default_query = from.default_query
        /\ MergeQueries(prev, own).queries = from.queries
        /\ MergeQueries(prev, own).methods_set = from.methods_set
    BY DEF MergeQueries, LocConf
  <2> QED BY <2>1 DEF MergeLocConf, MergeSizes, LocConf
<1>2. W = {} <=> own.default_query = NoQuery /\ own.queries = <<>>
  <2>1. own.queries = <<>> <=> DOMAIN own.queries = {}
    <3>1. own.queries \in Seq(Query)
      BY DEF LocConf
    <3>2. \A s \in Seq(Query) : s = <<>> <=> Len(s) = 0
      OBVIOUS
    <3>3. \A s \in Seq(Query) : Len(s) \in Nat /\ DOMAIN s = 1..Len(s)
      OBVIOUS
    <3>4. \A k \in Nat : k = 0 <=> 1..k = {}
      OBVIOUS
    <3> QED BY <3>1, <3>2, <3>3, <3>4
  <2>2. DOMAIN own.queries = {} <=> {w \in W : w.key # {}} = {}
    BY DEF QueriesOf
  <2>3. own.default_query = NoQuery <=> {w \in W : w.key = {}} = {}
    BY DEF QueriesOf
  <2> QED BY <2>1, <2>2, <2>3
<1>3. QueriesOf(from, IF W = {} THEN V ELSE W)
  BY <1>2
<1> HIDE DEF c, from
<1>4. \A U : QueriesOf(from, U) => QueriesOf(c, U)
  BY <1>1 DEF QueriesOf
<1> QED BY <1>3, <1>4 DEF c

\* The block b takes its queries from is b, if it has any, or the one that the
\* block around b takes them from.
LEMMA SourceStep ==
  ASSUME NEW b \in Blocks
  PROVE  Source(b, "query") = IF WrittenQueries(b) = {} THEN Source(b - 1, "query")
                              ELSE b
<1>1. b \in Outward(b, "query") <=> WrittenQueries(b) # {}
  <2>1. b \in Outward(b, "query") <=>
          \E i \in DOMAIN written[b] : written[b][i].name = "query"
    BY DEF Outward, Blocks
  <2>2. \A w : w \in WrittenQueries(b) <=>
          \E i \in DOMAIN written[b] :
            /\ written[b][i].name = "query"
            /\ w = [key |-> written[b][i].methods, sql |-> <<b, i>>]
    BY DEF WrittenQueries, QueriesIn, Blocks
  <2> QED BY <2>1, <2>2
<1>2. CASE WrittenQueries(b) # {}
  <2>1. b \in Outward(b, "query") /\ \A p \in Outward(b, "query") : p <= b
    BY <1>1, <1>2 DEF Outward, Blocks
  <2>2. \A o \in Outward(b, "query") :
          (\A p \in Outward(b, "query") : p <= o) => o = b
    BY <2>1 DEF Outward, Blocks
  <2> QED BY <1>2, <2>1, <2>2 DEF Source
<1>3. CASE WrittenQueries(b) = {}
  <2>1. Outward(b, "query") = Outward(b - 1, "query")
    BY <1>1, <1>3 DEF Outward, Blocks
  <2> DEFINE Last(O) == IF O = {} THEN 0
                        ELSE CHOOSE o \in O : \A p \in O : p <= o
  <2>2. /\ Source(b, "query") = Last(Outward(b, "query"))
        /\ Source(b - 1, "query") = Last(Outward(b - 1, "query"))
    BY Zenon DEF Source
  <2> HIDE DEF Last
  <2> QED BY <1>3, <2>1, <2>2
<1> QED BY <1>2, <1>3

\* Outside of all blocks nothing is configured.
LEMMA SourceOutside ==
  /\ Source(0, "query") = 0 /\ WrittenQueries(0) = {}
  /\ CreateLocConf \in LocConf /\ QueriesOf(CreateLocConf, {})
<1>1. Source(0, "query") = 0 /\ WrittenQueries(0) = {}
  BY DEF Source, Outward, WrittenQueries
<1>2. CreateLocConf \in LocConf
  BY DEF CreateLocConf, LocConf, SizeOrUnset, NoQuery, Unset
<1>3. QueriesOf(CreateLocConf, {})
  BY DEF QueriesOf, CreateLocConf
<1> QED BY <1>1, <1>2, <1>3

\* Merging one block, with the one around it already merged.
LEMMA MergeBlock ==
  ASSUME IInv, phase = "parse", NEW b \in Blocks, NEW prev \in LocConf,
         QueriesOf(prev, WrittenQueries(Source(b - 1, "query")))
  PROVE  /\ MergeLocConf(prev, conf[b]) \in LocConf
         /\ QueriesOf(MergeLocConf(prev, conf[b]),
                      WrittenQueries(Source(b, "query")))
         /\ MergeAccepts(prev, conf[b]) =>
              /\ MergeLocConf(prev, conf[b]).buf_size > 0
              /\ MergeLocConf(prev, conf[b]).max_buffered
                   >= MergeLocConf(prev, conf[b]).buf_size
         /\ MergeLocConf(prev, conf[b]).handler = conf[b].handler
         /\ MergeLocConf(prev, conf[b]).complex_target = conf[b].complex_target
         /\ MergeLocConf(prev, conf[b]).upstream = conf[b].upstream
<1>1. conf[b] \in LocConf
  BY DEF IInv, Typed
<1>2. QueriesOf(conf[b], WrittenQueries(b))
  BY DEF IInv, QueriesKept
<1>3. QueriesOf(MergeLocConf(prev, conf[b]),
                IF WrittenQueries(b) = {}
                THEN WrittenQueries(Source(b - 1, "query"))
                ELSE WrittenQueries(b))
  BY <1>1, <1>2, MergeQueriesOf
<1>4. QueriesOf(MergeLocConf(prev, conf[b]), WrittenQueries(Source(b, "query")))
  BY <1>3, SourceStep
<1>5. MergeAccepts(prev, conf[b]) =>
        /\ MergeLocConf(prev, conf[b]).buf_size > 0
        /\ MergeLocConf(prev, conf[b]).max_buffered
             >= MergeLocConf(prev, conf[b]).buf_size
  BY <1>1, MergeTyped DEF MergeAccepts
<1> QED BY <1>1, <1>4, <1>5, MergeTyped, MergeTarget

\* All blocks are merged, or nginx refuses the configuration.
LEMMA MergeKeeps == ASSUME IInv, Merge PROVE IInv'
<1> DEFINE c1 == MergeLocConf(CreateLocConf, conf[1])
           c2 == MergeLocConf(c1, conf[2])
           c3 == MergeLocConf(c2, conf[3])
<1>1. CASE Refuses
  BY <1>1, RefusesKeep DEF Merge
<1>2. CASE /\ MergeAccepts(CreateLocConf, conf[1])
           /\ MergeAccepts(c1, conf[2])
           /\ MergeAccepts(c2, conf[3])
           /\ conf' = <<c1, c2, c3>>
           /\ phase' = "run"
           /\ UNCHANGED <<written, answer>>
  <2> DEFINE Good(c, b) ==
        /\ c \in LocConf
        /\ QueriesOf(c, WrittenQueries(Source(b, "query")))
        /\ c.buf_size > 0 /\ c.max_buffered >= c.buf_size
        /\ c.handler = conf[b].handler
        /\ c.complex_target = conf[b].complex_target
        /\ c.upstream = conf[b].upstream
  <2>1. phase = "parse"
    BY DEF Merge
  <2>2. Good(c1, 1)
    <3>1. QueriesOf(CreateLocConf, WrittenQueries(Source(1 - 1, "query")))
      BY SourceOutside
    <3> QED BY <1>2, <2>1, <3>1, SourceOutside, MergeBlock DEF Blocks
  <2> HIDE DEF c1
  <2>3. Good(c2, 2)
    <3>1. QueriesOf(c1, WrittenQueries(Source(2 - 1, "query")))
      BY <2>2
    <3> QED BY <1>2, <2>1, <2>2, <3>1, MergeBlock DEF Blocks
  <2> HIDE DEF c2
  <2>4. Good(c3, 3)
    <3>1. QueriesOf(c2, WrittenQueries(Source(3 - 1, "query")))
      BY <2>3
    <3> QED BY <1>2, <2>1, <2>3, <3>1, MergeBlock DEF Blocks
  <2> HIDE DEF c3
  <2>5. \A b \in Blocks : Good(conf'[b], b)
    BY <1>2, <2>2, <2>3, <2>4 DEF Blocks
  <2>6. conf' \in [Blocks -> LocConf]
    <3>1. conf' = [b \in Blocks |-> conf'[b]]
      BY <1>2 DEF Blocks
    <3> QED BY <2>5, <3>1
  <2>7. Typed'
    BY <1>2, <2>6 DEF IInv, Typed
  <2>8. TargetsKept'
    <3>1. \A b \in Blocks : Passes(b)' = Passes(b)
      BY <1>2 DEF Passes
    <3> QED BY <1>2, <2>5, <3>1 DEF IInv, TargetsKept, TargetKept
  <2>9. QueriesKept'
    <3>1. \A b \in Blocks : WrittenQueries(Source(b, "query"))'
                              = WrittenQueries(Source(b, "query"))
      BY <1>2 DEF WrittenQueries, Source, Outward
    <3> QED BY <1>2, <2>5, <3>1 DEF QueriesKept
  <2>10. SizesKept'
    BY <2>5 DEF SizesKept, SizesUsable
  <2>11. AnswerKept'
    <3>1. answer'.status = "none"
      BY <1>2, <2>1 DEF IInv, AnswerKept, Typed
    <3> QED BY <3>1 DEF AnswerKept, QueryAsWritten, TargetAsWritten,
                        HandlerHasTarget
  <2> QED BY <2>7, <2>8, <2>9, <2>10, <2>11 DEF IInv
<1> QED BY <1>1, <1>2 DEF Merge

-----------------------------------------------------------------------------
(* A request.                                                              *)

\* The block that queries are taken from has some, unless there is none.
LEMMA SourceHasQueries ==
  ASSUME NEW b \in Blocks
  PROVE  /\ Source(b, "query") \in 0..b
         /\ Source(b, "query") = 0 <=> WrittenQueries(Source(b, "query")) = {}
<1> DEFINE P(o) == /\ Source(o, "query") \in 0..o
                   /\ Source(o, "query") = 0 <=>
                        WrittenQueries(Source(o, "query")) = {}
<1>1. P(0)
  BY SourceOutside
<1>2. ASSUME NEW o \in Blocks, P(o - 1) PROVE P(o)
  <2>1. CASE WrittenQueries(o) = {}
    BY <1>2, <2>1, SourceStep DEF Blocks
  <2>2. CASE WrittenQueries(o) # {}
    BY <2>2, SourceStep DEF Blocks
  <2> QED BY <2>1, <2>2
<1> HIDE DEF P
<1>3. P(1)
  BY <1>1, <1>2 DEF Blocks
<1>4. P(2)
  BY <1>2, <1>3 DEF Blocks
<1>5. P(3)
  BY <1>2, <1>4 DEF Blocks
<1>6. P(b)
  BY <1>3, <1>4, <1>5 DEF Blocks
<1> QED BY <1>6 DEF P

\* The query that the code finds is the one that was written for the method.
LEMMA QueryTaken ==
  ASSUME NEW c \in LocConf, NEW W, QueriesOf(c, W), NEW method
  PROVE  /\ method \in c.methods_set =>
              \A q : (\E w \in W : w.sql = q /\ method \in w.key) <=>
                       q = QueryFor(c, method)
         /\ method \notin c.methods_set => ~ \E w \in W : method \in w.key
         /\ \A q : (\E w \in W : w.sql = q /\ w.key = {}) <=>
                     c.default_query # NoQuery /\ q = c.default_query
         /\ c.default_query = NoQuery => (c.methods_set # {} <=> W # {})
<1> DEFINE old == c.queries
<1>1. old \in Seq(Query) /\ c.methods_set \subseteq Methods
  BY DEF LocConf
<1>2. \A j \in DOMAIN old : old[j] \in Query /\ old[j].key \subseteq Methods
  <2>1. \A j \in DOMAIN old : old[j] \in Query
    BY <1>1
  <2> QED BY <2>1 DEF Query
<1>3. \A w : w \in W /\ w.key # {} <=> \E j \in DOMAIN old : w = old[j]
  <2>1. {old[j] : j \in DOMAIN old} = {w \in W : w.key # {}}
    BY DEF QueriesOf
  <2> QED BY <2>1
<1>4. \A m \in Methods : m \in c.methods_set <=>
        \E j \in DOMAIN old : m \in old[j].key
  BY DEF QueriesOf
<1>5. \A i, j \in DOMAIN old : i # j => old[i].key \cap old[j].key = {}
  BY DEF QueriesOf
<1>6. \A q : (\E w \in W : w.sql = q /\ w.key = {}) <=>
               c.default_query # NoQuery /\ q = c.default_query
  <2>1. {w \in W : w.key = {}} = IF c.default_query = NoQuery THEN {}
                                 ELSE {[key |-> {}, sql |-> c.default_query]}
    BY DEF QueriesOf
  <2>2. CASE c.default_query = NoQuery
    <3>1. \A w \in W : w.key # {}
      BY <2>1, <2>2
    <3> QED BY <2>2, <3>1
  <2>3. CASE c.default_query # NoQuery
    <3> DEFINE one == [key |-> {}, sql |-> c.default_query]
    <3>1. \A w : w \in W /\ w.key = {} <=> w = one
      BY <2>1, <2>3
    <3>2. one.sql = c.default_query /\ one.key = {}
      OBVIOUS
    <3> QED BY <2>3, <3>1, <3>2
  <2> QED BY <2>2, <2>3
<1>7. ASSUME NEW w \in W, method \in w.key PROVE method \in c.methods_set
  BY <1>2, <1>3, <1>4, <1>7
<1>8. ASSUME method \in c.methods_set, NEW q
      PROVE  (\E w \in W : w.sql = q /\ method \in w.key) <=>
               q = QueryFor(c, method)
  <2>1. PICK k \in DOMAIN old : method \in old[k].key
    BY <1>1, <1>4, <1>8
  <2>2. \A i \in DOMAIN old : method \in old[i].key <=> i = k
    BY <1>5, <2>1
  <2>3. k \in Nat /\ \A j \in 1..(k - 1) : j \in DOMAIN old /\ j # k
    BY <1>1
  <2>4. \A i \in DOMAIN old :
          (/\ method \in old[i].key
           /\ \A j \in 1..(i - 1) : method \notin old[j].key) <=> i = k
    BY <2>2, <2>3
  <2>5. QueryFor(c, method) = old[k].sql
    <3>1. (CHOOSE i \in DOMAIN old :
             /\ method \in old[i].key
             /\ \A j \in 1..(i - 1) : method \notin old[j].key) = k
      BY <2>4
    <3> QED BY <1>8, <3>1 DEF QueryFor
  <2>6. \A w : w \in W /\ method \in w.key <=> w = old[k]
    BY <1>3, <2>1, <2>2
  <2> QED BY <2>5, <2>6
<1>9. ASSUME c.default_query = NoQuery PROVE c.methods_set # {} <=> W # {}
  <2>1. \A w \in W : w.key # {}
    BY <1>6, <1>9
  <2>2. ASSUME NEW w \in W PROVE c.methods_set # {}
    <3>1. PICK j \in DOMAIN old : w = old[j]
      BY <1>3, <2>1
    <3>2. PICK m \in old[j].key : TRUE
      BY <2>1, <3>1
    <3> QED BY <1>2, <1>4, <3>2
  <2>3. ASSUME NEW m \in c.methods_set PROVE W # {}
    BY <1>1, <1>3, <1>4
  <2> QED BY <2>2, <2>3
<1> QED BY <1>6, <1>7, <1>8, <1>9

\* The sets of QueryAsWritten, in terms of WrittenQueries.
LEMMA ChosenAmong ==
  ASSUME NEW s \in 0..3, NEW method
  PROVE  /\ \A q : q \in Specific(s, method) <=>
                     \E w \in WrittenQueries(s) : w.sql = q /\ method \in w.key
         /\ \A q : q \in Defaults(s) <=>
                     \E w \in WrittenQueries(s) : w.sql = q /\ w.key = {}
<1>1. CASE s = 0
  BY <1>1 DEF Specific, Defaults, Queries, WrittenQueries
<1>2. CASE s # 0
  <2> DEFINE Is(i) == i \in DOMAIN written[s] /\ written[s][i].name = "query"
  <2> DEFINE Kept(i) == [key |-> written[s][i].methods, sql |-> <<s, i>>]
  <2>1. \A w : w \in WrittenQueries(s) <=> \E i : Is(i) /\ w = Kept(i)
    BY <1>2 DEF WrittenQueries, QueriesIn
  <2>8. \A i : Kept(i).key = written[s][i].methods /\ Kept(i).sql = <<s, i>>
    OBVIOUS
  <2>2. \A q : q \in Queries(s) <=> \E i : Is(i) /\ q = <<s, i>>
    BY <1>2 DEF Queries
  <2>3. \A i : MethodsOf(<<s, i>>) = written[s][i].methods
    BY DEF MethodsOf
  <2> HIDE DEF Is, Kept
  <2>9. ASSUME NEW w \in WrittenQueries(s)
        PROVE  \E i : Is(i) /\ w.sql = <<s, i>> /\ w.key = written[s][i].methods
    BY <2>1, <2>8
  <2>10. ASSUME NEW i, Is(i)
         PROVE  \E w \in WrittenQueries(s) :
                  w.sql = <<s, i>> /\ w.key = written[s][i].methods
    BY <2>1, <2>8, <2>10
  <2>4. \A q : (\E w \in WrittenQueries(s) : w.sql = q /\ method \in w.key) <=>
                 \E i : /\ Is(i) /\ q = <<s, i>>
                        /\ method \in written[s][i].methods
    BY <2>9, <2>10
  <2>5. \A q : (\E w \in WrittenQueries(s) : w.sql = q /\ w.key = {}) <=>
                 \E i : Is(i) /\ q = <<s, i>> /\ written[s][i].methods = {}
    BY <2>9, <2>10
  <2>6. \A q : q \in Specific(s, method) <=>
                 \E i : /\ Is(i) /\ q = <<s, i>>
                        /\ method \in written[s][i].methods
    BY <2>2, <2>3 DEF Specific
  <2>7. \A q : q \in Defaults(s) <=>
                 \E i : Is(i) /\ q = <<s, i>> /\ written[s][i].methods = {}
    BY <2>2, <2>3 DEF Defaults
  <2> QED BY <2>4, <2>5, <2>6, <2>7
<1> QED BY <1>1, <1>2

\* A request changes the upstream of its block, and only for a target with
\* variables.
LEMMA RequestFrame ==
  ASSUME IInv, NEW b \in Blocks, NEW method, NEW host,
         Request(b, method, host)
  PROVE  /\ phase = "run" /\ phase' = "run" /\ written' = written
         /\ conf' \in [Blocks -> LocConf]
         /\ \A o \in Blocks :
              /\ conf'[o].default_query = conf[o].default_query
              /\ conf'[o].queries = conf[o].queries
              /\ conf'[o].methods_set = conf[o].methods_set
              /\ conf'[o].buf_size = conf[o].buf_size
              /\ conf'[o].max_buffered = conf[o].max_buffered
              /\ conf'[o].handler = conf[o].handler
              /\ conf'[o].complex_target = conf[o].complex_target
              /\ conf[o].complex_target # "$host" =>
                   conf'[o].upstream = conf[o].upstream
<1> DEFINE target == Target(conf[b], host)
<1>1. conf \in [Blocks -> LocConf]
  BY DEF IInv, Typed
<1>2. target \in Upstreams \cup {"null"}
  BY <1>1 DEF Target, LocConf
<1>3. conf[b].complex_target # "$host" => target = conf[b].upstream
  BY DEF Target
<1>4. phase = "run" /\ phase' = "run" /\ written' = written
  BY DEF Request
<1>5. \/ conf' = conf
      \/ \E u \in Upstreams \cup {"null"} :
           /\ conf' = [conf EXCEPT ![b].upstream = u]
           /\ conf[b].complex_target # "$host" => u = conf[b].upstream
  <2> DEFINE u == IF conf[b].complex_target = "$host" /\ host = NoName
                  THEN conf[b].upstream ELSE target
  <2>1. conf' = conf \/ conf' = [conf EXCEPT ![b].upstream = u]
    BY DEF Request
  <2>2. u \in Upstreams \cup {"null"}
    BY <1>1, <1>2 DEF LocConf
  <2>3. conf[b].complex_target # "$host" => u = conf[b].upstream
    BY <1>3
  <2> QED BY <2>1, <2>2, <2>3
<1>6. CASE conf' = conf
  BY <1>1, <1>4, <1>6
<1>7. ASSUME NEW u \in Upstreams \cup {"null"},
             conf' = [conf EXCEPT ![b].upstream = u],
             conf[b].complex_target # "$host" => u = conf[b].upstream
      PROVE  /\ conf' \in [Blocks -> LocConf]
             /\ \A o \in Blocks :
                  /\ conf'[o].default_query = conf[o].default_query
                  /\ conf'[o].queries = conf[o].queries
                  /\ conf'[o].methods_set = conf[o].methods_set
                  /\ conf'[o].buf_size = conf[o].buf_size
                  /\ conf'[o].max_buffered = conf[o].max_buffered
                  /\ conf'[o].handler = conf[o].handler
                  /\ conf'[o].complex_target = conf[o].complex_target
                  /\ conf[o].complex_target # "$host" =>
                       conf'[o].upstream = conf[o].upstream
  <2>1. conf' = [conf EXCEPT ![b] = [conf[b] EXCEPT !.upstream = u]]
    BY <1>7
  <2>2. [conf[b] EXCEPT !.upstream = u] \in LocConf
    <3>1. conf[b] \in LocConf
      BY <1>1
    <3> QED BY <3>1 DEF LocConf
  <2>3. \A o \in Blocks : conf'[o] = IF o = b THEN [conf[b] EXCEPT !.upstream = u]
                                     ELSE conf[o]
    BY <1>1, <2>1
  <2>4. conf' \in [Blocks -> LocConf]
    BY <1>1, <2>1, <2>2
  <2>5. conf[b] \in LocConf
    BY <1>1
  <2>6. [conf[b] EXCEPT !.upstream = u]
          = [default_query |-> conf[b].default_query, queries |-> conf[b].queries,
             methods_set |-> conf[b].methods_set, buf_size |-> conf[b].buf_size,
             max_buffered |-> conf[b].max_buffered, handler |-> conf[b].handler,
             complex_target |-> conf[b].complex_target, upstream |-> u]
    BY <2>5 DEF LocConf
  <2> QED BY <1>7, <2>3, <2>4, <2>6
<1> QED BY <1>4, <1>5, <1>6, <1>7

\* What the request is answered with, case by case.
LEMMA RequestAnswer ==
  ASSUME NEW b, NEW method, NEW host, Request(b, method, host)
  PROVE  /\ answer'.block = b /\ answer'.method = method /\ answer'.host = host
         /\ \/ /\ NoQueryFor(conf[b], method)
               /\ answer'.status = IF conf[b].methods_set # {} THEN "405" ELSE "500"
            \/ /\ ~NoQueryFor(conf[b], method)
               /\ conf[b].complex_target = "unset"
               /\ answer'.status = "crash"
            \/ /\ ~NoQueryFor(conf[b], method)
               /\ conf[b].complex_target # "unset"
               /\ \/ answer'.status = "500"
                  \/ /\ answer'.status = "sent"
                     /\ answer'.sql = QueryFor(conf[b], method)
                     /\ answer'.upstream = Target(conf[b], host)
                     /\ answer'.upstream # "null"
<1>1. \A status, sql, upstream : Answers(b, method, host, status, sql, upstream) =>
        /\ answer'.block = b /\ answer'.method = method /\ answer'.host = host
        /\ answer'.status = status /\ answer'.sql = sql
        /\ answer'.upstream = upstream
  BY DEF Answers
<1> QED BY <1>1 DEF Request

\* The answer is the one for the directives as written.
LEMMA RequestAnswered ==
  ASSUME IInv, NEW b \in Blocks, NEW method, NEW host,
         Request(b, method, host)
  PROVE  AnswerKept'
<1>1. /\ phase = "run" /\ phase' = "run" /\ written' = written
      /\ conf[b] \in LocConf
  BY RequestFrame DEF IInv, Typed
<1> DEFINE c == conf[b]
           s == Source(b, "query")
           W == WrittenQueries(s)
<1>2. QueriesOf(c, W)
  BY <1>1 DEF IInv, QueriesKept
<1>3. s \in 0..3 /\ (s = 0 <=> W = {})
  <2>1. s \in 0..b /\ (s = 0 <=> W = {})
    BY SourceHasQueries
  <2> QED BY <2>1 DEF Blocks
<1>4. /\ Source(b, "query")' = s
      /\ Specific(s, method)' = Specific(s, method)
      /\ Defaults(s)' = Defaults(s)
      /\ \A o \in Blocks : Passes(o)' = Passes(o)
  <2>1. Source(b, "query")' = s /\ \A o \in Blocks : Passes(o)' = Passes(o)
    BY <1>1 DEF Source, Outward, Passes
  <2>2. \A o : Queries(o)' = Queries(o) /\ MethodsOf(o)' = MethodsOf(o)
    BY <1>1 DEF Queries, MethodsOf
  <2> QED BY <2>1, <2>2 DEF Specific, Defaults
<1>5. QueryAsWritten'
  <2> DEFINE chosen == IF Specific(s, method) # {} THEN Specific(s, method)
                       ELSE Defaults(s)
  <2>a. /\ \A q : q \in Specific(s, method) <=>
                    \E w \in W : w.sql = q /\ method \in w.key
        /\ \A q : q \in Defaults(s) <=> \E w \in W : w.sql = q /\ w.key = {}
    BY <1>3, ChosenAmong
  <2>b. /\ method \in c.methods_set =>
             \A q : (\E w \in W : w.sql = q /\ method \in w.key) <=>
                      q = QueryFor(c, method)
        /\ method \notin c.methods_set => ~ \E w \in W : method \in w.key
        /\ \A q : (\E w \in W : w.sql = q /\ w.key = {}) <=>
                    c.default_query # NoQuery /\ q = c.default_query
        /\ c.default_query = NoQuery => (c.methods_set # {} <=> W # {})
    <3>1. c \in LocConf
      BY <1>1
    <3> HIDE DEF c, s, W, chosen
    <3> QED BY <3>1, <1>2, QueryTaken
  <2> HIDE DEF c, s, W
  <2>1. ASSUME method \in c.methods_set PROVE chosen = {QueryFor(c, method)}
    <3>1. \A q : q \in Specific(s, method) <=> q = QueryFor(c, method)
      BY <2>a, <2>b, <2>1
    <3> QED BY <3>1
  <2>2. ASSUME method \notin c.methods_set
        PROVE  chosen = IF c.default_query = NoQuery THEN {} ELSE {c.default_query}
    <3>1. Specific(s, method) = {}
      BY <2>a, <2>b, <2>2
    <3>2. \A q : q \in Defaults(s) <=>
                   c.default_query # NoQuery /\ q = c.default_query
      BY <2>a, <2>b
    <3> QED BY <3>1, <3>2
  <2>3. c.default_query = NoQuery => (c.methods_set # {} <=> s # 0)
    BY <1>3, <2>b
  <2>4. method \notin c.methods_set => QueryFor(c, method) = c.default_query
    BY DEF QueryFor
  <2>5. NoQueryFor(c, method) <=> chosen = {}
    BY <2>1, <2>2 DEF NoQueryFor
  <2>6. ~NoQueryFor(c, method) => chosen = {QueryFor(c, method)}
    BY <2>1, <2>2, <2>4 DEF NoQueryFor
  <2>7. NoQueryFor(c, method) => (c.methods_set # {} <=> s # 0)
    BY <2>3 DEF NoQueryFor
  <2> HIDE DEF chosen
  <2>8. answer'.status \notin {"none", "crash"} =>
          /\ answer'.status = "sent" => chosen = {answer'.sql}
          /\ answer'.status = "405" <=> chosen = {} /\ s # 0
          /\ chosen = {} /\ s = 0 => answer'.status = "500"
    BY <2>5, <2>6, <2>7, RequestAnswer DEF c
  <2>9. answer'.block = b /\ answer'.method = method
    BY RequestAnswer
  <2> QED BY <1>4, <2>8, <2>9 DEF QueryAsWritten, chosen, s
<1>6. TargetKept(b)
  BY DEF IInv, TargetsKept
<1>7. TargetAsWritten'
  <2> SUFFICES ASSUME answer'.status = "sent"
               PROVE  TargetAsWritten'
    BY DEF TargetAsWritten
  <2>1. /\ c.complex_target # "unset" /\ answer'.upstream = Target(c, host)
        /\ answer'.upstream # "null" /\ answer'.block = b /\ answer'.host = host
    BY RequestAnswer
  <2>2. PICK i \in Passes(b) :
          /\ \A j \in Passes(b) : j <= i
          /\ IF written[b][i].target = "$host"
             THEN conf[b].complex_target = "$host"
             ELSE /\ conf[b].complex_target = "null"
                  /\ conf[b].upstream = written[b][i].target
    BY <1>6, <2>1 DEF TargetKept
  <2>3. answer'.upstream = IF written[b][i].target = "$host" THEN host
                           ELSE written[b][i].target
    BY <2>1, <2>2 DEF Target
  <2> QED BY <1>1, <2>1, <2>2, <2>3 DEF TargetAsWritten, Passes
<1>8. HandlerHasTarget'
  <2>1. answer'.block = b
    BY RequestAnswer
  <2>2. answer'.status = "sent" => Passes(b) # {}
    BY <1>6, RequestAnswer DEF TargetKept
  <2>3. answer'.status = "crash" =>
          b \in Ifs /\ Passes(b) = {} /\ Passes(b - 1) # {} /\ b - 1 \in Blocks
    <3> SUFFICES ASSUME answer'.status = "crash"
                 PROVE  /\ b \in Ifs /\ Passes(b) = {} /\ Passes(b - 1) # {}
                        /\ b - 1 \in Blocks
      OBVIOUS
    <3>1. Passes(b) = {} /\ ~conf[b].handler
      BY <1>6, RequestAnswer DEF TargetKept
    <3>2. b \in Ifs /\ conf[b - 1].handler
      BY <3>1 DEF Request, Handled
    <3>3. b - 1 \in Blocks
      <4>1. b = 3
        BY <3>2, ConfigAssumption
      <4> QED BY <4>1 DEF Blocks
    <3>4. TargetKept(b - 1)
      BY <3>3 DEF IInv, TargetsKept
    <3> QED BY <3>1, <3>2, <3>3, <3>4 DEF TargetKept
  <2> DEFINE passes == {o \in Blocks : Passes(o) # {}}
  <2>4. passes = {o \in Blocks : \E i \in DOMAIN written'[o] :
                                   written'[o][i].name = "pass"}
    BY <1>1 DEF Passes
  <2> QED BY <2>1, <2>2, <2>3, <2>4 DEF HandlerHasTarget
<1>9. answer'.status # "none" => phase' = "run"
  BY <1>1
<1> QED BY <1>5, <1>7, <1>8, <1>9 DEF AnswerKept

\* ngx_http_drizzle_handler
LEMMA RequestKeeps ==
  ASSUME IInv, NEW b \in Blocks, NEW method, NEW host, Request(b, method, host)
  PROVE  IInv'
<1> USE RequestFrame
<1>1. Typed'
  <2>1. /\ answer'.status \in {"none", "405", "500", "sent", "crash"}
        /\ answer'.block \in Blocks
    BY RequestAnswer
  <2> QED BY <2>1 DEF IInv, Typed
<1>2. TargetsKept'
  <2>1. \A o \in Blocks : Passes(o)' = Passes(o)
    BY DEF Passes
  <2>2. ASSUME NEW o \in Blocks PROVE TargetKept(o)'
    <3>1. TargetKept(o)
      BY DEF IInv, TargetsKept
    <3> QED BY <2>1, <3>1 DEF TargetKept
  <2> QED BY <2>2 DEF TargetsKept
<1>3. QueriesKept'
  <2>1. \A o \in Blocks : WrittenQueries(Source(o, "query"))'
                            = WrittenQueries(Source(o, "query"))
    <3>1. UNCHANGED written
      OBVIOUS
    <3> QED BY <3>1 DEF WrittenQueries, Source, Outward
  <2>2. \A o \in Blocks : \A V : QueriesOf(conf[o], V) => QueriesOf(conf'[o], V)
    BY DEF QueriesOf
  <2> QED BY <2>1, <2>2 DEF IInv, QueriesKept
<1>4. SizesKept'
  BY DEF IInv, SizesKept, SizesUsable
<1> QED BY <1>1, <1>2, <1>3, <1>4, RequestAnswered DEF IInv

-----------------------------------------------------------------------------
(* The invariant.                                                          *)

LEMMA InitIInv == Init => IInv
<1> SUFFICES ASSUME Init PROVE IInv
  OBVIOUS
<1>1. \A b \in Blocks : /\ conf[b] = CreateLocConf /\ written[b] = <<>>
                        /\ phase = "parse" /\ answer = NoAnswer
  BY DEF Init
<1>2. \A b \in Blocks : Passes(b) = {}
  BY <1>1 DEF Passes
<1>3. TargetsKept
  BY <1>1, <1>2 DEF TargetsKept, TargetKept, CreateLocConf
<1>4. QueriesKept
  <2>1. \A b \in Blocks : WrittenQueries(b) = {}
    BY <1>1 DEF WrittenQueries, QueriesIn, Blocks
  <2>2. \A b \in Blocks : QueriesOf(conf[b], WrittenQueries(b))
    BY <1>1, <2>1, SourceOutside
  <2> QED BY <1>1, <2>2 DEF QueriesKept, Init
<1>5. SizesKept
  BY DEF Init, SizesKept
<1>6. AnswerKept
  BY DEF Init, NoAnswer, AnswerKept, QueryAsWritten, TargetAsWritten,
         HandlerHasTarget
<1> QED BY <1>3, <1>4, <1>5, <1>6, InitTyped DEF IInv

LEMMA NextIInv == IInv /\ [Next]_vars => IInv'
<1> SUFFICES ASSUME IInv, [Next]_vars PROVE IInv'
  OBVIOUS
<1>1. ASSUME NEW b \in Blocks, DefaultQuery(b) PROVE IInv'
  BY <1>1, DefaultQueryKeeps
<1>2. ASSUME NEW b \in Blocks, NEW methods \in (SUBSET Methods) \ {{}},
             MethodQuery(b, methods)
      PROVE  IInv'
  BY <1>2, MethodQueryKeeps
<1>3. ASSUME NEW b \in Blocks, NEW target \in Upstreams \cup {"$host"},
             Pass(b, target)
      PROVE  IInv'
  BY <1>3, PassKeeps
<1>4. ASSUME NEW b \in Blocks, NEW n \in Nat, BufferSize(b, n) \/ MaxBuffered(b, n)
      PROVE  IInv'
  BY <1>4, SizeKeeps
<1>5. CASE Merge
  BY <1>5, MergeKeeps
<1>6. ASSUME NEW b \in Blocks, NEW method, NEW host, Request(b, method, host)
      PROVE  IInv'
  BY <1>6, RequestKeeps
<1>7. CASE UNCHANGED vars
  <2>1. UNCHANGED <<conf, written, phase, answer>>
    BY <1>7 DEF vars
  <2>2. Typed' /\ SizesKept'
    BY <2>1 DEF IInv, Typed, SizesKept, SizesUsable
  <2>3. TargetsKept'
    BY <2>1 DEF IInv, TargetsKept, TargetKept, Passes
  <2>4. QueriesKept'
    <3>1. \A b \in Blocks :
            /\ WrittenQueries(b)' = WrittenQueries(b)
            /\ WrittenQueries(Source(b, "query"))'
                 = WrittenQueries(Source(b, "query"))
      BY <2>1 DEF WrittenQueries, Source, Outward
    <3> QED BY <2>1, <3>1 DEF IInv, QueriesKept
  <2>5. AnswerKept'
    <3>1. TargetAsWritten' /\ HandlerHasTarget'
      BY <2>1 DEF IInv, AnswerKept, TargetAsWritten, HandlerHasTarget
    <3>2. QueryAsWritten'
      <4>1. \A b : Source(b, "query")' = Source(b, "query")
        BY <2>1 DEF Source, Outward
      <4>2. \A o : Queries(o)' = Queries(o) /\ MethodsOf(o)' = MethodsOf(o)
        BY <2>1 DEF Queries, MethodsOf
      <4>3. \A o, m : Specific(o, m)' = Specific(o, m) /\ Defaults(o)' = Defaults(o)
        BY <4>2 DEF Specific, Defaults
      <4> QED BY <2>1, <4>1, <4>3 DEF IInv, AnswerKept, QueryAsWritten
    <3> QED BY <2>1, <3>1, <3>2 DEF IInv, AnswerKept
  <2> QED BY <2>2, <2>3, <2>4, <2>5 DEF IInv
<1> QED BY <1>1, <1>2, <1>3, <1>4, <1>5, <1>6, <1>7, ConfigAssumption DEF Next

LEMMA Invariance == Spec => []IInv
BY InitIInv, NextIInv, PTL DEF Spec

\* The configuration of each block, and the answer to a request, are well typed,
\* and no size is undefined where requests are answered.
THEOREM TypeCorrect == Spec => []TypeOK
<1>1. IInv => TypeOK
  <2>1. IInv => \A b \in Blocks :
          /\ conf[b].methods_set \subseteq Methods
          /\ conf[b].buf_size \in Nat \cup {Unset}
          /\ conf[b].max_buffered \in Nat \cup {Unset}
          /\ conf[b].upstream \in Upstreams \cup {"null"}
          /\ conf[b].complex_target \in {"unset", "null", "$host"}
    BY DEF IInv, Typed, LocConf, SizeOrUnset
  <2>2. IInv /\ phase = "run" => \A b \in Blocks :
          Unset \notin {conf[b].buf_size, conf[b].max_buffered}
    BY <2>1 DEF IInv, SizesKept, SizesUsable, Unset
  <2> QED BY <2>1, <2>2 DEF TypeOK, IInv, Typed
<1> QED BY <1>1, Invariance, PTL

\* Whatever the blocks around it give, an accepted location has a buffer size
\* above zero and a max_buffered that is not below it: what
\* ngx_http_drizzle_merge_loc_conf checks after it has merged the two.
THEOREM SizesAlwaysUsable == Spec => []SizesUsable
<1>1. IInv => SizesUsable
  BY DEF IInv, SizesKept, SizesUsable
<1> QED BY <1>1, Invariance, PTL

\* For any directives in any order, a request gets the query that was written for
\* its method in the nearest block that has any (drizzle_query, the merge and
\* ngx_http_upstream_drizzle_init_peer together), or the status that says there
\* is none.
THEOREM QueriesFollowed == Spec => []QueryAsWritten
BY Invariance, PTL DEF IInv, AnswerKept

\* Requests before this one, for other targets, do not change where it goes: the
\* upstream kept in the location's configuration is only used for a target
\* without variables.
THEOREM TargetsFollowed == Spec => []TargetAsWritten
BY Invariance, PTL DEF IInv, AnswerKept

\* The target that nobody has set is evaluated in no block but an "if" without a
\* drizzle_pass of its own, in a location with one.
THEOREM EveryHandlerHasTarget == Spec => []HandlerHasTarget
BY Invariance, PTL DEF IInv, AnswerKept

=============================================================================
