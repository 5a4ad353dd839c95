------------------------------- MODULE Config -------------------------------
(***************************************************************************)
(* The directives of a location: drizzle_query, drizzle_pass,              *)
(* drizzle_buffer_size and drizzle_max_buffered are read one after the     *)
(* other, the blocks are merged from the outside in, and then requests are *)
(* answered from what came of it: the status, the SQL and the upstream.    *)
(*                                                                         *)
(* The blocks are nested: 1 is a server, 2 a location in it, 3 a location  *)
(* in that one, or an "if".                                                *)
(***************************************************************************)
EXTENDS Integers, Sequences

CONSTANTS
  Methods,        \* request methods
  Upstreams,      \* names of upstream blocks
  Ifs,            \* the blocks that are an "if" of the block around them
  BufSizes,       \* bound: sizes given to drizzle_buffer_size
  MaxSizes,       \* bound: sizes given to drizzle_max_buffered
  PageSize,       \* the default of drizzle_buffer_size
  MaxDirectives   \* bound: directives in all

\* A method that is in no directive is one more request method; the default of
\* drizzle_max_buffered is one megabyte, far above a page: four pages here.
DefaultMax == 4 * PageSize

ASSUME ConfigAssumption ==
  /\ Ifs \subseteq {3}
  /\ BufSizes \subseteq Nat /\ MaxSizes \subseteq Nat
  /\ PageSize \in Nat \ {0}

VARIABLES
  conf,      \* the ngx_http_drizzle_loc_conf_t of each block
  written,   \* history: the directives of each block, in their order
  phase,     \* "parse", "run", or "refused": nginx does not start
  answer     \* the last request, and what was done for it

vars == <<conf, written, phase, answer>>

Blocks == 1..3
Unset == -1
NoQuery == <<0, 0>>
NoAnswer == [status |-> "none"]
NoName == ""  \* the value of the variables is empty

\* complex_target starts as NGX_CONF_UNSET_PTR, which is not NULL.
CreateLocConf ==
  [default_query |-> NoQuery, queries |-> <<>>, methods_set |-> {},
   buf_size |-> Unset, max_buffered |-> Unset,
   complex_target |-> "unset", upstream |-> "null", handler |-> FALSE]

Init ==
  /\ conf = [b \in Blocks |-> CreateLocConf]
  /\ written = [b \in Blocks |-> <<>>]
  /\ phase = "parse"
  /\ answer = NoAnswer

-----------------------------------------------------------------------------
(* Reading the directives. An SQL text is known by the place of its         *)
(* directive.                                                               *)

Place(b) == <<b, Len(written[b]) + 1>>

\* One more directive in block b, which makes the block's configuration c.
Reads(b, directive, c) ==
  /\ phase = "parse"
  /\ Len(written[1]) + Len(written[2]) + Len(written[3]) < MaxDirectives
  /\ written' = [written EXCEPT ![b] = Append(@, directive)]
  /\ conf' = [conf EXCEPT ![b] = c]
  /\ UNCHANGED <<phase, answer>>

\* nginx refuses the configuration.
Refuses == phase' = "refused" /\ UNCHANGED <<conf, written, answer>>

\* drizzle_query <sql>
DefaultQuery(b) ==
  \/ /\ conf[b].default_query = NoQuery
     /\ Reads(b, [name |-> "query", methods |-> {}],
              [conf[b] EXCEPT !.default_query = Place(b)])
  \/ /\ phase = "parse"
     /\ conf[b].default_query # NoQuery
     /\ Refuses

\* drizzle_query <method>... <sql>
MethodQuery(b, methods) ==
  \/ /\ conf[b].methods_set \cap methods = {}
     /\ Reads(b, [name |-> "query", methods |-> methods],
              [conf[b] EXCEPT
                 !.queries = Append(@, [key |-> methods, sql |-> Place(b)]),
                 !.methods_set = @ \cup methods])
  \/ /\ phase = "parse"
     /\ conf[b].methods_set \cap methods # {}
     /\ Refuses

\* Mutant of Pass: complex_target keeps its value for a target without
\* variables.
PassKept(b, target) ==
  \/ /\ conf[b].upstream = "null"
     /\ Reads(b, [name |-> "pass", target |-> target],
              [conf[b] EXCEPT
                 !.handler = TRUE,
                 !.complex_target = IF target = "$host" THEN "$host" ELSE @,
                 !.upstream = IF target = "$host" THEN @ ELSE target])
  \/ /\ phase = "parse"
     /\ conf[b].upstream # "null"
     /\ Refuses

\* drizzle_pass; "$host" stands for a target with variables.
Pass(b, target) ==
  \/ /\ conf[b].upstream = "null"
     /\ Reads(b, [name |-> "pass", target |-> target],
              [conf[b] EXCEPT
                 !.handler = TRUE,
                 !.complex_target = IF target = "$host" THEN "$host" ELSE "null",
                 !.upstream = IF target = "$host" THEN @ ELSE target])
  \/ /\ phase = "parse"
     /\ conf[b].upstream # "null"
     /\ Refuses

\* ngx_conf_set_size_slot, for drizzle_buffer_size and drizzle_max_buffered
BufferSize(b, n) ==
  \/ /\ conf[b].buf_size = Unset
     /\ Reads(b, [name |-> "buf", size |-> n], [conf[b] EXCEPT !.buf_size = n])
  \/ /\ phase = "parse"
     /\ conf[b].buf_size # Unset
     /\ Refuses

MaxBuffered(b, n) ==
  \/ /\ conf[b].max_buffered = Unset
     /\ Reads(b, [name |-> "max", size |-> n],
              [conf[b] EXCEPT !.max_buffered = n])
  \/ /\ phase = "parse"
     /\ conf[b].max_buffered # Unset
     /\ Refuses

-----------------------------------------------------------------------------
(* Merging.                                                                 *)

MergeSize(own, prev, default) ==
  IF own # Unset THEN own ELSE IF prev # Unset THEN prev ELSE default

\* Mutant of MergeQueries: the default query and the others are inherited each
\* for itself.
MergeQueriesEach(prev, own) ==
  [own EXCEPT
     !.default_query = IF @ = NoQuery THEN prev.default_query ELSE @,
     !.methods_set = IF own.queries = <<>> THEN prev.methods_set ELSE @,
     !.queries = IF @ = <<>> THEN prev.queries ELSE @]

\* A block with a drizzle_query of its own inherits none.
MergeQueries(prev, own) ==
  IF own.default_query # NoQuery \/ own.queries # <<>> THEN own
  ELSE [own EXCEPT !.default_query = prev.default_query,
                   !.methods_set = prev.methods_set,
                   !.queries = prev.queries]

\* Mutant of MergeSizes: no default.
MergeSizesUnset(prev, own) ==
  [own EXCEPT !.buf_size = IF @ = Unset THEN prev.buf_size ELSE @,
              !.max_buffered = IF @ = Unset THEN prev.max_buffered ELSE @]

MergeSizes(prev, own) ==
  [own EXCEPT !.buf_size = MergeSize(@, prev.buf_size, PageSize),
              !.max_buffered = MergeSize(@, prev.max_buffered, DefaultMax)]

\* ngx_http_drizzle_merge_loc_conf: complex_target and upstream are not merged.
MergeLocConf(prev, own) == MergeSizes(prev, MergeQueries(prev, own))

\* Mutant of MergeAccepts: only what the block itself gives is looked at.
MergeAcceptsOwn(prev, own) ==
  /\ own.buf_size # 0
  /\ own.max_buffered = Unset \/ own.max_buffered >= own.buf_size

MergeAccepts(prev, own) ==
  LET c == MergeLocConf(prev, own)
  IN  c.buf_size # 0 /\ c.max_buffered >= c.buf_size

\* nginx merges the server with the main configuration, which is empty here,
\* and goes on inwards.
Merge ==
  LET c1 == MergeLocConf(CreateLocConf, conf[1])
      c2 == MergeLocConf(c1, conf[2])
      c3 == MergeLocConf(c2, conf[3])
  IN  /\ phase = "parse"
      /\ \/ /\ MergeAccepts(CreateLocConf, conf[1])
            /\ MergeAccepts(c1, conf[2])
            /\ MergeAccepts(c2, conf[3])
            /\ conf' = <<c1, c2, c3>>
            /\ phase' = "run"
            /\ UNCHANGED <<written, answer>>
         \/ /\ \/ ~MergeAccepts(CreateLocConf, conf[1])
               \/ ~MergeAccepts(c1, conf[2])
               \/ ~MergeAccepts(c2, conf[3])
            /\ Refuses

-----------------------------------------------------------------------------
(* A request.                                                               *)

\* nginx runs the handler of the location, also in an "if" without one.
Handled(b) == conf[b].handler \/ (b \in Ifs /\ conf[b - 1].handler)

\* The first checks of ngx_http_drizzle_handler
NoQueryFor(c, method) ==
  c.default_query = NoQuery /\ method \notin c.methods_set

\* Mutant of Target: the target is looked up once.
TargetOnce(c, host) ==
  IF c.complex_target # "$host" \/ c.upstream # "null" THEN c.upstream
  ELSE IF host \in Upstreams THEN host ELSE "null"

\* The upstream the handler finds; host is the value of the variables.
Target(c, host) ==
  IF c.complex_target # "$host" THEN c.upstream
  ELSE IF host \in Upstreams THEN host ELSE "null"

\* The query ngx_http_upstream_drizzle_init_peer takes: the first one with this
\* method.
QueryFor(c, method) ==
  IF method \in c.methods_set
  THEN c.queries[CHOOSE i \in DOMAIN c.queries :
                   /\ method \in c.queries[i].key
                   /\ \A j \in 1..(i - 1) : method \notin c.queries[j].key].sql
  ELSE c.default_query

Answers(b, method, host, status, sql, upstream) ==
  answer' = [block |-> b, method |-> method, host |-> host,
             status |-> status, sql |-> sql, upstream |-> upstream]

\* ngx_http_drizzle_handler, as far as dbd_connect. host may be empty or the name
\* of no upstream, which the location's configuration then forgets.
Request(b, method, host) ==
  /\ phase = "run"
  /\ Handled(b)
  /\ LET c == conf[b]
         target == Target(c, host)
     IN \/ /\ NoQueryFor(c, method)
           /\ Answers(b, method, host, IF c.methods_set # {} THEN "405" ELSE "500",
                      NoQuery, "null")
           /\ UNCHANGED conf
        \/ /\ ~NoQueryFor(c, method)
           /\ c.complex_target = "unset"
           /\ Answers(b, method, host, "crash", NoQuery, "null")
           /\ UNCHANGED conf
        \/ /\ ~NoQueryFor(c, method)
           /\ c.complex_target # "unset"
           /\ conf' = [conf EXCEPT ![b].upstream =
                         IF c.complex_target = "$host" /\ host = NoName THEN @
                         ELSE target]
           /\ IF target = "null"
              THEN Answers(b, method, host, "500", NoQuery, "null")
              ELSE Answers(b, method, host, "sent", QueryFor(c, method), target)
  /\ UNCHANGED <<written, phase>>

Next ==
  \/ \E b \in Blocks :
       \/ DefaultQuery(b)
       \/ \E methods \in (SUBSET Methods) \ {{}} : MethodQuery(b, methods)
       \/ b # 1 /\ \E target \in Upstreams \cup {"$host"} : Pass(b, target)
       \/ \E n \in BufSizes : BufferSize(b, n)
       \/ \E n \in MaxSizes : MaxBuffered(b, n)
  \/ Merge
  \/ \E b \in Blocks, method \in Methods \cup {"OTHER"},
        host \in Upstreams \cup {NoName, "unknown"} : Request(b, method, host)

Spec == Init /\ [][Next]_vars

-----------------------------------------------------------------------------
(* What must hold, said of the directives as they are written.              *)

\* The block from which b takes the directives with that name: itself, or the
\* nearest one around it that has one.
Outward(b, name) ==
  {o \in 1..b : \E i \in DOMAIN written[o] : written[o][i].name = name}
Source(b, name) ==
  IF Outward(b, name) = {} THEN 0
  ELSE CHOOSE o \in Outward(b, name) : \A p \in Outward(b, name) : p <= o

\* The places of the queries of block b for that set of methods or method.
Queries(b) ==
  IF b = 0 THEN {}
  ELSE {<<b, i>> : i \in {j \in DOMAIN written[b] : written[b][j].name = "query"}}
MethodsOf(place) == written[place[1]][place[2]].methods
Specific(b, method) == {q \in Queries(b) : method \in MethodsOf(q)}
Defaults(b) == {q \in Queries(b) : MethodsOf(q) = {}}

TypeOK ==
  /\ \A b \in Blocks :
       /\ conf[b].methods_set \subseteq Methods
       /\ conf[b].buf_size \in Nat \cup {Unset}
       /\ conf[b].max_buffered \in Nat \cup {Unset}
       /\ phase = "run" => Unset \notin {conf[b].buf_size, conf[b].max_buffered}
       /\ conf[b].upstream \in Upstreams \cup {"null"}
       /\ conf[b].complex_target \in {"unset", "null", "$host"}
  /\ phase \in {"parse", "run", "refused"}
  /\ answer.status \in {"none", "405", "500", "sent", "crash"}

\* A request gets the query written for its method in the nearest block that
\* has any drizzle_query, or that block's default; 405 if there is only one for
\* other methods, 500 if there is none. No two directives of an accepted block
\* are for the same method.
QueryAsWritten ==
  answer.status \notin {"none", "crash"} =>
    LET b == Source(answer.block, "query")
        chosen == IF Specific(b, answer.method) # {}
                  THEN Specific(b, answer.method) ELSE Defaults(b)
    IN  /\ answer.status = "sent" => chosen = {answer.sql}
        /\ answer.status = "405" <=> chosen = {} /\ b # 0
        /\ chosen = {} /\ b = 0 => answer.status = "500"

\* A request is sent to the upstream that the location's last drizzle_pass
\* names for this request, whichever ones earlier requests were sent to.
TargetAsWritten ==
  answer.status = "sent" =>
    LET b == answer.block
        pass == {i \in DOMAIN written[b] : written[b][i].name = "pass"}
    IN  \E i \in pass :
          /\ \A j \in pass : j <= i
          /\ answer.upstream = IF written[b][i].target = "$host"
                               THEN answer.host ELSE written[b][i].target

\* Every configuration that is accepted satisfies what Output assumes of
\* drizzle_buffer_size and drizzle_max_buffered, whichever block gave them.
SizesUsable ==
  phase = "run" =>
    \A b \in Blocks :
      /\ conf[b].buf_size > 0
      /\ conf[b].max_buffered >= conf[b].buf_size

\* A request is only sent where the block itself has a drizzle_pass, and only an
\* "if" that has none, in a location that has one, is answered with a target
\* that nobody has set: it gets the location's handler and its queries, but not
\* its target.  Wherever drizzle_pass stands itself, the target is set.
HandlerHasTarget ==
  LET passes == {o \in Blocks : \E i \in DOMAIN written[o] :
                   written[o][i].name = "pass"}
      b == answer.block
  IN  /\ answer.status = "sent" => b \in passes
      /\ answer.status = "crash" => b \in Ifs \ passes /\ b - 1 \in passes
=============================================================================
