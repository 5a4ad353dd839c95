----------------------------- MODULE MCUpstream -----------------------------
(***************************************************************************)
(* Instances of Upstream for TLC.                                          *)
(***************************************************************************)
EXTENDS Upstream

\* Requests and slots are interchangeable; peers are not, the round robin
\* orders them.
Symmetry == Permutations(Requests) \cup Permutations(Conns)
=============================================================================
