---------------------------- MODULE MCKeepalive -----------------------------
(***************************************************************************)
(* Instances of Keepalive for TLC: the pool alone, with requests that make *)
(* its calls in every order.                                               *)
(***************************************************************************)
EXTENDS Keepalive

\* Requests, peers and slots are interchangeable.
Symmetry ==
  Permutations(Requests) \cup Permutations(Peers) \cup Permutations(Conns)
=============================================================================
