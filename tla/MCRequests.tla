----------------------------- MODULE MCRequests -----------------------------
(***************************************************************************)
(* Instances of Requests for TLC.                                          *)
(***************************************************************************)
EXTENDS Requests, TLC

Symmetry == Permutations(Clients) \cup Permutations(Digests)
=============================================================================
