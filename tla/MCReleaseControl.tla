-------------------------- MODULE MCReleaseControl --------------------------
(***************************************************************************)
(* Instances of ReleaseControl for TLC.                                    *)
(***************************************************************************)
EXTENDS ReleaseControl, TLC

Symmetry ==
  Permutations(Operators) \cup Permutations(Workers) \cup Permutations(Requests)
    \cup Permutations(Evaluations)
=============================================================================
