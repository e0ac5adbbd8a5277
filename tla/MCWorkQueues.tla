---------------------------- MODULE MCWorkQueues ----------------------------
(***************************************************************************)
(* Instances of WorkQueues for TLC.                                        *)
(***************************************************************************)
EXTENDS WorkQueues

CONSTANTS a, b, c  \* workers, a and b with names of their own

OwnName == [w \in Workers |-> w]

\* The third worker goes by the name of the first.
SharedName == [w \in Workers |-> IF w = c THEN a ELSE w]
=============================================================================
