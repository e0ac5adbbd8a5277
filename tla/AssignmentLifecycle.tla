------------------------- MODULE AssignmentLifecycle -------------------------
(***************************************************************************)
(* What the control plane promises about one device's part in one release: *)
(* it is told to install at most once, and once told to go back is never   *)
(* told to install again.  It may be told to go back more than once, each  *)
(* time under a generation greater than any before.  What was called off   *)
(* or rolled back is over: no answer and no command reopens it.            *)
(***************************************************************************)
EXTENDS Naturals

CONSTANTS
  Target,     \* the artifact the release installs
  Original    \* the artifact it takes the device back to

VARIABLES state, generation, artifact

assignmentVars == <<state, generation, artifact>>

\* An answer is expected.
Awaited == {"pending", "commanded", "acknowledged"}

Init == state = "none" /\ generation = 0 /\ artifact = Original

\* The release reaches the device.
Expose ==
  /\ state = "none" /\ state' = "commanded"
  /\ generation' > 0
  /\ artifact' = Target

\* The device answers. It has rolled back only if it was told to.
Answer ==
  /\ state \in Awaited
  /\ state' \in {"acknowledged", "converged", "failed", "rolled_back"}
  /\ state' = "rolled_back" => artifact = Original
  /\ UNCHANGED <<generation, artifact>>

\* No answer came while the command was good.
Strand ==
  /\ state \in Awaited \ {"acknowledged"} /\ state' = "stranded"
  /\ UNCHANGED <<generation, artifact>>

\* An installation, and never a rollback, is called off.
CallOff ==
  /\ state \in Awaited /\ artifact = Target
  /\ state' = "cancelling"
  /\ UNCHANGED <<generation, artifact>>

\* A device that may have installed is told to go back, for the first time or
\* once more.
TakeBack ==
  /\ state \notin {"none", "cancelling", "rolled_back"}
  /\ state' = "pending" /\ artifact' = Original
  /\ generation' > generation

Next == Expose \/ Answer \/ Strand \/ CallOff \/ TakeBack

Step == Next \/ UNCHANGED assignmentVars

Spec == Init /\ [][Step]_assignmentVars
=============================================================================
