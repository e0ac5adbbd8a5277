-------------------------- MODULE ReleaseLifecycle --------------------------
(***************************************************************************)
(* What the control plane promises about one release: its status only ever *)
(* follows the state machine.  Two code paths take a composite step, and   *)
(* both are named here: validation commits draft -> validating -> ready in *)
(* one transaction, and settling a rollback may record a failed rollback.  *)
(***************************************************************************)
EXTENDS ReleaseStateMachine

VARIABLE status

Init == status = "draft"

\* draft or blocked, through validating, to ready: one transaction.
ValidateInOneStep ==
  \E mid \in ReleaseState :
    /\ Step(status, "validate", mid)
    /\ Step(mid, "validate", status')

\* Every other change is a single edge of the state machine.
Follow(action) == Step(status, action, status')

\* The last device of a rollback reports: the rollback itself may have failed.
SettleFailed ==
  /\ Legal(status, "rollback")
  /\ status = "rolling_back"
  /\ status' = "failed"

Next ==
  \/ ValidateInOneStep
  \/ \E action \in ReleaseAction \ {"validate"} : Follow(action)
  \/ SettleFailed

Spec == Init /\ [][Next]_status

TypeOK == status \in ReleaseState

\* A terminal release stays as it ended, whatever operators, jobs, devices and
\* key compromises do afterwards.
TerminalIsFinal == [][(status \in Terminal) => (status' = status)]_status
=============================================================================
