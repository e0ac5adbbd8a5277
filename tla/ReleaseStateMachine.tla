------------------------ MODULE ReleaseStateMachine ------------------------
(***************************************************************************)
(* The transition table of domain::ReleaseStateMachine: the states of a    *)
(* release, the actions the control plane can ask for, and the one state   *)
(* each legal pair leads to.                                               *)
(***************************************************************************)

ReleaseState ==
  {"draft", "validating", "blocked", "ready", "awaiting_approval",
   "scheduled", "running", "paused", "aborting", "rolling_back",
   "completed", "aborted", "rolled_back", "failed", "cancelled"}

ReleaseAction ==
  {"validate", "submit", "approve", "schedule", "start", "cancel", "pause",
   "resume", "abort", "rollback", "gate_pass", "gate_pause", "gate_rollback",
   "gate_advance", "gate_override", "security_block"}

\* The states in which no device has been commanded yet.
BeforeRun ==
  {"draft", "validating", "ready", "awaiting_approval", "scheduled"}

\* <<state, action, next state>> for every pair transition() accepts.
Edges ==
  { <<"draft", "validate", "validating">>,
    <<"blocked", "validate", "validating">>,
    <<"validating", "validate", "ready">>,
    <<"ready", "submit", "awaiting_approval">>,
    <<"awaiting_approval", "approve", "ready">>,
    <<"ready", "schedule", "scheduled">>,
    <<"ready", "start", "running">>,
    <<"scheduled", "start", "running">>,
    <<"running", "pause", "paused">>,
    <<"paused", "resume", "running">>,
    <<"running", "abort", "aborting">>,
    <<"paused", "abort", "aborting">>,
    <<"aborting", "abort", "aborted">>,
    <<"running", "rollback", "rolling_back">>,
    <<"paused", "rollback", "rolling_back">>,
    <<"rolling_back", "rollback", "rolled_back">>,
    <<"paused", "gate_pass", "running">>,
    <<"paused", "gate_override", "running">>,
    <<"running", "gate_pause", "paused">>,
    <<"running", "gate_rollback", "rolling_back">>,
    <<"running", "gate_advance", "running">>,
    <<"running", "gate_pass", "completed">> }
  \cup { <<s, "cancel", "cancelled">> : s \in BeforeRun \cup {"blocked"} }
  \cup { <<s, "security_block", "blocked">> : s \in BeforeRun \cup {"paused"} }

\* The pairs for which transition() returns a state, and the state itself.
Legal(state, action) == \E t \in ReleaseState : <<state, action, t>> \in Edges
Step(state, action, next) == <<state, action, next>> \in Edges

\* States no action leaves.
Terminal == {"completed", "aborted", "rolled_back", "failed", "cancelled"}
============================================================================
