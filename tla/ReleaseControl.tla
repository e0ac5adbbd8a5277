--------------------------- MODULE ReleaseControl ---------------------------
(***************************************************************************)
(* The control of one release: the operator routes of ControlPlane that    *)
(* create, validate, schedule, start, pause, resume, abort and roll back   *)
(* it, the approvals two operators give each other, and the worker jobs    *)
(* that start it when due, evaluate its stages and sweep its approvals.    *)
(*                                                                         *)
(* Every HTTP mutation runs in one storage transaction under the storage   *)
(* mutex, so an operator's request is one action.  A worker job reads its  *)
(* inputs first and commits in a later transaction: each job is two        *)
(* actions, with what it read kept in job[w] between them.                 *)
(*                                                                         *)
(* Devices are modelled in DeviceRollout.  Here a gate decision is any     *)
(* decision the evaluator can return, and the report that settles an       *)
(* aborting or rolling-back release is an action of the environment.       *)
(***************************************************************************)
EXTENDS Naturals, ReleaseStateMachine

CONSTANTS
  Operators,      \* actors holding an operator credential
  Workers,        \* worker passes that may overlap: replicas, or an expired lease
  Requests,       \* approval_requests rows that may be inserted (a bound)
  Evaluations,    \* health_gate_evaluations rows that may be inserted (a bound)
  StageCount,     \* length of the policy's stage plan
  TwoPerson,      \* the policy's two_person_approval
  Artifacts,      \* those whose trust may change: "target", and "rollback" when
                  \* the release names one
  MaxVersion,     \* bound on releases.version
  None            \* no operator, no evaluation

ASSUME StageCountAssumption == StageCount \in Nat \ {0}
ASSUME MaxVersionAssumption == MaxVersion \in Nat \ {0}
ASSUME TwoPersonAssumption == TwoPerson \in BOOLEAN
ASSUME ArtifactsAssumption ==
  Artifacts # {} /\ Artifacts \subseteq {"target", "rollback"}
ASSUME NoneAssumption == None \notin Operators /\ None \notin Evaluations

VARIABLES
  status,         \* releases.status
  version,        \* releases.version
  cursor,         \* releases.current_stage_ordinal
  due,            \* releases.scheduled_for <= now
  stages,         \* release_stages.status by ordinal; "absent" before validation
  windowOver,     \* the active stage's observation_ends_at <= now
  requests,       \* approval_requests
  evaluations,    \* health_gate_evaluations
  latest,         \* the evaluation with the greatest evaluated_at
  keys,           \* artifact_signing_keys.status of each artifact's key
  ready,          \* the artifacts whose status is ready
  job             \* what each worker job has read and not yet committed

vars == <<status, version, cursor, due, stages, windowOver, requests,
          evaluations, latest, keys, ready, job>>

-----------------------------------------------------------------------------
(* Rows. *)

Stages == 1..StageCount
StageStatus == {"absent", "pending", "active", "passed", "failed"}

\* The actions an approval request can authorise.
ApprovalAction == {"start", "resume", "abort", "rollback", "gate_override"}
RequestStatus ==
  {"unused", "requested", "approved", "spent", "rejected", "expired",
   "superseded"}

\* "unused" is a row that was never inserted, "spent" an approved one whose
\* consumed_at is set.  "approved" is approved_release_version (0 for NULL) and
\* "expires" tells expires_at from now.  "context" is history: the status and
\* stage of the release right after the request was recorded, which is what its
\* author saw.
Request ==
  [status : RequestStatus, action : ApprovalAction, captured : Nat,
   approved : Nat, requester : Operators \cup {None},
   decider : Operators \cup {None}, expires : {"ahead", "past"},
   evaluation : Evaluations \cup {None},
   context : ReleaseState \X (0..StageCount)]

Unused ==
  [status |-> "unused", action |-> "start", captured |-> 0, approved |-> 0,
   requester |-> None, decider |-> None, expires |-> "past",
   evaluation |-> None, context |-> <<"draft", 0>>]

\* GateEvaluator::evaluate never returns "abort".
Decision == {"pass", "pause", "rollback", "insufficient_evidence"}

Evaluation == Decision \cup {"absent"}

Job == [kind : {"idle", "starter", "gate"}, version : Nat,
        stage : 0..StageCount, decision : Decision]

Idle == [kind |-> "idle", version |-> 0, stage |-> 0,
         decision |-> "insufficient_evidence"]

Init ==
  /\ status = "draft"
  /\ version = 1
  /\ cursor = 0
  /\ due = FALSE
  /\ stages = [s \in Stages |-> "absent"]
  /\ windowOver = FALSE
  /\ requests = [r \in Requests |-> Unused]
  /\ evaluations = [e \in Evaluations |-> "absent"]
  /\ latest = None
  /\ keys = [a \in Artifacts |-> "active"]
  /\ ready = Artifacts
  /\ job = [w \in Workers |-> Idle]

-----------------------------------------------------------------------------
(* Storage::updateRelease: the row changes only at the version the caller  *)
(* read, and every change takes the next version.                          *)

Bump(n) == /\ version + n <= MaxVersion
           /\ version' = version + n

UpdateRelease(next, expected) ==
  /\ expected = version
  /\ Bump(1)
  /\ status' = next

\* The first stage becomes active; a second call finds it no longer pending.
ActivateStage(s, before) ==
  IF before[s] = "pending" THEN [before EXCEPT ![s] = "active"] ELSE before

\* The request that authorises an action at this version of the release.
Authorises(r, action) ==
  /\ requests[r].status = "approved"
  /\ requests[r].action = action
  /\ requests[r].approved = version
  /\ requests[r].expires = "ahead"

Consume(action) ==
  requests' = [r \in Requests |->
    IF /\ requests[r].status = "approved"
       /\ requests[r].action = action
       /\ requests[r].approved = version
    THEN [requests[r] EXCEPT !.status = "spent"]
    ELSE requests[r]]

\* A request that is neither pending nor usable any more is only ever listed:
\* its row keeps its status and may be taken for a later request.
Close(r, how) == [Unused EXCEPT !.status = how]

Forgettable(r) ==
  \/ requests[r].status \notin {"requested", "approved"}
  \/ requests[r].status = "approved" /\ requests[r].approved < version

\* INSERT INTO approval_requests; "seen" is the history field.
Insert(r, op, action, captured, evaluation, seen) ==
  /\ Forgettable(r)
  /\ requests' = [requests EXCEPT ![r] =
       [Unused EXCEPT !.status = "requested", !.action = action,
                      !.captured = captured, !.requester = op,
                      !.expires = "ahead", !.evaluation = evaluation, !.context = seen]]

\* INSERT INTO health_gate_evaluations.  A row that no pending request names may
\* be taken for a later evaluation.
Record(e, decision) ==
  /\ \A r \in Requests :
       requests[r].status = "requested" => requests[r].evaluation # e
  /\ evaluations' = [evaluations EXCEPT ![e] = decision]
  /\ latest' = e
-----------------------------------------------------------------------------
(* Operator routes on the release.  A request carries the version its      *)
(* author read; a stale one is answered 409 and changes nothing, so the    *)
(* actions are those of a request that carries the present version.        *)

fixed == <<due, keys, ready, job>>

\* A release may install an artifact that is ready and whose key is active.
Trusted(a) == a \in ready /\ keys[a] = "active"

\* PATCH of a draft.
EditDraft ==
  /\ status = "draft"
  /\ Bump(1)
  /\ UNCHANGED <<status, cursor, stages, windowOver, requests, evaluations,
                 latest, fixed>>

\* Mutant of Validate: the artifacts and their keys are not looked at.
ValidateUntrusted ==
  /\ status \in {"draft", "blocked"}
  /\ Bump(2)
  /\ status' = "ready"
  /\ stages' = [s \in Stages |-> "pending"]
  /\ cursor' = 1
  /\ UNCHANGED <<windowOver, requests, evaluations, latest, fixed>>

\* draft or blocked, through validating, to ready, freezing the stages.
Validate ==
  /\ status \in {"draft", "blocked"}
  /\ \A a \in Artifacts : Trusted(a)
  /\ Bump(2)
  /\ status' = "ready"
  /\ stages' = [s \in Stages |-> "pending"]
  /\ cursor' = 1
  /\ UNCHANGED <<windowOver, requests, evaluations, latest, fixed>>

\* The two-person actions, and the approval each of them looks for.
Controlled == {"schedule", "start", "resume", "abort", "rollback"}
ApprovalFor(action) == IF action = "schedule" THEN "start" ELSE action

Permitted(action) ==
  TwoPerson /\ action \in Controlled =>
    \E r \in Requests : Authorises(r, ApprovalFor(action))

\* A two-person action nobody has approved yet is recorded as a request.  One
\* pending request per action; a start moves a ready release to wait for it.
RequestControl(op, r, action) ==
  /\ TwoPerson
  /\ ~Permitted(action)
  /\ \A q \in Requests : ~( /\ requests[q].status = "requested"
                            /\ requests[q].action = action
                            /\ requests[q].expires = "ahead" )
  /\ IF status = "ready" /\ action = "start"
     THEN /\ UpdateRelease("awaiting_approval", version)
          /\ Insert(r, op, action, version + 1, None,
                    <<"awaiting_approval", cursor>>)
     ELSE /\ Insert(r, op, action, version, None, <<status, cursor>>)
          /\ UNCHANGED <<status, version>>
  /\ UNCHANGED <<cursor, stages, windowOver, evaluations, latest, fixed>>

\* The part every direct control action shares.
Control(action, next) ==
  /\ Permitted(action)
  /\ Step(status, action, next)
  /\ UpdateRelease(next, version)

Submit(op, r) ==
  /\ Control("submit", "awaiting_approval")
  /\ Insert(r, op, "start", version + 1, None, <<"awaiting_approval", cursor>>)
  /\ UNCHANGED <<cursor, stages, windowOver, evaluations, latest, fixed>>

\* POST /releases/{id}/approve: no approval request is looked at.
ApproveRoute ==
  /\ Control("approve", "ready")
  /\ UNCHANGED <<cursor, stages, windowOver, requests, evaluations, latest,
                 fixed>>

Schedule ==
  /\ Control("schedule", "scheduled")
  /\ Consume("start")
  /\ due' = FALSE
  /\ UNCHANGED <<cursor, stages, windowOver, evaluations, latest, keys, ready, job>>

\* A start activates the first stage and commands its devices.
Start ==
  /\ Control("start", "running")
  /\ stages' = ActivateStage(1, stages)
  /\ windowOver' = (windowOver /\ stages[1] # "pending")
  /\ Consume("start")
  /\ UNCHANGED <<cursor, evaluations, latest, fixed>>

\* Mutant of Cancel: any release that has not ended may be cancelled.
CancelUnchecked ==
  /\ status \notin Terminal
  /\ UpdateRelease("cancelled", version)
  /\ requests' = [r \in Requests |->
       IF requests[r].status = "requested"
       THEN Close(r, "superseded") ELSE requests[r]]
  /\ UNCHANGED <<cursor, stages, windowOver, evaluations, latest, fixed>>

Cancel ==
  /\ Control("cancel", "cancelled")
  /\ requests' = [r \in Requests |->
       IF requests[r].status = "requested"
       THEN Close(r, "superseded") ELSE requests[r]]
  /\ UNCHANGED <<cursor, stages, windowOver, evaluations, latest, fixed>>

Pause ==
  /\ Control("pause", "paused")
  /\ UNCHANGED <<cursor, stages, windowOver, requests, evaluations, latest,
                 fixed>>

\* Resume wants the most recent evaluation, of any stage and age, to be a pass.
Resume ==
  /\ Control("resume", "running")
  /\ latest # None
  /\ evaluations[latest] = "pass"
  /\ Consume("resume")
  /\ UNCHANGED <<cursor, stages, windowOver, evaluations, latest, fixed>>

\* The release takes the state the table gives: a second abort ends one that is
\* aborting, and a second rollback one that is rolling back.
Abort ==
  /\ \E next \in {"aborting", "aborted"} : Control("abort", next)
  /\ Consume("abort")
  /\ UNCHANGED <<cursor, stages, windowOver, evaluations, latest, fixed>>

Rollback ==
  /\ \E next \in {"rolling_back", "rolled_back"} : Control("rollback", next)
  /\ Trusted("rollback")
  /\ Consume("rollback")
  /\ UNCHANGED <<cursor, stages, windowOver, evaluations, latest, fixed>>

\* POST /gates/evaluate records a decision; it changes nothing else.
EvaluateGate(e, decision) ==
  /\ \E s \in Stages : stages[s] # "absent"
  /\ Record(e, decision)
  /\ UNCHANGED <<status, version, cursor, stages, windowOver, requests, fixed>>

\* An override names a pause or insufficient evaluation, of whatever age.
Overridable(e) == evaluations[e] \in {"pause", "insufficient_evidence"}

RequestOverride(op, r, e) ==
  /\ Overridable(e)
  /\ \A q \in Requests : ~( /\ requests[q].status = "requested"
                            /\ requests[q].action = "gate_override"
                            /\ requests[q].evaluation = e
                            /\ requests[q].expires = "ahead" )
  /\ Insert(r, op, "gate_override", version, e, <<status, cursor>>)
  /\ UNCHANGED <<status, version, cursor, stages, windowOver, evaluations,
                 latest, fixed>>

-----------------------------------------------------------------------------
(* POST /approvals/{id}/approve and /reject.                               *)

\* Mutant of Decidable: an operator may decide a request of their own.
DecidableByAnyone(op, r) ==
  /\ requests[r].status = "requested"
  /\ requests[r].expires = "ahead"
  /\ requests[r].captured = version
  /\ requests[r].action = "gate_override" =>
       Overridable(requests[r].evaluation)

\* The checks every decision makes: pending, four eyes, version, evaluation.
Decidable(op, r) ==
  /\ requests[r].status = "requested"
  /\ requests[r].expires = "ahead"
  /\ requests[r].requester # op
  /\ requests[r].captured = version
  /\ requests[r].action = "gate_override" =>
       Overridable(requests[r].evaluation)

\* Mutant of Granted: every approval names the version after the request's.
GrantedLate(op, r) ==
  [requests[r] EXCEPT
    !.status = IF requests[r].action = "start" THEN "approved" ELSE "spent",
    !.decider = op,
    !.approved = requests[r].captured + 1]

\* Granting anything but a start consumes the approval in the same statement.
Granted(op, r) ==
  [requests[r] EXCEPT
    !.status = IF requests[r].action = "start" THEN "approved" ELSE "spent",
    !.decider = op,
    !.approved = IF requests[r].action = "start"
                 THEN requests[r].captured + 1 ELSE requests[r].captured]

Decided(op, r, verdict) ==
  requests' = [requests EXCEPT ![r] =
    IF verdict = "approved" THEN Granted(op, r) ELSE Close(r, "rejected")]

\* A decided start returns the release to ready, approved or rejected.
DecideStart(op, r, verdict) ==
  /\ Decidable(op, r)
  /\ requests[r].action = "start"
  /\ Step(status, "approve", "ready")
  /\ UpdateRelease("ready", requests[r].captured)
  /\ Decided(op, r, verdict)
  /\ UNCHANGED <<cursor, stages, windowOver, evaluations, latest, fixed>>

\* The state an approval writes, whatever the table would give.
Executed(action) ==
  CASE action = "resume"   -> "running"
    [] action = "abort"    -> "aborting"
    [] action = "rollback" -> "rolling_back"

\* Mutant of ApproveControl: a rollback is approved onto any artifact.
ApproveControlUntrusted(op, r) ==
  /\ Decidable(op, r)
  /\ requests[r].action \in {"resume", "abort", "rollback"}
  /\ Legal(status, requests[r].action)
  /\ UpdateRelease(Executed(requests[r].action), requests[r].captured)
  /\ Decided(op, r, "approved")
  /\ UNCHANGED <<cursor, stages, windowOver, evaluations, latest, fixed>>

\* Every other approval is consumed by executing its action at once, wherever
\* the table allows the action.
ApproveControl(op, r) ==
  /\ Decidable(op, r)
  /\ requests[r].action \in {"resume", "abort", "rollback"}
  /\ Legal(status, requests[r].action)
  /\ requests[r].action = "rollback" => Trusted("rollback")
  /\ UpdateRelease(Executed(requests[r].action), requests[r].captured)
  /\ Decided(op, r, "approved")
  /\ UNCHANGED <<cursor, stages, windowOver, evaluations, latest, fixed>>

\* An approved override resumes the release and restarts the observation of
\* its active stage.
ApproveOverride(op, r) ==
  /\ Decidable(op, r)
  /\ requests[r].action = "gate_override"
  /\ Step(status, "gate_override", "running")
  /\ UpdateRelease("running", requests[r].captured)
  /\ Decided(op, r, "approved")
  /\ windowOver' = (windowOver /\ \A s \in Stages : stages[s] # "active")
  /\ UNCHANGED <<cursor, stages, evaluations, latest, fixed>>

RejectControl(op, r) ==
  /\ Decidable(op, r)
  /\ requests[r].action # "start"
  /\ Decided(op, r, "rejected")
  /\ UNCHANGED <<status, version, cursor, stages, windowOver, evaluations,
                 latest, fixed>>
-----------------------------------------------------------------------------
(* Worker jobs.  A job reads, lets go of the storage, and commits later if  *)
(* the version it read is still the release's.                             *)

\* The next stage becomes active and the cursor follows, one version later.
\* Nothing is pending after the last stage.
Activate(s, before) ==
  /\ stages' = [before EXCEPT ![s] = "active"]
  /\ cursor' = s
  /\ windowOver' = FALSE

\* Mutant of StarterReads: every policy is taken to want an approval.
StarterReadsApproved(w) ==
  /\ job[w] = Idle
  /\ status = "scheduled"
  /\ due
  /\ \E r \in Requests : Authorises(r, "start")
  /\ job' = [job EXCEPT ![w] =
       [Idle EXCEPT !.kind = "starter", !.version = version]]
  /\ UNCHANGED <<status, version, cursor, due, stages, windowOver, requests,
                 evaluations, latest, keys, ready>>

\* ScheduledReleaseStarter picks a due release, with its approval if needed.
StarterReads(w) ==
  /\ job[w] = Idle
  /\ status = "scheduled"
  /\ due
  /\ TwoPerson => \E r \in Requests : Authorises(r, "start")
  /\ job' = [job EXCEPT ![w] =
       [Idle EXCEPT !.kind = "starter", !.version = version]]
  /\ UNCHANGED <<status, version, cursor, due, stages, windowOver, requests,
                 evaluations, latest, keys, ready>>

\* It runs the release and activates the first stage: two versions in one go.
StarterCommits(w) ==
  /\ job[w].kind = "starter"
  /\ job[w].version = version
  /\ stages[1] = "pending"
  /\ Bump(2)
  /\ status' = "running"
  /\ Activate(1, stages)
  /\ IF TwoPerson THEN Consume("start") ELSE UNCHANGED requests
  /\ job' = [job EXCEPT ![w] = Idle]
  /\ UNCHANGED <<due, evaluations, latest, keys, ready>>

\* StageGateEvaluatorJob reads an active stage whose window is over, and the
\* reports and health samples that lead it to a decision.
GateReads(w, s, decision) ==
  /\ job[w] = Idle
  /\ status = "running"
  /\ stages[s] = "active"
  /\ windowOver
  /\ job' = [job EXCEPT ![w] =
       [kind |-> "gate", version |-> version, stage |-> s,
        decision |-> decision]]
  /\ UNCHANGED <<status, version, cursor, due, stages, windowOver, requests,
                 evaluations, latest, keys, ready>>

\* The state machine action a decision asks for.
GateAction(decision, hasNext) ==
  CASE decision = "pass" /\ hasNext  -> "gate_advance"
    [] decision = "pass" /\ ~hasNext -> "gate_pass"
    [] decision = "pause"            -> "gate_pause"
    [] decision = "rollback"         -> "gate_rollback"

\* Mutant of GateCommit: the version it read is not compared again.
GateCommitUnversioned(w, e, decision) ==
  /\ job[w].kind = "gate"
  /\ job[w].decision = decision
  /\ Record(e, decision)
  /\ job' = [job EXCEPT ![w] = Idle]
  /\ UNCHANGED <<due, requests, keys, ready>>

\* What every commit of the gate job requires and records.
GateCommit(w, e, decision) ==
  /\ job[w].kind = "gate"
  /\ job[w].decision = decision
  /\ job[w].version = version
  /\ Record(e, decision)
  /\ job' = [job EXCEPT ![w] = Idle]
  /\ UNCHANGED <<due, requests, keys, ready>>

\* Mutant of StageEnds: the stage keeps its status.
StageGoesOn(s, how) == stages

StageEnds(s, how) ==
  IF stages[s] = "active" THEN [stages EXCEPT ![s] = how] ELSE stages

HasNext(s) == s < StageCount /\ stages[s + 1] = "pending"

\* A pass promotes the release to its next stage ...
GateAdvances(w, e) ==
  LET s == job[w].stage IN
  /\ GateCommit(w, e, "pass")
  /\ HasNext(s)
  /\ Step(status, GateAction("pass", TRUE), "running")
  /\ cursor = s
  /\ Activate(s + 1, StageEnds(s, "passed"))
  /\ Bump(1)
  /\ UNCHANGED status

\* ... and completes it after the last one.
GateCompletes(w, e) ==
  LET s == job[w].stage IN
  /\ GateCommit(w, e, "pass")
  /\ ~HasNext(s)
  /\ Step(status, GateAction("pass", FALSE), "completed")
  /\ UpdateRelease("completed", job[w].version)
  /\ stages' = StageEnds(s, "passed")
  /\ UNCHANGED <<cursor, windowOver>>

\* Without a trusted rollback artifact the whole commit is undone, the
\* evaluation with it.
GateRollsBack(w, e) ==
  LET s == job[w].stage IN
  /\ GateCommit(w, e, "rollback")
  /\ Step(status, GateAction("rollback", HasNext(s)), "rolling_back")
  /\ Trusted("rollback")
  /\ UpdateRelease("rolling_back", job[w].version)
  /\ stages' = StageEnds(s, "failed")
  /\ UNCHANGED <<cursor, windowOver>>

GatePauses(w, e) ==
  /\ GateCommit(w, e, "pause")
  /\ Step(status, GateAction("pause", HasNext(job[w].stage)), "paused")
  /\ UpdateRelease("paused", job[w].version)
  /\ UNCHANGED <<cursor, stages, windowOver>>

\* Insufficient evidence is recorded and the release goes on as it was.
GateWaits(w, e) ==
  /\ GateCommit(w, e, "insufficient_evidence")
  /\ UNCHANGED <<status, version, cursor, stages, windowOver>>

\* The commit is refused: the version moved, or the rollback is not trusted.
JobGivesUp(w) ==
  /\ job[w] # Idle
  /\ \/ job[w].version # version
     \/ job[w].decision = "rollback" /\ ~Trusted("rollback")
  /\ job' = [job EXCEPT ![w] = Idle]
  /\ UNCHANGED <<status, version, cursor, due, stages, windowOver, requests,
                 evaluations, latest, keys, ready>>

\* Mutant of Sweepable: only time makes a request stale.
SweepableByTime(r) ==
  /\ requests[r].status = "requested"
  /\ requests[r].expires = "past"

\* MaintenanceJobRunner::expireApprovals.
Sweepable(r) ==
  /\ requests[r].status = "requested"
  /\ requests[r].expires = "past" \/ requests[r].captured # version

ExpireApprovals ==
  /\ \E r \in Requests : Sweepable(r)
  /\ requests' = [r \in Requests |->
       IF ~Sweepable(r) THEN requests[r]
       ELSE Close(r, IF requests[r].expires = "ahead" THEN "superseded" ELSE "expired")]
  /\ UNCHANGED <<status, version, cursor, stages, windowOver, evaluations,
                 latest, fixed>>

-----------------------------------------------------------------------------
(* The environment: keys, devices and time.                                *)

\* Mutant of CompromiseKey: the release changes under its old version.
CompromiseKeyUnversioned(a) ==
  /\ keys' = IF keys[a] = "active"
             THEN [keys EXCEPT ![a] = "compromised"] ELSE keys
  /\ ready' = ready \ {a}
  /\ status' = CASE status = "running" -> "paused"
                 [] status \in {"ready", "awaiting_approval", "scheduled", "paused"}
                      -> "blocked"
                 [] OTHER -> status
  /\ UNCHANGED <<version, cursor, due, stages, windowOver, requests,
                 evaluations, latest, job>>

\* A compromise blocks the artifact and every release that uses it: one that
\* runs is paused, one that waits or is paused is blocked.  The call may be
\* repeated, for a key that is retired or compromised already as well.
CompromiseKey(a) ==
  /\ keys' = IF keys[a] = "active"
             THEN [keys EXCEPT ![a] = "compromised"] ELSE keys
  /\ ready' = ready \ {a}
  /\ IF status \in {"ready", "awaiting_approval", "scheduled", "running", "paused"}
     THEN /\ status' = IF status = "running" THEN "paused" ELSE "blocked"
          /\ Bump(1)
     ELSE UNCHANGED <<status, version>>
  /\ UNCHANGED <<cursor, due, stages, windowOver, requests, evaluations,
                 latest, job>>

\* Retiring a key or an artifact leaves the releases that use it alone.
RetireKey(a) ==
  /\ keys[a] = "active"
  /\ keys' = [keys EXCEPT ![a] = "retired"]
  /\ UNCHANGED <<status, version, cursor, due, stages, windowOver, requests,
                 evaluations, latest, ready, job>>

RetireArtifact(a) ==
  /\ a \in ready
  /\ ready' = ready \ {a}
  /\ UNCHANGED <<status, version, cursor, due, stages, windowOver, requests,
                 evaluations, latest, keys, job>>

\* Validating an artifact again makes it ready unless its key is compromised;
\* where its bytes or signature fail, it does what retiring does.
ValidateArtifact(a) ==
  /\ ready' = IF keys[a] = "compromised" THEN ready \ {a} ELSE ready \cup {a}
  /\ UNCHANGED <<status, version, cursor, due, stages, windowOver, requests,
                 evaluations, latest, keys, job>>

\* settleReleaseAfterDeviceReport, once no assignment is in flight.
Settle(next) ==
  /\ \/ status = "aborting" /\ next = "aborted"
     \/ status = "rolling_back" /\ next \in {"rolled_back", "failed"}
  /\ UpdateRelease(next, version)
  /\ UNCHANGED <<cursor, stages, windowOver, requests, evaluations, latest,
                 fixed>>

RequestLapses(r) ==
  /\ requests[r].expires = "ahead"
  /\ requests[r].status \in {"requested", "approved"}
  /\ requests' = [requests EXCEPT ![r].expires = "past"]
  /\ UNCHANGED <<status, version, cursor, stages, windowOver, evaluations,
                 latest, fixed>>

BecomesDue ==
  /\ status = "scheduled"
  /\ ~due
  /\ due' = TRUE
  /\ UNCHANGED <<status, version, cursor, stages, windowOver, requests,
                 evaluations, latest, keys, ready, job>>

WindowEnds ==
  /\ ~windowOver
  /\ \E s \in Stages : stages[s] = "active"
  /\ windowOver' = TRUE
  /\ UNCHANGED <<status, version, cursor, stages, requests, evaluations,
                 latest, fixed>>
-----------------------------------------------------------------------------
Operate ==
  \/ EditDraft \/ Validate \/ ApproveRoute \/ Schedule \/ Start \/ Cancel
  \/ Pause \/ Resume \/ Abort \/ Rollback
  \/ \E op \in Operators, r \in Requests :
       \/ Submit(op, r)
       \/ \E action \in Controlled \ {"schedule"} : RequestControl(op, r, action)
       \/ \E e \in Evaluations : RequestOverride(op, r, e)
  \/ \E e \in Evaluations, d \in Decision : EvaluateGate(e, d)

Decide ==
  \E op \in Operators, r \in Requests :
    \/ \E verdict \in {"approved", "rejected"} : DecideStart(op, r, verdict)
    \/ ApproveControl(op, r)
    \/ ApproveOverride(op, r)
    \/ RejectControl(op, r)

Work ==
  \/ ExpireApprovals
  \/ \E w \in Workers :
       \/ StarterReads(w) \/ StarterCommits(w) \/ JobGivesUp(w)
       \/ \E s \in Stages, d \in Decision : GateReads(w, s, d)
       \/ \E e \in Evaluations :
            \/ GateAdvances(w, e) \/ GateCompletes(w, e) \/ GateRollsBack(w, e)
            \/ GatePauses(w, e) \/ GateWaits(w, e)

Environment ==
  \/ \E a \in Artifacts : \/ CompromiseKey(a) \/ RetireKey(a)
                          \/ RetireArtifact(a) \/ ValidateArtifact(a)
  \/ \E next \in ReleaseState : Settle(next)
  \/ \E r \in Requests : RequestLapses(r)
  \/ BecomesDue
  \/ WindowEnds

Next == Operate \/ Decide \/ Work \/ Environment

\* The worker loop runs for as long as the server does; operators, devices and
\* compromises are under no obligation, and time passes.
Fairness ==
  /\ WF_vars(ExpireApprovals)
  /\ WF_vars(BecomesDue)
  /\ \A w \in Workers : WF_vars(StarterReads(w)) /\ WF_vars(StarterCommits(w))
                        /\ WF_vars(JobGivesUp(w))

Spec == Init /\ [][Next]_vars

LiveSpec == Spec /\ Fairness
-----------------------------------------------------------------------------
(* Properties.                                                             *)

TypeOK ==
  /\ status \in ReleaseState
  /\ version \in 1..MaxVersion
  /\ cursor \in 0..StageCount
  /\ due \in BOOLEAN
  /\ stages \in [Stages -> StageStatus]
  /\ windowOver \in BOOLEAN
  /\ requests \in [Requests -> Request]
  /\ evaluations \in [Evaluations -> Evaluation]
  /\ latest \in Evaluations \cup {None}
  /\ keys \in [Artifacts -> {"active", "retired", "compromised"}]
  /\ ready \subseteq Artifacts
  /\ job \in [Workers -> Job]

\* Two-person control: an operator's start, resume, abort or rollback happens
\* only in the step that spends one live approval for it, requested by one
\* operator and given by another for exactly the version the release has.  The
\* gate job may roll back, but only by failing the stage it evaluated.
Spends(r, action) ==
  /\ requests[r].action = action
  /\ requests[r].status \in {"requested", "approved"}
  /\ requests[r].expires = "ahead"
  /\ requests'[r].status = "spent"
  /\ requests'[r].approved = version
  /\ requests'[r].requester # requests'[r].decider

OperatorStep ==
  /\ status # "running" /\ status' = "running" =>
       \E r \in Requests :
         IF status = "paused" THEN Spends(r, "resume") \/ Spends(r, "gate_override")
         ELSE Spends(r, "start")
  /\ status # "aborting" /\ status' = "aborting" =>
       \E r \in Requests : Spends(r, "abort")
  /\ status # "rolling_back" /\ status' = "rolling_back" =>
       \/ \E r \in Requests : Spends(r, "rollback")
       \/ \E s \in Stages : stages[s] = "active" /\ stages'[s] = "failed"

TwoPersonControl == [][TwoPerson => OperatorStep]_vars

\* An approval is given to the release its author looked at: between request
\* and decision the release has changed neither status nor stage, although
\* jobs, compromises and other operators may have acted in between.
ApprovalActsOnWhatWasRequested ==
  [][\A r \in Requests :
       /\ requests[r].status = "requested"
       /\ requests'[r].status \in {"approved", "spent"}
       => requests[r].context = <<status, cursor>>]_vars

\* An approval authorises one transition: once spent, the release has moved
\* past the version it names, so nothing can match it again.
SpentApprovalIsPast ==
  \A r \in Requests :
    requests[r].status = "spent" => requests[r].approved < version

\* The version stands for everything a caller read with it.  A job or a request
\* made at the present version finds the release as it was read, and no row
\* names a version the release has yet to reach: this is what lets a
\* compare-and-set on one integer protect reads made outside the transaction.
ReadsAreCurrent ==
  /\ \A w \in Workers :
       /\ job[w].version <= version
       /\ job[w].version = version =>
            /\ job[w].kind = "starter" => status = "scheduled"
            /\ job[w].kind = "gate" =>
                 /\ status = "running"
                 /\ job[w].stage \in Stages
                 /\ stages[job[w].stage] = "active"
                 /\ windowOver
  /\ \A r \in Requests :
       /\ requests[r].status = "requested" => requests[r].captured <= version
       /\ requests[r].status = "requested" /\ requests[r].captured = version =>
            requests[r].context = <<status, cursor>>
       /\ requests[r].status = "approved" => requests[r].approved <= version
       /\ requests[r].status = "spent" => requests[r].approved < version

\* Stages are exposed in order and one at a time: behind the cursor all have
\* passed, ahead of it none has started, and a completed release passed all.
StagesInOrder ==
  /\ status \in {"running", "paused"} =>
       \A s \in Stages :
         stages[s] = IF s < cursor THEN "passed"
                     ELSE IF s = cursor THEN "active" ELSE "pending"
  /\ status = "completed" => \A s \in Stages : stages[s] = "passed"
  /\ \A s, t \in Stages : stages[s] = "active" /\ stages[t] = "active" => s = t

\* A stage passes only while its release runs, after its observation window,
\* on a pass recorded in the same step: a pause, an override or a compromise
\* between the job's reading and its commit wins.
PromotionOnFreshEvidence ==
  [][\A s \in Stages :
       stages[s] # "passed" /\ stages'[s] = "passed" =>
         /\ status = "running"
         /\ windowOver
         /\ cursor = s
         /\ latest' # None
         /\ evaluations'[latest'] = "pass"
    ]_vars

\* No rollback starts onto an artifact that is not trusted at that moment,
\* however long ago it was asked for or decided.
NoUntrustedRollback ==
  [][status # "rolling_back" /\ status' = "rolling_back" =>
       "rollback" \in ready /\ keys["rollback"] = "active"]_vars

\* A release blocked by a compromise is never validated, started or resumed
\* again: the artifacts of a compromised key are blocked for good.
BlockedForGood ==
  [][status = "blocked" => status' \in {"blocked", "cancelled"}]_vars

\* Every step of the detailed control is a step the state machine allows.
Lifecycle == INSTANCE ReleaseLifecycle WITH status <- status
FollowsLifecycle == Lifecycle!Spec

\* A request nobody can approve any more, because it expired or because the
\* release moved on, does not stay pending and keep out a new one.
StaleRequestIsSwept ==
  \A r \in Requests :
    /\ requests[r].status = "requested"
    /\ requests[r].expires = "past" \/ requests[r].captured # version
    ~> requests[r].status # "requested"

\* A scheduled release does not stay scheduled for ever: once it is due the
\* worker starts it, unless an operator or a compromise was faster.  (Starting
\* takes two versions; the model's bound must leave them.)
DueReleaseStarts ==
  status = "scheduled" /\ version + 2 <= MaxVersion ~> status # "scheduled"
=============================================================================
