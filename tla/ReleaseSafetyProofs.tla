------------------------- MODULE ReleaseSafetyProofs -------------------------
(***************************************************************************)
(* The safety properties of ReleaseControl that rest on the invariant Inv  *)
(* of ReleaseControlProofs: trust, staged exposure and two-person control.  *)
(***************************************************************************)
EXTENDS ReleaseControlProofs

(* Trust.                                                                  *)

\* No rollback starts onto an artifact that is not ready, or whose key is not
\* active, at that moment: not on a direct request, not on an approval given
\* hours later, not on the gate job's decision.
THEOREM RollbackIsTrusted == Spec => NoUntrustedRollback
<1> DEFINE Guarded ==
      status # "rolling_back" /\ status' = "rolling_back" =>
        "rollback" \in ready /\ keys["rollback"] = "active"
<1>1. Next => Guarded
  <2>. SUFFICES ASSUME Next, status # "rolling_back", status' = "rolling_back"
                PROVE  Trusted("rollback")
    BY DEF Trusted
  <2>1. CASE Operate
    BY <2>1
       DEF Operate, EditDraft, Validate, ApproveRoute, Schedule, Start, Cancel,
           Pause, Resume, Abort, Rollback, Submit, RequestControl,
           RequestOverride, EvaluateGate, Control, UpdateRelease
  <2>2. CASE Decide
    <3>1. ASSUME NEW op \in Operators, NEW r \in Requests,
                 ApproveControl(op, r)
          PROVE  Trusted("rollback")
      <4>1. requests[r].action = "rollback"
        BY <3>1, ExecutedMoves DEF Executed
      <4>2. QED
        BY <3>1, <4>1 DEF ApproveControl
    <3>2. QED
      BY <2>2, <3>1
         DEF Decide, DecideStart, ApproveOverride, RejectControl, UpdateRelease
  <2>3. CASE Work
    BY <2>3
       DEF Work, ExpireApprovals, StarterReads, StarterCommits, JobGivesUp,
           GateReads, GateAdvances, GateCompletes, GateRollsBack, GatePauses,
           GateWaits, UpdateRelease
  <2>4. CASE Environment
    BY <2>4
       DEF Environment, CompromiseKey, RetireKey, RetireArtifact,
           ValidateArtifact, Settle, RequestLapses, BecomesDue, WindowEnds,
           UpdateRelease, fixed
  <2>5. QED
    BY <2>1, <2>2, <2>3, <2>4 DEF Next
<1>2. [Next]_vars => [Guarded]_vars
  BY <1>1
<1>3. QED
  BY <1>2, PTL DEF Spec, NoUntrustedRollback

\* A key that stops being active never is again, so a blocked release keeps an
\* artifact that validation refuses.
BlockedByKey == status = "blocked" => \E a \in Artifacts : keys[a] # "active"

LEMMA KeysStayRevoked ==
  ASSUME TypeOK, Next, NEW a \in Artifacts, keys[a] # "active"
  PROVE  keys'[a] # "active"
<1>1. UNCHANGED keys => keys'[a] # "active"
  OBVIOUS
<1>2. ASSUME NEW b \in Artifacts, CompromiseKey(b) \/ RetireKey(b)
      PROVE  keys'[a] # "active"
  BY <1>2 DEF CompromiseKey, RetireKey, TypeOK
<1>3. CASE Operate
  BY <1>1, <1>3
     DEF Operate, EditDraft, Validate, ApproveRoute, Schedule, Start, Cancel,
         Pause, Resume, Abort, Rollback, Submit, RequestControl,
         RequestOverride, EvaluateGate, fixed
<1>4. CASE Decide
  BY <1>1, <1>4
     DEF Decide, DecideStart, ApproveControl, ApproveOverride, RejectControl, fixed
<1>5. CASE Work
  BY <1>1, <1>5
     DEF Work, ExpireApprovals, StarterReads, StarterCommits, JobGivesUp,
         GateReads, GateAdvances, GateCompletes, GateRollsBack, GatePauses,
         GateWaits, GateCommit, fixed
<1>6. CASE Environment
  BY <1>1, <1>2, <1>6
     DEF Environment, RetireArtifact, ValidateArtifact, Settle, RequestLapses,
         BecomesDue, WindowEnds, fixed
<1>7. QED
  BY <1>3, <1>4, <1>5, <1>6 DEF Next

LEMMA Blocking ==
  ASSUME Inv, Next, status # "blocked", status' = "blocked"
  PROVE  \E a \in Artifacts : keys'[a] # "active"
<1>1. ASSUME NEW action \in ReleaseAction \ {"security_block"},
             Step(status, action, "blocked")
      PROVE  FALSE
  BY <1>1 DEF Step, Edges, BeforeRun, ReleaseAction
<1>2. ASSUME NEW a \in Artifacts, CompromiseKey(a)
      PROVE  keys'[a] # "active"
  BY <1>2 DEF CompromiseKey, Inv, TypeOK
<1>3. CASE Operate
  BY <1>3
     DEF Operate, EditDraft, Validate, ApproveRoute, Schedule, Start, Cancel,
         Pause, Resume, Abort, Rollback, Submit, RequestControl,
         RequestOverride, EvaluateGate, Control, UpdateRelease
<1>4. CASE Decide
  BY <1>4, ExecutedMoves
     DEF Decide, DecideStart, ApproveOverride, RejectControl, UpdateRelease
<1>5. CASE Work
  BY <1>5
     DEF Work, ExpireApprovals, StarterReads, StarterCommits, JobGivesUp,
         GateReads, GateAdvances, GateCompletes, GateRollsBack, GatePauses,
         GateWaits, UpdateRelease
<1>6. CASE Environment
  BY <1>2, <1>6
     DEF Environment, RetireKey, RetireArtifact, ValidateArtifact, Settle,
         RequestLapses, BecomesDue, WindowEnds, UpdateRelease, fixed
<1>7. QED
  BY <1>3, <1>4, <1>5, <1>6 DEF Next

LEMMA BlockedByKeyInductive == Inv /\ BlockedByKey /\ [Next]_vars => BlockedByKey'
<1>1. CASE UNCHANGED vars
  BY <1>1 DEF BlockedByKey, vars
<1>2. ASSUME Inv, BlockedByKey, Next
      PROVE  BlockedByKey'
  BY <1>2, KeysStayRevoked, Blocking DEF BlockedByKey, Inv
<1>3. QED
  BY <1>1, <1>2

LEMMA LeavingBlocked ==
  ASSUME Inv, BlockedByKey, Next, status = "blocked"
  PROVE  status' \in {"blocked", "cancelled"}
<1>1. ASSUME NEW action \in ReleaseAction \ {"validate"}, NEW next,
             Step("blocked", action, next)
      PROVE  next = "cancelled"
  BY <1>1 DEF Step, Edges, BeforeRun, ReleaseAction
<1>2. {"submit", "approve", "schedule", "start", "cancel", "pause", "resume",
       "abort", "rollback", "gate_override"} \subseteq ReleaseAction \ {"validate"}
  BY DEF ReleaseAction
<1>3. CASE Operate
  <2>1. ~Validate
    BY DEF Validate, Trusted, BlockedByKey
  <2>2. QED
    BY <1>1, <1>2, <1>3, <2>1
       DEF Operate, EditDraft, ApproveRoute, Schedule, Start, Cancel, Pause,
           Resume, Abort, Rollback, Submit, RequestControl, RequestOverride,
           EvaluateGate, Control, UpdateRelease
<1>4. CASE Decide
  BY <1>1, <1>2, <1>4, ExecutedMoves
     DEF Decide, DecideStart, ApproveOverride, RejectControl, UpdateRelease
<1>5. CASE Work
  <2>1. \A w \in Workers : ~ (job[w].kind # "idle" /\ job[w].version = version)
    BY DEF Inv, ReadsAreCurrent, TypeOK, Job
  <2>2. QED
    BY <1>5, <2>1
       DEF Work, ExpireApprovals, StarterReads, StarterCommits, JobGivesUp,
           GateReads, GateAdvances, GateCompletes, GateRollsBack, GatePauses,
           GateWaits, GateCommit
<1>6. CASE Environment
  BY <1>6
     DEF Environment, CompromiseKey, RetireKey, RetireArtifact,
         ValidateArtifact, Settle, RequestLapses, BecomesDue, WindowEnds, fixed
<1>7. QED
  BY <1>3, <1>4, <1>5, <1>6 DEF Next

\* A release a compromise has blocked is only ever cancelled.
THEOREM BlockedIsForGood == Spec => BlockedForGood
<1> DEFINE Blocked == status = "blocked" => status' \in {"blocked", "cancelled"}
<1>1. Init => BlockedByKey
  BY DEF Init, BlockedByKey
<1>2. Inv /\ BlockedByKey /\ [Next]_vars => [Blocked]_vars
  BY LeavingBlocked
<1>3. QED
  BY <1>1, <1>2, InitInv, InvInductive, BlockedByKeyInductive, PTL
     DEF Spec, BlockedForGood
-----------------------------------------------------------------------------
(* Staged exposure.                                                        *)

\* Before a release runs none of its stages has started; this is what the
\* first activation needs.
Waiting == {"ready", "awaiting_approval", "scheduled"}

StagePhases ==
  /\ StagesInOrder
  /\ status \in Waiting => cursor = 1 /\ \A s \in Stages : stages[s] = "pending"
  /\ status \in {"running", "paused"} => cursor \in Stages

\* A status change that keeps cursor and stages keeps the phase of the release,
\* or takes it to a status of which nothing is claimed.
SamePhase ==
  /\ UNCHANGED <<cursor, stages>>
  /\ status' \in Waiting => status \in Waiting
  /\ status' \in {"running", "paused"} => status \in {"running", "paused"}
  /\ status' = "completed" => status = "completed"

LEMMA SamePhaseKeepsStages ==
  ASSUME StagePhases, SamePhase
  PROVE  StagePhases'
  BY DEF StagePhases, StagesInOrder, SamePhase

LEMMA EdgesKeepPhase ==
  ASSUME NEW action \in ReleaseAction \ {"validate", "start", "gate_pass"},
         NEW next, Step(status, action, next), status' = next,
         UNCHANGED <<cursor, stages>>
  PROVE  SamePhase
  BY DEF Step, Edges, BeforeRun, ReleaseAction, SamePhase, Waiting

LEMMA OperateKeepsStages ==
  ASSUME Inv, StagePhases, Operate
  PROVE  StagePhases'
<1>1. {"submit", "approve", "schedule", "cancel", "pause", "resume", "abort",
       "rollback"} \subseteq ReleaseAction \ {"validate", "start", "gate_pass"}
  BY DEF ReleaseAction
<1>2. UNCHANGED <<status, cursor, stages>> => SamePhase
  BY DEF SamePhase
<1>3. CASE Validate
  <2>1. status' = "ready" /\ cursor' = 1 /\ \A s \in Stages : stages'[s] = "pending"
    BY <1>3 DEF Validate
  <2>2. QED
    BY <2>1 DEF StagePhases, StagesInOrder
<1>4. CASE Start
  <2>1. status \in Waiting /\ status' = "running"
    BY <1>4 DEF Start, Control, UpdateRelease, Step, Edges, BeforeRun, Waiting
  <2>2. 1 \in Stages /\ cursor' = 1
    BY <1>4, <2>1, StageCountAssumption DEF Start, StagePhases, Stages
  <2>3. \A s \in Stages : stages'[s] = IF s = 1 THEN "active" ELSE "pending"
    BY <1>4, <2>1, <2>2 DEF Start, ActivateStage, StagePhases, Inv, TypeOK
  <2>4. \A s \in Stages : s \in Nat /\ s >= 1
    BY DEF Stages
  <2>5. QED
    BY <2>1, <2>2, <2>3, <2>4 DEF StagePhases, StagesInOrder, Waiting
<1>5. ASSUME NEW op \in Operators, NEW r \in Requests, NEW action,
             RequestControl(op, r, action)
      PROVE  SamePhase
  BY <1>5 DEF RequestControl, UpdateRelease, SamePhase, Waiting
<1>6. CASE ~Validate /\ ~Start
  <2>1. SamePhase
    BY <1>1, <1>2, <1>5, <1>6, EdgesKeepPhase, Operate
       DEF Operate, EditDraft, ApproveRoute, Schedule, Cancel, Pause, Resume,
           Abort, Rollback, Submit, RequestOverride, EvaluateGate, Control,
           UpdateRelease
  <2>2. QED
    BY <2>1, SamePhaseKeepsStages
<1>7. QED
  BY <1>3, <1>4, <1>6

LEMMA DecideKeepsStages ==
  ASSUME Inv, StagePhases, Decide
  PROVE  StagePhases'
<1>1. {"approve", "resume", "abort", "rollback", "gate_override"}
        \subseteq ReleaseAction \ {"validate", "start", "gate_pass"}
  BY DEF ReleaseAction
<1>2. UNCHANGED <<status, cursor, stages>> => SamePhase
  BY DEF SamePhase
<1>3. ASSUME NEW op \in Operators, NEW r \in Requests, ApproveControl(op, r)
      PROVE  SamePhase
  <2>1. UNCHANGED <<cursor, stages>>
    BY <1>3 DEF ApproveControl
  <2>2. QED
    BY <1>1, <1>2, <1>3, <2>1, ExecutedMoves, EdgesKeepPhase
<1>4. SamePhase
  BY <1>1, <1>2, <1>3, EdgesKeepPhase, Decide
     DEF Decide, DecideStart, ApproveOverride, RejectControl, UpdateRelease
<1>5. QED
  BY <1>4, SamePhaseKeepsStages

\* What holds when a gate job commits: it evaluated the stage of the cursor.
LEMMA GateCommitsCurrentStage ==
  ASSUME Inv, StagePhases, NEW w \in Workers, NEW e, NEW d, GateCommit(w, e, d)
  PROVE  /\ status = "running"
         /\ windowOver
         /\ cursor \in Stages
         /\ job[w].stage = cursor
         /\ stages[cursor] = "active"
         /\ \A s \in Stages :
              stages[s] = IF s < cursor THEN "passed"
                          ELSE IF s = cursor THEN "active" ELSE "pending"
<1>1. /\ status = "running"
      /\ windowOver
      /\ job[w].stage \in Stages
      /\ stages[job[w].stage] = "active"
  BY DEF GateCommit, Inv, ReadsAreCurrent
<1>2. \A s \in Stages :
        stages[s] = IF s < cursor THEN "passed"
                    ELSE IF s = cursor THEN "active" ELSE "pending"
  BY <1>1 DEF StagePhases, StagesInOrder
<1>3. QED
  BY <1>1, <1>2

LEMMA GateKeepsStages ==
  ASSUME Inv, StagePhases, NEW w \in Workers, NEW e \in Evaluations,
         \/ GateAdvances(w, e) \/ GateCompletes(w, e) \/ GateRollsBack(w, e)
         \/ GatePauses(w, e) \/ GateWaits(w, e)
  PROVE  StagePhases'
<1>1. /\ cursor \in Stages
      /\ job[w].stage = cursor
      /\ stages[cursor] = "active"
      /\ \A s \in Stages :
           stages[s] = IF s < cursor THEN "passed"
                       ELSE IF s = cursor THEN "active" ELSE "pending"
  BY GateCommitsCurrentStage
     DEF GateAdvances, GateCompletes, GateRollsBack, GatePauses, GateWaits
<1>2. status = "running" /\ stages \in [Stages -> StageStatus]
  BY GateCommitsCurrentStage
     DEF GateAdvances, GateCompletes, GateRollsBack, GatePauses, GateWaits,
         Inv, TypeOK
<1>3. CASE GateAdvances(w, e)
  <2>1. cursor + 1 \in Stages /\ cursor' = cursor + 1 /\ status' = "running"
    BY <1>1, <1>2, <1>3, StageCountAssumption
       DEF GateAdvances, HasNext, Activate, Stages
  <2>2. stages' = [[stages EXCEPT ![cursor] = "passed"] EXCEPT ![cursor + 1] = "active"]
    BY <1>1, <1>3 DEF GateAdvances, Activate, StageEnds
  <2>3. \A s \in Stages :
          stages'[s] = IF s < cursor' THEN "passed"
                       ELSE IF s = cursor' THEN "active" ELSE "pending"
    BY <1>1, <1>2, <2>1, <2>2, StageCountAssumption DEF Stages
  <2>4. QED
    BY <2>1, <2>3 DEF StagePhases, StagesInOrder, Waiting
<1>4. CASE GateCompletes(w, e)
  <2>1. status' = "completed" /\ stages' = [stages EXCEPT ![cursor] = "passed"]
    BY <1>1, <1>4 DEF GateCompletes, UpdateRelease, StageEnds
  <2>2. ~HasNext(cursor)
    BY <1>1, <1>4 DEF GateCompletes
  <2>3. cursor = StageCount
    BY <1>1, <2>2, StageCountAssumption DEF HasNext, Stages
  <2>4. \A s \in Stages : stages'[s] = "passed"
    BY <1>1, <1>2, <2>1, <2>3, StageCountAssumption DEF Stages
  <2>5. QED
    BY <2>1, <2>4 DEF StagePhases, StagesInOrder, Waiting
<1>5. CASE GateRollsBack(w, e)
  <2>1. status' = "rolling_back" /\ stages' = [stages EXCEPT ![cursor] = "failed"]
    BY <1>1, <1>5 DEF GateRollsBack, UpdateRelease, StageEnds
  <2>2. \A s \in Stages : stages'[s] # "active"
    BY <1>1, <1>2, <2>1
  <2>3. QED
    BY <2>1, <2>2 DEF StagePhases, StagesInOrder, Waiting
<1>6. CASE GatePauses(w, e) \/ GateWaits(w, e)
  <2>1. SamePhase
    BY <1>2, <1>6 DEF GatePauses, GateWaits, UpdateRelease, SamePhase, Waiting
  <2>2. QED
    BY <2>1, SamePhaseKeepsStages
<1>7. QED
  BY <1>3, <1>4, <1>5, <1>6

LEMMA WorkKeepsStages ==
  ASSUME Inv, StagePhases, Work
  PROVE  StagePhases'
<1>1. ASSUME NEW w \in Workers, StarterCommits(w)
      PROVE  StagePhases'
  <2>1. status = "scheduled" /\ status' = "running"
    BY <1>1 DEF StarterCommits, Inv, ReadsAreCurrent
  <2>2. /\ 1 \in Stages
        /\ cursor' = 1
        /\ stages' = [stages EXCEPT ![1] = "active"]
    BY <1>1, StageCountAssumption DEF StarterCommits, Activate, Stages
  <2>3. \A s \in Stages : stages'[s] = IF s = 1 THEN "active" ELSE "pending"
    BY <2>1, <2>2 DEF StagePhases, Waiting, Inv, TypeOK
  <2>4. \A s \in Stages : s \in Nat /\ s >= 1
    BY DEF Stages
  <2>5. QED
    BY <2>1, <2>2, <2>3, <2>4 DEF StagePhases, StagesInOrder, Waiting
<1>2. UNCHANGED <<status, cursor, stages>> => StagePhases'
  BY SamePhaseKeepsStages DEF SamePhase
<1>3. QED
  BY <1>1, <1>2, GateKeepsStages, Work
     DEF Work, ExpireApprovals, StarterReads, JobGivesUp, GateReads

LEMMA EnvironmentKeepsStages ==
  ASSUME Inv, StagePhases, Environment
  PROVE  StagePhases'
<1>1. SamePhase
  BY Environment
     DEF Environment, CompromiseKey, RetireKey, RetireArtifact,
         ValidateArtifact, Settle, RequestLapses, BecomesDue, WindowEnds,
         UpdateRelease, fixed, SamePhase, Waiting
<1>2. QED
  BY <1>1, SamePhaseKeepsStages

LEMMA StagePhasesInductive == Inv /\ StagePhases /\ [Next]_vars => StagePhases'
<1>1. CASE UNCHANGED vars
  BY <1>1 DEF StagePhases, StagesInOrder, vars
<1>2. QED
  BY <1>1, OperateKeepsStages, DecideKeepsStages, WorkKeepsStages,
     EnvironmentKeepsStages DEF Next

LEMMA InitStagePhases == Init => StagePhases
  BY DEF Init, StagePhases, StagesInOrder, Waiting

\* Stages are exposed in order and one at a time, however starts, gates,
\* overrides, pauses and compromises interleave.
THEOREM StagesStayInOrder == Spec => []StagesInOrder
<1>1. StagePhases => StagesInOrder
  BY DEF StagePhases
<1>2. QED
  BY <1>1, InitInv, InvInductive, InitStagePhases, StagePhasesInductive, PTL
     DEF Spec

\* A stage passes only in the commit of a gate job, while the release runs and
\* after the stage's observation window, on the pass recorded with it.
THEOREM PromotionIsEarned == Spec => PromotionOnFreshEvidence
<1> DEFINE Earned ==
      \A s \in Stages :
        stages[s] # "passed" /\ stages'[s] = "passed" =>
          /\ status = "running"
          /\ windowOver
          /\ cursor = s
          /\ latest' # None
          /\ evaluations'[latest'] = "pass"
<1>1. ASSUME Inv, StagePhases, Next, NEW s \in Stages,
             stages[s] # "passed", stages'[s] = "passed"
      PROVE  \E w \in Workers, e \in Evaluations :
               GateAdvances(w, e) \/ GateCompletes(w, e)
  <2>1. stages \in [Stages -> StageStatus]
    BY <1>1 DEF Inv, TypeOK
  <2>2. CASE Operate
    BY <1>1, <2>1, <2>2
       DEF Operate, EditDraft, Validate, ApproveRoute, Schedule, Start, Cancel,
           Pause, Resume, Abort, Rollback, Submit, RequestControl,
           RequestOverride, EvaluateGate, ActivateStage
  <2>3. CASE Decide
    BY <1>1, <2>3
       DEF Decide, DecideStart, ApproveControl, ApproveOverride, RejectControl
  <2>4. CASE Work
    BY <1>1, <2>1, <2>4
       DEF Work, ExpireApprovals, StarterReads, StarterCommits, Activate,
           JobGivesUp, GateReads, GateRollsBack, StageEnds, GatePauses, GateWaits
  <2>5. CASE Environment
    BY <1>1, <2>5
       DEF Environment, CompromiseKey, RetireKey, RetireArtifact,
           ValidateArtifact, Settle, RequestLapses, BecomesDue, WindowEnds, fixed
  <2>6. QED
    BY <1>1, <2>2, <2>3, <2>4, <2>5 DEF Next
<1>2. ASSUME Inv, StagePhases, Next, NEW s \in Stages,
             stages[s] # "passed", stages'[s] = "passed"
      PROVE  /\ status = "running"
             /\ windowOver
             /\ cursor = s
             /\ latest' # None
             /\ evaluations'[latest'] = "pass"
  <2>1. PICK w \in Workers, e \in Evaluations :
          GateAdvances(w, e) \/ GateCompletes(w, e)
    BY <1>1, <1>2
  <2>2. GateCommit(w, e, "pass")
    BY <2>1 DEF GateAdvances, GateCompletes
  <2>3. status = "running" /\ windowOver /\ job[w].stage = cursor /\ cursor \in Stages
    BY <1>2, <2>2, GateCommitsCurrentStage
  <2>4. latest' # None /\ evaluations'[latest'] = "pass"
    BY <1>2, <2>2, NoneAssumption DEF GateCommit, Record, Inv, TypeOK
  <2>5. stages \in [Stages -> StageStatus]
    BY <1>2 DEF Inv, TypeOK
  <2>6. s = cursor
    BY <1>2, <2>1, <2>3, <2>5
       DEF GateAdvances, GateCompletes, Activate, StageEnds
  <2>7. QED
    BY <2>3, <2>4, <2>6
<1>3. Inv /\ StagePhases /\ [Next]_vars => [Earned]_vars
  BY <1>2
<1>4. QED
  BY <1>3, InitInv, InvInductive, InitStagePhases, StagePhasesInductive, PTL
     DEF Spec, PromotionOnFreshEvidence

-----------------------------------------------------------------------------
(* Two-person control.                                                     *)

\* Only an approved start is kept for later, it was given by a second operator,
\* and none is left for a scheduled release: scheduling has spent it.
ApprovalsHeld ==
  /\ \A r \in Requests :
       requests[r].status = "approved" =>
         /\ requests[r].action = "start"
         /\ requests[r].requester # requests[r].decider
         /\ TwoPerson /\ status = "scheduled" => requests[r].approved < version
  /\ TwoPerson => \A w \in Workers : job[w].kind # "starter"

LEMMA RowsStayHeld ==
  ASSUME Inv, ApprovalsHeld, Next, NEW r \in Requests,
         requests'[r].status = "approved"
  PROVE  /\ requests'[r].action = "start"
         /\ requests'[r].requester # requests'[r].decider
         /\ TwoPerson /\ status' = "scheduled" => requests'[r].approved < version'
<1>1. /\ version \in Nat /\ version' \in Nat
      /\ version' >= version
      /\ version' = version => status' = status
  BY VersionMoves, InvInductive DEF Inv, TypeOK
<1>2. CASE RowKept(r)
  <2>1. requests[r].status = "approved" /\ requests'[r].approved = requests[r].approved
    BY <1>2 DEF RowKept
  <2>2. requests[r].approved \in Nat /\ requests[r].approved <= version
    BY <2>1 DEF Inv, TypeOK, Request, ReadsAreCurrent
  <2>3. TwoPerson /\ status' = "scheduled" => requests[r].approved < version'
    <3>1. CASE version' = version
      BY <1>1, <2>1, <3>1 DEF ApprovalsHeld
    <3>2. CASE version' > version
      BY <1>1, <2>2, <3>2
    <3>3. QED
      BY <1>1, <3>1, <3>2
  <2>4. QED
    BY <1>2, <2>1, <2>3 DEF RowKept, SameParties, ApprovalsHeld
<1>3. CASE RowDecided(r)
  BY <1>3 DEF RowDecided
<1>4. QED
  BY <1>2, <1>3, RequestMoves DEF Inv, RowMoves, RowClosed, RowInserted, RowSpent

LEMMA NoStarter ==
  ASSUME Inv, ApprovalsHeld, Next, TwoPerson, NEW w \in Workers
  PROVE  job'[w].kind # "starter"
<1>1. CASE job'[w] = job[w]
  BY <1>1 DEF ApprovalsHeld
<1>2. CASE job'[w] = Idle
  BY <1>2 DEF Idle
<1>3. CASE JobReads(w)
  <2>1. ~ (status = "scheduled" /\ \E r \in Requests : Authorises(r, "start"))
    BY DEF Authorises, ApprovalsHeld, Inv, TypeOK, Request
  <2>2. QED
    BY <1>3, <2>1 DEF JobReads
<1>4. QED
  BY <1>1, <1>2, <1>3, JobMoves DEF Inv

LEMMA ApprovalsHeldInductive == Inv /\ ApprovalsHeld /\ [Next]_vars => ApprovalsHeld'
<1>1. CASE UNCHANGED vars
  BY <1>1 DEF ApprovalsHeld, vars
<1>2. ASSUME Inv, ApprovalsHeld, Next
      PROVE  ApprovalsHeld'
  BY <1>2, RowsStayHeld, NoStarter DEF ApprovalsHeld
<1>3. QED
  BY <1>1, <1>2

LEMMA InitApprovalsHeld == Init => ApprovalsHeld
  BY DEF Init, ApprovalsHeld, Unused, Idle

\* A direct action spends the approval that permits it ...
LEMMA DirectSpends ==
  ASSUME Inv, ApprovalsHeld, TwoPerson, NEW action \in Controlled,
         Permitted(action), Consume(ApprovalFor(action))
  PROVE  \E r \in Requests : Spends(r, ApprovalFor(action))
<1>1. PICK r \in Requests : Authorises(r, ApprovalFor(action))
  BY DEF Permitted
<1>2. requests[r] \in Request
  BY DEF Inv, TypeOK
<1>3. requests'[r] = [requests[r] EXCEPT !.status = "spent"]
  BY <1>1 DEF Consume, Authorises
<1>4. requests[r].requester # requests[r].decider
  BY <1>1 DEF Authorises, ApprovalsHeld
<1>5. Spends(r, ApprovalFor(action))
  BY <1>1, <1>2, <1>3, <1>4 DEF Spends, Authorises, Request
<1>6. QED
  BY <1>5

\* ... and so does an approval that executes its action at once.
LEMMA DecisionSpends ==
  ASSUME Inv, NEW op \in Operators, NEW r \in Requests,
         Decidable(op, r), Decided(op, r, "approved"), requests[r].action # "start"
  PROVE  Spends(r, requests[r].action)
<1>1. requests[r] \in Request /\ requests'[r] = Granted(op, r)
  BY DEF Inv, TypeOK, Decided
<1>2. QED
  BY <1>1 DEF Spends, Granted, Decidable, Request

LEMMA OperateNeedsTwo ==
  ASSUME Inv, ApprovalsHeld, TwoPerson, Operate
  PROVE  OperatorStep
<1>1. CASE Start
  <2>1. status # "paused" /\ status' = "running"
    BY <1>1 DEF Start, Control, UpdateRelease, Step, Edges, BeforeRun
  <2>2. \E r \in Requests : Spends(r, "start")
    BY <1>1, DirectSpends DEF Start, Control, Controlled, ApprovalFor
  <2>3. QED
    BY <2>1, <2>2 DEF OperatorStep
<1>2. CASE Resume
  <2>1. status = "paused" /\ status' = "running"
    BY <1>2 DEF Resume, Control, UpdateRelease, Step, Edges, BeforeRun
  <2>2. \E r \in Requests : Spends(r, "resume")
    BY <1>2, DirectSpends DEF Resume, Control, Controlled, ApprovalFor
  <2>3. QED
    BY <2>1, <2>2 DEF OperatorStep
<1>3. CASE Abort
  <2>1. status' \in {"aborting", "aborted"}
    BY <1>3 DEF Abort, Control, UpdateRelease
  <2>2. \E r \in Requests : Spends(r, "abort")
    BY <1>3, DirectSpends DEF Abort, Control, Controlled, ApprovalFor
  <2>3. QED
    BY <2>1, <2>2 DEF OperatorStep
<1>4. CASE Rollback
  <2>1. status' \in {"rolling_back", "rolled_back"}
    BY <1>4 DEF Rollback, Control, UpdateRelease
  <2>2. \E r \in Requests : Spends(r, "rollback")
    BY <1>4, DirectSpends DEF Rollback, Control, Controlled, ApprovalFor
  <2>3. QED
    BY <2>1, <2>2 DEF OperatorStep
<1>5. CASE status' \notin {"running", "aborting", "rolling_back"}
           \/ UNCHANGED status
  BY <1>5 DEF OperatorStep
<1>6. QED
  BY <1>1, <1>2, <1>3, <1>4, <1>5, Operate
     DEF Operate, EditDraft, Validate, ApproveRoute, Schedule, Cancel, Pause,
         Submit, RequestControl, RequestOverride, EvaluateGate, Control,
         UpdateRelease

LEMMA DecideNeedsTwo ==
  ASSUME Inv, Decide
  PROVE  OperatorStep
<1>1. ASSUME NEW op \in Operators, NEW r \in Requests, ApproveControl(op, r)
      PROVE  OperatorStep
  <2>1. Spends(r, requests[r].action)
    BY <1>1, DecisionSpends DEF ApproveControl
  <2>2. CASE UNCHANGED status
    BY <2>2 DEF OperatorStep
  <2>3. CASE requests[r].action = "resume" /\ Step(status, "resume", status')
    <3>1. status = "paused" /\ status' = "running"
      BY <2>3 DEF Step, Edges, BeforeRun
    <3>2. QED
      BY <2>1, <2>3, <3>1 DEF OperatorStep
  <2>4. CASE requests[r].action \in {"abort", "rollback"}
    <3>1. \/ requests[r].action = "abort" /\ status' = "aborting"
          \/ requests[r].action = "rollback" /\ status' = "rolling_back"
      BY <1>1, <2>4, ExecutedMoves DEF Executed
    <3>2. QED
      BY <2>1, <3>1 DEF OperatorStep
  <2>5. QED
    BY <1>1, <2>2, <2>3, <2>4, ExecutedMoves
<1>2. ASSUME NEW op \in Operators, NEW r \in Requests, ApproveOverride(op, r)
      PROVE  OperatorStep
  <2>1. Spends(r, "gate_override")
    BY <1>2, DecisionSpends DEF ApproveOverride
  <2>2. status = "paused" /\ status' = "running"
    BY <1>2 DEF ApproveOverride, UpdateRelease, Step, Edges, BeforeRun
  <2>3. QED
    BY <2>1, <2>2 DEF OperatorStep
<1>3. QED
  BY <1>1, <1>2, Decide
     DEF Decide, DecideStart, RejectControl, UpdateRelease, OperatorStep

LEMMA WorkNeedsTwo ==
  ASSUME Inv, ApprovalsHeld, TwoPerson, Work
  PROVE  OperatorStep
<1>1. ~ \E w \in Workers : StarterCommits(w)
  BY DEF StarterCommits, ApprovalsHeld
<1>2. ASSUME NEW w \in Workers, NEW e \in Evaluations, GateRollsBack(w, e)
      PROVE  OperatorStep
  <2>1. job[w].stage \in Stages /\ stages[job[w].stage] = "active"
    BY <1>2 DEF GateRollsBack, GateCommit, Inv, ReadsAreCurrent
  <2>2. stages'[job[w].stage] = "failed"
    BY <1>2, <2>1 DEF GateRollsBack, StageEnds, Inv, TypeOK
  <2>3. status' = "rolling_back"
    BY <1>2 DEF GateRollsBack, UpdateRelease
  <2>4. QED
    BY <2>1, <2>2, <2>3 DEF OperatorStep
<1>3. CASE status' \notin {"running", "aborting", "rolling_back"}
           \/ UNCHANGED status
  BY <1>3 DEF OperatorStep
<1>4. QED
  BY <1>1, <1>2, <1>3, Work
     DEF Work, ExpireApprovals, StarterReads, JobGivesUp, GateReads,
         GateAdvances, GateCompletes, GatePauses, GateWaits, UpdateRelease

LEMMA EnvironmentNeedsNobody ==
  ASSUME Environment
  PROVE  OperatorStep
  BY Environment
     DEF Environment, CompromiseKey, RetireKey, RetireArtifact,
         ValidateArtifact, Settle, RequestLapses, BecomesDue, WindowEnds,
         UpdateRelease, fixed, OperatorStep

\* Under a two-person policy no operator alone, and no job on an operator's
\* behalf, starts, resumes, aborts or rolls back a release.
THEOREM TwoPersonsControl == Spec => TwoPersonControl
<1>1. Inv /\ ApprovalsHeld /\ [Next]_vars => [TwoPerson => OperatorStep]_vars
  BY OperateNeedsTwo, DecideNeedsTwo, WorkNeedsTwo, EnvironmentNeedsNobody
     DEF Next
<1>2. QED
  BY <1>1, InitInv, InvInductive, InitApprovalsHeld, ApprovalsHeldInductive, PTL
     DEF Spec, TwoPersonControl
=============================================================================
