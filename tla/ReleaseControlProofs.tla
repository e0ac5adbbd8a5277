------------------------ MODULE ReleaseControlProofs ------------------------
(***************************************************************************)
(* What ReleaseControl's runs check on small instances, proved for every   *)
(* number of operators, workers, requests, evaluations, stages and         *)
(* versions.                                                               *)
(***************************************************************************)
EXTENDS ReleaseControl, TLAPS

(* Rows of approval_requests are well formed whatever is done to them.     *)

LEMMA StatusType ==
  ASSUME NEW row \in Request, NEW how \in RequestStatus
  PROVE  [row EXCEPT !.status = how] \in Request
  BY DEF Request

LEMMA ExpiryType ==
  ASSUME NEW row \in Request
  PROVE  [row EXCEPT !.expires = "past"] \in Request
  BY DEF Request

LEMMA UnusedType == Unused \in Request
<1>1. <<"draft", 0>> \in ReleaseState \X (0..StageCount)
  BY StageCountAssumption DEF ReleaseState
<1>2. "start" \in ApprovalAction /\ "unused" \in RequestStatus
  BY DEF ApprovalAction, RequestStatus
<1>3. QED
  BY <1>1, <1>2 DEF Unused, Request

LEMMA CloseType ==
  ASSUME NEW r \in Requests, NEW how \in RequestStatus
  PROVE  Close(r, how) \in Request
  BY UnusedType, StatusType DEF Close

LEMMA ConsumeType ==
  ASSUME requests \in [Requests -> Request], NEW action, Consume(action)
  PROVE  requests' \in [Requests -> Request]
<1>1. "spent" \in RequestStatus
  BY DEF RequestStatus
<1>2. ASSUME NEW r \in Requests
      PROVE  [requests[r] EXCEPT !.status = "spent"] \in Request
  BY <1>1, StatusType
<1>3. QED
  BY <1>2 DEF Consume

LEMMA InsertType ==
  ASSUME requests \in [Requests -> Request],
         NEW op \in Operators, NEW r \in Requests, NEW action \in ApprovalAction,
         NEW captured \in Nat, NEW evaluation \in Evaluations \cup {None},
         NEW seen \in ReleaseState \X (0..StageCount),
         Insert(r, op, action, captured, evaluation, seen)
  PROVE  requests' \in [Requests -> Request]
<1>1. ASSUME NEW row \in Request
      PROVE  [row EXCEPT !.status = "requested", !.action = action,
                         !.captured = captured, !.requester = op,
                         !.expires = "ahead", !.evaluation = evaluation,
                         !.context = seen] \in Request
  BY DEF Request, RequestStatus
<1>2. QED
  BY <1>1, UnusedType DEF Insert

LEMMA GrantedType ==
  ASSUME requests \in [Requests -> Request],
         NEW op \in Operators, NEW r \in Requests
  PROVE  Granted(op, r) \in Request
<1>1. ASSUME NEW row \in Request, NEW how \in RequestStatus, NEW approved \in Nat
      PROVE  [row EXCEPT !.status = how, !.decider = op,
                         !.approved = approved] \in Request
  BY DEF Request
<1>2. /\ requests[r] \in Request
      /\ (IF requests[r].action = "start" THEN "approved" ELSE "spent")
           \in RequestStatus
  BY DEF RequestStatus
<1>3. (IF requests[r].action = "start"
       THEN requests[r].captured + 1 ELSE requests[r].captured) \in Nat
  BY <1>2 DEF Request
<1>4. QED
  BY <1>1, <1>2, <1>3 DEF Granted

LEMMA DecidedType ==
  ASSUME requests \in [Requests -> Request],
         NEW op \in Operators, NEW r \in Requests, NEW verdict,
         Decided(op, r, verdict)
  PROVE  requests' \in [Requests -> Request]
<1>1. Close(r, "rejected") \in Request
  BY CloseType DEF RequestStatus
<1>2. QED
  BY <1>1, GrantedType DEF Decided

-----------------------------------------------------------------------------
(* Type correctness.                                                       *)

LEMMA StatusNames ==
  /\ {"draft", "blocked", "ready", "awaiting_approval", "scheduled", "running",
      "paused", "aborting", "rolling_back", "completed", "aborted",
      "rolled_back", "failed", "cancelled"} \subseteq ReleaseState
  /\ {"pending", "active", "passed", "failed"} \subseteq StageStatus
  /\ \A a : a \in ApprovalAction <=>
       a \in {"start", "resume", "abort", "rollback", "gate_override"}
  BY DEF ReleaseState, StageStatus, ApprovalAction

LEMMA BumpType ==
  ASSUME TypeOK, NEW n \in Nat, Bump(n)
  PROVE  version' \in 1..MaxVersion
  BY MaxVersionAssumption DEF TypeOK, Bump

\* An approval that executes its action takes the release one step of the table,
\* or leaves it where that action brought it before.
LEMMA ExecutedMoves ==
  ASSUME NEW op, NEW r, ApproveControl(op, r)
  PROVE  /\ requests[r].action \in {"resume", "abort", "rollback"}
         /\ status' = Executed(requests[r].action)
         /\ status' \in {"running", "aborting", "rolling_back"}
         /\ Step(status, requests[r].action, status') \/ UNCHANGED status
<1>1. /\ requests[r].action \in {"resume", "abort", "rollback"}
      /\ Legal(status, requests[r].action)
      /\ status' = Executed(requests[r].action)
  BY DEF ApproveControl, UpdateRelease
<1>2. /\ Executed("resume") = "running"
      /\ Executed("abort") = "aborting"
      /\ Executed("rollback") = "rolling_back"
  BY DEF Executed
<1>3. /\ Legal(status, "resume") => Step(status, "resume", "running")
      /\ Legal(status, "abort") =>
           Step(status, "abort", "aborting") \/ status = "aborting"
      /\ Legal(status, "rollback") =>
           Step(status, "rollback", "rolling_back") \/ status = "rolling_back"
  BY DEF Legal, Step, Edges
<1>4. QED
  BY <1>1, <1>2, <1>3

LEMMA OperateType ==
  ASSUME TypeOK, Operate
  PROVE  TypeOK'
<1>1. CASE EditDraft
  BY <1>1, BumpType DEF EditDraft, TypeOK, fixed
<1>2. CASE Validate
  BY <1>2, BumpType, StatusNames, StageCountAssumption
     DEF Validate, TypeOK, fixed, Stages
<1>3. CASE ApproveRoute
  BY <1>3, BumpType, StatusNames DEF ApproveRoute, Control, UpdateRelease, TypeOK, fixed
<1>4. CASE Schedule
  BY <1>4, BumpType, StatusNames, ConsumeType
     DEF Schedule, Control, UpdateRelease, TypeOK
<1>5. CASE Start
  BY <1>5, BumpType, StatusNames, ConsumeType, StageCountAssumption
     DEF Start, Control, UpdateRelease, ActivateStage, TypeOK, fixed, Stages
<1>6. CASE Cancel
  <2>1. \A r \in Requests : Close(r, "superseded") \in Request
    BY CloseType DEF RequestStatus
  <2>2. requests' \in [Requests -> Request]
    BY <1>6, <2>1 DEF Cancel, TypeOK
  <2>3. QED
    BY <1>6, <2>2, BumpType, StatusNames DEF Cancel, Control, UpdateRelease, TypeOK, fixed
<1>7. CASE Pause
  BY <1>7, BumpType, StatusNames DEF Pause, Control, UpdateRelease, TypeOK, fixed
<1>8. CASE Resume
  BY <1>8, BumpType, StatusNames, ConsumeType DEF Resume, Control, UpdateRelease, TypeOK, fixed
<1>9. CASE Abort
  BY <1>9, BumpType, StatusNames, ConsumeType
     DEF Abort, Control, UpdateRelease, TypeOK, fixed
<1>10. CASE Rollback
  BY <1>10, BumpType, StatusNames, ConsumeType DEF Rollback, Control, UpdateRelease, TypeOK, fixed
<1>11. ASSUME NEW op \in Operators, NEW r \in Requests, Submit(op, r)
       PROVE  TypeOK'
  <2>1. /\ Insert(r, op, "start", version + 1, None, <<"awaiting_approval", cursor>>)
        /\ version + 1 \in Nat
        /\ <<"awaiting_approval", cursor>> \in ReleaseState \X (0..StageCount)
        /\ "start" \in ApprovalAction
    BY <1>11, StatusNames DEF Submit, TypeOK
  <2>2. requests' \in [Requests -> Request]
    BY <2>1, InsertType DEF TypeOK
  <2>3. QED
    BY <1>11, <2>2, BumpType, StatusNames DEF Submit, Control, UpdateRelease, TypeOK, fixed
<1>12. ASSUME NEW op \in Operators, NEW r \in Requests,
              NEW action \in Controlled \ {"schedule"}, RequestControl(op, r, action)
       PROVE  TypeOK'
  <2>1. /\ action \in ApprovalAction
        /\ version \in Nat /\ version + 1 \in Nat
        /\ <<"awaiting_approval", cursor>> \in ReleaseState \X (0..StageCount)
        /\ <<status, cursor>> \in ReleaseState \X (0..StageCount)
    BY StatusNames DEF TypeOK, Controlled
  <2>2. requests' \in [Requests -> Request]
    BY <1>12, <2>1, InsertType DEF RequestControl, TypeOK
  <2>3. QED
    BY <1>12, <2>2, BumpType, StatusNames DEF RequestControl, UpdateRelease, TypeOK, fixed
<1>13. ASSUME NEW op \in Operators, NEW r \in Requests,
              NEW e \in Evaluations, RequestOverride(op, r, e)
       PROVE  TypeOK'
  <2>1. /\ Insert(r, op, "gate_override", version, e, <<status, cursor>>)
        /\ version \in Nat
        /\ <<status, cursor>> \in ReleaseState \X (0..StageCount)
        /\ "gate_override" \in ApprovalAction
    BY <1>13, StatusNames DEF RequestOverride, TypeOK
  <2>2. requests' \in [Requests -> Request]
    BY <2>1, InsertType DEF TypeOK
  <2>3. QED
    BY <1>13, <2>2 DEF RequestOverride, TypeOK, fixed
<1>14. ASSUME NEW e \in Evaluations, NEW d \in Decision, EvaluateGate(e, d)
       PROVE  TypeOK'
  BY <1>14 DEF EvaluateGate, Record, Evaluation, TypeOK, fixed
<1>15. QED
  BY <1>1, <1>2, <1>3, <1>4, <1>5, <1>6, <1>7, <1>8, <1>9, <1>10, <1>11,
     <1>12, <1>13, <1>14 DEF Operate

LEMMA DecideType ==
  ASSUME TypeOK, Decide
  PROVE  TypeOK'
<1>1. ASSUME NEW op \in Operators, NEW r \in Requests,
             NEW verdict \in {"approved", "rejected"}, DecideStart(op, r, verdict)
      PROVE  TypeOK'
  BY <1>1, BumpType, DecidedType, StatusNames
     DEF DecideStart, UpdateRelease, TypeOK, fixed
<1>2. ASSUME NEW op \in Operators, NEW r \in Requests,
             ApproveControl(op, r)
      PROVE  TypeOK'
  BY <1>2, BumpType, DecidedType, ExecutedMoves, StatusNames
     DEF ApproveControl, UpdateRelease, TypeOK, fixed
<1>3. ASSUME NEW op \in Operators, NEW r \in Requests, ApproveOverride(op, r)
      PROVE  TypeOK'
  BY <1>3, BumpType, DecidedType, StatusNames
     DEF ApproveOverride, UpdateRelease, TypeOK, fixed
<1>4. ASSUME NEW op \in Operators, NEW r \in Requests, RejectControl(op, r)
      PROVE  TypeOK'
  BY <1>4, DecidedType DEF RejectControl, TypeOK, fixed
<1>5. QED
  BY <1>1, <1>2, <1>3, <1>4 DEF Decide

LEMMA JobType ==
  /\ Idle \in Job
  /\ \A v \in Nat : [Idle EXCEPT !.kind = "starter", !.version = v] \in Job
<1>1. 0 \in 0..StageCount /\ "insufficient_evidence" \in Decision
  BY StageCountAssumption DEF Decision
<1>2. Idle \in Job
  BY <1>1 DEF Idle, Job
<1>3. ASSUME NEW row \in Job, NEW v \in Nat
      PROVE  [row EXCEPT !.kind = "starter", !.version = v] \in Job
  BY DEF Job
<1>4. QED
  BY <1>2, <1>3

LEMMA WorkType ==
  ASSUME TypeOK, Work
  PROVE  TypeOK'
<1>1. CASE ExpireApprovals
  <2>1. \A r \in Requests, how \in {"superseded", "expired"} :
          Close(r, how) \in Request
    BY CloseType DEF RequestStatus
  <2>2. requests' \in [Requests -> Request]
    BY <1>1, <2>1 DEF ExpireApprovals, TypeOK
  <2>3. QED
    BY <1>1, <2>2 DEF ExpireApprovals, TypeOK, fixed
<1>2. ASSUME NEW w \in Workers, StarterReads(w)
      PROVE  TypeOK'
  <2>1. version \in Nat
    BY DEF TypeOK
  <2>2. job' \in [Workers -> Job]
    BY <1>2, <2>1, JobType DEF StarterReads, TypeOK
  <2>3. QED
    BY <1>2, <2>2 DEF StarterReads, TypeOK
<1>3. ASSUME NEW w \in Workers, StarterCommits(w)
      PROVE  TypeOK'
  <2>1. requests' \in [Requests -> Request]
    BY <1>3, ConsumeType DEF StarterCommits, TypeOK
  <2>2. job' \in [Workers -> Job]
    BY <1>3, JobType DEF StarterCommits, TypeOK
  <2>3. stages' \in [Stages -> StageStatus] /\ cursor' \in 0..StageCount
    <3>1. Activate(1, stages) /\ stages \in [Stages -> StageStatus]
      BY <1>3 DEF StarterCommits, TypeOK
    <3>2. "active" \in StageStatus /\ 1 \in 0..StageCount
      BY StageCountAssumption DEF StageStatus
    <3>3. cursor' = 1 /\ stages' = [stages EXCEPT ![1] = "active"]
      BY <3>1 DEF Activate
    <3>4. QED
      BY <3>1, <3>2, <3>3
  <2>4. version' \in 1..MaxVersion /\ status' \in ReleaseState
    BY <1>3, BumpType, StatusNames DEF StarterCommits
  <2>5. QED
    BY <1>3, <2>1, <2>2, <2>3, <2>4 DEF StarterCommits, Activate, TypeOK
<1>4. ASSUME NEW w \in Workers, JobGivesUp(w)
      PROVE  TypeOK'
  BY <1>4, JobType DEF JobGivesUp, TypeOK
<1>5. ASSUME NEW w \in Workers, NEW s \in Stages, NEW d \in Decision,
             GateReads(w, s, d)
      PROVE  TypeOK'
  BY <1>5 DEF GateReads, TypeOK, Job, Stages
<1>6. ASSUME NEW w \in Workers, NEW e \in Evaluations, NEW d \in Decision,
             GateCommit(w, e, d)
      PROVE  /\ evaluations' \in [Evaluations -> Evaluation]
             /\ latest' \in Evaluations \cup {None}
             /\ job' \in [Workers -> Job]
             /\ UNCHANGED <<due, requests, keys, ready>>
  BY <1>6, JobType DEF GateCommit, Record, Evaluation, TypeOK
<1>7. ASSUME NEW w \in Workers, NEW e \in Evaluations, GateAdvances(w, e)
      PROVE  TypeOK'
  <2>1. job[w].stage \in 0..StageCount /\ "pass" \in Decision
    BY DEF TypeOK, Job, Decision
  <2>2. job[w].stage + 1 \in 0..StageCount
    BY <1>7, <2>1, StageCountAssumption DEF GateAdvances, HasNext
  <2>3. /\ stages' \in [Stages -> StageStatus]
        /\ cursor' \in 0..StageCount
        /\ windowOver' \in BOOLEAN
    BY <1>7, <2>2, StatusNames DEF GateAdvances, Activate, StageEnds, TypeOK
  <2>4. version' \in 1..MaxVersion
    BY <1>7, BumpType DEF GateAdvances
  <2>5. GateCommit(w, e, "pass") /\ UNCHANGED status
    BY <1>7 DEF GateAdvances
  <2>6. QED
    BY <1>6, <2>1, <2>3, <2>4, <2>5 DEF TypeOK
<1>8. ASSUME NEW w \in Workers, NEW e \in Evaluations, GateCompletes(w, e)
      PROVE  TypeOK'
  BY <1>6, <1>8, BumpType, StatusNames
     DEF GateCompletes, UpdateRelease, StageEnds, TypeOK, Decision
<1>9. ASSUME NEW w \in Workers, NEW e \in Evaluations, GateRollsBack(w, e)
      PROVE  TypeOK'
  BY <1>6, <1>9, BumpType, StatusNames
     DEF GateRollsBack, UpdateRelease, StageEnds, TypeOK, Decision
<1>10. ASSUME NEW w \in Workers, NEW e \in Evaluations, GatePauses(w, e)
       PROVE  TypeOK'
  BY <1>6, <1>10, BumpType, StatusNames DEF GatePauses, UpdateRelease, TypeOK, Decision
<1>11. ASSUME NEW w \in Workers, NEW e \in Evaluations, GateWaits(w, e)
       PROVE  TypeOK'
  BY <1>6, <1>11 DEF GateWaits, TypeOK, Decision
<1>12. QED
  BY <1>1, <1>2, <1>3, <1>4, <1>5, <1>7, <1>8, <1>9, <1>10, <1>11 DEF Work

LEMMA EnvironmentType ==
  ASSUME TypeOK, Environment
  PROVE  TypeOK'
<1>1. ASSUME NEW a \in Artifacts, CompromiseKey(a)
      PROVE  TypeOK'
  BY <1>1, BumpType, StatusNames DEF CompromiseKey, TypeOK
<1>2. ASSUME NEW a \in Artifacts, RetireKey(a) \/ RetireArtifact(a) \/ ValidateArtifact(a)
      PROVE  TypeOK'
  BY <1>2 DEF RetireKey, RetireArtifact, ValidateArtifact, TypeOK
<1>3. ASSUME NEW next \in ReleaseState, Settle(next)
      PROVE  TypeOK'
  BY <1>3, BumpType DEF Settle, UpdateRelease, TypeOK, fixed
<1>4. ASSUME NEW r \in Requests, RequestLapses(r)
      PROVE  TypeOK'
  BY <1>4, ExpiryType DEF RequestLapses, TypeOK, fixed
<1>5. CASE BecomesDue \/ WindowEnds
  BY <1>5 DEF BecomesDue, WindowEnds, TypeOK, fixed
<1>6. QED
  BY <1>1, <1>2, <1>3, <1>4, <1>5 DEF Environment

LEMMA InitType == Init => TypeOK
<1>. SUFFICES ASSUME Init PROVE TypeOK
  OBVIOUS
<1>1. version \in 1..MaxVersion /\ cursor \in 0..StageCount
  BY StageCountAssumption, MaxVersionAssumption DEF Init
<1>2. requests \in [Requests -> Request] /\ job \in [Workers -> Job]
  BY UnusedType, JobType DEF Init
<1>3. status \in ReleaseState /\ stages \in [Stages -> StageStatus]
  BY DEF Init, ReleaseState, StageStatus
<1>4. QED
  BY <1>1, <1>2, <1>3 DEF Init, TypeOK, Evaluation

\* Every variable keeps its type, whoever acts: rows stay well formed, the
\* cursor stays within the plan and the version within its bound.
THEOREM TypeCorrect == Spec => []TypeOK
<1>1. TypeOK /\ [Next]_vars => TypeOK'
  <2>1. TypeOK /\ UNCHANGED vars => TypeOK'
    BY DEF TypeOK, vars
  <2>2. QED
    BY <2>1, OperateType, DecideType, WorkType, EnvironmentType DEF Next
<1>2. QED
  BY <1>1, InitType, PTL DEF Spec
-----------------------------------------------------------------------------
(* What one step can do to the version, to a job and to a request.         *)

\* The version never goes back, and a step that keeps it keeps the status, the
\* cursor and the stages, and reopens no observation window: a compare-and-set
\* on the version notices every change of them.
LEMMA VersionMoves ==
  ASSUME TypeOK, Next
  PROVE  /\ version' >= version
         /\ version' = version =>
              /\ UNCHANGED <<status, cursor, stages>>
              /\ windowOver => windowOver'
<1> DEFINE Moves == version' >= version /\ version' # version
           Stays == /\ version' >= version
                    /\ UNCHANGED <<status, cursor, stages>>
                    /\ windowOver => windowOver'
<1>1. /\ Bump(1) => Moves
      /\ Bump(2) => Moves
      /\ UNCHANGED <<status, version, cursor, stages, windowOver>> => Stays
      /\ UNCHANGED <<status, version, cursor, stages>> /\ windowOver' = TRUE => Stays
  BY DEF TypeOK, Bump
<1>2. SUFFICES Moves \/ Stays
  OBVIOUS
<1>. HIDE DEF Moves, Stays
<1>3. CASE Operate
  BY <1>1, <1>3
     DEF Operate, EditDraft, Validate, ApproveRoute, Schedule, Start, Cancel,
         Pause, Resume, Abort, Rollback, Submit, RequestControl,
         RequestOverride, EvaluateGate, Control, UpdateRelease
<1>4. CASE Decide
  BY <1>1, <1>4
     DEF Decide, DecideStart, ApproveControl, ApproveOverride, RejectControl,
         UpdateRelease
<1>5. CASE Work
  <2>1. CASE ExpireApprovals
    BY <1>1, <2>1 DEF ExpireApprovals
  <2>2. ASSUME NEW w \in Workers, StarterReads(w) \/ StarterCommits(w) \/ JobGivesUp(w)
        PROVE  Moves \/ Stays
    BY <1>1, <2>2 DEF StarterReads, StarterCommits, JobGivesUp, UpdateRelease
  <2>3. ASSUME NEW w \in Workers, NEW s \in Stages, NEW d \in Decision, GateReads(w, s, d)
        PROVE  Moves \/ Stays
    BY <1>1, <2>3 DEF GateReads
  <2>4. ASSUME NEW w \in Workers, NEW e \in Evaluations,
               \/ GateAdvances(w, e) \/ GateCompletes(w, e) \/ GateRollsBack(w, e)
        PROVE  Moves \/ Stays
    BY <1>1, <2>4 DEF GateAdvances, GateCompletes, GateRollsBack, UpdateRelease
  <2>5. ASSUME NEW w \in Workers, NEW e \in Evaluations, GatePauses(w, e) \/ GateWaits(w, e)
        PROVE  Moves \/ Stays
    BY <1>1, <2>5 DEF GatePauses, GateWaits, UpdateRelease
  <2>6. QED
    BY <1>5, <2>1, <2>2, <2>3, <2>4, <2>5 DEF Work
<1>6. CASE Environment
  BY <1>1, <1>6
     DEF Environment, CompromiseKey, RetireKey, RetireArtifact,
         ValidateArtifact, Settle, RequestLapses, BecomesDue, WindowEnds,
         UpdateRelease
<1>7. QED
  BY <1>3, <1>4, <1>5, <1>6 DEF Next

\* A job is left alone, ends, or reads the release as it is.
JobReads(w) ==
  /\ UNCHANGED <<version, status, stages, windowOver>>
  /\ job'[w].version = version
  /\ job'[w].kind = "starter" =>
       /\ status = "scheduled"
       /\ TwoPerson => \E r \in Requests : Authorises(r, "start")
  /\ job'[w].kind = "gate" =>
       /\ status = "running"
       /\ job'[w].stage \in Stages
       /\ stages[job'[w].stage] = "active"
       /\ windowOver

LEMMA JobMoves ==
  ASSUME TypeOK, Next, NEW w \in Workers
  PROVE  job'[w] = job[w] \/ job'[w] = Idle \/ JobReads(w)
<1>1. job \in [Workers -> Job]
  BY DEF TypeOK
<1>2. CASE Operate
  BY <1>2
     DEF Operate, EditDraft, Validate, ApproveRoute, Schedule, Start, Cancel,
         Pause, Resume, Abort, Rollback, Submit, RequestControl,
         RequestOverride, EvaluateGate, fixed
<1>3. CASE Decide
  BY <1>3
     DEF Decide, DecideStart, ApproveControl, ApproveOverride, RejectControl, fixed
<1>4. CASE Work
  <2>1. CASE ExpireApprovals
    BY <2>1 DEF ExpireApprovals, fixed
  <2>2. ASSUME NEW v \in Workers, StarterReads(v)
        PROVE  job'[w] = job[w] \/ JobReads(w)
    <3>1. CASE v = w
      <4>1. job'[w] = [Idle EXCEPT !.kind = "starter", !.version = version]
        BY <1>1, <2>2, <3>1 DEF StarterReads
      <4>2. job'[w].kind = "starter" /\ job'[w].version = version
        BY <4>1 DEF Idle
      <4>3. QED
        BY <2>2, <4>2 DEF StarterReads, JobReads
    <3>2. CASE v # w
      BY <1>1, <2>2, <3>2 DEF StarterReads
    <3>3. QED
      BY <3>1, <3>2
  <2>3. ASSUME NEW v \in Workers, NEW s \in Stages, NEW d \in Decision,
               GateReads(v, s, d)
        PROVE  job'[w] = job[w] \/ JobReads(w)
    BY <1>1, <2>3 DEF GateReads, JobReads
  <2>4. ASSUME NEW v \in Workers, job' = [job EXCEPT ![v] = Idle]
        PROVE  job'[w] = job[w] \/ job'[w] = Idle
    BY <1>1, <2>4
  <2>5. QED
    BY <1>4, <2>1, <2>2, <2>3, <2>4
       DEF Work, StarterCommits, JobGivesUp, GateAdvances, GateCompletes,
           GateRollsBack, GatePauses, GateWaits, GateCommit
<1>5. CASE Environment
  BY <1>5
     DEF Environment, CompromiseKey, RetireKey, RetireArtifact,
         ValidateArtifact, Settle, RequestLapses, BecomesDue, WindowEnds, fixed
<1>6. QED
  BY <1>2, <1>3, <1>4, <1>5 DEF Next

\* What one step can do to a request: leave what it says alone (it may expire),
\* close it, insert it as of now, spend it, or decide it.
SameParties(r) ==
  /\ requests'[r].action = requests[r].action
  /\ requests'[r].requester = requests[r].requester
  /\ requests'[r].decider = requests[r].decider

RowKept(r) ==
  /\ SameParties(r)
  /\ requests'[r].status = requests[r].status
  /\ requests'[r].captured = requests[r].captured
  /\ requests'[r].approved = requests[r].approved
  /\ requests'[r].context = requests[r].context

RowClosed(r) == requests'[r].status \in {"rejected", "expired", "superseded"}

RowInserted(r) ==
  /\ requests'[r].status = "requested"
  /\ requests'[r].captured = version'
  /\ requests'[r].context = <<status', cursor'>>

RowSpent(r) ==
  /\ SameParties(r)
  /\ requests[r].status = "approved"
  /\ requests[r].approved = version
  /\ requests'[r].status = "spent"
  /\ requests'[r].approved = version
  /\ version' > version

RowDecided(r) ==
  /\ requests[r].status = "requested"
  /\ requests[r].captured = version
  /\ requests[r].expires = "ahead"
  /\ version' = version + 1
  /\ requests'[r].action = requests[r].action
  /\ requests'[r].requester # requests'[r].decider
  /\ \/ /\ requests'[r].action = "start"
        /\ requests'[r].status = "approved"
        /\ requests'[r].approved = version + 1
        /\ status' = "ready"
     \/ /\ requests'[r].action # "start"
        /\ requests'[r].status = "spent"
        /\ requests'[r].approved = version

RowMoves(r) ==
  RowKept(r) \/ RowClosed(r) \/ RowInserted(r) \/ RowSpent(r) \/ RowDecided(r)

LEMMA ConsumeMoves ==
  ASSUME TypeOK, NEW action, Consume(action), NEW r \in Requests,
         version' > version
  PROVE  RowKept(r) \/ RowSpent(r)
<1>1. requests[r] \in Request
  BY DEF TypeOK
<1>2. CASE requests'[r] = requests[r]
  BY <1>2 DEF RowKept, SameParties
<1>3. CASE requests[r].status = "approved" /\ requests[r].approved = version
           /\ requests'[r] = [requests[r] EXCEPT !.status = "spent"]
  BY <1>1, <1>3 DEF RowSpent, SameParties, Request
<1>4. QED
  BY <1>2, <1>3 DEF Consume

LEMMA InsertMoves ==
  ASSUME TypeOK, NEW op, NEW q \in Requests, NEW action, NEW evaluation,
         Insert(q, op, action, version', evaluation, <<status', cursor'>>),
         NEW r \in Requests
  PROVE  RowKept(r) \/ RowInserted(r)
<1>1. CASE r # q
  BY <1>1 DEF Insert, RowKept, SameParties, TypeOK
<1>2. CASE r = q
  <2>1. Unused \in Request
    BY UnusedType
  <2>2. requests'[r] =
          [Unused EXCEPT !.status = "requested", !.action = action,
             !.captured = version', !.requester = op, !.expires = "ahead",
             !.evaluation = evaluation, !.context = <<status', cursor'>>]
    BY <1>2 DEF Insert, TypeOK
  <2>3. QED
    BY <2>1, <2>2 DEF Request, RowInserted
<1>3. QED
  BY <1>1, <1>2

LEMMA DecidedMoves ==
  ASSUME TypeOK, NEW op, NEW q \in Requests, NEW verdict,
         Decidable(op, q), Decided(op, q, verdict), NEW r \in Requests,
         verdict = "approved" =>
           /\ version' = version + 1
           /\ requests[q].action = "start" => status' = "ready"
  PROVE  RowKept(r) \/ RowClosed(r) \/ RowDecided(r)
<1>1. CASE r # q
  BY <1>1 DEF Decided, RowKept, SameParties, TypeOK
<1>2. CASE r = q /\ verdict # "approved"
  <2>1. requests'[r] = [Unused EXCEPT !.status = "rejected"]
    BY <1>2 DEF Decided, Close, TypeOK
  <2>2. QED
    BY <2>1, UnusedType DEF RowClosed, Request
<1>3. CASE r = q /\ verdict = "approved"
  <2>1. requests[r] \in Request
    BY DEF TypeOK
  <2>2. requests'[r] = Granted(op, r)
    BY <1>3 DEF Decided, TypeOK
  <2>3. /\ requests[r].status = "requested"
        /\ requests[r].captured = version
        /\ requests[r].expires = "ahead"
        /\ requests[r].requester # op
    BY <1>3 DEF Decidable
  <2>4. /\ requests'[r].action = requests[r].action
        /\ requests'[r].requester # requests'[r].decider
        /\ \/ /\ requests[r].action = "start"
              /\ requests'[r].status = "approved"
              /\ requests'[r].approved = version + 1
           \/ /\ requests[r].action # "start"
              /\ requests'[r].status = "spent"
              /\ requests'[r].approved = version
    BY <2>1, <2>2, <2>3 DEF Granted, Request
  <2>5. QED
    BY <1>3, <2>3, <2>4 DEF RowDecided
<1>4. QED
  BY <1>1, <1>2, <1>3

LEMMA RequestMoves ==
  ASSUME TypeOK, Next, NEW r \in Requests
  PROVE  RowMoves(r)
<1>1. UNCHANGED requests => RowKept(r)
  BY DEF RowKept, SameParties
<1>2. ASSUME NEW how \in {"superseded", "expired"},
             requests'[r] = Close(r, how)
      PROVE  RowClosed(r)
  BY <1>2, UnusedType DEF Close, RowClosed, Request
<1>3. /\ Bump(1) => version' = version + 1
      /\ Bump(1) \/ Bump(2) => version' > version
  BY DEF Bump, TypeOK
<1>4. CASE Operate
  <2>1. CASE Cancel
    BY <1>1, <1>2, <2>1 DEF Cancel, RowMoves, RowKept, SameParties
  <2>2. CASE Schedule \/ Start \/ Resume \/ Abort \/ Rollback
    BY <1>3, <2>2, ConsumeMoves
       DEF Schedule, Start, Resume, Abort, Rollback, Control, UpdateRelease, RowMoves
  <2>3. ASSUME NEW op \in Operators, NEW q \in Requests, Submit(op, q)
        PROVE  RowMoves(r)
    <3>1. Insert(q, op, "start", version', None, <<status', cursor'>>)
      BY <1>3, <2>3 DEF Submit, Control, UpdateRelease
    <3>2. QED
      BY <3>1, InsertMoves DEF RowMoves
  <2>4. ASSUME NEW op \in Operators, NEW q \in Requests, NEW action,
               RequestControl(op, q, action)
        PROVE  RowMoves(r)
    <3>1. Insert(q, op, action, version', None, <<status', cursor'>>)
      BY <1>3, <2>4 DEF RequestControl, UpdateRelease
    <3>2. QED
      BY <3>1, InsertMoves DEF RowMoves
  <2>5. ASSUME NEW op \in Operators, NEW q \in Requests, NEW e \in Evaluations,
               RequestOverride(op, q, e)
        PROVE  RowMoves(r)
    <3>1. Insert(q, op, "gate_override", version', e, <<status', cursor'>>)
      BY <2>5 DEF RequestOverride
    <3>2. QED
      BY <3>1, InsertMoves DEF RowMoves
  <2>6. CASE EditDraft \/ Validate \/ ApproveRoute \/ Pause
             \/ \E e \in Evaluations, d \in Decision : EvaluateGate(e, d)
    BY <1>1, <2>6 DEF EditDraft, Validate, ApproveRoute, Pause, EvaluateGate, RowMoves
  <2>7. QED
    BY <1>4, <2>1, <2>2, <2>3, <2>4, <2>5, <2>6 DEF Operate
<1>5. CASE Decide
  BY <1>3, <1>5, DecidedMoves
     DEF Decide, DecideStart, ApproveControl, ApproveOverride, RejectControl,
         UpdateRelease, RowMoves
<1>6. CASE Work
  <2>1. CASE ExpireApprovals
    BY <1>2, <2>1 DEF ExpireApprovals, RowMoves, RowKept, SameParties
  <2>2. ASSUME NEW w \in Workers, StarterCommits(w)
        PROVE  RowMoves(r)
    <3>1. Consume("start") \/ UNCHANGED requests
      BY <2>2 DEF StarterCommits
    <3>2. version' > version
      BY <1>3, <2>2 DEF StarterCommits
    <3>3. QED
      BY <1>1, <3>1, <3>2, ConsumeMoves DEF RowMoves
  <2>3. QED
    BY <1>1, <1>6, <2>1, <2>2
       DEF Work, StarterReads, JobGivesUp, GateReads, GateAdvances,
           GateCompletes, GateRollsBack, GatePauses, GateWaits, GateCommit, RowMoves
<1>7. CASE Environment
  <2>1. ASSUME NEW q \in Requests, RequestLapses(q)
        PROVE  RowKept(r)
    <3>1. requests[r] \in Request
      BY DEF TypeOK
    <3>2. QED
      BY <2>1, <3>1 DEF RequestLapses, RowKept, SameParties, Request, TypeOK
  <2>2. QED
    BY <1>1, <1>7, <2>1
       DEF Environment, CompromiseKey, RetireKey, RetireArtifact,
           ValidateArtifact, Settle, BecomesDue, WindowEnds, RowMoves
<1>8. QED
  BY <1>4, <1>5, <1>6, <1>7 DEF Next
-----------------------------------------------------------------------------
(* The version protects what was read with it.                             *)

Inv == TypeOK /\ ReadsAreCurrent

LEMMA JobsStayCurrent ==
  ASSUME Inv, Next, NEW w \in Workers
  PROVE  /\ job'[w].version <= version'
         /\ job'[w].version = version' =>
              /\ job'[w].kind = "starter" => status' = "scheduled"
              /\ job'[w].kind = "gate" =>
                   /\ status' = "running"
                   /\ job'[w].stage \in Stages
                   /\ stages'[job'[w].stage] = "active"
                   /\ windowOver'
<1>1. /\ version \in Nat /\ version' \in Nat
      /\ version' >= version
      /\ version' = version =>
           UNCHANGED <<status, cursor, stages>> /\ (windowOver => windowOver')
  BY VersionMoves, OperateType, DecideType, WorkType, EnvironmentType
     DEF Inv, TypeOK, Next
<1>2. CASE job'[w] = job[w]
  <2>1. job[w].version \in Nat /\ job[w].version <= version
    BY DEF Inv, TypeOK, Job, ReadsAreCurrent
  <2>2. QED
    BY <1>1, <1>2, <2>1 DEF Inv, ReadsAreCurrent
<1>3. CASE job'[w] = Idle
  <2>1. job'[w].version = 0 /\ job'[w].kind = "idle"
    BY <1>3 DEF Idle
  <2>2. QED
    BY <1>1, <2>1
<1>4. CASE JobReads(w)
  BY <1>1, <1>4 DEF JobReads
<1>5. QED
  BY <1>2, <1>3, <1>4, JobMoves DEF Inv

LEMMA RequestsStayCurrent ==
  ASSUME Inv, Next, NEW r \in Requests
  PROVE  /\ requests'[r].status = "requested" => requests'[r].captured <= version'
         /\ requests'[r].status = "requested" /\ requests'[r].captured = version' =>
              requests'[r].context = <<status', cursor'>>
         /\ requests'[r].status = "approved" => requests'[r].approved <= version'
         /\ requests'[r].status = "spent" => requests'[r].approved < version'
<1>1. /\ version \in Nat /\ version' \in Nat
      /\ version' >= version
      /\ version' = version => UNCHANGED <<status, cursor>>
  BY VersionMoves, OperateType, DecideType, WorkType, EnvironmentType
     DEF Inv, TypeOK, Next
<1>2. requests[r].captured \in Nat /\ requests[r].approved \in Nat
  BY DEF Inv, TypeOK, Request
<1>3. CASE RowKept(r)
  BY <1>1, <1>2, <1>3 DEF RowKept, Inv, ReadsAreCurrent
<1>4. CASE RowClosed(r)
  BY <1>4 DEF RowClosed
<1>5. CASE RowInserted(r)
  BY <1>1, <1>5 DEF RowInserted
<1>6. CASE RowSpent(r) \/ RowDecided(r)
  BY <1>1, <1>6 DEF RowSpent, RowDecided
<1>7. QED
  BY <1>3, <1>4, <1>5, <1>6, RequestMoves DEF RowMoves, Inv

LEMMA InvInductive == Inv /\ [Next]_vars => Inv'
<1>1. CASE UNCHANGED vars
  BY <1>1 DEF Inv, TypeOK, ReadsAreCurrent, vars
<1>2. ASSUME Inv, Next
      PROVE  Inv'
  <2>1. TypeOK'
    BY <1>2, OperateType, DecideType, WorkType, EnvironmentType DEF Inv, Next
  <2>2. ReadsAreCurrent'
    BY <1>2, JobsStayCurrent, RequestsStayCurrent DEF ReadsAreCurrent
  <2>3. QED
    BY <2>1, <2>2 DEF Inv
<1>3. QED
  BY <1>1, <1>2

LEMMA InitInv == Init => Inv
<1>. SUFFICES ASSUME Init PROVE ReadsAreCurrent
  BY InitType DEF Inv
<1>1. \A w \in Workers : job[w].version = 0 /\ version = 1
  BY DEF Init, Idle
<1>2. \A r \in Requests : requests[r].status = "unused"
  BY DEF Init, Unused
<1>3. QED
  BY <1>1, <1>2 DEF ReadsAreCurrent

\* Whatever a job or a request read at the release's version still holds while
\* that version does, however the steps of operators and jobs interleave.
THEOREM VersionGuards == Spec => []ReadsAreCurrent
<1>1. Inv => ReadsAreCurrent
  BY DEF Inv
<1>2. QED
  BY <1>1, InitInv, InvInductive, PTL DEF Spec

\* A spent approval names a version the release has left for good, so that it
\* can authorise nothing again.
THEOREM ApprovalsAreSpentOnce == Spec => []SpentApprovalIsPast
<1>1. Inv => SpentApprovalIsPast
  BY DEF Inv, ReadsAreCurrent, SpentApprovalIsPast
<1>2. QED
  BY <1>1, InitInv, InvInductive, PTL DEF Spec

\* An approval is given to the status and stage its author asked it for.
THEOREM ApprovalsAreInContext == Spec => ApprovalActsOnWhatWasRequested
<1> DEFINE InContext ==
      \A r \in Requests :
        /\ requests[r].status = "requested"
        /\ requests'[r].status \in {"approved", "spent"}
        => requests[r].context = <<status, cursor>>
<1>1. ASSUME Inv, Next, NEW r \in Requests,
             requests[r].status = "requested",
             requests'[r].status \in {"approved", "spent"}
      PROVE  requests[r].context = <<status, cursor>>
  <2>1. RowDecided(r)
    BY <1>1, RequestMoves
       DEF Inv, RowMoves, RowKept, RowClosed, RowInserted, RowSpent
  <2>2. QED
    BY <1>1, <2>1 DEF RowDecided, Inv, ReadsAreCurrent
<1>2. Inv /\ [Next]_vars => [InContext]_vars
  BY <1>1
<1>3. QED
  BY <1>2, InitInv, InvInductive, PTL DEF Spec, ApprovalActsOnWhatWasRequested
-----------------------------------------------------------------------------
(* The control implements the release lifecycle.                           *)

\* A step of the control is a step of the lifecycle, or leaves the status alone.
LEMMA StepsFollowLifecycle ==
  ASSUME Inv, Next
  PROVE  [Lifecycle!Next]_status
<1>1. ASSUME NEW action \in ReleaseAction \ {"validate"},
             Step(status, action, status')
      PROVE  Lifecycle!Next
  BY <1>1 DEF Lifecycle!Next, Lifecycle!Follow, Lifecycle!Step, Step,
              Edges, Lifecycle!Edges, BeforeRun, Lifecycle!BeforeRun,
              ReleaseAction, Lifecycle!ReleaseAction
<1> DEFINE Edge(action) == Step(status, action, status')
           Follows == Lifecycle!Next \/ UNCHANGED status
<1>2. \A action \in ReleaseAction \ {"validate"} : Edge(action) => Follows
  BY <1>1
<1>3. SUFFICES Follows
  OBVIOUS
<1>. HIDE DEF Follows
<1>4. UNCHANGED status => Follows
  BY DEF Follows
<1>5. CASE Validate
  <2>1. /\ Lifecycle!Step(status, "validate", "validating")
        /\ Lifecycle!Step("validating", "validate", status')
    BY <1>5 DEF Validate, Lifecycle!Step, Lifecycle!Edges
  <2>2. "validating" \in Lifecycle!ReleaseState
    BY DEF Lifecycle!ReleaseState
  <2>3. QED
    BY <2>1, <2>2 DEF Follows, Lifecycle!Next, Lifecycle!ValidateInOneStep
<1>6. CASE Operate
  <2>1. ASSUME NEW action \in ReleaseAction \ {"validate"}, NEW next,
               Control(action, next)
        PROVE  Follows
    BY <1>2, <2>1 DEF Control, UpdateRelease
  <2>2. {"submit", "approve", "schedule", "start", "cancel", "pause", "resume",
         "abort", "rollback", "gate_override"} \subseteq ReleaseAction \ {"validate"}
    BY DEF ReleaseAction
  <2>3. ASSUME NEW op \in Operators, NEW r \in Requests, NEW action,
               RequestControl(op, r, action)
        PROVE  Follows
    <3>1. CASE status = "ready" /\ status' = "awaiting_approval"
      BY <1>2, <2>2, <3>1 DEF Step, Edges
    <3>2. CASE UNCHANGED status
      BY <1>4, <3>2
    <3>3. QED
      BY <2>3, <3>1, <3>2 DEF RequestControl, UpdateRelease
  <2>4. QED
    BY <1>4, <1>5, <1>6, <2>1, <2>2, <2>3
       DEF Operate, EditDraft, ApproveRoute, Schedule, Start, Cancel, Pause,
           Resume, Abort, Rollback, Submit, RequestOverride, EvaluateGate
<1>7. CASE Decide
  <2>1. {"approve", "resume", "abort", "rollback", "gate_override"}
          \subseteq ReleaseAction \ {"validate"}
    BY DEF ReleaseAction
  <2>2. ASSUME NEW op \in Operators, NEW r \in Requests, ApproveControl(op, r)
        PROVE  Follows
    BY <1>2, <1>4, <2>1, <2>2, ExecutedMoves
  <2>3. QED
    BY <1>2, <1>4, <1>7, <2>1, <2>2
       DEF Decide, DecideStart, ApproveOverride, RejectControl, UpdateRelease
<1>8. CASE Work
  <2>1. ASSUME NEW w \in Workers, StarterCommits(w)
        PROVE  Follows
    <3>1. status = "scheduled" /\ status' = "running"
      BY <2>1 DEF StarterCommits, Inv, ReadsAreCurrent
    <3>2. QED
      BY <1>2, <3>1 DEF Step, Edges, ReleaseAction
  <2>2. ASSUME NEW w \in Workers, NEW e \in Evaluations,
               GateCompletes(w, e) \/ GateRollsBack(w, e) \/ GatePauses(w, e)
        PROVE  Follows
    <3>1. \A hasNext \in BOOLEAN, decision \in {"pass", "pause", "rollback"} :
            GateAction(decision, hasNext) \in ReleaseAction \ {"validate"}
      BY DEF GateAction, ReleaseAction
    <3>2. \A s : HasNext(s) \in BOOLEAN
      BY DEF HasNext
    <3>3. QED
      BY <1>2, <2>2, <3>1, <3>2
         DEF GateCompletes, GateRollsBack, GatePauses, UpdateRelease
  <2>3. QED
    BY <1>4, <1>8, <2>1, <2>2
       DEF Work, ExpireApprovals, StarterReads, JobGivesUp, GateReads,
           GateAdvances, GateWaits
<1>9. CASE Environment
  <2>1. ASSUME NEW a \in Artifacts, CompromiseKey(a)
        PROVE  Follows
    <3>1. CASE status = "running" /\ status' = "paused"
      BY <1>2, <3>1 DEF Step, Edges, ReleaseAction
    <3>2. CASE /\ status \in {"ready", "awaiting_approval", "scheduled", "paused"}
               /\ status' = "blocked"
      BY <1>2, <3>2 DEF Step, Edges, BeforeRun, ReleaseAction
    <3>3. QED
      BY <1>4, <2>1, <3>1, <3>2 DEF CompromiseKey
  <2>2. ASSUME NEW next \in ReleaseState, Settle(next)
        PROVE  Follows
    <3>1. CASE status = "rolling_back" /\ status' = "failed"
      <4>1. /\ Lifecycle!Step(status, "rollback", "rolled_back")
            /\ "rolled_back" \in Lifecycle!ReleaseState
        BY <3>1 DEF Lifecycle!Step, Lifecycle!Edges, Lifecycle!ReleaseState
      <4>2. QED
        BY <3>1, <4>1
           DEF Follows, Lifecycle!Next, Lifecycle!SettleFailed, Lifecycle!Legal,
               Lifecycle!Step
    <3>2. CASE \/ status = "aborting" /\ status' = "aborted"
               \/ status = "rolling_back" /\ status' = "rolled_back"
      BY <1>2, <3>2 DEF Step, Edges, ReleaseAction
    <3>3. QED
      BY <2>2, <3>1, <3>2 DEF Settle, UpdateRelease
  <2>3. QED
    BY <1>4, <1>9, <2>1, <2>2
       DEF Environment, RetireKey, RetireArtifact, ValidateArtifact,
           RequestLapses, BecomesDue, WindowEnds, fixed
<1>10. QED
  BY <1>6, <1>7, <1>8, <1>9 DEF Next

\* Every behaviour of operators, approvals, jobs and compromises takes the
\* release along the state machine: the control implements the lifecycle.
THEOREM ControlImplementsLifecycle == Spec => FollowsLifecycle
<1>1. Init => Lifecycle!Init
  BY DEF Init, Lifecycle!Init
<1>2. Inv /\ [Next]_vars => [Lifecycle!Next]_status
  BY StepsFollowLifecycle DEF vars
<1>3. QED
  BY <1>1, <1>2, InitInv, InvInductive, PTL
     DEF Spec, FollowsLifecycle, Lifecycle!Spec
=============================================================================
