------------------------- MODULE DeviceRolloutProofs -------------------------
(***************************************************************************)
(* Type correctness of DeviceRollout for any releases, cohort, stage plan  *)
(* and number of reports, and the three kinds of step every proof about it *)
(* distinguishes: fresh commands, a cancellation, and answers.             *)
(***************************************************************************)
EXTENDS DeviceRollout, SequenceTheorems, TLAPS

(* Rows of release_assignments are well formed whatever is done to them.   *)

LEMMA UnassignedType == Unassigned \in Assignment
  BY DEF Unassigned, Assignment, AssignmentState, Artifact

LEMMA RowType ==
  ASSUME NEW row \in Assignment, NEW s \in AssignmentState, NEW a \in Artifact,
         NEW g \in Nat, NEW f \in {"none", "failed", "COMMAND_EXPIRED"}, NEW n \in Nat
  PROVE  /\ [row EXCEPT !.state = s] \in Assignment
         /\ [row EXCEPT !.state = s, !.failure = f] \in Assignment
         /\ [row EXCEPT !.state = s, !.artifact = a, !.generation = g] \in Assignment
         /\ [row EXCEPT !.state = s, !.artifact = a, !.generation = g,
                        !.failure = f] \in Assignment
         /\ [row EXCEPT !.state = s, !.report = n, !.failure = f] \in Assignment
  BY DEF Assignment

LEMMA NextGenerationType ==
  ASSUME TypeOK, NEW d \in Devices
  PROVE  NextGeneration(d) \in Nat
  BY DEF TypeOK, NextGeneration

LEMMA StageCountType == StageCount \in Nat /\ 1 <= StageCount
  BY PercentAssumption DEF StageCount

(* Issue writes typed rows if each of them is.                             *)

LEMMA InstallType ==
  ASSUME TypeOK, NEW r \in Releases, NEW chosen \in SUBSET Devices, Install(r, chosen)
  PROVE  /\ assignment' \in [Releases -> [Devices -> Assignment]]
         /\ commands' \subseteq Command
         /\ commands \subseteq commands'
         /\ desired' \in [Devices -> Nat]
<1> DEFINE rows == [d \in chosen |->
             [Unassigned EXCEPT !.state = "commanded", !.artifact = r,
                                !.generation = NextGeneration(d)]]
<1>1. ASSUME NEW d \in chosen
      PROVE  rows[d] \in Assignment /\ rows[d].generation \in Nat
  <2>1. "commanded" \in AssignmentState /\ r \in Artifact
    BY DEF AssignmentState, Artifact
  <2>2. rows[d] \in Assignment
    BY <2>1, NextGenerationType, RowType, UnassignedType
  <2>3. QED
    BY <2>2 DEF Assignment
<1>2. Issue(r, chosen, "install", rows)
  BY DEF Install
<1> HIDE DEF rows
<1>3. QED
  BY <1>1, <1>2 DEF Issue, TypeOK, Command

LEMMA RollBackDevicesType ==
  ASSUME TypeOK, NEW r \in Releases, NEW chosen \in SUBSET Devices,
         NEW clears \in BOOLEAN, RollBackDevices(r, chosen, clears)
  PROVE  /\ assignment' \in [Releases -> [Devices -> Assignment]]
         /\ commands' \subseteq Command
         /\ commands \subseteq commands'
         /\ desired' \in [Devices -> Nat]
<1> DEFINE rows == [d \in chosen |-> [assignment[r][d] EXCEPT
             !.state = "pending", !.artifact = Original,
             !.generation = NextGeneration(d),
             !.failure = IF clears THEN "none" ELSE @]]
<1>1. ASSUME NEW d \in chosen
      PROVE  rows[d] \in Assignment /\ rows[d].generation \in Nat
  <2>1. "pending" \in AssignmentState /\ Original \in Artifact
    BY DEF AssignmentState, Artifact
  <2>2. /\ assignment[r][d] \in Assignment
        /\ (IF clears THEN "none" ELSE assignment[r][d].failure)
             \in {"none", "failed", "COMMAND_EXPIRED"}
    BY DEF TypeOK, Assignment
  <2>3. rows[d] \in Assignment
    BY <2>1, <2>2, NextGenerationType, RowType
  <2>4. QED
    BY <2>3 DEF Assignment
<1>2. Issue(r, chosen, "rollback", rows)
  BY DEF RollBackDevices
<1> HIDE DEF rows
<1>3. QED
  BY <1>1, <1>2 DEF Issue, TypeOK, Command

LEMMA CallOffType ==
  ASSUME TypeOK, NEW r \in Releases, CallOffDevices(r)
  PROVE  /\ assignment' \in [Releases -> [Devices -> Assignment]]
         /\ commands' \subseteq Command
         /\ commands \subseteq commands'
         /\ desired' \in [Devices -> Nat]
<1> DEFINE chosen == {d \in Devices : assignment[r][d].state \in InFlight}
           rows == [d \in chosen |-> [assignment[r][d] EXCEPT !.state = "cancelling"]]
<1>1. ASSUME NEW d \in chosen
      PROVE  rows[d] \in Assignment /\ rows[d].generation \in Nat
  <2>1. "cancelling" \in AssignmentState /\ assignment[r][d] \in Assignment
    BY DEF AssignmentState, TypeOK
  <2>2. rows[d] \in Assignment
    BY <2>1 DEF Assignment
  <2>3. QED
    BY <2>2 DEF Assignment
<1>2. Issue(r, chosen, "cancel", rows)
  BY DEF CallOffDevices
<1>3. chosen \subseteq Devices
  OBVIOUS
<1> HIDE DEF rows, chosen
<1>4. QED
  BY <1>1, <1>2, <1>3 DEF Issue, TypeOK, Command

-----------------------------------------------------------------------------
(* Type correctness.                                                       *)

LEMMA MovesType ==
  ASSUME TypeOK, NEW r \in Releases, NEW action, NEW next \in RolloutStatus,
         Moves(r, action, next)
  PROVE  status' \in [Releases -> RolloutStatus]
  BY DEF TypeOK, Moves

LEMMA ApprovedType ==
  ASSUME TypeOK, NEW r \in Releases, NEW action, NEW next \in RolloutStatus,
         Approved(r, action, next)
  PROVE  status' \in [Releases -> RolloutStatus]
  BY DEF TypeOK, Approved

LEMMA StatusNames ==
  {"ready", "scheduled", "running", "paused", "aborting", "rolling_back",
   "completed", "aborted", "rolled_back", "failed"} \subseteq RolloutStatus
  BY DEF RolloutStatus

LEMMA ActivateStageType ==
  ASSUME TypeOK, NEW r \in Releases, NEW s \in Stages, ActivateStage(r, s)
  PROVE  /\ stage' \in [Releases -> 0..StageCount]
         /\ assignment' \in [Releases -> [Devices -> Assignment]]
         /\ commands' \subseteq Command
         /\ commands \subseteq commands'
         /\ desired' \in [Devices -> Nat]
<1> DEFINE chosen == {d \in Wave(r, s) : /\ assignment[r][d].state = "none"
                                         /\ lifecycle[d] = "active"}
<1>1. chosen \in SUBSET Devices /\ Install(r, chosen)
  BY DEF ActivateStage, Wave
<1> HIDE DEF chosen
<1>2. stage' \in [Releases -> 0..StageCount]
  BY StageCountType DEF ActivateStage, TypeOK, Stages
<1>3. QED
  BY <1>1, <1>2, InstallType

LEMMA ControlType ==
  ASSUME TypeOK, Control
  PROVE  TypeOK'
<1>1. CASE ExpireCommands
  <2>1. "stranded" \in AssignmentState
    BY DEF AssignmentState
  <2>2. ASSUME NEW r \in Releases, NEW d \in Devices
        PROVE  [assignment[r][d] EXCEPT !.state = "stranded",
                                        !.failure = "COMMAND_EXPIRED"] \in Assignment
    <3>1. assignment[r][d] \in Assignment
      BY DEF TypeOK
    <3>2. QED
      BY <2>1, <3>1, RowType DEF Artifact
  <2>3. assignment' \in [Releases -> [Devices -> Assignment]]
    BY <1>1, <2>2 DEF ExpireCommands, TypeOK
  <2>4. QED
    BY <1>1, <2>3 DEF ExpireCommands, TypeOK, quiet, projection, device
<1>2. ASSUME NEW r \in Releases, Start(r)
      PROVE  TypeOK'
  <2>1. Wave(r, 1) \in SUBSET Devices /\ Install(r, Wave(r, 1))
    BY <1>2 DEF Start, Wave
  <2>2. /\ assignment' \in [Releases -> [Devices -> Assignment]]
        /\ commands' \subseteq Command
        /\ commands \subseteq commands'
        /\ desired' \in [Devices -> Nat]
    BY <2>1, InstallType
  <2>3. status' \in [Releases -> RolloutStatus]
    BY <1>2, MovesType, StatusNames DEF Start
  <2>4. stage' \in [Releases -> 0..StageCount]
    BY <1>2, StageCountType DEF Start, TypeOK
  <2>5. QED
    BY <1>2, <2>2, <2>3, <2>4 DEF Start, TypeOK, quiet, projection, device
<1>3. ASSUME NEW r \in Releases, StartScheduled(r) \/ Advance(r)
      PROVE  TypeOK'
  <2>1. PICK s \in Stages : ActivateStage(r, s)
    BY <1>3, StageCountType DEF StartScheduled, Advance, TypeOK, Stages
  <2>2. /\ stage' \in [Releases -> 0..StageCount]
        /\ assignment' \in [Releases -> [Devices -> Assignment]]
        /\ commands' \subseteq Command
        /\ commands \subseteq commands'
        /\ desired' \in [Devices -> Nat]
    BY <2>1, ActivateStageType
  <2>3. status' \in [Releases -> RolloutStatus]
    BY <1>3, MovesType, StatusNames DEF StartScheduled, Advance
  <2>4. QED
    BY <1>3, <2>2, <2>3 DEF StartScheduled, Advance, TypeOK, quiet, projection, device
<1>4. ASSUME NEW r \in Releases, Complete(r) \/ Pause(r) \/ Resume(r)
      PROVE  TypeOK'
  <2>1. status' \in [Releases -> RolloutStatus]
    BY <1>4, MovesType, StatusNames DEF Complete, Pause, Resume
  <2>2. QED
    BY <1>4, <2>1 DEF Complete, Pause, Resume, TypeOK, quiet, projection, device
<1>5. ASSUME NEW r \in Releases, Abort(r) \/ ApproveAbort(r)
      PROVE  TypeOK'
  <2>1. status' \in [Releases -> RolloutStatus]
    BY <1>5, MovesType, ApprovedType, StatusNames DEF Abort, ApproveAbort
  <2>2. /\ assignment' \in [Releases -> [Devices -> Assignment]]
        /\ commands' \subseteq Command
        /\ commands \subseteq commands'
        /\ desired' \in [Devices -> Nat]
    BY <1>5, CallOffType DEF Abort, ApproveAbort
  <2>3. UNCHANGED <<stage, quiet>>
    BY <1>5 DEF Abort, ApproveAbort
  <2>4. QED
    BY <2>1, <2>2, <2>3 DEF TypeOK, quiet, projection, device
<1>6. ASSUME NEW r \in Releases, Rollback(r) \/ ApproveRollback(r) \/ GateRollback(r)
      PROVE  TypeOK'
  <2>1. status' \in [Releases -> RolloutStatus]
    BY <1>6, MovesType, ApprovedType, StatusNames
       DEF Rollback, ApproveRollback, GateRollback
  <2>2. PICK chosen \in SUBSET Devices, clears \in BOOLEAN :
          RollBackDevices(r, chosen, clears)
    BY <1>6 DEF Rollback, ApproveRollback, GateRollback
  <2>3. /\ assignment' \in [Releases -> [Devices -> Assignment]]
        /\ commands' \subseteq Command
        /\ commands \subseteq commands'
        /\ desired' \in [Devices -> Nat]
    BY <2>2, RollBackDevicesType
  <2>4. UNCHANGED <<stage, quiet>>
    BY <1>6 DEF Rollback, ApproveRollback, GateRollback
  <2>5. QED
    BY <2>1, <2>3, <2>4 DEF TypeOK, quiet, projection, device
<1>7. QED
  BY <1>1, <1>2, <1>3, <1>4, <1>5, <1>6 DEF Control

LEMMA SentType ==
  ASSUME TypeOK, NEW d \in Devices, NEW n \in DOMAIN sent[d]
  PROVE  /\ sent[d][n] \in Report
         /\ n \in Nat /\ 1 <= n /\ n <= Len(sent[d])
<1>1. sent[d] \in Seq(Report)
  BY DEF TypeOK
<1>2. QED
  BY <1>1

LEMMA OutcomeType ==
  ASSUME NEW m, NEW a
  PROVE  Outcome(m, a) \in {"failed", "acknowledged", "rolled_back", "converged"}
  BY DEF Outcome

LEMMA ReportedType ==
  ASSUME TypeOK, NEW d \in Devices, NEW n \in DOMAIN sent[d]
  PROVE  Reported(d, n) \in [Releases -> [Devices -> Assignment]]
<1>1. ASSUME NEW r \in Releases
      PROVE  [assignment[r] EXCEPT
               ![d].state = Outcome(sent[d][n], assignment[r][d]),
               ![d].report = n,
               ![d].failure = IF sent[d][n].failed THEN "failed" ELSE @]
             \in [Devices -> Assignment]
  <2>1. /\ assignment[r] \in [Devices -> Assignment]
        /\ assignment[r][d] \in Assignment
        /\ n \in Nat
    BY SentType DEF TypeOK
  <2>2. Outcome(sent[d][n], assignment[r][d]) \in AssignmentState
    BY OutcomeType DEF AssignmentState
  <2>3. (IF sent[d][n].failed THEN "failed" ELSE assignment[r][d].failure)
          \in {"none", "failed", "COMMAND_EXPIRED"}
    BY <2>1 DEF Assignment
  <2>4. [assignment[r][d] EXCEPT
          !.state = Outcome(sent[d][n], assignment[r][d]), !.report = n,
          !.failure = IF sent[d][n].failed THEN "failed" ELSE assignment[r][d].failure]
          \in Assignment
    BY <2>1, <2>2, <2>3, RowType DEF Artifact
  <2>5. QED
    BY <2>1, <2>4
<1>2. \A r \in Releases : assignment[r] \in [Devices -> Assignment]
  BY DEF TypeOK
<1>3. QED
  BY <1>1, <1>2 DEF Reported

LEMMA SettledType ==
  ASSUME TypeOK, NEW r \in Releases, NEW rows
  PROVE  Settled(r, rows) \in RolloutStatus
  BY StatusNames DEF Settled, TypeOK

LEMMA ReceiveType ==
  ASSUME TypeOK, NEW d \in Devices, NEW n \in 1..MaxReports, Receive(d, n)
  PROVE  TypeOK'
<1>1. /\ n \in DOMAIN sent[d] /\ sent[d][n] \in Report /\ n \in Nat
  BY SentType DEF Receive
<1>2. assignment' \in [Releases -> [Devices -> Assignment]]
  BY <1>1, ReportedType DEF Receive, TypeOK
<1>3. status' \in [Releases -> RolloutStatus]
  BY SettledType DEF Receive, TypeOK
<1>4. /\ lastSeq' \in [Devices -> Nat]
      /\ observed' \in [Devices -> Nat]
      /\ seen' \in [Devices -> Artifact \cup {None}]
      /\ received' \in [Devices -> SUBSET (1..MaxReports)]
  <2>1. sent[d][n].generation \in Nat /\ sent[d][n].artifact \in Artifact \cup {None}
    BY <1>1 DEF Report
  <2>2. received' \in [Devices -> SUBSET (1..MaxReports)]
    BY DEF Receive, TypeOK
  <2>3. lastSeq' \in [Devices -> Nat]
    BY <1>1 DEF Receive, TypeOK
  <2>4. /\ observed' \in [Devices -> Nat]
        /\ seen' \in [Devices -> Artifact \cup {None}]
    BY <2>1 DEF Receive, TypeOK
  <2>5. QED
    BY <2>2, <2>3, <2>4
<1>5. QED
  BY <1>2, <1>3, <1>4 DEF Receive, TypeOK, device

LEMMA HoldingType ==
  ASSUME TypeOK, NEW d \in Devices, holding[d] # Idle
  PROVE  holding[d] \in Offer
  BY DEF TypeOK

(* A poll never offers a cancellation: what an abort cancels stays so.     *)

CancelIsFinal ==
  \A c \in commands :
    c.type = "cancel" =>
      /\ status[c.release] \in {"aborting", "aborted"}
      /\ assignment[c.release][c.device].state = "cancelling"

Inv == TypeOK /\ CancelIsFinal

LEMMA PollType ==
  ASSUME Inv, NEW d \in Devices, Poll(d)
  PROVE  TypeOK'
<1> USE DEF Inv
<1>1. PICK c \in Available(d) :
        holding' = [holding EXCEPT ![d] =
          [release |-> c.release, type |-> c.type, generation |-> c.generation,
           artifact |-> assignment[c.release][d].artifact]]
  BY DEF Poll
<1>2. c \in Command /\ c \in commands /\ c.device = d
  BY DEF Available, TypeOK
<1>3. assignment[c.release][d] \in Assignment
  BY <1>2 DEF TypeOK, Command
<1>4. c.type \in {"install", "rollback"}
  BY <1>2, <1>3 DEF CancelIsFinal, Available, InFlight, Command
<1>5. [release |-> c.release, type |-> c.type, generation |-> c.generation,
       artifact |-> assignment[c.release][d].artifact] \in Offer
  BY <1>2, <1>3, <1>4 DEF Offer, Command, Assignment
<1>6. holding' \in [Devices -> Offer \cup {Idle}]
  BY <1>1, <1>5 DEF TypeOK
<1>7. QED
  BY <1>6 DEF Poll, TypeOK, projection

LEMMA TellType ==
  ASSUME NEW type \in {"command_received", "install_result", "rollback_result", "observation"},
         NEW runs \in [generation : Nat, artifact : Artifact],
         NEW failed \in BOOLEAN, NEW r \in Releases \cup {None}
  PROVE  Tell(type, runs, failed, r) \in Report
  BY DEF Tell, Report

LEMMA SendType ==
  ASSUME TypeOK, NEW d \in Devices, NEW m \in Report, Send(d, m)
  PROVE  sent' \in [Devices -> Seq(Report)]
  BY DEF TypeOK, Send

LEMMA DeviceType ==
  ASSUME TypeOK, Device
  PROVE  TypeOK'
<1> SUFFICES ASSUME NEW d \in Devices,
                    \/ Acknowledge(d) \/ Succeed(d) \/ Fail(d) \/ Observe(d) \/ Restart(d)
                    \/ \E to \in Lifecycles : SetLifecycle(d, to)
             PROVE  TypeOK'
  BY DEF Device
<1> USE DEF server, projection
<1>1. installed[d] \in [generation : Nat, artifact : Artifact]
  BY DEF TypeOK
<1>2. CASE Acknowledge(d)
  <2>1. holding[d].release \in Releases
    BY <1>2, HoldingType DEF Acknowledge, Offer
  <2>2. Tell("command_received", installed[d], FALSE, holding[d].release) \in Report
    BY <1>1, <2>1, TellType
  <2>3. sent' \in [Devices -> Seq(Report)]
    BY <1>2, <2>2, SendType DEF Acknowledge
  <2>4. QED
    BY <1>2, <2>3 DEF Acknowledge, TypeOK
<1>3. CASE Succeed(d)
  <2> DEFINE runs == [generation |-> holding[d].generation, artifact |-> holding[d].artifact]
  <2>1. /\ holding[d].release \in Releases
        /\ runs \in [generation : Nat, artifact : Artifact]
    BY <1>3, HoldingType DEF Succeed, Offer
  <2>2. Tell(ResultType(holding[d]), runs, FALSE, holding[d].release) \in Report
    BY <2>1, TellType DEF ResultType
  <2>3. sent' \in [Devices -> Seq(Report)]
    BY <1>3, <2>2, SendType DEF Succeed
  <2>4. /\ installed' \in [Devices -> [generation : Nat, artifact : Artifact]]
        /\ holding' \in [Devices -> Offer \cup {Idle}]
    BY <1>3, <2>1 DEF Succeed, TypeOK
  <2>5. QED
    BY <1>3, <2>3, <2>4 DEF Succeed, TypeOK
<1>4. CASE Fail(d)
  <2>1. holding[d].release \in Releases
    BY <1>4, HoldingType DEF Fail, Offer
  <2>2. Tell(ResultType(holding[d]), installed[d], TRUE, holding[d].release) \in Report
    BY <1>1, <2>1, TellType DEF ResultType
  <2>3. sent' \in [Devices -> Seq(Report)]
    BY <1>4, <2>2, SendType DEF Fail
  <2>4. QED
    BY <1>4, <2>3 DEF Fail, TypeOK
<1>5. CASE Observe(d)
  <2>1. Tell("observation", installed[d], FALSE, None) \in Report
    BY <1>1, TellType
  <2>2. sent' \in [Devices -> Seq(Report)]
    BY <1>5, <2>1, SendType DEF Observe
  <2>3. QED
    BY <1>5, <2>2 DEF Observe, TypeOK
<1>6. CASE Restart(d)
  BY <1>6 DEF Restart, TypeOK
<1>7. CASE \E to \in Lifecycles : SetLifecycle(d, to)
  BY <1>7 DEF SetLifecycle, TypeOK, device
<1>8. QED
  BY <1>2, <1>3, <1>4, <1>5, <1>6, <1>7

LEMMA LapseType ==
  ASSUME TypeOK, NEW c \in commands, Lapse(c)
  PROVE  TypeOK'
  BY DEF Lapse, TypeOK, projection, device

LEMMA InitType == Init => TypeOK
<1> SUFFICES ASSUME Init PROVE TypeOK
  OBVIOUS
<1>1. status \in [Releases -> RolloutStatus] /\ 0 \in 0..StageCount
  BY StatusNames, StageCountType DEF Init
<1>2. assignment \in [Releases -> [Devices -> Assignment]]
  BY UnassignedType DEF Init
<1>3. installed \in [Devices -> [generation : Nat, artifact : Artifact]]
  BY DEF Init, Artifact
<1>4. sent \in [Devices -> Seq(Report)]
  BY DEF Init
<1>5. QED
  BY <1>1, <1>2, <1>3, <1>4, LifecyclesAssumption DEF Init, TypeOK

-----------------------------------------------------------------------------
(* What each step does to assignments and commands.                        *)

\* An action that starts, pauses, resumes or completes a release finds it
\* neither aborting nor rolling back, and not over.
LEMMA MovesFrom ==
  ASSUME TypeOK, NEW r \in Releases, NEW action,
         NEW next \in {"running", "paused", "completed"},
         Moves(r, action, next)
  PROVE  /\ status[r] \in {"ready", "scheduled", "running", "paused"}
         /\ status' = [status EXCEPT ![r] = next]
  BY DEF Moves, Step, Edges, BeforeRun

\* A fresh command of release r: a new generation with the artifact that fits.
Fresh(r, chosen, type) ==
  /\ \A q \in Releases, d \in Devices :
       ~ (q = r /\ d \in chosen) => assignment'[q][d] = assignment[q][d]
  /\ \A d \in chosen :
       /\ assignment'[r][d].generation = desired[d] + 1
       /\ assignment'[r][d].artifact = IF type = "rollback" THEN Original ELSE r
       /\ assignment'[r][d].state = IF type = "rollback" THEN "pending" ELSE "commanded"
  /\ desired' = [d \in Devices |-> IF d \in chosen THEN desired[d] + 1 ELSE desired[d]]
  /\ commands' = commands \cup
       { [release |-> r, device |-> d, type |-> type,
          generation |-> desired[d] + 1] : d \in chosen }

LEMMA InstallIsFresh ==
  ASSUME TypeOK, NEW r \in Releases, NEW chosen \in SUBSET Devices, Install(r, chosen)
  PROVE  Fresh(r, chosen, "install")
<1> DEFINE rows == [d \in chosen |->
             [Unassigned EXCEPT !.state = "commanded", !.artifact = r,
                                !.generation = NextGeneration(d)]]
<1>1. ASSUME NEW d \in chosen
      PROVE  /\ rows[d].generation = desired[d] + 1
             /\ rows[d].artifact = r
             /\ rows[d].state = "commanded"
             /\ desired[d] \in Nat
  BY DEF Unassigned, NextGeneration, TypeOK
<1>2. Issue(r, chosen, "install", rows)
  BY DEF Install
<1> HIDE DEF rows
<1>3. /\ assignment' = [assignment EXCEPT ![r] =
           [d \in Devices |-> IF d \in chosen THEN rows[d] ELSE assignment[r][d]]]
      /\ assignment \in [Releases -> [Devices -> Assignment]]
  BY <1>2 DEF Issue, TypeOK
<1>4. desired' = [d \in Devices |-> IF d \in chosen THEN desired[d] + 1 ELSE desired[d]]
  BY <1>1, <1>2 DEF Issue
<1>5. commands' = commands \cup
       { [release |-> r, device |-> d, type |-> "install",
          generation |-> desired[d] + 1] : d \in chosen }
  BY <1>1, <1>2 DEF Issue
<1>6. QED
  BY <1>1, <1>3, <1>4, <1>5 DEF Fresh

LEMMA RollBackIsFresh ==
  ASSUME TypeOK, NEW r \in Releases, NEW chosen \in SUBSET Devices,
         NEW clears \in BOOLEAN, RollBackDevices(r, chosen, clears)
  PROVE  Fresh(r, chosen, "rollback")
<1> DEFINE rows == [d \in chosen |-> [assignment[r][d] EXCEPT
             !.state = "pending", !.artifact = Original,
             !.generation = NextGeneration(d),
             !.failure = IF clears THEN "none" ELSE @]]
<1>1. ASSUME NEW d \in chosen
      PROVE  /\ rows[d].generation = desired[d] + 1
             /\ rows[d].artifact = Original
             /\ rows[d].state = "pending"
             /\ desired[d] \in Nat
  <2>1. assignment[r][d] \in Assignment
    BY DEF TypeOK
  <2>2. QED
    BY <2>1 DEF Assignment, NextGeneration, TypeOK
<1>2. Issue(r, chosen, "rollback", rows)
  BY DEF RollBackDevices
<1> HIDE DEF rows
<1>3. /\ assignment' = [assignment EXCEPT ![r] =
           [d \in Devices |-> IF d \in chosen THEN rows[d] ELSE assignment[r][d]]]
      /\ assignment \in [Releases -> [Devices -> Assignment]]
  BY <1>2 DEF Issue, TypeOK
<1>4. desired' = [d \in Devices |-> IF d \in chosen THEN desired[d] + 1 ELSE desired[d]]
  BY <1>1, <1>2 DEF Issue
<1>5. commands' = commands \cup
       { [release |-> r, device |-> d, type |-> "rollback",
          generation |-> desired[d] + 1] : d \in chosen }
  BY <1>1, <1>2 DEF Issue
<1>6. QED
  BY <1>1, <1>3, <1>4, <1>5 DEF Fresh

\* An abort keeps generations and artifacts; what is in flight is cancelled.
Cancelled(r, chosen) ==
  /\ \A q \in Releases, d \in Devices :
       /\ ~ (q = r /\ d \in chosen) => assignment'[q][d] = assignment[q][d]
       /\ assignment'[q][d].generation = assignment[q][d].generation
       /\ assignment'[q][d].artifact = assignment[q][d].artifact
  /\ \A d \in chosen : assignment'[r][d].state = "cancelling"
  /\ desired' = [d \in Devices |->
       IF d \in chosen /\ desired[d] < assignment[r][d].generation
       THEN assignment[r][d].generation ELSE desired[d]]
  /\ commands' = commands \cup
       { [release |-> r, device |-> d, type |-> "cancel",
          generation |-> assignment[r][d].generation] : d \in chosen }

LEMMA AbortCancels ==
  ASSUME TypeOK, NEW r \in Releases, Abort(r) \/ ApproveAbort(r)
  PROVE  Cancelled(r, {d \in Devices : assignment[r][d].state \in InFlight})
<1> DEFINE chosen == {d \in Devices : assignment[r][d].state \in InFlight}
           rows == [d \in chosen |-> [assignment[r][d] EXCEPT !.state = "cancelling"]]
<1>1. ASSUME NEW d \in chosen
      PROVE  /\ rows[d].generation = assignment[r][d].generation
             /\ rows[d].artifact = assignment[r][d].artifact
             /\ rows[d].state = "cancelling"
  <2>1. assignment[r][d] \in Assignment
    BY DEF TypeOK
  <2>2. QED
    BY <2>1 DEF Assignment
<1>2. Issue(r, chosen, "cancel", rows) /\ chosen \subseteq Devices
  BY DEF Abort, ApproveAbort, CallOffDevices
<1> HIDE DEF rows, chosen
<1>3. /\ assignment' = [assignment EXCEPT ![r] =
           [d \in Devices |-> IF d \in chosen THEN rows[d] ELSE assignment[r][d]]]
      /\ assignment \in [Releases -> [Devices -> Assignment]]
  BY <1>2 DEF Issue, TypeOK
<1>4. desired' = [d \in Devices |->
        IF d \in chosen /\ desired[d] < assignment[r][d].generation
        THEN assignment[r][d].generation ELSE desired[d]]
  BY <1>1, <1>2 DEF Issue
<1>5. commands' = commands \cup
       { [release |-> r, device |-> d, type |-> "cancel",
          generation |-> assignment[r][d].generation] : d \in chosen }
  BY <1>1, <1>2 DEF Issue
<1>6. Cancelled(r, chosen)
  BY <1>1, <1>2, <1>3, <1>4, <1>5 DEF Cancelled
<1>7. QED
  BY <1>6 DEF chosen

\* Every other step commands nothing, and at most moves on assignments that
\* were in flight, which keep their generation and artifact.
Answered ==
  /\ UNCHANGED <<desired, commands>>
  /\ \A r \in Releases, d \in Devices :
       \/ assignment'[r][d] = assignment[r][d]
       \/ /\ assignment[r][d].state \in InFlight
          /\ assignment'[r][d].state \in
               {"acknowledged", "converged", "failed", "rolled_back", "stranded"}
          /\ assignment'[r][d].generation = assignment[r][d].generation
          /\ assignment'[r][d].artifact = assignment[r][d].artifact

LEMMA ReceiveAnswers ==
  ASSUME TypeOK, NEW d \in Devices, NEW n \in 1..MaxReports, Receive(d, n)
  PROVE  Answered
<1>1. UNCHANGED <<desired, commands>>
  BY DEF Receive
<1>2. assignment' = assignment \/ assignment' = Reported(d, n)
  BY DEF Receive
<1>3. CASE assignment' = Reported(d, n)
  <2> SUFFICES ASSUME NEW r \in Releases, NEW e \in Devices,
                      assignment'[r][e] # assignment[r][e]
               PROVE  /\ assignment[r][e].state \in InFlight
                      /\ assignment'[r][e].state \in
                           {"acknowledged", "converged", "failed", "rolled_back", "stranded"}
                      /\ assignment'[r][e].generation = assignment[r][e].generation
                      /\ assignment'[r][e].artifact = assignment[r][e].artifact
    BY <1>1 DEF Answered
  <2> DEFINE row == [assignment[r][d] EXCEPT
                !.state = Outcome(sent[d][n], assignment[r][d]), !.report = n,
                !.failure = IF sent[d][n].failed THEN "failed" ELSE @]
  <2>1. /\ assignment[r] \in [Devices -> Assignment]
        /\ assignment[r][d] \in Assignment
    BY DEF TypeOK
  <2>2. /\ Newest(d, r)
        /\ assignment'[r] = [assignment[r] EXCEPT
             ![d].state = Outcome(sent[d][n], assignment[r][d]),
             ![d].report = n,
             ![d].failure = IF sent[d][n].failed THEN "failed" ELSE @]
    BY <1>3 DEF Reported
  <2>3. e = d /\ assignment'[r][d] = row
    BY <2>1, <2>2
  <2>4. /\ row.state = Outcome(sent[d][n], assignment[r][d])
        /\ row.generation = assignment[r][d].generation
        /\ row.artifact = assignment[r][d].artifact
    BY <2>1 DEF Assignment
  <2> HIDE DEF row
  <2>5. QED
    BY <2>2, <2>3, <2>4, OutcomeType DEF Newest
<1>4. QED
  BY <1>1, <1>2, <1>3 DEF Answered

LEMMA ExpireAnswers ==
  ASSUME TypeOK, ExpireCommands
  PROVE  Answered
<1>1. ASSUME NEW r \in Releases, NEW d \in Devices
      PROVE  \/ assignment'[r][d] = assignment[r][d]
             \/ /\ assignment[r][d].state \in InFlight
                /\ assignment'[r][d] = [assignment[r][d] EXCEPT
                     !.state = "stranded", !.failure = "COMMAND_EXPIRED"]
  BY DEF ExpireCommands, Strandable, InFlight
<1>2. \A r \in Releases, d \in Devices : assignment[r][d] \in Assignment
  BY DEF TypeOK
<1>3. ASSUME NEW row \in Assignment
      PROVE  /\ [row EXCEPT !.state = "stranded",
                            !.failure = "COMMAND_EXPIRED"].state = "stranded"
             /\ [row EXCEPT !.state = "stranded",
                            !.failure = "COMMAND_EXPIRED"].generation = row.generation
             /\ [row EXCEPT !.state = "stranded",
                            !.failure = "COMMAND_EXPIRED"].artifact = row.artifact
  BY DEF Assignment
<1>4. ASSUME NEW r \in Releases, NEW d \in Devices
      PROVE  \/ assignment'[r][d] = assignment[r][d]
             \/ /\ assignment[r][d].state \in InFlight
                /\ assignment'[r][d].state = "stranded"
                /\ assignment'[r][d].generation = assignment[r][d].generation
                /\ assignment'[r][d].artifact = assignment[r][d].artifact
  <2>1. assignment[r][d] \in Assignment
    BY <1>2
  <2>2. CASE assignment'[r][d] = [assignment[r][d] EXCEPT
               !.state = "stranded", !.failure = "COMMAND_EXPIRED"]
    <3>1. /\ assignment'[r][d].state = "stranded"
          /\ assignment'[r][d].generation = assignment[r][d].generation
          /\ assignment'[r][d].artifact = assignment[r][d].artifact
      BY <2>1, <2>2, <1>3
    <3>2. QED
      BY <1>1, <3>1
  <2>3. QED
    BY <1>1, <2>2
<1>5. UNCHANGED <<desired, commands>>
  BY DEF ExpireCommands
<1>6. QED
  BY <1>4, <1>5 DEF Answered

(* Every step is of one of the three kinds.                                *)

Moved(r, next) ==
  /\ status[r] \in {"ready", "scheduled", "running", "paused"}
  /\ status' = [status EXCEPT ![r] = next]

\* An abort or a rollback, the first or one more: only a repeated request of a
\* single person ends the release at once.
Retreats(r, doing, done) ==
  /\ status[r] \in {"running", "paused", doing}
  /\ \E next \in {doing, done} :
       /\ next = done => status[r] = doing /\ r \notin TwoPerson
       /\ status' = [status EXCEPT ![r] = next]

LEMMA RetreatKinds ==
  ASSUME TypeOK, NEW r \in Releases
  PROVE  /\ Abort(r) \/ ApproveAbort(r) => Retreats(r, "aborting", "aborted")
         /\ Rollback(r) \/ ApproveRollback(r) \/ GateRollback(r)
              => Retreats(r, "rolling_back", "rolled_back")
<1>1. Abort(r) => Retreats(r, "aborting", "aborted")
  BY DEF Abort, Moves, Step, Edges, BeforeRun, Retreats
<1>2. Rollback(r) => Retreats(r, "rolling_back", "rolled_back")
  BY DEF Rollback, Moves, Step, Edges, BeforeRun, Retreats
<1>3. GateRollback(r) => Retreats(r, "rolling_back", "rolled_back")
  BY DEF GateRollback, Moves, Step, Edges, BeforeRun, Retreats
<1>4. ApproveAbort(r) => Retreats(r, "aborting", "aborted")
  BY DEF ApproveAbort, Approved, Legal, Edges, BeforeRun, Retreats
<1>5. ApproveRollback(r) => Retreats(r, "rolling_back", "rolled_back")
  BY DEF ApproveRollback, Approved, Legal, Edges, BeforeRun, Retreats
<1>6. QED
  BY <1>1, <1>2, <1>3, <1>4, <1>5

\* A rollback, on whichever route, commands only devices that were commanded
\* and have not rolled back, and of them all that may run the release.
Recalls(r, chosen) ==
  /\ \A d \in chosen : assignment[r][d].state \notin {"none", "rolled_back"}
  /\ \A d \in Devices : assignment[r][d].state \in Exposed => d \in chosen

LEMMA RollBackRecalls ==
  ASSUME TypeOK, NEW r \in Releases,
         Rollback(r) \/ ApproveRollback(r) \/ GateRollback(r)
  PROVE  /\ Retreats(r, "rolling_back", "rolled_back") /\ UNCHANGED stage
         /\ \E chosen \in SUBSET Devices :
              Fresh(r, chosen, "rollback") /\ Recalls(r, chosen)
<1> DEFINE begun == {d \in Devices : assignment[r][d].state \notin
                       {"none", "rolled_back", "superseded"}}
           exposed == {d \in Devices : assignment[r][d].state \in Exposed}
<1>1. /\ begun \in SUBSET Devices /\ exposed \in SUBSET Devices
      /\ Recalls(r, begun) /\ Recalls(r, exposed)
  BY DEF Exposed, Recalls
<1>2. \E clears \in BOOLEAN :
        RollBackDevices(r, begun, clears) \/ RollBackDevices(r, exposed, clears)
  BY DEF Rollback, ApproveRollback, GateRollback
<1>3. Retreats(r, "rolling_back", "rolled_back") /\ UNCHANGED stage
  BY RetreatKinds DEF Rollback, ApproveRollback, GateRollback
<1> HIDE DEF begun, exposed
<1>4. Fresh(r, begun, "rollback") \/ Fresh(r, exposed, "rollback")
  BY <1>1, <1>2, RollBackIsFresh
<1>5. QED
  BY <1>1, <1>3, <1>4

LEMMA StepKinds ==
  ASSUME TypeOK, Next
  PROVE  \/ \E r \in Releases, chosen \in SUBSET Devices :
              \/ Fresh(r, chosen, "install") /\ Moved(r, "running")
              \/ /\ Fresh(r, chosen, "rollback") /\ Recalls(r, chosen)
                 /\ Retreats(r, "rolling_back", "rolled_back")
         \/ \E r \in Releases :
              /\ Cancelled(r, {d \in Devices : assignment[r][d].state \in InFlight})
              /\ Retreats(r, "aborting", "aborted")
         \/ /\ Answered
            /\ assignment' = assignment
            /\ \/ UNCHANGED status
               \/ \E r \in Releases, next \in {"running", "paused", "completed"} :
                    Moved(r, next)
         \/ ExpireCommands /\ Answered
         \/ (\E d \in Devices, n \in 1..MaxReports : Receive(d, n)) /\ Answered
<1>1. CASE ExpireCommands
  BY <1>1, ExpireAnswers
<1>2. ASSUME NEW r \in Releases, Start(r)
      PROVE  \E chosen \in SUBSET Devices :
               Fresh(r, chosen, "install") /\ Moved(r, "running")
  <2>1. Wave(r, 1) \in SUBSET Devices /\ Install(r, Wave(r, 1))
    BY <1>2 DEF Start, Wave
  <2>2. Fresh(r, Wave(r, 1), "install")
    BY <2>1, InstallIsFresh
  <2>3. Moved(r, "running")
    BY <1>2, MovesFrom DEF Start, Moved
  <2>4. QED
    BY <2>1, <2>2, <2>3
<1>3. ASSUME NEW r \in Releases, StartScheduled(r) \/ Advance(r)
      PROVE  \E chosen \in SUBSET Devices :
               Fresh(r, chosen, "install") /\ Moved(r, "running")
  <2>1. PICK s : ActivateStage(r, s)
    BY <1>3 DEF StartScheduled, Advance
  <2>2. PICK chosen \in SUBSET Devices : Install(r, chosen)
    BY <2>1 DEF ActivateStage, Wave
  <2>3. Fresh(r, chosen, "install")
    BY <2>2, InstallIsFresh
  <2>4. Moved(r, "running")
    BY <1>3, MovesFrom DEF StartScheduled, Advance, Moved
  <2>5. QED
    BY <2>3, <2>4
<1>4. ASSUME NEW r \in Releases, Rollback(r) \/ ApproveRollback(r) \/ GateRollback(r)
      PROVE  \E chosen \in SUBSET Devices :
               /\ Fresh(r, chosen, "rollback") /\ Recalls(r, chosen)
               /\ Retreats(r, "rolling_back", "rolled_back")
  BY <1>4, RollBackRecalls
<1>5. ASSUME NEW r \in Releases, Abort(r) \/ ApproveAbort(r)
      PROVE  /\ Cancelled(r, {d \in Devices : assignment[r][d].state \in InFlight})
             /\ Retreats(r, "aborting", "aborted")
  BY <1>5, AbortCancels, RetreatKinds
<1>6. ASSUME NEW r \in Releases, Complete(r) \/ Pause(r) \/ Resume(r)
      PROVE  /\ Answered /\ assignment' = assignment
             /\ \E next \in {"running", "paused", "completed"} : Moved(r, next)
  BY <1>6, MovesFrom DEF Complete, Pause, Resume, Answered, Moved
<1>7. ASSUME NEW d \in Devices, NEW n \in 1..MaxReports, Receive(d, n)
      PROVE  Answered
  BY <1>7, ReceiveAnswers
<1>8. ASSUME Device \/ (\E d \in Devices : Poll(d)) \/ (\E c \in commands : Lapse(c))
      PROVE  UNCHANGED <<status, desired, commands, assignment>>
  BY <1>8 DEF Device, Acknowledge, Succeed, Fail, Observe, Restart, SetLifecycle,
              Poll, Lapse, server
<1>9. CASE Control
  BY <1>1, <1>2, <1>3, <1>4, <1>5, <1>6, <1>9 DEF Control
<1>10. CASE Agent
  BY <1>7, <1>8, <1>10 DEF Agent, Answered
<1>11. QED
  BY <1>8, <1>9, <1>10 DEF Next, Answered

-----------------------------------------------------------------------------
(* The inductive invariant: types, and that what an abort cancels stays so *)
(* (which is why a poll never offers a cancellation).                      *)

LEMMA TypeStep ==
  ASSUME Inv, [Next]_vars
  PROVE  TypeOK'
<1>1. CASE UNCHANGED vars
  BY <1>1 DEF Inv, TypeOK, vars, projection, device
<1>2. CASE Next
  <2>1. ASSUME NEW d \in Devices, Poll(d) PROVE TypeOK'
    BY <2>1, PollType
  <2>2. ASSUME NEW d \in Devices, NEW n \in 1..MaxReports, Receive(d, n) PROVE TypeOK'
    BY <2>2, ReceiveType DEF Inv
  <2>3. QED
    BY <1>2, <2>1, <2>2, ControlType, DeviceType, LapseType DEF Next, Agent, Inv
<1>3. QED
  BY <1>1, <1>2

\* A report leaves the status of a release alone unless all of it is answered.
LEMMA ReceiveSettles ==
  ASSUME TypeOK, NEW d \in Devices, NEW n \in 1..MaxReports, Receive(d, n),
         NEW r \in Releases
  PROVE  \/ status'[r] = status[r]
         \/ /\ status[r] \in {"aborting", "rolling_back"}
            /\ status'[r] \in {"aborted", "rolled_back", "failed"}
            /\ \A e \in Devices :
                 assignment'[r][e].state \notin InFlight \cup {"cancelling"}
<1>1. status'[r] = status[r] \/ status'[r] = Settled(r, assignment'[r])
  BY DEF Receive
<1>2. QED
  BY <1>1 DEF Settled, Settles

LEMMA CancelStep ==
  ASSUME Inv, Next
  PROVE  CancelIsFinal'
<1> USE DEF Inv
<1> SUFFICES ASSUME NEW c \in commands', c.type = "cancel"
             PROVE  /\ status'[c.release] \in {"aborting", "aborted"}
                    /\ assignment'[c.release][c.device].state = "cancelling"
  BY DEF CancelIsFinal
<1>1. c \in Command'
  BY TypeStep DEF TypeOK
<1>2. c.release \in Releases /\ c.device \in Devices
  BY <1>1 DEF Command
<1>3. c \in commands =>
        /\ status[c.release] \in {"aborting", "aborted"}
        /\ assignment[c.release][c.device].state = "cancelling"
  BY DEF CancelIsFinal
<1>4. \A r \in Releases : \A next : Moved(r, next) =>
        status'[r] = next /\ \A q \in Releases \ {r} : status'[q] = status[q]
  BY DEF Moved, TypeOK
<1>5. \A r \in Releases : \A doing, done : Retreats(r, doing, done) =>
         /\ status'[r] \in {doing, done}
         /\ \A q \in Releases \ {r} : status'[q] = status[q]
  BY DEF Retreats, TypeOK
<1>6. ASSUME NEW r \in Releases, NEW chosen \in SUBSET Devices,
             NEW type \in {"install", "rollback"}, Fresh(r, chosen, type),
             Moved(r, "running") \/ Retreats(r, "rolling_back", "rolled_back")
      PROVE  /\ status'[c.release] \in {"aborting", "aborted"}
             /\ assignment'[c.release][c.device].state = "cancelling"
  <2>1. c \in commands
    BY <1>6 DEF Fresh
  <2>2. c.release # r
    BY <1>3, <1>6, <2>1 DEF Moved, Retreats
  <2>3. QED
    BY <1>2, <1>3, <1>4, <1>5, <1>6, <2>1, <2>2 DEF Fresh
<1>7. ASSUME NEW r \in Releases, Retreats(r, "aborting", "aborted"),
             Cancelled(r, {d \in Devices : assignment[r][d].state \in InFlight})
      PROVE  /\ status'[c.release] \in {"aborting", "aborted"}
             /\ assignment'[c.release][c.device].state = "cancelling"
  <2>1. CASE c \in commands
    <3>1. assignment'[c.release][c.device] = assignment[c.release][c.device]
      BY <1>2, <1>3, <1>7, <2>1 DEF Cancelled, InFlight
    <3>2. QED
      BY <1>2, <1>3, <1>5, <1>7, <2>1, <3>1
  <2>2. CASE c \notin commands
    <3>1. /\ c.release = r
          /\ c.device \in {d \in Devices : assignment[r][d].state \in InFlight}
      BY <1>7, <2>2 DEF Cancelled
    <3>2. QED
      BY <1>5, <1>7, <3>1 DEF Cancelled
  <2>3. QED
    BY <2>1, <2>2
<1>8. ASSUME Answered
      PROVE  /\ c \in commands
             /\ assignment'[c.release][c.device].state = "cancelling"
  BY <1>2, <1>3, <1>8 DEF Answered, InFlight
<1>9. ASSUME Answered, UNCHANGED status
      PROVE  /\ status'[c.release] \in {"aborting", "aborted"}
             /\ assignment'[c.release][c.device].state = "cancelling"
  BY <1>3, <1>8, <1>9
<1>10. ASSUME Answered, NEW r \in Releases, NEW next, Moved(r, next)
      PROVE  /\ status'[c.release] \in {"aborting", "aborted"}
             /\ assignment'[c.release][c.device].state = "cancelling"
  <2>1. c.release # r
    BY <1>3, <1>8, <1>10 DEF Moved
  <2>2. QED
    BY <1>2, <1>3, <1>4, <1>8, <1>10, <2>1
<1>11. ASSUME NEW d \in Devices, NEW n \in 1..MaxReports, Receive(d, n), Answered
       PROVE  /\ status'[c.release] \in {"aborting", "aborted"}
              /\ assignment'[c.release][c.device].state = "cancelling"
  BY <1>2, <1>3, <1>8, <1>11, ReceiveSettles
<1>12. ExpireCommands => UNCHANGED status
  BY DEF ExpireCommands
<1>13. QED
  BY StepKinds, <1>6, <1>7, <1>9, <1>10, <1>11, <1>12

LEMMA InvStep ==
  ASSUME Inv, [Next]_vars
  PROVE  Inv'
<1>1. UNCHANGED vars => CancelIsFinal'
  BY DEF Inv, CancelIsFinal, vars
<1>2. QED
  BY <1>1, TypeStep, CancelStep DEF Inv

LEMMA Invariance == Spec => []Inv
<1>1. Init => Inv
  BY InitType DEF Inv, CancelIsFinal, Init
<1>2. QED
  BY <1>1, InvStep, PTL DEF Spec

\* Assignments, commands, projections and reports are always well formed; in
\* particular GET /desired-state never offers a device a cancellation.
THEOREM TypeCorrect == Spec => []TypeOK
  BY Invariance, PTL DEF Inv
=============================================================================
