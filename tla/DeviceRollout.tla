---------------------------- MODULE DeviceRollout ----------------------------
(***************************************************************************)
(* How releases reach devices: the assignments and durable commands that   *)
(* starting, promoting, aborting and rolling back a release write, the     *)
(* desired-state poll and the reports through which devices answer, and    *)
(* the sweep of expired commands.                                          *)
(*                                                                         *)
(* Devices pull, and answer over a network that delays, loses, repeats and *)
(* reorders: a report once sent may be received at any later time or never *)
(* (receiving it again changes nothing).  The device itself is not part of *)
(* the repository; it is modelled as the protocol expects it to behave.    *)
(* What makes a release start, advance or end is ReleaseControl's subject; *)
(* here those steps may happen whenever the state machine allows them.     *)
(***************************************************************************)
EXTENDS Naturals, Sequences, FiniteSets, ReleaseStateMachine

CONSTANTS
  Releases,       \* releases whose cohorts overlap
  Devices,        \* the frozen membership, the same for every release
  Ordinal,        \* release_memberships.cohort_ordinal, from 0, by release and device
  Percent,        \* the policy's stage plan: the share of the cohort each stage exposes
  TwoPerson,      \* the releases whose policy asks for a second person's approval
  Lifecycles,     \* the values devices.lifecycle_status may take (a bound)
  MaxReports,     \* bound on the reports a device sends
  MaxLapses,      \* bound on the commands that expire
  MaxGeneration,  \* bound on the generations a device is commanded
  Original,       \* the artifact devices start with, and roll back to
  None            \* no release, no artifact

ASSUME OrdinalAssumption ==
  /\ Ordinal \in [Releases -> [Devices -> Nat]]
  /\ \A r \in Releases, d, e \in Devices : Ordinal[r][d] = Ordinal[r][e] => d = e
ASSUME PercentAssumption ==
  /\ Percent \in Seq(1..100) /\ Percent # << >>
  /\ \A s \in 2..Len(Percent) : Percent[s - 1] < Percent[s]
ASSUME TwoPersonAssumption == TwoPerson \subseteq Releases
ASSUME DevicesAssumption == IsFiniteSet(Devices)
ASSUME LifecyclesAssumption ==
  "active" \in Lifecycles /\ Lifecycles \subseteq {"active", "quarantined", "decommissioned"}
ASSUME BoundsAssumption ==
  MaxReports \in Nat /\ MaxLapses \in Nat /\ MaxGeneration \in Nat
ASSUME NoneAssumption == Original \notin Releases /\ None \notin Releases

VARIABLES
  status,         \* releases.status
  stage,          \* releases.current_stage_ordinal, 0 before the start
  assignment,     \* release_assignments, by release and device
  commands,       \* rollout_commands
  lapsed,         \* the commands whose expires_at has passed
  desired,        \* devices.desired_generation
  observed,       \* devices.observed_generation, 0 for NULL
  seen,           \* devices.observed_artifact_digest
  lastSeq,        \* devices.last_report_sequence
  lifecycle,      \* devices.lifecycle_status; "active" stands for registered too
  received,       \* the report_sequences in device_reports
  installed,      \* on the device: what it runs, and as which generation
  holding,        \* on the device: the command it is carrying out
  sent            \* the reports the device has sent, by report_sequence

device == <<installed, holding, sent>>
projection == <<observed, seen, lastSeq, received>>
vars == <<status, stage, assignment, commands, lapsed, desired, projection,
          lifecycle, device>>
-----------------------------------------------------------------------------
(* Rows.  A release's target artifact is named as the release.             *)

StageCount == Len(Percent)
Stages == 1..StageCount
Artifact == Releases \cup {Original}

RolloutStatus ==
  {"ready", "scheduled", "running", "paused", "aborting", "rolling_back",
   "completed", "aborted", "rolled_back", "failed"}

AssignmentState ==
  {"none", "pending", "commanded", "acknowledged", "converged", "failed",
   "stranded", "cancelling", "superseded", "rolled_back"}

\* States in which a device is still expected to answer ...
InFlight == {"pending", "commanded", "acknowledged"}

\* Mutant of Exposed: a device that has not answered is left alone.
ExposedAnswered == {"acknowledged", "converged", "failed"}

\* ... and those a device being rolled back may be found in.
Exposed == {"commanded", "acknowledged", "converged", "failed", "stranded"}

Assignment ==
  [state : AssignmentState, generation : Nat, artifact : Artifact,
   report : Nat, failure : {"none", "failed", "COMMAND_EXPIRED"}]

Unassigned ==
  [state |-> "none", generation |-> 0, artifact |-> Original, report |-> 0,
   failure |-> "none"]

Command ==
  [release : Releases, device : Devices,
   type : {"install", "rollback", "cancel"}, generation : Nat]

\* What a device is told, and what it answers.
Offer == [release : Releases, type : {"install", "rollback"},
          generation : Nat, artifact : Artifact]

Idle == [release |-> None]

Report ==
  [type : {"command_received", "install_result", "rollback_result", "observation"},
   generation : Nat, artifact : Artifact, failed : BOOLEAN,
   release : Releases \cup {None}]

Init ==
  /\ status \in [Releases -> {"ready", "scheduled"}]
  /\ stage = [r \in Releases |-> 0]
  /\ assignment = [r \in Releases |-> [d \in Devices |-> Unassigned]]
  /\ commands = {}
  /\ lapsed = {}
  /\ desired = [d \in Devices |-> 0]
  /\ observed = [d \in Devices |-> 0]
  /\ seen = [d \in Devices |-> None]
  /\ lastSeq = [d \in Devices |-> 0]
  /\ lifecycle = [d \in Devices |-> "active"]
  /\ received = [d \in Devices |-> {}]
  /\ installed = [d \in Devices |-> [generation |-> 0, artifact |-> Original]]
  /\ holding = [d \in Devices |-> Idle]
  /\ sent = [d \in Devices |-> << >>]
-----------------------------------------------------------------------------
(* Commanding devices.  Each of these is part of one commit with the       *)
(* release's change of status.                                             *)

\* The generation a new command to d carries.
NextGeneration(d) == desired[d] + 1

\* Write one command of a type to each chosen device, and let its assignment
\* and the device's desired generation follow.
Issue(r, chosen, type, rows) ==
  /\ \A d \in chosen : rows[d].generation <= MaxGeneration
  /\ assignment' = [assignment EXCEPT ![r] =
       [d \in Devices |-> IF d \in chosen THEN rows[d] ELSE assignment[r][d]]]
  /\ desired' = [d \in Devices |->
       IF d \in chosen /\ desired[d] < rows[d].generation
       THEN rows[d].generation ELSE desired[d]]
  /\ commands' = commands \cup
       { [release |-> r, device |-> d, type |-> type,
          generation |-> rows[d].generation] : d \in chosen }

Install(r, chosen) ==
  LET rows == [d \in chosen |->
        [Unassigned EXCEPT !.state = "commanded", !.artifact = r,
                           !.generation = NextGeneration(d)]]
  IN  Issue(r, chosen, "install", rows)

\* The part of the cohort stage s exposes: its share rounded up, at least one.
TargetCount(s) ==
  LET share == (Cardinality(Devices) * Percent[s] + 99) \div 100 IN
  CHOOSE n \in {1, share} : 1 <= n /\ share <= n

\* Mutant of Wave: ordinals are taken to start from one.
WaveFromOne(r, s) == {d \in Devices : Ordinal[r][d] <= TargetCount(s)}

Wave(r, s) == {d \in Devices : Ordinal[r][d] < TargetCount(s)}

\* activateNextStage: members of the wave without an assignment, unless they
\* were taken out of service.
ActivateStage(r, s) ==
  /\ stage' = [stage EXCEPT ![r] = s]
  /\ Install(r, {d \in Wave(r, s) : /\ assignment[r][d].state = "none"
                                    /\ lifecycle[d] = "active"})

Moves(r, action, next) ==
  /\ Step(status[r], action, next)
  /\ status' = [status EXCEPT ![r] = next]

quiet == <<lapsed, projection, lifecycle, device>>

\* POST /start: the first wave, whatever became of its devices since validation.
Start(r) ==
  /\ Moves(r, "start", "running")
  /\ stage' = [stage EXCEPT ![r] = 1]
  /\ Install(r, Wave(r, 1))
  /\ UNCHANGED quiet

\* ScheduledReleaseStarter.
StartScheduled(r) ==
  /\ status[r] = "scheduled"
  /\ Moves(r, "start", "running")
  /\ ActivateStage(r, 1)
  /\ UNCHANGED quiet

\* The gate job, on a pass: the next stage, or the end.
Advance(r) ==
  /\ stage[r] < StageCount
  /\ Moves(r, "gate_advance", "running")
  /\ ActivateStage(r, stage[r] + 1)
  /\ UNCHANGED quiet

Complete(r) ==
  /\ stage[r] = StageCount
  /\ Moves(r, "gate_pass", "completed")
  /\ status[r] = "running"
  /\ UNCHANGED <<stage, assignment, commands, desired, quiet>>

Pause(r) ==
  /\ Moves(r, "pause", "paused")
  /\ UNCHANGED <<stage, assignment, commands, desired, quiet>>

Resume(r) ==
  /\ Moves(r, "resume", "running")
  /\ UNCHANGED <<stage, assignment, commands, desired, quiet>>
-----------------------------------------------------------------------------
(* Taking devices back.                                                    *)

\* Mutant of RollBackDevices: the generation follows the assignment's own.
RollBackDevicesNext(r, chosen, clears) ==
  LET rows == [d \in chosen |-> [assignment[r][d] EXCEPT
        !.state = "pending", !.artifact = Original, !.generation = @ + 1,
        !.failure = IF clears THEN "none" ELSE @]]
  IN  Issue(r, chosen, "rollback", rows)

\* Mutant of RollBackDevices: the command is written as an install.
RollBackDevicesAsInstall(r, chosen, clears) ==
  LET rows == [d \in chosen |-> [assignment[r][d] EXCEPT
        !.state = "pending", !.artifact = Original,
        !.generation = NextGeneration(d),
        !.failure = IF clears THEN "none" ELSE @]]
  IN  Issue(r, chosen, "install", rows)

\* A rollback is a new generation with the old artifact.  The report sequence
\* stays; only an approved rollback clears the failure code.
RollBackDevices(r, chosen, clears) ==
  LET rows == [d \in chosen |-> [assignment[r][d] EXCEPT
        !.state = "pending", !.artifact = Original,
        !.generation = NextGeneration(d),
        !.failure = IF clears THEN "none" ELSE @]]
  IN  Issue(r, chosen, "rollback", rows)

\* POST /rollback takes back every assignment that is not over.  The release
\* takes the state the table gives: one that is rolling back already is rolled
\* back, though its devices have been told to go back once more.
Rollback(r) ==
  /\ r \notin TwoPerson
  /\ \E next \in {"rolling_back", "rolled_back"} : Moves(r, "rollback", next)
  /\ RollBackDevices(r, {d \in Devices : assignment[r][d].state \notin
                           {"none", "rolled_back", "superseded"}}, FALSE)
  /\ UNCHANGED <<stage, quiet>>

\* Under two-person control the approval of a request executes it, and writes
\* the state of the first time whenever the table allows the action at all.
Approved(r, action, next) ==
  /\ r \in TwoPerson
  /\ Legal(status[r], action)
  /\ status' = [status EXCEPT ![r] = next]

ApproveRollback(r) ==
  /\ Approved(r, "rollback", "rolling_back")
  /\ RollBackDevices(r, {d \in Devices : assignment[r][d].state \in Exposed}, TRUE)
  /\ UNCHANGED <<stage, quiet>>

\* issueRollbackCommands, on a rollback decision of the gate job.
GateRollback(r) ==
  /\ Moves(r, "gate_rollback", "rolling_back")
  /\ RollBackDevices(r, {d \in Devices : assignment[r][d].state \in Exposed}, FALSE)
  /\ UNCHANGED <<stage, quiet>>

\* An abort cancels what is in flight, under the generation it has.
CallOffDevices(r) ==
  LET chosen == {d \in Devices : assignment[r][d].state \in InFlight}
      rows == [d \in chosen |-> [assignment[r][d] EXCEPT !.state = "cancelling"]]
  IN  Issue(r, chosen, "cancel", rows)

\* POST /abort: one that is aborting already is aborted by it.
Abort(r) ==
  /\ r \notin TwoPerson
  /\ \E next \in {"aborting", "aborted"} : Moves(r, "abort", next)
  /\ CallOffDevices(r)
  /\ UNCHANGED <<stage, quiet>>

ApproveAbort(r) ==
  /\ Approved(r, "abort", "aborting")
  /\ CallOffDevices(r)
  /\ UNCHANGED <<stage, quiet>>

\* MaintenanceJobRunner::expireCommands.  An expired install command strands
\* its assignment while that is pending or commanded, whatever it is for now.
Strandable(r, d) ==
  /\ assignment[r][d].state \in {"pending", "commanded"}
  /\ \E c \in lapsed : c.type = "install" /\ c.release = r /\ c.device = d

ExpireCommands ==
  /\ \E r \in Releases, d \in Devices : Strandable(r, d)
  /\ assignment' = [r \in Releases |-> [d \in Devices |->
       IF Strandable(r, d)
       THEN [assignment[r][d] EXCEPT !.state = "stranded", !.failure = "COMMAND_EXPIRED"]
       ELSE assignment[r][d]]]
  /\ UNCHANGED <<status, stage, commands, desired, quiet>>
-----------------------------------------------------------------------------
(* The agent protocol.                                                     *)

\* The commands GET /desired-state would choose from: of assignments in flight
\* that are not behind the device, at the assignment's own generation.
Available(d) ==
  {c \in commands \ lapsed :
     /\ c.device = d
     /\ assignment[c.release][d].state \in InFlight
     /\ assignment[c.release][d].generation = c.generation
     /\ c.generation >= desired[d]}

Poll(d) ==
  /\ lifecycle[d] # "decommissioned"
  /\ holding[d] = Idle
  /\ \E c \in Available(d) :
       /\ \A other \in Available(d) : other.generation <= c.generation
       /\ holding' = [holding EXCEPT ![d] =
            [release |-> c.release, type |-> c.type, generation |-> c.generation,
             artifact |-> assignment[c.release][d].artifact]]
  /\ UNCHANGED <<status, stage, assignment, commands, lapsed, desired,
                 projection, lifecycle, installed, sent>>

\* The greatest generation d was ever commanded.
CommandGeneration(d) ==
  LET generations == {0} \cup {c.generation : c \in {k \in commands : k.device = d}}
  IN  CHOOSE g \in generations : \A h \in generations : h <= g

\* Mutant of MovesProjection: every report moves it.
MovesProjectionAlways(d, n) == sent[d][n].generation <= CommandGeneration(d)

\* A report moves the projection if it is newer than all that moved it before.
MovesProjection(d, n) ==
  /\ lastSeq[d] < n
  /\ sent[d][n].generation <= CommandGeneration(d)

\* Mutant of Outcome: the state takes the name of the report's type.
OutcomeByType(m, a) ==
  LET converged == m.generation = a.generation /\ m.artifact = a.artifact IN
  IF m.failed THEN "failed"
  ELSE IF ~converged THEN "acknowledged" ELSE m.type

\* Mutant of Outcome: running the artifact is enough.
OutcomeByArtifact(m, a) ==
  LET converged == m.artifact = a.artifact IN
  IF m.failed THEN "failed"
  ELSE IF ~converged THEN "acknowledged"
  ELSE IF m.type = "rollback_result" THEN "rolled_back" ELSE "converged"

\* Matching generation and artifact is convergence; anything else a device
\* says of an assignment in flight acknowledges it, or fails it.
Outcome(m, a) ==
  LET converged == m.generation = a.generation /\ m.artifact = a.artifact IN
  IF m.failed THEN "failed"
  ELSE IF ~converged THEN "acknowledged"
  ELSE IF m.type = "rollback_result" THEN "rolled_back" ELSE "converged"

\* Mutant of Newest: the report counts though the assignment was answered.
NewestOfAll(d, r) ==
  /\ assignment[r][d].state # "none"
  /\ \A q \in Releases : assignment[q][d].generation <= assignment[r][d].generation

\* The report counts for the device's newest assignment in flight, of whatever
\* release, and not for the one it names.
Newest(d, r) ==
  /\ assignment[r][d].state \in InFlight
  /\ \A q \in Releases :
       assignment[q][d].state \in InFlight =>
         assignment[q][d].generation <= assignment[r][d].generation

Reported(d, n) ==
  [r \in Releases |->
    IF Newest(d, r) /\ assignment[r][d].report < n
    THEN [assignment[r] EXCEPT
           ![d].state = Outcome(sent[d][n], assignment[r][d]),
           ![d].report = n,
           ![d].failure = IF sent[d][n].failed THEN "failed" ELSE @]
    ELSE assignment[r]]

\* Mutant of Settles: a cancellation is not waited for.
SettlesUncancelled(r, rows) ==
  /\ status[r] \in {"aborting", "rolling_back"}
  /\ \A d \in Devices : rows[d].state \notin InFlight
  /\ \E d \in Devices : rows[d].state # "none"

\* settleReleaseAfterDeviceReport: once nothing is in flight the release ends.
\* A failed device counts as a failed rollback only under a failure code that
\* no report of the protocol leaves.
Settles(r, rows) ==
  /\ status[r] \in {"aborting", "rolling_back"}
  /\ \A d \in Devices : rows[d].state \notin InFlight \cup {"cancelling"}
  /\ \E d \in Devices : rows[d].state # "none"

Settled(r, rows) ==
  IF ~Settles(r, rows) THEN status[r]
  ELSE IF status[r] = "aborting" THEN "aborted"
  ELSE IF \E d \in Devices : /\ rows[d].state = "failed"
                             /\ rows[d].failure = "ROLLBACK_FAILED"
       THEN "failed" ELSE "rolled_back"

\* POST /reports.  A report already recorded is answered and changes nothing.
Receive(d, n) ==
  LET m == sent[d][n]
      rows == IF MovesProjection(d, n) THEN Reported(d, n) ELSE assignment
  IN
  /\ n \in DOMAIN sent[d] \ received[d]
  /\ lifecycle[d] # "decommissioned"
  /\ received' = [received EXCEPT ![d] = @ \cup {n}]
  /\ IF MovesProjection(d, n)
     THEN /\ lastSeq' = [lastSeq EXCEPT ![d] = n]
          /\ IF observed[d] <= m.generation
             THEN /\ observed' = [observed EXCEPT ![d] = m.generation]
                  /\ seen' = [seen EXCEPT ![d] = m.artifact]
             ELSE UNCHANGED <<observed, seen>>
     ELSE UNCHANGED <<lastSeq, observed, seen>>
  /\ assignment' = rows
  /\ status' = [r \in Releases |->
       IF r = m.release THEN Settled(r, rows[r]) ELSE status[r]]
  /\ UNCHANGED <<stage, commands, lapsed, desired, lifecycle, device>>
-----------------------------------------------------------------------------
(* The device, and what happens to it.                                     *)

Send(d, report) ==
  /\ Len(sent[d]) < MaxReports
  /\ sent' = [sent EXCEPT ![d] = Append(@, report)]

\* Every report tells what the device runs when it is sent.
Tell(type, runs, failed, release) ==
  [type |-> type, generation |-> runs.generation, artifact |-> runs.artifact,
   failed |-> failed, release |-> release]

server == <<status, stage, assignment, commands, lapsed, desired, projection>>

Acknowledge(d) ==
  /\ holding[d] # Idle
  /\ Send(d, Tell("command_received", installed[d], FALSE, holding[d].release))
  /\ UNCHANGED <<server, lifecycle, installed, holding>>

ResultType(offer) ==
  IF offer.type = "rollback" THEN "rollback_result" ELSE "install_result"

Succeed(d) ==
  LET runs == [generation |-> holding[d].generation, artifact |-> holding[d].artifact]
  IN
  /\ holding[d] # Idle
  /\ installed' = [installed EXCEPT ![d] = runs]
  /\ Send(d, Tell(ResultType(holding[d]), runs, FALSE, holding[d].release))
  /\ holding' = [holding EXCEPT ![d] = Idle]
  /\ UNCHANGED <<server, lifecycle>>

Fail(d) ==
  /\ holding[d] # Idle
  /\ Send(d, Tell(ResultType(holding[d]), installed[d], TRUE, holding[d].release))
  /\ holding' = [holding EXCEPT ![d] = Idle]
  /\ UNCHANGED <<server, lifecycle, installed>>

Observe(d) ==
  /\ Send(d, Tell("observation", installed[d], FALSE, None))
  /\ UNCHANGED <<server, lifecycle, installed, holding>>

\* A device that restarts forgets the command it was carrying out.
Restart(d) ==
  /\ holding[d] # Idle
  /\ holding' = [holding EXCEPT ![d] = Idle]
  /\ UNCHANGED <<server, lifecycle, installed, sent>>

\* POST /devices/{id}/quarantine, /reactivate and /decommission, from any state.
SetLifecycle(d, to) ==
  /\ lifecycle' = [lifecycle EXCEPT ![d] = to]
  /\ UNCHANGED <<server, device>>

\* Seven days pass: a command expires after those issued before it.
Lapse(c) ==
  /\ c \in commands \ lapsed
  /\ Cardinality(lapsed) < MaxLapses
  /\ \A k \in commands \ lapsed :
       k.device = c.device => k.generation >= c.generation
  /\ lapsed' = lapsed \cup {c}
  /\ UNCHANGED <<status, stage, assignment, commands, desired, projection,
                 lifecycle, device>>
-----------------------------------------------------------------------------
Control ==
  \/ ExpireCommands
  \/ \E r \in Releases :
       \/ Start(r) \/ StartScheduled(r) \/ Advance(r) \/ Complete(r)
       \/ Pause(r) \/ Resume(r) \/ Abort(r) \/ ApproveAbort(r)
       \/ Rollback(r) \/ ApproveRollback(r) \/ GateRollback(r)

Agent ==
  \E d \in Devices :
    \/ Poll(d)
    \/ \E n \in 1..MaxReports : Receive(d, n)

Device ==
  \E d \in Devices :
    \/ Acknowledge(d) \/ Succeed(d) \/ Fail(d) \/ Observe(d) \/ Restart(d)
    \/ \E to \in Lifecycles : SetLifecycle(d, to)

Next == Control \/ Agent \/ Device \/ \E c \in commands : Lapse(c)

Spec == Init /\ [][Next]_vars
-----------------------------------------------------------------------------
(* Properties.                                                             *)

TypeOK ==
  /\ status \in [Releases -> RolloutStatus]
  /\ stage \in [Releases -> 0..StageCount]
  /\ assignment \in [Releases -> [Devices -> Assignment]]
  /\ commands \subseteq Command
  /\ lapsed \subseteq commands
  /\ desired \in [Devices -> Nat]
  /\ observed \in [Devices -> Nat]
  /\ seen \in [Devices -> Artifact \cup {None}]
  /\ lastSeq \in [Devices -> Nat]
  /\ lifecycle \in [Devices -> Lifecycles]
  /\ received \in [Devices -> SUBSET (1..MaxReports)]
  /\ installed \in [Devices -> [generation : Nat, artifact : Artifact]]
  /\ holding \in [Devices -> Offer \cup {Idle}]
  /\ sent \in [Devices -> Seq(Report)]

\* The projection of a device is what the newest report received says,
\* whatever was lost, repeated or overtaken on the way: an older report that
\* arrives later moves nothing back, and none is skipped.
NewestReportWins ==
  \A d \in Devices :
    /\ \A n \in received[d] : n <= lastSeq[d]
    /\ IF lastSeq[d] = 0
       THEN observed[d] = 0 /\ seen[d] = None
       ELSE /\ lastSeq[d] \in received[d]
            /\ observed[d] = sent[d][lastSeq[d]].generation
            /\ seen[d] = sent[d][lastSeq[d]].artifact

\* No false convergence: an assignment counts as converged or rolled back only
\* if the device reported exactly its generation running exactly its artifact,
\* also when two releases command the device or reports overtake each other.
ConvergenceWasReported ==
  \A r \in Releases, d \in Devices :
    assignment[r][d].state \in {"converged", "rolled_back"} =>
      \E n \in received[d] :
        /\ sent[d][n].generation = assignment[r][d].generation
        /\ sent[d][n].artifact = assignment[r][d].artifact

\* One generation of a device means one thing: two releases never command the
\* same generation, and the device's desired generation is the greatest.
GenerationsAreUnique ==
  /\ \A c, k \in commands :
       c.device = k.device /\ c.generation = k.generation => c.release = k.release
  /\ \A c \in commands :
       /\ 0 < c.generation
       /\ c.generation <= desired[c.device]
  /\ \A d \in Devices :
       0 < desired[d] =>
         \E c \in commands : c.device = d /\ c.generation = desired[d]

\* An assignment is always backed by a durable command of its generation, of a
\* kind that fits its artifact: no device waits for a command never written.
AssignmentsAreCommanded ==
  \A r \in Releases, d \in Devices :
    LET a == assignment[r][d] IN
    a.state # "none" =>
      \E c \in commands :
        /\ c.release = r
        /\ c.device = d
        /\ c.generation = a.generation
        /\ c.type = IF a.artifact = Original THEN "rollback" ELSE "install"

\* Under two-person control, a release that was aborted or rolled back has
\* nothing left in flight, and no later report, approval or repeated request
\* brings any of it back.
EndedIsQuiet ==
  \A r \in TwoPerson :
    status[r] \in {"aborted", "rolled_back", "failed"} =>
      \A d \in Devices : assignment[r][d].state \notin InFlight \cup {"cancelling"}

\* A rollback sends a higher generation to every device the release ever
\* commanded, converged or not, whichever of the three routes started it.
RollbackReachesAll ==
  \A r \in Releases, c \in commands :
    /\ status[r] \in {"rolling_back", "rolled_back", "failed"}
    /\ c.release = r /\ c.type = "install"
    => \E k \in commands :
         /\ k.release = r /\ k.device = c.device /\ k.type = "rollback"
         /\ k.generation > c.generation

\* However many releases command a device, and in whatever order their aborts,
\* rollbacks and expirations meet its reports, its assignment to each follows
\* the life of one assignment.
Life(r, d) == INSTANCE AssignmentLifecycle
  WITH Target <- r,
       state <- assignment[r][d].state,
       generation <- assignment[r][d].generation,
       artifact <- assignment[r][d].artifact

FollowsAssignmentLifecycle ==
  /\ \A r \in Releases, d \in Devices : Life(r, d)!Init
  /\ [][\A r \in Releases, d \in Devices : Life(r, d)!Step]_assignment

\* Blast radius: a release never commands more of its cohort than the share its
\* present stage allows (rounded up, at least one device), whether it was started
\* by hand or by schedule and whatever was out of service on the way.
CommandedBy(r) == {d \in Devices : \E c \in commands : c.release = r /\ c.device = d}

BlastRadius ==
  \A r \in Releases :
    /\ CommandedBy(r) # {} => stage[r] \in Stages
    /\ Cardinality(CommandedBy(r)) > 1 =>
         (Cardinality(CommandedBy(r)) - 1) * 100
           < Cardinality(Devices) * Percent[stage[r]]

\* Said of the program by README.md:173 ("Durable pull commands remain available
\* until expiry or supersession").  A command is due while it has not expired,
\* is not superseded by a newer generation, and its device, in service, has not
\* answered it.
Due(c) ==
  /\ c \in commands \ lapsed
  /\ c.generation = desired[c.device]
  /\ lifecycle[c.device] = "active"
  /\ \A n \in DOMAIN sent[c.device] :
       /\ sent[c.device][n].generation < c.generation
       /\ c.type = "rollback" => sent[c.device][n].type # "rollback_result"

CommandsStayAvailable == \A c \in commands : Due(c) => c \in Available(c.device)
=============================================================================
