------------------------- MODULE DeviceSafetyProofs --------------------------
(***************************************************************************)
(* Safety of DeviceRollout, which its runs check for one or two devices,   *)
(* proved for any releases, cohort, stage plan and number of reports.      *)
(***************************************************************************)
EXTENDS DeviceRolloutProofs, FiniteSetTheorems

LEMMA MovedChanges ==
  ASSUME TypeOK, NEW r \in Releases, NEW next, Moved(r, next)
  PROVE  status'[r] = next /\ \A q \in Releases \ {r} : status'[q] = status[q]
  BY DEF Moved, TypeOK

LEMMA RetreatChanges ==
  ASSUME TypeOK, NEW r \in Releases, NEW doing, NEW done, Retreats(r, doing, done)
  PROVE  /\ status'[r] \in {doing, done}
         /\ r \in TwoPerson => status'[r] = doing
         /\ status[r] \in {"running", "paused", doing}
         /\ \A q \in Releases \ {r} : status'[q] = status[q]
  BY DEF Retreats, TypeOK

LEMMA CommandType ==
  ASSUME TypeOK, NEW c \in commands
  PROVE  /\ c.release \in Releases /\ c.device \in Devices /\ c.generation \in Nat
         /\ c.type \in {"install", "rollback", "cancel"}
  BY DEF TypeOK, Command

LEMMA AssignmentType ==
  ASSUME TypeOK, NEW r \in Releases, NEW d \in Devices
  PROVE  /\ assignment[r][d].state \in AssignmentState
         /\ assignment[r][d].generation \in Nat
         /\ assignment[r][d].artifact \in Artifact
  BY DEF TypeOK, Assignment

(* Commands and generations.                                               *)

Commanded == AssignmentsAreCommanded /\ GenerationsAreUnique

LEMMA FreshCommands ==
  ASSUME TypeOK, Commanded, NEW r \in Releases, NEW chosen \in SUBSET Devices,
         NEW type \in {"install", "rollback"}, Fresh(r, chosen, type)
  PROVE  Commanded'
<1>1. ASSUME NEW q \in Releases, NEW d \in Devices, assignment'[q][d].state # "none"
      PROVE  \E c \in commands' :
               /\ c.release = q /\ c.device = d
               /\ c.generation = assignment'[q][d].generation
               /\ c.type = IF assignment'[q][d].artifact = Original
                           THEN "rollback" ELSE "install"
  <2>1. CASE q = r /\ d \in chosen
    <3> DEFINE c == [release |-> r, device |-> d, type |-> type,
                     generation |-> desired[d] + 1]
    <3>1. c \in commands'
      BY <2>1 DEF Fresh
    <3>2. /\ assignment'[q][d].generation = desired[d] + 1
          /\ assignment'[q][d].artifact = IF type = "rollback" THEN Original ELSE r
      BY <2>1 DEF Fresh
    <3>3. QED
      BY <2>1, <3>1, <3>2, NoneAssumption
  <2>2. CASE ~ (q = r /\ d \in chosen)
    BY <1>1, <2>2 DEF Fresh, Commanded, AssignmentsAreCommanded
  <2>3. QED
    BY <2>1, <2>2
<1>2. \A d \in Devices : desired[d] \in Nat
  BY DEF TypeOK
<1>3. \A c \in commands : /\ c.device \in Devices /\ c.generation \in Nat
                          /\ 0 < c.generation /\ c.generation <= desired[c.device]
  BY CommandType DEF Commanded, GenerationsAreUnique
<1>4. \A c \in commands' \ commands :
        /\ c.release = r /\ c.device \in chosen
        /\ c.generation = desired[c.device] + 1
  BY DEF Fresh
<1>5. \A d \in Devices :
        desired'[d] = IF d \in chosen THEN desired[d] + 1 ELSE desired[d]
  BY DEF Fresh
<1>6. ASSUME NEW c \in commands', NEW k \in commands',
             c.device = k.device, c.generation = k.generation
      PROVE  c.release = k.release
  <2>1. CASE c \in commands /\ k \in commands
    BY <1>6, <2>1 DEF Commanded, GenerationsAreUnique
  <2>2. CASE c \notin commands /\ k \notin commands
    BY <1>4, <2>2
  <2>3. CASE ~ (c \in commands <=> k \in commands)
    BY <1>2, <1>3, <1>4, <1>6, <2>3
  <2>4. QED
    BY <2>1, <2>2, <2>3
<1>7. ASSUME NEW c \in commands'
      PROVE  0 < c.generation /\ c.generation <= desired'[c.device]
  <2>1. c.device \in Devices
    BY <1>3, <1>4
  <2>2. QED
    BY <1>2, <1>3, <1>4, <1>5, <2>1
<1>8. ASSUME NEW d \in Devices, 0 < desired'[d]
      PROVE  \E c \in commands' : c.device = d /\ c.generation = desired'[d]
  <2>1. CASE d \in chosen
    <3> DEFINE c == [release |-> r, device |-> d, type |-> type,
                     generation |-> desired[d] + 1]
    <3>1. c \in commands'
      BY <2>1 DEF Fresh
    <3>2. QED
      BY <1>5, <2>1, <3>1
  <2>2. CASE d \notin chosen
    BY <1>5, <1>8, <2>2 DEF Fresh, Commanded, GenerationsAreUnique
  <2>3. QED
    BY <2>1, <2>2
<1>9. QED
  BY <1>1, <1>6, <1>7, <1>8 DEF Commanded, AssignmentsAreCommanded, GenerationsAreUnique

LEMMA CancelCommands ==
  ASSUME TypeOK, Commanded, NEW r \in Releases,
         Cancelled(r, {d \in Devices : assignment[r][d].state \in InFlight})
  PROVE  Commanded'
<1> DEFINE chosen == {d \in Devices : assignment[r][d].state \in InFlight}
<1>1. \A d \in chosen :
        \E c \in commands : /\ c.release = r /\ c.device = d
                            /\ c.generation = assignment[r][d].generation
  BY DEF Commanded, AssignmentsAreCommanded, InFlight
<1>2. \A d \in Devices : desired[d] \in Nat
  BY DEF TypeOK
<1>3. \A d \in chosen : assignment[r][d].generation <= desired[d]
  BY <1>1 DEF Commanded, GenerationsAreUnique
<1>4. desired' = desired
  <2>1. \A d \in chosen : ~ (desired[d] < assignment[r][d].generation)
    BY <1>2, <1>3, AssignmentType
  <2>2. desired' = [d \in Devices |-> desired[d]]
    BY <2>1 DEF Cancelled
  <2>3. QED
    BY <2>2 DEF TypeOK
<1>5. ASSUME NEW c \in commands'
      PROVE  \E k \in commands : /\ k.release = c.release /\ k.device = c.device
                                 /\ k.generation = c.generation
  BY <1>1, <1>5 DEF Cancelled
<1>6. commands \subseteq commands'
  BY DEF Cancelled
<1>7. GenerationsAreUnique'
  <2>1. ASSUME NEW c \in commands', NEW k \in commands',
               c.device = k.device, c.generation = k.generation
        PROVE  c.release = k.release
    BY <1>5, <2>1 DEF Commanded, GenerationsAreUnique
  <2>2. ASSUME NEW c \in commands'
        PROVE  0 < c.generation /\ c.generation <= desired'[c.device]
    BY <1>4, <1>5 DEF Commanded, GenerationsAreUnique
  <2>3. ASSUME NEW d \in Devices, 0 < desired'[d]
        PROVE  \E c \in commands' : c.device = d /\ c.generation = desired'[d]
    BY <1>4, <1>6, <2>3 DEF Commanded, GenerationsAreUnique
  <2>4. QED
    BY <2>1, <2>2, <2>3 DEF GenerationsAreUnique
<1>8. ASSUME NEW q \in Releases, NEW d \in Devices, assignment'[q][d].state # "none"
      PROVE  /\ assignment[q][d].state # "none"
             /\ assignment'[q][d].generation = assignment[q][d].generation
             /\ assignment'[q][d].artifact = assignment[q][d].artifact
  BY <1>8 DEF Cancelled, InFlight
<1>9. AssignmentsAreCommanded'
  BY <1>6, <1>8 DEF Commanded, AssignmentsAreCommanded
<1>10. QED
  BY <1>7, <1>9 DEF Commanded

LEMMA AnsweredCommands ==
  ASSUME Commanded, Answered
  PROVE  Commanded'
<1>1. ASSUME NEW q \in Releases, NEW d \in Devices, assignment'[q][d].state # "none"
      PROVE  /\ assignment[q][d].state # "none"
             /\ assignment'[q][d].generation = assignment[q][d].generation
             /\ assignment'[q][d].artifact = assignment[q][d].artifact
  BY <1>1 DEF Answered, InFlight
<1>2. AssignmentsAreCommanded'
  BY <1>1 DEF Answered, Commanded, AssignmentsAreCommanded
<1>3. GenerationsAreUnique'
  BY DEF Answered, Commanded, GenerationsAreUnique
<1>4. QED
  BY <1>2, <1>3 DEF Commanded

LEMMA CommandedStep ==
  ASSUME Inv, Commanded, [Next]_vars
  PROVE  Commanded'
<1>1. CASE UNCHANGED vars
  BY <1>1 DEF Commanded, AssignmentsAreCommanded, GenerationsAreUnique, vars
<1>2. CASE Next
  BY <1>2, StepKinds, FreshCommands, CancelCommands, AnsweredCommands DEF Inv
<1>3. QED
  BY <1>1, <1>2

LEMMA AlwaysCommanded == Spec => []Commanded
<1>1. Init => Commanded
  BY DEF Init, Commanded, AssignmentsAreCommanded, GenerationsAreUnique, Unassigned
<1>2. QED
  BY <1>1, CommandedStep, Invariance, PTL DEF Spec

\* A generation of a device belongs to one release, however many releases
\* command the device, abort and roll back in whatever order.
THEOREM GenerationsBelongToOne == Spec => []GenerationsAreUnique
  BY AlwaysCommanded, PTL DEF Commanded

\* Every assignment is backed by a durable command of its generation that fits
\* its artifact.
THEOREM NoDeviceWaitsForNothing == Spec => []AssignmentsAreCommanded
  BY AlwaysCommanded, PTL DEF Commanded

-----------------------------------------------------------------------------
(* A release that ended stays quiet.                                       *)

LEMMA QuietStep ==
  ASSUME Inv, EndedIsQuiet, [Next]_vars
  PROVE  EndedIsQuiet'
<1> DEFINE over == {"aborted", "rolled_back", "failed"}
           loud == InFlight \cup {"cancelling"}
<1> SUFFICES ASSUME NEW r \in TwoPerson, status'[r] \in over, NEW d \in Devices
             PROVE  assignment'[r][d].state \notin loud
  BY DEF EndedIsQuiet
<1> USE DEF Inv
<1>0. r \in Releases
  BY TwoPersonAssumption
<1>1. status[r] \in over => assignment[r][d].state \notin loud
  BY DEF EndedIsQuiet
<1>2. CASE UNCHANGED vars
  BY <1>1, <1>2 DEF vars
<1>3. ASSUME NEW q \in Releases, NEW next \in RolloutStatus \ over, Moved(q, next)
      PROVE  r # q /\ status'[r] = status[r]
  BY <1>0, <1>3, MovedChanges
<1>4. ASSUME NEW q \in Releases, NEW chosen \in SUBSET Devices, NEW type,
             Fresh(q, chosen, type),
             Moved(q, "running") \/ Retreats(q, "rolling_back", "rolled_back")
      PROVE  assignment'[r][d].state \notin loud
  <2>1. r # q /\ status'[r] = status[r]
    BY <1>0, <1>3, <1>4, RetreatChanges DEF RolloutStatus
  <2>2. QED
    BY <1>0, <1>1, <1>4, <2>1 DEF Fresh
<1>5. ASSUME NEW q \in Releases, NEW chosen, Cancelled(q, chosen),
             Retreats(q, "aborting", "aborted")
      PROVE  assignment'[r][d].state \notin loud
  <2>1. r # q /\ status'[r] = status[r]
    BY <1>0, <1>5, RetreatChanges
  <2>2. QED
    BY <1>0, <1>1, <1>5, <2>1 DEF Cancelled
<1>6. ASSUME Answered, status'[r] = status[r]
      PROVE  assignment'[r][d].state \notin loud
  BY <1>0, <1>1, <1>6 DEF Answered
<1>7. ASSUME NEW q \in Releases, NEW next \in {"running", "paused", "completed"},
             Moved(q, next), Answered
      PROVE  assignment'[r][d].state \notin loud
  <2>1. status'[r] = status[r]
    BY <1>3, <1>7 DEF RolloutStatus
  <2>2. QED
    BY <1>6, <1>7, <2>1
<1>8. ASSUME NEW e \in Devices, NEW n \in 1..MaxReports, Receive(e, n), Answered
      PROVE  assignment'[r][d].state \notin loud
  BY <1>0, <1>6, <1>8, ReceiveSettles
<1>9. ASSUME ExpireCommands, Answered
      PROVE  assignment'[r][d].state \notin loud
  BY <1>6, <1>9 DEF ExpireCommands
<1>10. CASE Next
  BY <1>10, <1>4, <1>5, <1>6, <1>7, <1>8, <1>9, StepKinds
<1>11. QED
  BY <1>2, <1>10

\* Under two-person control, once a release is aborted or rolled back no device
\* of it is in flight, and no late report, expiry, command or repeated request
\* changes that.
THEOREM EndedStaysQuiet == Spec => []EndedIsQuiet
<1>1. Init => EndedIsQuiet
  BY TwoPersonAssumption DEF Init, EndedIsQuiet
<1>2. QED
  BY <1>1, QuietStep, Invariance, PTL DEF Spec

-----------------------------------------------------------------------------
(* Reports.                                                                *)

\* What is received was sent, and what was sent is never changed.
ReceivedWereSent == \A d \in Devices : received[d] \subseteq DOMAIN sent[d]

LEMMA SendAppends ==
  ASSUME TypeOK, NEW d \in Devices, NEW m, Send(d, m)
  PROVE  /\ \A e \in Devices : e # d => sent'[e] = sent[e]
         /\ Len(sent'[d]) = Len(sent[d]) + 1
         /\ sent'[d][Len(sent[d]) + 1] = m
         /\ \A n \in DOMAIN sent[d] : n \in DOMAIN sent'[d] /\ sent'[d][n] = sent[d][n]
         /\ DOMAIN sent'[d] = DOMAIN sent[d] \cup {Len(sent[d]) + 1}
<1>1. sent[d] \in Seq(Report) /\ sent' = [sent EXCEPT ![d] = Append(sent[d], m)]
  BY DEF TypeOK, Send
<1>2. sent'[d] = Append(sent[d], m) /\ \A e \in Devices : e # d => sent'[e] = sent[e]
  BY <1>1 DEF TypeOK
<1>3. QED
  BY <1>1, <1>2

LEMMA ReportsStay ==
  ASSUME TypeOK, ReceivedWereSent, [Next]_vars
  PROVE  /\ ReceivedWereSent'
         /\ \A d \in Devices : /\ received[d] \subseteq received'[d]
                               /\ \A n \in DOMAIN sent[d] : /\ n \in DOMAIN sent'[d]
                                                            /\ sent'[d][n] = sent[d][n]
<1>1. CASE UNCHANGED <<received, sent>>
  BY <1>1 DEF ReceivedWereSent
<1>2. ASSUME NEW d \in Devices, NEW n \in 1..MaxReports, Receive(d, n)
      PROVE  /\ UNCHANGED sent
             /\ n \in DOMAIN sent[d]
             /\ received' = [received EXCEPT ![d] = @ \cup {n}]
  BY <1>2 DEF Receive, device
<1>3. ASSUME NEW d \in Devices, NEW m, Send(d, m), UNCHANGED received
      PROVE  /\ ReceivedWereSent'
             /\ \A e \in Devices : /\ received[e] \subseteq received'[e]
                                   /\ \A n \in DOMAIN sent[e] : /\ n \in DOMAIN sent'[e]
                                                                /\ sent'[e][n] = sent[e][n]
  <2>1. ASSUME NEW e \in Devices, NEW n \in DOMAIN sent[e]
        PROVE  n \in DOMAIN sent'[e] /\ sent'[e][n] = sent[e][n]
    BY <1>3, SendAppends
  <2>2. QED
    BY <1>3, <2>1 DEF ReceivedWereSent
<1>4. CASE \E d \in Devices : Acknowledge(d) \/ Succeed(d) \/ Fail(d) \/ Observe(d)
  <2>1. PICK d \in Devices : \E m : Send(d, m) /\ UNCHANGED received
    BY <1>4 DEF Acknowledge, Succeed, Fail, Observe, server, projection
  <2>2. PICK m : Send(d, m) /\ UNCHANGED received
    BY <2>1
  <2>3. QED
    BY <1>3, <2>2
<1>5. CASE \E d \in Devices, n \in 1..MaxReports : Receive(d, n)
  <2>1. PICK d \in Devices, n \in 1..MaxReports : Receive(d, n)
    BY <1>5
  <2>2. /\ sent' = sent
        /\ received'[d] = received[d] \cup {n}
        /\ \A e \in Devices : e # d => received'[e] = received[e]
    BY <1>2, <2>1 DEF TypeOK
  <2>3. \A e \in Devices : /\ received'[e] \subseteq DOMAIN sent'[e]
                          /\ received[e] \subseteq received'[e]
    BY <1>2, <2>1, <2>2 DEF ReceivedWereSent
  <2>4. QED
    BY <2>2, <2>3 DEF ReceivedWereSent
<1>6. CASE Control
  BY <1>1, <1>6 DEF Control, ExpireCommands, Start, StartScheduled, Advance, Complete,
                    Pause, Resume, Abort, ApproveAbort, Rollback,
                    ApproveRollback, GateRollback,
                    quiet, projection, device
<1>7. CASE \/ \E d \in Devices : Poll(d) \/ Restart(d)
           \/ \E d \in Devices : \E to \in Lifecycles : SetLifecycle(d, to)
           \/ \E c \in commands : Lapse(c)
  BY <1>1, <1>7 DEF Poll, Restart, SetLifecycle, Lapse, server, projection, device
<1>8. CASE UNCHANGED vars
  BY <1>1, <1>8 DEF vars, projection, device
<1>9. CASE Next
  BY <1>4, <1>5, <1>6, <1>7, <1>9 DEF Next, Agent, Device
<1>10. QED
  BY <1>8, <1>9

LEMMA ReportsInvariance == Spec => []ReceivedWereSent
<1>1. Init => ReceivedWereSent
  BY DEF Init, ReceivedWereSent
<1>2. QED
  BY <1>1, ReportsStay, Invariance, PTL DEF Spec, Inv

LEMMA ConvergenceStep ==
  ASSUME Inv, ReceivedWereSent, ConvergenceWasReported, [Next]_vars
  PROVE  ConvergenceWasReported'
<1> DEFINE arrived == {"converged", "rolled_back"}
<1> SUFFICES ASSUME NEW r \in Releases, NEW d \in Devices,
                    assignment'[r][d].state \in arrived
             PROVE  \E n \in received'[d] :
                      /\ sent'[d][n].generation = assignment'[r][d].generation
                      /\ sent'[d][n].artifact = assignment'[r][d].artifact
  BY DEF ConvergenceWasReported
<1> USE DEF Inv
<1>1. ASSUME assignment'[r][d] = assignment[r][d]
      PROVE  \E n \in received'[d] :
               /\ sent'[d][n].generation = assignment'[r][d].generation
               /\ sent'[d][n].artifact = assignment'[r][d].artifact
  <2>1. PICK n \in received[d] :
          /\ sent[d][n].generation = assignment[r][d].generation
          /\ sent[d][n].artifact = assignment[r][d].artifact
    BY <1>1 DEF ConvergenceWasReported
  <2>2. n \in received'[d] /\ sent'[d][n] = sent[d][n]
    BY <2>1, ReportsStay DEF ReceivedWereSent
  <2>3. QED
    BY <1>1, <2>1, <2>2
<1>2. CASE UNCHANGED vars
  BY <1>1, <1>2 DEF vars
<1>3. ASSUME NEW q \in Releases, NEW chosen \in SUBSET Devices, NEW type,
             Fresh(q, chosen, type)
      PROVE  assignment'[r][d] = assignment[r][d]
  BY <1>3 DEF Fresh
<1>4. ASSUME NEW q \in Releases, NEW chosen, Cancelled(q, chosen)
      PROVE  assignment'[r][d] = assignment[r][d]
  BY <1>4 DEF Cancelled
<1>5. ASSUME ExpireCommands
      PROVE  assignment'[r][d] = assignment[r][d]
  <2>1. assignment[r][d] \in Assignment
    BY DEF TypeOK
  <2>2. [assignment[r][d] EXCEPT !.state = "stranded",
                                 !.failure = "COMMAND_EXPIRED"].state = "stranded"
    BY <2>1 DEF Assignment
  <2>3. QED
    BY <1>5, <2>2 DEF ExpireCommands
<1>6. ASSUME NEW e \in Devices, NEW n \in 1..MaxReports, Receive(e, n),
             assignment'[r][d] # assignment[r][d]
      PROVE  \E k \in received'[d] :
               /\ sent'[d][k].generation = assignment'[r][d].generation
               /\ sent'[d][k].artifact = assignment'[r][d].artifact
  <2> DEFINE row == [assignment[r][e] EXCEPT
                !.state = Outcome(sent[e][n], assignment[r][e]), !.report = n,
                !.failure = IF sent[e][n].failed THEN "failed" ELSE @]
  <2>1. assignment[r] \in [Devices -> Assignment] /\ assignment[r][e] \in Assignment
    BY DEF TypeOK
  <2>2. assignment'[r] = [assignment[r] EXCEPT
          ![e].state = Outcome(sent[e][n], assignment[r][e]),
          ![e].report = n,
          ![e].failure = IF sent[e][n].failed THEN "failed" ELSE @]
    BY <1>6 DEF Receive, Reported
  <2>3. d = e /\ assignment'[r][d] = row
    BY <1>6, <2>1, <2>2
  <2>4. /\ row.state = Outcome(sent[e][n], assignment[r][e])
        /\ row.generation = assignment[r][e].generation
        /\ row.artifact = assignment[r][e].artifact
    BY <2>1 DEF Assignment
  <2> HIDE DEF row
  <2>5. /\ sent[d][n].generation = assignment'[r][d].generation
        /\ sent[d][n].artifact = assignment'[r][d].artifact
    BY <2>3, <2>4 DEF Outcome
  <2>6. n \in received'[d] /\ sent' = sent
    BY <1>6, <2>3 DEF Receive, TypeOK, device
  <2>7. QED
    BY <2>5, <2>6
<1>7. CASE Next
  BY <1>1, <1>3, <1>4, <1>5, <1>6, <1>7, StepKinds
<1>8. QED
  BY <1>2, <1>7

\* No assignment counts as converged or rolled back unless the device reported
\* its generation running its artifact.
THEOREM NoFalseConvergence == Spec => []ConvergenceWasReported
<1>1. Init => ConvergenceWasReported
  BY DEF Init, ConvergenceWasReported, Unassigned
<1>2. QED
  BY <1>1, ConvergenceStep, Invariance, ReportsInvariance, PTL DEF Spec

-----------------------------------------------------------------------------
(* The projection of a device.  What a device reports never goes back: it  *)
(* only ever holds the newest generation it was commanded.                 *)

NeverBack ==
  \A d \in Devices :
    /\ installed[d].generation <= desired[d]
    /\ holding[d] # Idle => /\ installed[d].generation <= holding[d].generation
                            /\ holding[d].generation <= desired[d]
    /\ \A n \in DOMAIN sent[d] :
         /\ sent[d][n].generation <= installed[d].generation
         /\ \A k \in DOMAIN sent[d] : k <= n => sent[d][k].generation <= sent[d][n].generation

LEMMA CommandGenerationIs ==
  ASSUME TypeOK, GenerationsAreUnique, NEW d \in Devices
  PROVE  CommandGeneration(d) = desired[d]
<1> DEFINE generations == {0} \cup {c.generation : c \in {k \in commands : k.device = d}}
<1>1. desired[d] \in Nat /\ \A g \in generations : g \in Nat
  BY CommandType DEF TypeOK
<1>2. desired[d] \in generations
  <2>1. CASE desired[d] = 0
    BY <2>1
  <2>2. CASE 0 < desired[d]
    BY <2>2 DEF GenerationsAreUnique
  <2>3. QED
    BY <1>1, <2>1, <2>2
<1>3. \A g \in generations : g <= desired[d]
  BY <1>1 DEF GenerationsAreUnique
<1> HIDE DEF generations
<1>4. \A g \in generations : (\A h \in generations : h <= g) => g = desired[d]
  BY <1>1, <1>2, <1>3
<1>5. (CHOOSE g \in generations : \A h \in generations : h <= g) = desired[d]
  BY <1>2, <1>3, <1>4
<1>6. QED
  BY <1>5 DEF CommandGeneration, generations

LEMMA DesiredGrows ==
  ASSUME TypeOK, Next, NEW d \in Devices
  PROVE  desired[d] \in Nat /\ desired'[d] \in Nat /\ desired[d] <= desired'[d]
<1>1. \A e \in Devices : desired[e] \in Nat
  BY DEF TypeOK
<1>2. ASSUME NEW r \in Releases, NEW chosen \in SUBSET Devices, NEW type,
             Fresh(r, chosen, type)
      PROVE  desired'[d] \in Nat /\ desired[d] <= desired'[d]
  BY <1>1, <1>2 DEF Fresh
<1>3. ASSUME NEW r \in Releases, NEW chosen, Cancelled(r, chosen)
      PROVE  desired'[d] \in Nat /\ desired[d] <= desired'[d]
  BY <1>1, <1>3, AssignmentType DEF Cancelled
<1>4. ASSUME Answered
      PROVE  desired'[d] \in Nat /\ desired[d] <= desired'[d]
  BY <1>1, <1>4 DEF Answered
<1>5. \/ \E r \in Releases, chosen \in SUBSET Devices :
           Fresh(r, chosen, "install") \/ Fresh(r, chosen, "rollback")
      \/ \E r \in Releases :
           Cancelled(r, {e \in Devices : assignment[r][e].state \in InFlight})
      \/ Answered
  BY StepKinds
<1>6. desired'[d] \in Nat /\ desired[d] <= desired'[d]
  BY <1>2, <1>3, <1>4, <1>5
<1>7. QED
  BY <1>1, <1>6

LEMMA DeviceTypes ==
  ASSUME TypeOK, NEW d \in Devices
  PROVE  /\ installed[d].generation \in Nat
         /\ desired[d] \in Nat
         /\ holding[d] # Idle => holding[d].generation \in Nat
         /\ \A n \in DOMAIN sent[d] : /\ n \in Nat /\ n <= Len(sent[d])
                                      /\ sent[d][n].generation \in Nat
         /\ Len(sent[d]) \in Nat
<1>1. /\ installed[d] \in [generation : Nat, artifact : Artifact]
      /\ sent[d] \in Seq(Report)
      /\ holding[d] # Idle => holding[d] \in Offer
      /\ desired[d] \in Nat
  BY DEF TypeOK
<1>2. \A n \in DOMAIN sent[d] : sent[d][n] \in Report
  BY SentType
<1>3. QED
  BY <1>1, <1>2 DEF Offer, Report

\* A report of what the device runs, or came to run, keeps the order.
LEMMA SendKeepsOrder ==
  ASSUME TypeOK, NeverBack, NEW d \in Devices, NEW m, Send(d, m),
         m.generation \in Nat, installed'[d].generation = m.generation,
         installed[d].generation <= m.generation
  PROVE  \A n \in DOMAIN sent'[d] :
           /\ sent'[d][n].generation <= installed'[d].generation
           /\ \A k \in DOMAIN sent'[d] :
                k <= n => sent'[d][k].generation <= sent'[d][n].generation
<1> DEFINE last == Len(sent[d]) + 1
<1>1. /\ DOMAIN sent'[d] = DOMAIN sent[d] \cup {last}
      /\ sent'[d][last] = m
      /\ \A n \in DOMAIN sent[d] : sent'[d][n] = sent[d][n]
  BY SendAppends
<1>2. \A n \in DOMAIN sent[d] : /\ n \in Nat /\ n < last
                                /\ sent[d][n].generation \in Nat
                                /\ sent[d][n].generation <= installed[d].generation
  BY DeviceTypes DEF NeverBack
<1>3. last \in Nat /\ installed[d].generation \in Nat
  BY DeviceTypes
<1> HIDE DEF last
<1>4. ASSUME NEW n \in DOMAIN sent'[d]
      PROVE  sent'[d][n].generation <= m.generation
  BY <1>1, <1>2, <1>3
<1>5. ASSUME NEW n \in DOMAIN sent'[d], NEW k \in DOMAIN sent'[d], k <= n
      PROVE  sent'[d][k].generation <= sent'[d][n].generation
  <2>1. CASE n = last
    BY <1>1, <1>4, <2>1
  <2>2. CASE n # last
    BY <1>1, <1>2, <1>3, <1>5, <2>2 DEF NeverBack
  <2>3. QED
    BY <2>1, <2>2
<1>6. QED
  BY <1>4, <1>5

LEMMA NeverBackStep ==
  ASSUME Inv, GenerationsAreUnique, NeverBack, [Next]_vars
  PROVE  NeverBack'
<1> USE DEF Inv
<1>1. CASE UNCHANGED vars
  BY <1>1 DEF NeverBack, vars, device
<1>2. CASE Next /\ UNCHANGED device
  <2>1. \A d \in Devices : /\ desired[d] \in Nat /\ desired'[d] \in Nat
                           /\ desired[d] <= desired'[d]
    BY <1>2, DesiredGrows
  <2>2. UNCHANGED <<installed, holding, sent>>
    BY <1>2 DEF device
  <2>3. QED
    BY <2>1, <2>2, DeviceTypes DEF NeverBack
<1>3. ASSUME NEW d \in Devices, UNCHANGED desired,
             \A e \in Devices \ {d} : /\ installed'[e] = installed[e]
                                      /\ holding'[e] = holding[e]
                                      /\ sent'[e] = sent[e],
             /\ installed'[d].generation <= desired[d]
             /\ holding'[d] # Idle => /\ installed'[d].generation <= holding'[d].generation
                                      /\ holding'[d].generation <= desired[d]
             /\ \A n \in DOMAIN sent'[d] :
                  /\ sent'[d][n].generation <= installed'[d].generation
                  /\ \A k \in DOMAIN sent'[d] :
                       k <= n => sent'[d][k].generation <= sent'[d][n].generation
      PROVE  NeverBack'
  BY <1>3 DEF NeverBack
<1>4. ASSUME NEW d \in Devices, Poll(d)
      PROVE  NeverBack'
  <2>1. PICK c \in Available(d) :
          holding' = [holding EXCEPT ![d] =
            [release |-> c.release, type |-> c.type, generation |-> c.generation,
             artifact |-> assignment[c.release][d].artifact]]
    BY <1>4 DEF Poll
  <2>2. c \in commands /\ c.device = d /\ desired[d] <= c.generation
    BY <2>1 DEF Available
  <2>3. c.generation = desired[d]
    BY <2>2, CommandType, DeviceTypes DEF GenerationsAreUnique
  <2>4. /\ holding'[d].generation = desired[d]
        /\ \A e \in Devices \ {d} : holding'[e] = holding[e]
    BY <2>1, <2>3 DEF TypeOK
  <2>5. UNCHANGED <<desired, installed, sent>>
    BY <1>4 DEF Poll
  <2>6. desired[d] \in Nat
    BY DeviceTypes
  <2>7. QED
    BY <1>3, <2>4, <2>5, <2>6 DEF NeverBack
<1>5. ASSUME NEW d \in Devices, Succeed(d)
      PROVE  NeverBack'
  <2> DEFINE runs == [generation |-> holding[d].generation, artifact |-> holding[d].artifact]
             m == Tell(ResultType(holding[d]), runs, FALSE, holding[d].release)
  <2>1. /\ holding[d] # Idle /\ Send(d, m)
        /\ installed' = [installed EXCEPT ![d] = runs]
        /\ holding' = [holding EXCEPT ![d] = Idle]
        /\ UNCHANGED desired
    BY <1>5 DEF Succeed, server
  <2>2. /\ installed'[d] = runs /\ holding'[d] = Idle
        /\ \A e \in Devices \ {d} : installed'[e] = installed[e] /\ holding'[e] = holding[e]
    BY <2>1 DEF TypeOK
  <2>3. /\ runs.generation = holding[d].generation
        /\ m.generation = holding[d].generation
    BY DEF Tell
  <2> HIDE DEF m, runs
  <2>4. holding[d].generation \in Nat
    BY <2>1, DeviceTypes
  <2>5. \A e \in Devices \ {d} : sent'[e] = sent[e]
    BY <2>1, SendAppends
  <2>6. \A n \in DOMAIN sent'[d] :
          /\ sent'[d][n].generation <= installed'[d].generation
          /\ \A k \in DOMAIN sent'[d] :
               k <= n => sent'[d][k].generation <= sent'[d][n].generation
    BY <2>1, <2>2, <2>3, <2>4, SendKeepsOrder DEF NeverBack
  <2>7. installed'[d].generation <= desired[d]
    BY <2>1, <2>2, <2>3 DEF NeverBack
  <2>8. QED
    BY <1>3, <2>1, <2>2, <2>5, <2>6, <2>7
<1>6. ASSUME NEW d \in Devices, Acknowledge(d) \/ Fail(d) \/ Observe(d)
      PROVE  NeverBack'
  <2>1. PICK m : /\ Send(d, m) /\ m.generation = installed[d].generation
                 /\ UNCHANGED <<installed, desired>>
                 /\ \A e \in Devices : holding'[e] = holding[e] \/ holding'[e] = Idle
    <3>1. \A type, failed, r :
            Tell(type, installed[d], failed, r).generation = installed[d].generation
      BY DEF Tell
    <3>2. ASSUME Fail(d)
          PROVE  \A e \in Devices : holding'[e] = holding[e] \/ holding'[e] = Idle
      BY <3>2 DEF Fail, TypeOK
    <3>3. CASE Acknowledge(d)
      <4>1. Send(d, Tell("command_received", installed[d], FALSE, holding[d].release))
        BY <3>3 DEF Acknowledge
      <4>2. UNCHANGED <<installed, desired, holding>>
        BY <3>3 DEF Acknowledge, server
      <4>3. QED
        BY <3>1, <4>1, <4>2
    <3>4. CASE Fail(d)
      <4>1. Send(d, Tell(ResultType(holding[d]), installed[d], TRUE, holding[d].release))
        BY <3>4 DEF Fail
      <4>2. UNCHANGED <<installed, desired>>
        BY <3>4 DEF Fail, server
      <4>3. QED
        BY <3>1, <3>2, <3>4, <4>1, <4>2
    <3>5. CASE Observe(d)
      <4>1. Send(d, Tell("observation", installed[d], FALSE, None))
        BY <3>5 DEF Observe
      <4>2. UNCHANGED <<installed, desired, holding>>
        BY <3>5 DEF Observe, server
      <4>3. QED
        BY <3>1, <4>1, <4>2
    <3>6. QED
      BY <1>6, <3>3, <3>4, <3>5
  <2>2. installed[d].generation \in Nat
    BY DeviceTypes
  <2>3. \A n \in DOMAIN sent'[d] :
          /\ sent'[d][n].generation <= installed'[d].generation
          /\ \A k \in DOMAIN sent'[d] :
               k <= n => sent'[d][k].generation <= sent'[d][n].generation
    BY <2>1, <2>2, SendKeepsOrder
  <2>4. \A e \in Devices \ {d} : sent'[e] = sent[e]
    BY <2>1, SendAppends
  <2>5. QED
    BY <2>1, <2>3, <2>4 DEF NeverBack
<1>7. ASSUME NEW d \in Devices, Restart(d)
      PROVE  NeverBack'
  <2>1. \A e \in Devices : holding'[e] = holding[e] \/ holding'[e] = Idle
    BY <1>7 DEF Restart, TypeOK
  <2>2. UNCHANGED <<desired, installed, sent>>
    BY <1>7 DEF Restart, server
  <2>3. QED
    BY <2>1, <2>2 DEF NeverBack
<1>8. CASE Next
  <2>1. Control => UNCHANGED device
    BY DEF Control, ExpireCommands, Start, StartScheduled, Advance, Complete, Pause,
           Resume, Abort, ApproveAbort, Rollback, ApproveRollback, GateRollback, quiet
  <2>2. (\E d \in Devices, n \in 1..MaxReports : Receive(d, n)) => UNCHANGED device
    BY DEF Receive
  <2>3. (\E d \in Devices : \E to \in Lifecycles : SetLifecycle(d, to)) => UNCHANGED device
    BY DEF SetLifecycle
  <2>4. (\E c \in commands : Lapse(c)) => UNCHANGED device
    BY DEF Lapse
  <2>5. QED
    BY <1>2, <1>4, <1>5, <1>6, <1>7, <1>8, <2>1, <2>2, <2>3, <2>4 DEF Next, Agent, Device
<1>9. QED
  BY <1>1, <1>8

\* What has been received was sent, the newest of it is recorded, and the
\* projection is what it said.
ProjectionInv == NeverBack /\ ReceivedWereSent /\ NewestReportWins

LEMMA ProjectionStep ==
  ASSUME Inv, GenerationsAreUnique, ProjectionInv, [Next]_vars
  PROVE  NewestReportWins'
<1> USE DEF Inv, ProjectionInv
<1>1. ASSUME UNCHANGED <<projection>>
      PROVE  NewestReportWins'
  <2>1. UNCHANGED <<observed, seen, lastSeq, received>>
    BY <1>1 DEF projection
  <2>2. ASSUME NEW d \in Devices, lastSeq[d] \in received[d]
        PROVE  sent'[d][lastSeq[d]] = sent[d][lastSeq[d]]
    BY <2>2, ReportsStay DEF ReceivedWereSent
  <2>3. QED
    BY <2>1, <2>2 DEF NewestReportWins
<1>2. ASSUME NEW d \in Devices, NEW n \in 1..MaxReports, Receive(d, n)
      PROVE  NewestReportWins'
  <2>1. /\ n \in DOMAIN sent[d] /\ n \notin received[d]
        /\ received' = [received EXCEPT ![d] = @ \cup {n}]
        /\ sent' = sent
        /\ n \in Nat /\ 0 < n
    BY <1>2 DEF Receive, device
  <2>2. \A e \in Devices : lastSeq[e] \in Nat /\ observed[e] \in Nat
    BY DEF TypeOK
  <2>3. sent[d][n].generation <= CommandGeneration(d)
    BY <2>1, CommandGenerationIs, DeviceTypes DEF NeverBack
  <2>4. \A e \in Devices \ {d} :
          /\ received'[e] = received[e]
          /\ lastSeq'[e] = lastSeq[e]
          /\ observed'[e] = observed[e]
          /\ seen'[e] = seen[e]
    BY <1>2 DEF Receive, TypeOK
  <2>5. received'[d] = received[d] \cup {n}
    BY <2>1 DEF TypeOK
  <2>6. \A k \in received[d] : k \in Nat /\ k <= lastSeq[d]
    BY DEF NewestReportWins, TypeOK
  <2>7. CASE lastSeq[d] < n
    <3>1. MovesProjection(d, n)
      BY <2>3, <2>7 DEF MovesProjection
    <3>2. observed[d] <= sent[d][n].generation
      <4>1. CASE lastSeq[d] = 0
        BY <2>1, <4>1, DeviceTypes DEF NewestReportWins
      <4>2. CASE lastSeq[d] # 0
        <5>1. /\ lastSeq[d] \in DOMAIN sent[d]
              /\ observed[d] = sent[d][lastSeq[d]].generation
          BY <4>2 DEF NewestReportWins, ReceivedWereSent
        <5>2. lastSeq[d] <= n
          BY <2>1, <2>2, <2>7
        <5>3. QED
          BY <2>1, <5>1, <5>2 DEF NeverBack
      <4>3. QED
        BY <4>1, <4>2
    <3>3. /\ lastSeq' = [lastSeq EXCEPT ![d] = n]
          /\ observed' = [observed EXCEPT ![d] = sent[d][n].generation]
          /\ seen' = [seen EXCEPT ![d] = sent[d][n].artifact]
      BY <1>2, <3>1, <3>2 DEF Receive
    <3>4. /\ lastSeq'[d] = n
          /\ observed'[d] = sent[d][n].generation
          /\ seen'[d] = sent[d][n].artifact
      BY <3>3 DEF TypeOK
    <3>5. \A k \in received'[d] : k <= lastSeq'[d]
      BY <2>1, <2>2, <2>5, <2>6, <2>7, <3>4
    <3>6. QED
      BY <2>1, <2>4, <2>5, <3>4, <3>5 DEF NewestReportWins
  <2>8. CASE ~ (lastSeq[d] < n)
    <3>1. UNCHANGED <<lastSeq, observed, seen>>
      BY <1>2, <2>8 DEF Receive, MovesProjection
    <3>2. n <= lastSeq[d]
      BY <2>1, <2>2, <2>8
    <3>3. QED
      BY <2>1, <2>2, <2>4, <2>5, <3>1, <3>2 DEF NewestReportWins
  <2>9. QED
    BY <2>7, <2>8
<1>3. Control => UNCHANGED <<projection>>
  BY DEF Control, ExpireCommands, Start, StartScheduled, Advance, Complete, Pause,
         Resume, Abort, ApproveAbort, Rollback, ApproveRollback, GateRollback, quiet
<1>4. Device \/ (\E d \in Devices : Poll(d)) \/ (\E c \in commands : Lapse(c))
        => UNCHANGED <<projection>>
  BY DEF Device, Acknowledge, Succeed, Fail, Observe, Restart, SetLifecycle, Poll,
         Lapse, server
<1>5. CASE UNCHANGED vars
  BY <1>1, <1>5 DEF vars
<1>6. CASE Next
  BY <1>1, <1>2, <1>3, <1>4, <1>6 DEF Next, Agent
<1>7. QED
  BY <1>5, <1>6

\* However reports are delayed, lost or overtaken, the observed generation and
\* artifact are those of the newest report received.
THEOREM ProjectionIsNewest == Spec => []NewestReportWins
<1>1. Init => ProjectionInv
  BY LifecyclesAssumption DEF Init, ProjectionInv, NeverBack, ReceivedWereSent,
                              NewestReportWins
<1>2. ASSUME Inv, GenerationsAreUnique, ProjectionInv, [Next]_vars
      PROVE  ProjectionInv'
  BY <1>2, ProjectionStep, NeverBackStep, ReportsStay DEF ProjectionInv, Inv
<1>3. ProjectionInv => NewestReportWins
  BY DEF ProjectionInv
<1>4. QED
  BY <1>1, <1>2, <1>3, Invariance, GenerationsBelongToOne, PTL DEF Spec

-----------------------------------------------------------------------------
(* Waves.                                                                  *)

LEMMA ShareArithmetic ==
  ASSUME NEW n \in Nat, NEW p \in Nat, NEW q \in Nat, p <= q
  PROVE  /\ (n * p + 99) \div 100 \in Nat
         /\ (n * p + 99) \div 100 <= (n * q + 99) \div 100
         /\ 100 * ((n * p + 99) \div 100) <= n * p + 99
<1>1. n * p \in Nat /\ n * q \in Nat /\ n * p <= n * q
  <2>1. n * p \in Nat /\ n * q \in Nat
    OBVIOUS
  <2>2. n * (q - p) \in Nat /\ n * q = n * p + n * (q - p)
    OBVIOUS
  <2>3. QED
    BY <2>1, <2>2
<1>2. \A a, b \in Nat : a <= b =>
        /\ (a + 99) \div 100 \in Nat
        /\ (a + 99) \div 100 <= (b + 99) \div 100
        /\ 100 * ((a + 99) \div 100) <= a + 99
  OBVIOUS
<1>3. QED
  BY <1>1, <1>2

\* A stage exposes one device, or its share of the cohort rounded up.
LEMMA TargetCountIs ==
  ASSUME NEW s \in Stages
  PROVE  LET share == (Cardinality(Devices) * Percent[s] + 99) \div 100 IN
         /\ TargetCount(s) = IF share <= 1 THEN 1 ELSE share
         /\ TargetCount(s) \in Nat
         /\ Percent[s] \in Nat /\ Cardinality(Devices) \in Nat
<1> DEFINE share == (Cardinality(Devices) * Percent[s] + 99) \div 100
<1>1. Cardinality(Devices) \in Nat /\ Percent[s] \in Nat
  <2>1. Cardinality(Devices) \in Nat
    BY FS_CardinalityType, DevicesAssumption
  <2>2. Percent[s] \in 1..100
    <3>1. Percent \in Seq(1..100) /\ s \in 1..Len(Percent)
      BY PercentAssumption DEF Stages, StageCount
    <3>2. QED
      BY <3>1, ElementOfSeq
  <2>3. QED
    BY <2>1, <2>2
<1>2. share \in Nat
  BY <1>1, ShareArithmetic
<1>3. TargetCount(s) = CHOOSE n \in {1, share} : 1 <= n /\ share <= n
  BY DEF TargetCount
<1> HIDE DEF share
<1>4. \A n \in {1, share} :
        1 <= n /\ share <= n => n = IF share <= 1 THEN 1 ELSE share
  BY <1>2
<1>5. \E n \in {1, share} : 1 <= n /\ share <= n
  BY <1>2
<1>6. TargetCount(s) = IF share <= 1 THEN 1 ELSE share
  BY <1>3, <1>4, <1>5
<1>7. QED
  BY <1>1, <1>2, <1>6 DEF share

LEMMA WavesGrow ==
  ASSUME NEW r \in Releases, NEW s \in Stages, s + 1 \in Stages
  PROVE  Wave(r, s) \subseteq Wave(r, s + 1)
<1>1. Percent[s] < Percent[s + 1]
  BY PercentAssumption DEF Stages, StageCount
<1>2. TargetCount(s) <= TargetCount(s + 1)
  <2> DEFINE n == Cardinality(Devices)
             a == (n * Percent[s] + 99) \div 100
             b == (n * Percent[s + 1] + 99) \div 100
  <2>1. /\ n \in Nat /\ Percent[s] \in Nat /\ Percent[s + 1] \in Nat
        /\ TargetCount(s) = IF a <= 1 THEN 1 ELSE a
        /\ TargetCount(s + 1) = IF b <= 1 THEN 1 ELSE b
    BY TargetCountIs
  <2>2. Percent[s] <= Percent[s + 1]
    BY <1>1, <2>1
  <2>3. a \in Nat /\ b \in Nat /\ a <= b
    BY <2>1, <2>2, ShareArithmetic
  <2> HIDE DEF a, b, n
  <2>4. QED
    BY <2>1, <2>3
<1>3. \A d \in Devices : Ordinal[r][d] \in Nat
  BY OrdinalAssumption
<1>4. TargetCount(s) \in Nat /\ TargetCount(s + 1) \in Nat
  BY TargetCountIs
<1>5. QED
  BY <1>2, <1>3, <1>4 DEF Wave

\* The ordinals number the cohort from 0, each device its own.
LEMMA WaveSize ==
  ASSUME NEW r \in Releases, NEW s \in Stages
  PROVE  /\ IsFiniteSet(Wave(r, s))
         /\ Cardinality(Wave(r, s)) <= TargetCount(s)
<1> DEFINE n == TargetCount(s)
           f == [d \in Wave(r, s) |-> Ordinal[r][d]]
<1>1. n \in Nat
  BY TargetCountIs
<1>2. ASSUME NEW d \in Wave(r, s)
      PROVE  d \in Devices /\ Ordinal[r][d] \in 0..(n - 1)
  <2>1. d \in Devices /\ Ordinal[r][d] < n
    BY DEF Wave
  <2>2. Ordinal[r][d] \in Nat
    BY <2>1, OrdinalAssumption
  <2> HIDE DEF n
  <2>3. QED
    BY <1>1, <2>1, <2>2
<1> HIDE DEF n
<1>3. f \in [Wave(r, s) -> 0..(n - 1)]
  BY <1>2
<1>4. \A d, e \in Wave(r, s) : f[d] = f[e] => d = e
  BY <1>2, OrdinalAssumption
<1>5. f \in Injection(Wave(r, s), 0..(n - 1))
  BY <1>3, <1>4 DEF Injection, IsInjective
<1>6. IsFiniteSet(0..(n - 1)) /\ Cardinality(0..(n - 1)) = n
  BY <1>1, FS_Interval
<1> HIDE DEF f
<1>7. /\ IsFiniteSet(Wave(r, s))
      /\ Cardinality(Wave(r, s)) <= Cardinality(0..(n - 1))
  BY <1>5, <1>6, FS_Injection
<1>8. QED
  BY <1>6, <1>7 DEF n

(* Who has been exposed so far.                                            *)

\* Only devices of the waves up to the present stage have an assignment, a
\* release that has not started has none, and a command stays accounted for.
Confined ==
  /\ \A r \in Releases, d \in Devices :
       assignment[r][d].state # "none" =>
         /\ status[r] \notin {"ready", "scheduled"}
         /\ stage[r] \in Stages
         /\ d \in Wave(r, stage[r])
  /\ \A c \in commands : assignment[c.release][c.device].state # "none"

\* Installs go to a wave the release then is at: its first, or its next.
Exposes(r, s) ==
  /\ s \in Stages
  /\ stage' = [stage EXCEPT ![r] = s]
  /\ status[r] \in {"ready", "scheduled"} \/ s = stage[r] + 1
  /\ Moved(r, "running")
  /\ \E chosen \in SUBSET Wave(r, s) : Fresh(r, chosen, "install")

\* No step but such an install gives a device its first assignment.
Reassigns ==
  /\ UNCHANGED stage
  /\ \A r \in Releases : status'[r] \in {"ready", "scheduled"} => status'[r] = status[r]
  /\ \A r \in Releases, d \in Devices :
       assignment'[r][d].state = "none" <=> assignment[r][d].state = "none"
  /\ \A c \in commands' \ commands :
       /\ c.release \in Releases /\ c.device \in Devices
       /\ assignment'[c.release][c.device].state # "none"

LEMMA FirstStage == 1 \in Stages
  BY StageCountType DEF Stages

LEMMA InstallExposes ==
  ASSUME TypeOK, NEW r \in Releases, Start(r) \/ StartScheduled(r) \/ Advance(r)
  PROVE  \E s \in Stages : Exposes(r, s)
<1>1. CASE Start(r)
  <2>1. Fresh(r, Wave(r, 1), "install")
    BY <1>1, InstallIsFresh DEF Start, Wave
  <2>2. Moved(r, "running")
    BY <1>1, MovesFrom DEF Start, Moved
  <2>3. status[r] \in {"ready", "scheduled"}
    BY <1>1 DEF Start, Moves, Step, Edges, BeforeRun
  <2>4. stage' = [stage EXCEPT ![r] = 1]
    BY <1>1 DEF Start
  <2>5. QED
    BY <2>1, <2>2, <2>3, <2>4, FirstStage DEF Exposes
<1>2. ASSUME NEW s \in Stages, ActivateStage(r, s)
      PROVE  /\ stage' = [stage EXCEPT ![r] = s]
             /\ \E chosen \in SUBSET Wave(r, s) : Fresh(r, chosen, "install")
  <2>1. PICK chosen \in SUBSET Wave(r, s) : Install(r, chosen)
    BY <1>2 DEF ActivateStage
  <2>2. chosen \in SUBSET Devices
    BY DEF Wave
  <2>3. Fresh(r, chosen, "install")
    BY <2>1, <2>2, InstallIsFresh
  <2>4. QED
    BY <1>2, <2>3 DEF ActivateStage
<1>3. CASE StartScheduled(r)
  <2>1. Moved(r, "running")
    BY <1>3, MovesFrom DEF StartScheduled, Moved
  <2>2. ActivateStage(r, 1) /\ status[r] = "scheduled"
    BY <1>3 DEF StartScheduled
  <2>3. QED
    BY <1>2, <2>1, <2>2, FirstStage DEF Exposes
<1>4. CASE Advance(r)
  <2>1. Moved(r, "running")
    BY <1>4, MovesFrom DEF Advance, Moved
  <2>2. ActivateStage(r, stage[r] + 1)
    BY <1>4 DEF Advance
  <2>3. stage[r] + 1 \in Stages
    BY <1>4, StageCountType DEF Advance, TypeOK, Stages
  <2>4. QED
    BY <1>2, <2>1, <2>2, <2>3 DEF Exposes
<1>5. QED
  BY <1>1, <1>3, <1>4

LEMMA RollBackReassigns ==
  ASSUME TypeOK, NEW r \in Releases,
         Rollback(r) \/ ApproveRollback(r) \/ GateRollback(r)
  PROVE  Reassigns
<1>1. PICK chosen \in SUBSET Devices :
        Fresh(r, chosen, "rollback") /\ \A d \in chosen : assignment[r][d].state # "none"
  BY RollBackRecalls DEF Recalls
<1>2. Fresh(r, chosen, "rollback")
  BY <1>1
<1>3. Retreats(r, "rolling_back", "rolled_back") /\ UNCHANGED stage
  BY RollBackRecalls
<1>4. \A q \in Releases :
        status'[q] \in {"ready", "scheduled"} => status'[q] = status[q]
  BY <1>3, RetreatChanges
<1>5. \A q \in Releases, d \in Devices :
        assignment'[q][d].state = "none" <=> assignment[q][d].state = "none"
  BY <1>1, <1>2 DEF Fresh
<1>6. \A c \in commands' \ commands :
        /\ c.release \in Releases /\ c.device \in Devices
        /\ assignment'[c.release][c.device].state # "none"
  BY <1>2 DEF Fresh
<1>7. QED
  BY <1>3, <1>4, <1>5, <1>6 DEF Reassigns

LEMMA AbortReassigns ==
  ASSUME TypeOK, NEW r \in Releases, Abort(r) \/ ApproveAbort(r)
  PROVE  Reassigns
<1> DEFINE chosen == {d \in Devices : assignment[r][d].state \in InFlight}
<1>1. Cancelled(r, chosen)
  BY AbortCancels
<1>2. Retreats(r, "aborting", "aborted") /\ UNCHANGED stage
  BY RetreatKinds DEF Abort, ApproveAbort
<1>3. \A d \in chosen : d \in Devices /\ assignment[r][d].state # "none"
  BY DEF InFlight
<1> HIDE DEF chosen
<1>4. \A q \in Releases :
        status'[q] \in {"ready", "scheduled"} => status'[q] = status[q]
  BY <1>2, RetreatChanges
<1>5. \A q \in Releases, d \in Devices :
        assignment'[q][d].state = "none" <=> assignment[q][d].state = "none"
  BY <1>1, <1>3 DEF Cancelled
<1>6. \A c \in commands' \ commands :
        /\ c.release \in Releases /\ c.device \in Devices
        /\ assignment'[c.release][c.device].state # "none"
  BY <1>1, <1>3 DEF Cancelled
<1>7. QED
  BY <1>2, <1>4, <1>5, <1>6 DEF Reassigns

LEMMA AnsweredReassigns ==
  ASSUME Answered, UNCHANGED stage,
         \A r \in Releases : status'[r] \in {"ready", "scheduled"} => status'[r] = status[r]
  PROVE  Reassigns
  BY DEF Answered, InFlight, Reassigns

LEMMA StepExposes ==
  ASSUME TypeOK, Next
  PROVE  Reassigns \/ \E r \in Releases, s \in Stages : Exposes(r, s)
<1>1. ASSUME ExpireCommands
      PROVE  Reassigns
  BY <1>1, ExpireAnswers, AnsweredReassigns DEF ExpireCommands
<1>2. ASSUME NEW r \in Releases, Complete(r) \/ Pause(r) \/ Resume(r)
      PROVE  Reassigns
  <2>1. PICK next \in {"running", "paused", "completed"} : Moved(r, next)
    BY <1>2, MovesFrom DEF Complete, Pause, Resume, Moved
  <2>2. UNCHANGED <<stage, assignment, commands, desired>>
    BY <1>2 DEF Complete, Pause, Resume
  <2>3. QED
    BY <2>1, <2>2, MovedChanges, AnsweredReassigns DEF Answered
<1>3. CASE Control
  BY <1>1, <1>2, <1>3, InstallExposes, RollBackReassigns, AbortReassigns DEF Control
<1>4. ASSUME NEW d \in Devices, NEW n \in 1..MaxReports, Receive(d, n)
      PROVE  Reassigns
  <2>1. \A r \in Releases : status'[r] \in {"ready", "scheduled"} => status'[r] = status[r]
    BY <1>4, ReceiveSettles
  <2>2. Answered /\ UNCHANGED stage
    BY <1>4, ReceiveAnswers DEF Receive
  <2>3. QED
    BY <2>1, <2>2, AnsweredReassigns
<1>5. ASSUME Device \/ (\E d \in Devices : Poll(d)) \/ (\E c \in commands : Lapse(c))
      PROVE  Reassigns
  <2>1. UNCHANGED <<status, stage, desired, commands, assignment>>
    BY <1>5 DEF Device, Acknowledge, Succeed, Fail, Observe, Restart, SetLifecycle,
                Poll, Lapse, server
  <2>2. QED
    BY <2>1, AnsweredReassigns DEF Answered
<1>6. QED
  BY <1>3, <1>4, <1>5 DEF Next, Agent

LEMMA ExposesConfined ==
  ASSUME TypeOK, Confined, NEW r \in Releases, NEW s \in Stages, Exposes(r, s)
  PROVE  Confined'
<1>1. PICK chosen \in SUBSET Wave(r, s) : Fresh(r, chosen, "install")
  BY DEF Exposes
<1>2. /\ status'[r] = "running" /\ stage'[r] = s
      /\ \A q \in Releases \ {r} : status'[q] = status[q] /\ stage'[q] = stage[q]
  BY MovedChanges DEF Exposes, TypeOK
<1>3. ASSUME NEW d \in Devices, assignment[r][d].state # "none"
      PROVE  d \in Wave(r, s)
  <2>1. s = stage[r] + 1 /\ stage[r] \in Stages /\ d \in Wave(r, stage[r])
    BY <1>3 DEF Exposes, Confined
  <2>2. QED
    BY <2>1, WavesGrow
<1>4. ASSUME NEW q \in Releases, NEW d \in Devices, assignment'[q][d].state # "none"
      PROVE  /\ status'[q] \notin {"ready", "scheduled"}
             /\ stage'[q] \in Stages
             /\ d \in Wave(q, stage'[q])
  <2>1. CASE q # r
    BY <1>1, <1>2, <1>4, <2>1 DEF Fresh, Confined
  <2>2. CASE q = r
    <3>1. d \in Wave(r, s)
      BY <1>1, <1>3, <1>4, <2>2 DEF Fresh
    <3>2. QED
      BY <1>2, <2>2, <3>1
  <2>3. QED
    BY <2>1, <2>2
<1>5. ASSUME NEW c \in commands'
      PROVE  assignment'[c.release][c.device].state # "none"
  <2>1. CASE c \in commands
    <3>1. /\ c.release \in Releases /\ c.device \in Devices
          /\ assignment[c.release][c.device].state # "none"
      BY <2>1, CommandType DEF Confined
    <3>2. QED
      BY <1>1, <3>1 DEF Fresh
  <2>2. CASE c \notin commands
    BY <1>1, <2>2 DEF Fresh
  <2>3. QED
    BY <2>1, <2>2
<1>6. QED
  BY <1>4, <1>5 DEF Confined, Wave, TargetCount

LEMMA ConfinedStep ==
  ASSUME Inv, Confined, [Next]_vars
  PROVE  Confined'
<1>1. CASE UNCHANGED vars
  BY <1>1 DEF Confined, vars, Wave, TargetCount
<1>2. CASE Reassigns
  <2>1. ASSUME NEW r \in Releases, NEW d \in Devices, assignment'[r][d].state # "none"
        PROVE  /\ status'[r] \notin {"ready", "scheduled"}
               /\ stage'[r] \in Stages
               /\ d \in Wave(r, stage'[r])
    BY <1>2, <2>1 DEF Reassigns, Confined
  <2>2. ASSUME NEW c \in commands'
        PROVE  assignment'[c.release][c.device].state # "none"
    BY <1>2, <2>2, CommandType DEF Reassigns, Confined, Inv
  <2>3. QED
    BY <2>1, <2>2 DEF Confined, Wave, TargetCount
<1>3. CASE Next
  BY <1>2, <1>3, StepExposes, ExposesConfined DEF Inv
<1>4. QED
  BY <1>1, <1>3

LEMMA AlwaysConfined == Spec => []Confined
<1>1. Init => Confined
  BY DEF Init, Confined, Unassigned
<1>2. QED
  BY <1>1, ConfinedStep, Invariance, PTL DEF Spec

LEMMA ConfinedBlast ==
  ASSUME TypeOK, Confined
  PROVE  BlastRadius
<1> SUFFICES ASSUME NEW r \in Releases
             PROVE  /\ CommandedBy(r) # {} => stage[r] \in Stages
                    /\ Cardinality(CommandedBy(r)) > 1 =>
                         (Cardinality(CommandedBy(r)) - 1) * 100
                           < Cardinality(Devices) * Percent[stage[r]]
  BY DEF BlastRadius
<1>1. ASSUME NEW d \in CommandedBy(r)
      PROVE  stage[r] \in Stages /\ d \in Wave(r, stage[r])
  BY DEF CommandedBy, Confined
<1>2. CommandedBy(r) # {} => stage[r] \in Stages
  BY <1>1
<1>3. CASE CommandedBy(r) = {}
  BY <1>2, <1>3, FS_EmptySet
<1>4. CASE CommandedBy(r) # {}
  <2> DEFINE s == stage[r]
             commanded == Cardinality(CommandedBy(r))
             product == Cardinality(Devices) * Percent[s]
             share == (product + 99) \div 100
  <2>1. s \in Stages /\ CommandedBy(r) \in SUBSET Wave(r, s)
    BY <1>1, <1>4
  <2>2. /\ commanded \in Nat
        /\ commanded <= Cardinality(Wave(r, s))
    BY <2>1, WaveSize, FS_Subset, FS_CardinalityType
  <2>3. /\ Cardinality(Wave(r, s)) \in Nat
        /\ Cardinality(Wave(r, s)) <= TargetCount(s)
    BY <2>1, WaveSize, FS_CardinalityType
  <2>4. /\ TargetCount(s) = IF share <= 1 THEN 1 ELSE share
        /\ Percent[s] \in Nat /\ Cardinality(Devices) \in Nat
    BY <2>1, TargetCountIs
  <2>5. product \in Nat
    BY <2>4
  <2>6. share \in Nat /\ 100 * share <= product + 99
    BY <2>4, ShareArithmetic
  <2> HIDE DEF commanded, product, share
  <2>7. commanded > 1 => (commanded - 1) * 100 < product
    BY <2>2, <2>3, <2>4, <2>5, <2>6
  <2>8. QED
    BY <2>7, <1>2 DEF commanded, product
<1>5. QED
  BY <1>3, <1>4

\* A release never commands more of its cohort than its stage allows: for any
\* cohort, numbering and stage plan, started by hand or by schedule.
THEOREM BlastIsContained == Spec => []BlastRadius
  BY AlwaysConfined, Invariance, ConfinedBlast, PTL DEF Inv

-----------------------------------------------------------------------------
(* Rollbacks.                                                              *)

\* Of one generation of a device there is an install or a rollback, not both.
TypesAgree ==
  \A c, k \in commands :
    /\ c.device = k.device /\ c.generation = k.generation
    /\ c.type # "cancel" /\ k.type # "cancel"
    => c.type = k.type

LEMMA TypesStep ==
  ASSUME Inv, Commanded, TypesAgree, [Next]_vars
  PROVE  TypesAgree'
<1> USE DEF Inv
<1>1. CASE UNCHANGED commands
  BY <1>1 DEF TypesAgree
<1>2. ASSUME NEW r \in Releases, NEW chosen \in SUBSET Devices, NEW type,
             Fresh(r, chosen, type)
      PROVE  TypesAgree'
  <2>1. \A c \in commands : /\ c.device \in Devices
                            /\ c.generation \in Nat /\ desired[c.device] \in Nat
                            /\ c.generation <= desired[c.device]
    BY CommandType DEF Commanded, GenerationsAreUnique, TypeOK
  <2>2. \A c \in commands' \ commands :
          /\ c.type = type /\ c.device \in chosen
          /\ c.generation = desired[c.device] + 1
    BY <1>2 DEF Fresh
  <2>3. ASSUME NEW c \in commands', NEW k \in commands',
               c.device = k.device, c.generation = k.generation,
               c.type # "cancel", k.type # "cancel"
        PROVE  c.type = k.type
    <3>1. CASE c \in commands /\ k \in commands
      BY <2>3, <3>1 DEF TypesAgree
    <3>2. CASE c \notin commands /\ k \notin commands
      BY <2>2, <3>2
    <3>3. c \in commands <=> k \in commands
      BY <2>1, <2>2, <2>3
    <3>4. QED
      BY <3>1, <3>2, <3>3
  <2>4. QED
    BY <2>3 DEF TypesAgree
<1>3. ASSUME NEW r \in Releases, NEW chosen, Cancelled(r, chosen)
      PROVE  TypesAgree'
  <2>1. \A c \in commands' \ commands : c.type = "cancel"
    BY <1>3 DEF Cancelled
  <2>2. QED
    BY <2>1 DEF TypesAgree
<1>4. CASE Next
  BY <1>1, <1>2, <1>3, <1>4, StepKinds DEF Answered
<1>5. QED
  BY <1>1, <1>4 DEF vars

\* A device told to roll back is told the original artifact, and says that it
\* rolled back only of that.
RollbacksGoBack ==
  \A d \in Devices :
    /\ holding[d] # Idle /\ holding[d].type = "rollback" =>
         holding[d].artifact = Original
    /\ \A n \in DOMAIN sent[d] :
         sent[d][n].type = "rollback_result" /\ ~ sent[d][n].failed =>
           sent[d][n].artifact = Original

LEMMA PollGoesBack ==
  ASSUME Inv, Commanded, TypesAgree, NEW d \in Devices, Poll(d)
  PROVE  /\ UNCHANGED sent
         /\ \A e \in Devices : e # d => holding'[e] = holding[e]
         /\ holding'[d].type = "rollback" => holding'[d].artifact = Original
<1>1. PICK c \in Available(d) :
        holding' = [holding EXCEPT ![d] =
          [release |-> c.release, type |-> c.type, generation |-> c.generation,
           artifact |-> assignment[c.release][d].artifact]]
  BY DEF Poll
<1> DEFINE a == assignment[c.release][d]
<1>2. /\ c \in commands /\ c.device = d
      /\ a.state # "none" /\ a.generation = c.generation
  BY DEF Available, InFlight
<1>3. c.release \in Releases
  BY <1>2, CommandType DEF Inv
<1>4. PICK k \in commands :
        /\ k.device = d /\ k.generation = c.generation
        /\ k.type = IF a.artifact = Original THEN "rollback" ELSE "install"
  BY <1>2, <1>3 DEF Commanded, AssignmentsAreCommanded
<1>5. c.type = "rollback" => k.type = "rollback"
  BY <1>2, <1>4 DEF TypesAgree
<1>6. c.type = "rollback" => a.artifact = Original
  BY <1>4, <1>5
<1>7. /\ holding'[d].type = c.type /\ holding'[d].artifact = a.artifact
      /\ \A e \in Devices : e # d => holding'[e] = holding[e]
  BY <1>1 DEF Inv, TypeOK
<1>8. UNCHANGED sent
  BY DEF Poll
<1>9. QED
  BY <1>6, <1>7, <1>8

LEMMA SendGoesBack ==
  ASSUME TypeOK, RollbacksGoBack, NEW d \in Devices, NEW m, Send(d, m),
         m.type = "rollback_result" /\ ~ m.failed => m.artifact = Original,
         \A e \in Devices : holding'[e] = holding[e] \/ holding'[e] = Idle
  PROVE  RollbacksGoBack'
<1>1. \A e \in Devices : e # d => sent'[e] = sent[e]
  BY SendAppends
<1>2. \A n \in DOMAIN sent'[d] :
        \/ n \in DOMAIN sent[d] /\ sent'[d][n] = sent[d][n]
        \/ sent'[d][n] = m
  BY SendAppends
<1>3. ASSUME NEW e \in Devices, NEW n \in DOMAIN sent'[e],
             sent'[e][n].type = "rollback_result", ~ sent'[e][n].failed
      PROVE  sent'[e][n].artifact = Original
  BY <1>1, <1>2, <1>3 DEF RollbacksGoBack
<1>4. QED
  BY <1>3 DEF RollbacksGoBack

LEMMA DeviceGoesBack ==
  ASSUME TypeOK, RollbacksGoBack, Device
  PROVE  RollbacksGoBack'
<1>1. PICK d \in Devices :
        \/ Acknowledge(d) \/ Succeed(d) \/ Fail(d) \/ Observe(d) \/ Restart(d)
        \/ \E to \in Lifecycles : SetLifecycle(d, to)
  BY DEF Device
<1>2. CASE Acknowledge(d)
  <2> DEFINE m == Tell("command_received", installed[d], FALSE, holding[d].release)
  <2>1. m.type = "command_received"
    BY DEF Tell
  <2>2. Send(d, m) /\ UNCHANGED holding
    BY <1>2 DEF Acknowledge
  <2> HIDE DEF m
  <2>3. QED
    BY <2>1, <2>2, SendGoesBack
<1>3. CASE Succeed(d)
  <2> DEFINE runs == [generation |-> holding[d].generation, artifact |-> holding[d].artifact]
             m == Tell(ResultType(holding[d]), runs, FALSE, holding[d].release)
  <2>1. m.type = ResultType(holding[d]) /\ m.artifact = holding[d].artifact
    BY DEF Tell
  <2>2. /\ Send(d, m) /\ holding[d] # Idle
        /\ holding' = [holding EXCEPT ![d] = Idle]
    BY <1>3 DEF Succeed
  <2> HIDE DEF m
  <2>3. m.type = "rollback_result" => m.artifact = Original
    BY <2>1, <2>2 DEF ResultType, RollbacksGoBack
  <2>4. \A e \in Devices : holding'[e] = holding[e] \/ holding'[e] = Idle
    BY <2>2 DEF TypeOK
  <2>5. QED
    BY <2>2, <2>3, <2>4, SendGoesBack
<1>4. CASE Fail(d)
  <2> DEFINE m == Tell(ResultType(holding[d]), installed[d], TRUE, holding[d].release)
  <2>1. m.failed = TRUE
    BY DEF Tell
  <2>2. /\ Send(d, m)
        /\ holding' = [holding EXCEPT ![d] = Idle]
    BY <1>4 DEF Fail
  <2> HIDE DEF m
  <2>3. \A e \in Devices : holding'[e] = holding[e] \/ holding'[e] = Idle
    BY <2>2 DEF TypeOK
  <2>4. QED
    BY <2>1, <2>2, <2>3, SendGoesBack
<1>5. CASE Observe(d)
  <2> DEFINE m == Tell("observation", installed[d], FALSE, None)
  <2>1. m.type = "observation"
    BY DEF Tell
  <2>2. Send(d, m) /\ UNCHANGED holding
    BY <1>5 DEF Observe
  <2> HIDE DEF m
  <2>3. QED
    BY <2>1, <2>2, SendGoesBack
<1>6. CASE Restart(d)
  <2>1. \A e \in Devices : holding'[e] = holding[e] \/ holding'[e] = Idle
    BY <1>6 DEF Restart, TypeOK
  <2>2. UNCHANGED sent
    BY <1>6 DEF Restart
  <2>3. QED
    BY <2>1, <2>2 DEF RollbacksGoBack
<1>7. CASE \E to \in Lifecycles : SetLifecycle(d, to)
  BY <1>7 DEF SetLifecycle, device, RollbacksGoBack
<1>8. QED
  BY <1>1, <1>2, <1>3, <1>4, <1>5, <1>6, <1>7

LEMMA GoesBackStep ==
  ASSUME Inv, Commanded, TypesAgree, RollbacksGoBack, [Next]_vars
  PROVE  RollbacksGoBack'
<1>1. CASE UNCHANGED <<holding, sent>>
  BY <1>1 DEF RollbacksGoBack
<1>2. CASE Control
  BY <1>1, <1>2 DEF Control, ExpireCommands, Start, StartScheduled, Advance, Complete,
                    Pause, Resume, Abort, ApproveAbort, Rollback,
                    ApproveRollback, GateRollback,
                    quiet, device
<1>3. ASSUME NEW d \in Devices, Poll(d)
      PROVE  RollbacksGoBack'
  BY <1>3, PollGoesBack DEF RollbacksGoBack
<1>4. ASSUME NEW d \in Devices, NEW n \in 1..MaxReports, Receive(d, n)
      PROVE  RollbacksGoBack'
  BY <1>1, <1>4 DEF Receive, device
<1>5. ASSUME NEW c \in commands, Lapse(c)
      PROVE  RollbacksGoBack'
  BY <1>1, <1>5 DEF Lapse, device
<1>6. CASE Next
  BY <1>2, <1>3, <1>4, <1>5, <1>6, DeviceGoesBack DEF Next, Agent, Inv
<1>7. QED
  BY <1>1, <1>6 DEF vars, device

\* While a release is not being taken back, every device it commanded has its
\* artifact for a target and is where a rollback looks for it.
Within(r) ==
  status[r] \in {"ready", "scheduled", "running", "paused"} =>
    \A d \in Devices :
      assignment[r][d].state # "none" =>
        assignment[r][d].state \in Exposed /\ assignment[r][d].artifact = r

WithinReach == \A r \in Releases : Within(r)

LEMMA ReceiveOutcome ==
  ASSUME TypeOK, NEW e \in Devices, NEW n \in 1..MaxReports, Receive(e, n),
         NEW r \in Releases, NEW d \in Devices, assignment'[r][d] # assignment[r][d]
  PROVE  /\ d = e /\ n \in DOMAIN sent[d]
         /\ assignment'[r][d].state = Outcome(sent[d][n], assignment[r][d])
<1> DEFINE row == [assignment[r][e] EXCEPT
              !.state = Outcome(sent[e][n], assignment[r][e]), !.report = n,
              !.failure = IF sent[e][n].failed THEN "failed" ELSE @]
<1>1. assignment[r] \in [Devices -> Assignment] /\ assignment[r][e] \in Assignment
  BY DEF TypeOK
<1>2. assignment'[r] = [assignment[r] EXCEPT
        ![e].state = Outcome(sent[e][n], assignment[r][e]),
        ![e].report = n,
        ![e].failure = IF sent[e][n].failed THEN "failed" ELSE @]
  BY DEF Receive, Reported
<1>3. d = e /\ assignment'[r][d] = row
  BY <1>1, <1>2
<1>4. row.state = Outcome(sent[e][n], assignment[r][e])
  BY <1>1 DEF Assignment
<1>5. n \in DOMAIN sent[e]
  BY DEF Receive
<1> HIDE DEF row
<1>6. QED
  BY <1>3, <1>4, <1>5

LEMMA ExpireStrands ==
  ASSUME TypeOK, ExpireCommands, NEW r \in Releases, NEW d \in Devices,
         assignment'[r][d] # assignment[r][d]
  PROVE  assignment'[r][d].state = "stranded"
<1>1. assignment[r][d] \in Assignment
  BY DEF TypeOK
<1>2. [assignment[r][d] EXCEPT !.state = "stranded",
                               !.failure = "COMMAND_EXPIRED"].state = "stranded"
  BY <1>1 DEF Assignment
<1>3. QED
  BY <1>2 DEF ExpireCommands

LEMMA AnswerWithin ==
  ASSUME TypeOK, RollbacksGoBack, WithinReach, Answered,
         ExpireCommands \/ \E e \in Devices, n \in 1..MaxReports : Receive(e, n),
         NEW r \in Releases, status'[r] \in {"ready", "scheduled", "running", "paused"},
         NEW d \in Devices, assignment'[r][d].state # "none"
  PROVE  assignment'[r][d].state \in Exposed /\ assignment'[r][d].artifact = r
<1>1. status[r] = status'[r]
  BY ReceiveSettles DEF ExpireCommands
<1>2. /\ assignment[r][d].state # "none"
      /\ assignment'[r][d].artifact = assignment[r][d].artifact
  BY DEF Answered, InFlight
<1>3. assignment[r][d].state \in Exposed /\ assignment[r][d].artifact = r
  BY <1>1, <1>2 DEF WithinReach, Within
<1>4. CASE assignment'[r][d] = assignment[r][d]
  BY <1>3, <1>4
<1>5. CASE ExpireCommands /\ assignment'[r][d] # assignment[r][d]
  BY <1>2, <1>3, <1>5, ExpireStrands DEF Exposed
<1>6. CASE /\ \E e \in Devices, n \in 1..MaxReports : Receive(e, n)
           /\ assignment'[r][d] # assignment[r][d]
  <2>1. PICK n \in DOMAIN sent[d] :
          assignment'[r][d].state = Outcome(sent[d][n], assignment[r][d])
    BY <1>6, ReceiveOutcome
  <2>2. Outcome(sent[d][n], assignment[r][d]) # "rolled_back"
    BY <1>3, NoneAssumption DEF Outcome, RollbacksGoBack
  <2>3. assignment'[r][d].state \in {"failed", "acknowledged", "converged"}
    BY <2>1, <2>2, OutcomeType
  <2>4. QED
    BY <1>2, <1>3, <2>3 DEF Exposed
<1>7. QED
  BY <1>4, <1>5, <1>6

LEMMA WithinStep ==
  ASSUME Inv, RollbacksGoBack, WithinReach, [Next]_vars
  PROVE  WithinReach'
<1> USE DEF Inv
<1>1. CASE UNCHANGED vars
  BY <1>1 DEF WithinReach, Within, vars
<1>2. ASSUME NEW q \in Releases, NEW chosen \in SUBSET Devices,
             Fresh(q, chosen, "install"), Moved(q, "running"), NEW r \in Releases
      PROVE  Within(r)'
  <2>1. CASE r = q
    <3>1. status[r] \in {"ready", "scheduled", "running", "paused"}
      BY <1>2, <2>1 DEF Moved
    <3>2. ASSUME NEW d \in Devices, assignment'[r][d].state # "none"
          PROVE  assignment'[r][d].state \in Exposed /\ assignment'[r][d].artifact = r
      <4>1. CASE d \in chosen
        BY <1>2, <2>1, <4>1 DEF Fresh, Exposed
      <4>2. CASE d \notin chosen
        BY <1>2, <3>1, <3>2, <4>2 DEF Fresh, WithinReach, Within
      <4>3. QED
        BY <4>1, <4>2
    <3>3. QED
      BY <3>2 DEF Within
  <2>2. CASE r # q
    <3>1. status'[r] = status[r]
      BY <1>2, <2>2, MovedChanges
    <3>2. QED
      BY <1>2, <2>2, <3>1 DEF Fresh, WithinReach, Within
  <2>3. QED
    BY <2>1, <2>2
<1>3. ASSUME NEW q \in Releases,
             \/ Retreats(q, "rolling_back", "rolled_back")
             \/ Retreats(q, "aborting", "aborted"),
             \A r \in Releases \ {q}, d \in Devices : assignment'[r][d] = assignment[r][d],
             NEW r \in Releases
      PROVE  Within(r)'
  <2>1. /\ status'[q] \in {"rolling_back", "rolled_back", "aborting", "aborted"}
        /\ \A p \in Releases \ {q} : status'[p] = status[p]
    BY <1>3, RetreatChanges
  <2>2. QED
    BY <1>3, <2>1 DEF WithinReach, Within
<1>4. ASSUME assignment' = assignment,
             \/ UNCHANGED status
             \/ \E q \in Releases, next \in {"running", "paused", "completed"} :
                  Moved(q, next)
      PROVE  WithinReach'
  <2>1. ASSUME NEW r \in Releases
        PROVE  status'[r] = status[r] \/ status[r] \in {"ready", "scheduled", "running", "paused"}
    BY <1>4, MovedChanges DEF Moved
  <2>2. QED
    BY <1>4, <2>1 DEF WithinReach, Within
<1>5. ASSUME Answered,
             ExpireCommands \/ \E e \in Devices, n \in 1..MaxReports : Receive(e, n)
      PROVE  WithinReach'
  BY <1>5, AnswerWithin DEF WithinReach, Within
<1>6. ASSUME NEW q \in Releases, NEW chosen \in SUBSET Devices,
             Fresh(q, chosen, "rollback"), Retreats(q, "rolling_back", "rolled_back")
      PROVE  WithinReach'
  <2>1. \A r \in Releases \ {q}, d \in Devices : assignment'[r][d] = assignment[r][d]
    BY <1>6 DEF Fresh
  <2>2. QED
    BY <1>3, <1>6, <2>1 DEF WithinReach
<1>7. ASSUME NEW q \in Releases, Retreats(q, "aborting", "aborted"),
             Cancelled(q, {d \in Devices : assignment[q][d].state \in InFlight})
      PROVE  WithinReach'
  <2>1. \A r \in Releases \ {q}, d \in Devices : assignment'[r][d] = assignment[r][d]
    BY <1>7 DEF Cancelled
  <2>2. QED
    BY <1>3, <1>7, <2>1 DEF WithinReach
<1>8. CASE Next
  BY <1>2, <1>4, <1>5, <1>6, <1>7, <1>8, StepKinds DEF WithinReach
<1>9. QED
  BY <1>1, <1>8

\* What is cancelled belongs to an abort, and an abort leaves nothing that could
\* be cancelled again or told to go back.
CalledOff ==
  \A r \in Releases, d \in Devices :
    /\ assignment[r][d].state = "cancelling" => status[r] \in {"aborting", "aborted"}
    /\ status[r] = "aborting" => assignment[r][d].state \notin InFlight

LEMMA CalledOffStep ==
  ASSUME Inv, CalledOff, [Next]_vars
  PROVE  CalledOff'
<1> USE DEF Inv
<1> DEFINE Off(r, d) ==
      /\ assignment[r][d].state = "cancelling" => status[r] \in {"aborting", "aborted"}
      /\ status[r] = "aborting" => assignment[r][d].state \notin InFlight
<1> SUFFICES ASSUME NEW r \in Releases, NEW d \in Devices
             PROVE  Off(r, d)'
  BY DEF CalledOff
<1>1. Off(r, d)
  BY DEF CalledOff
<1>2. CASE UNCHANGED vars
  BY <1>1, <1>2 DEF vars
<1>3. ASSUME NEW q \in Releases, NEW chosen \in SUBSET Devices, NEW type,
             Fresh(q, chosen, type),
             Moved(q, "running") \/ Retreats(q, "rolling_back", "rolled_back")
      PROVE  Off(r, d)'
  <2>1. CASE r = q
    <3>1. /\ status[r] \notin {"aborting", "aborted"}
          /\ status'[r] \in {"running", "rolling_back", "rolled_back"}
      BY <1>3, <2>1, MovedChanges, RetreatChanges DEF Moved
    <3>2. assignment'[r][d].state # "cancelling"
      BY <1>1, <1>3, <2>1, <3>1 DEF Fresh
    <3>3. QED
      BY <3>1, <3>2
  <2>2. CASE r # q
    BY <1>1, <1>3, <2>2, MovedChanges, RetreatChanges DEF Fresh
  <2>3. QED
    BY <2>1, <2>2
<1>4. ASSUME NEW q \in Releases, Retreats(q, "aborting", "aborted"),
             Cancelled(q, {e \in Devices : assignment[q][e].state \in InFlight})
      PROVE  Off(r, d)'
  <2>1. CASE r = q
    BY <1>4, <2>1, RetreatChanges DEF Cancelled, InFlight
  <2>2. CASE r # q
    BY <1>1, <1>4, <2>2, RetreatChanges DEF Cancelled
  <2>3. QED
    BY <2>1, <2>2
<1>5. ASSUME Answered, status'[r] = status[r]
      PROVE  Off(r, d)'
  BY <1>1, <1>5 DEF Answered, InFlight
<1>6. ASSUME NEW q \in Releases, NEW next \in {"running", "paused", "completed"},
             Moved(q, next), Answered
      PROVE  Off(r, d)'
  <2>1. CASE r = q
    BY <1>1, <1>6, <2>1, MovedChanges DEF Moved, Answered, InFlight
  <2>2. CASE r # q
    BY <1>5, <1>6, <2>2, MovedChanges
  <2>3. QED
    BY <2>1, <2>2
<1>7. ASSUME NEW e \in Devices, NEW n \in 1..MaxReports, Receive(e, n), Answered
      PROVE  Off(r, d)'
  BY <1>5, <1>7, ReceiveSettles
<1>8. ExpireCommands => UNCHANGED status
  BY DEF ExpireCommands
<1>9. CASE Next
  BY <1>3, <1>4, <1>5, <1>6, <1>7, <1>8, <1>9, StepKinds
<1>10. QED
  BY <1>2, <1>9

\* A rollback ends rolled back or failed; an abort does not.
LEMMA AbortSettles ==
  ASSUME NEW d \in Devices, NEW n \in 1..MaxReports, Receive(d, n),
         NEW r \in Releases, status[r] = "aborting"
  PROVE  status'[r] \in {"aborting", "aborted"}
  BY DEF Receive, Settled

LEMMA ReachStep ==
  ASSUME Inv, Commanded, Confined, WithinReach, RollbackReachesAll, [Next]_vars
  PROVE  RollbackReachesAll'
<1> DEFINE recalled == {"rolling_back", "rolled_back", "failed"}
<1> SUFFICES ASSUME NEW r \in Releases, NEW c \in commands', status'[r] \in recalled,
                    c.release = r, c.type = "install"
             PROVE  \E k \in commands' : /\ k.release = r /\ k.device = c.device
                                         /\ k.type = "rollback"
                                         /\ k.generation > c.generation
  BY DEF RollbackReachesAll
<1> USE DEF Inv
<1>1. ASSUME status[r] \in recalled, c \in commands, commands \subseteq commands'
      PROVE  \E k \in commands' : /\ k.release = r /\ k.device = c.device
                                  /\ k.type = "rollback"
                                  /\ k.generation > c.generation
  BY <1>1 DEF RollbackReachesAll
<1>2. CASE UNCHANGED vars
  BY <1>1, <1>2 DEF vars
<1>3. ASSUME NEW q \in Releases, NEW next, next \notin recalled, Moved(q, next)
      PROVE  r # q /\ status[r] \in recalled
  BY <1>3, MovedChanges
<1>4. ASSUME NEW q \in Releases, NEW chosen \in SUBSET Devices,
             Fresh(q, chosen, "install"), Moved(q, "running")
      PROVE  /\ status[r] \in recalled /\ c \in commands
             /\ commands \subseteq commands'
  BY <1>3, <1>4 DEF Fresh
<1>5. ASSUME NEW q \in Releases, NEW chosen, Cancelled(q, chosen),
             Retreats(q, "aborting", "aborted")
      PROVE  /\ status[r] \in recalled /\ c \in commands
             /\ commands \subseteq commands'
  BY <1>5, RetreatChanges DEF Cancelled
<1>6. ASSUME NEW q \in Releases, NEW chosen \in SUBSET Devices,
             Fresh(q, chosen, "rollback"), Recalls(q, chosen),
             Retreats(q, "rolling_back", "rolled_back")
      PROVE  \E k \in commands' : /\ k.release = r /\ k.device = c.device
                                  /\ k.type = "rollback"
                                  /\ k.generation > c.generation
  <2>1. c \in commands /\ commands \subseteq commands'
    BY <1>6 DEF Fresh
  <2>2. CASE r # q \/ status[r] \in recalled
    BY <1>1, <1>6, <2>1, <2>2, RetreatChanges
  <2>3. CASE r = q /\ status[r] \notin recalled
    <3> DEFINE d == c.device
               k == [release |-> r, device |-> d, type |-> "rollback",
                     generation |-> desired[d] + 1]
    <3>1. d \in Devices /\ assignment[r][d].state # "none"
      BY <2>1, CommandType DEF Confined
    <3>2. status[r] \in {"ready", "scheduled", "running", "paused"}
      BY <1>6, <2>3, RetreatChanges
    <3>3. d \in chosen
      BY <1>6, <2>3, <3>1, <3>2 DEF WithinReach, Within, Recalls
    <3>4. k \in commands'
      BY <1>6, <2>3, <3>3 DEF Fresh
    <3>5. /\ c.generation \in Nat /\ desired[d] \in Nat
          /\ c.generation <= desired[d]
      BY <2>1, <3>1, CommandType, DeviceTypes DEF Commanded, GenerationsAreUnique
    <3>6. k.generation > c.generation
      BY <3>5
    <3>7. QED
      BY <3>4, <3>6
  <2>4. QED
    BY <2>2, <2>3
<1>7. ASSUME Answered,
             \/ UNCHANGED status
             \/ \E q \in Releases, next \in {"running", "paused", "completed"} :
                  Moved(q, next)
      PROVE  /\ status[r] \in recalled /\ c \in commands
             /\ commands \subseteq commands'
  <2>1. status[r] \in recalled
    BY <1>3, <1>7
  <2>2. QED
    BY <1>7, <2>1 DEF Answered
<1>8. ASSUME Answered, NEW d \in Devices, NEW n \in 1..MaxReports, Receive(d, n)
      PROVE  /\ status[r] \in recalled /\ c \in commands
             /\ commands \subseteq commands'
  <2>1. status[r] \in recalled
    BY <1>8, ReceiveSettles, AbortSettles
  <2>2. QED
    BY <1>8, <2>1 DEF Answered
<1>9. ExpireCommands => UNCHANGED status
  BY DEF ExpireCommands
<1>10. CASE Next
  BY <1>1, <1>4, <1>5, <1>6, <1>7, <1>8, <1>9, <1>10, StepKinds
<1>11. QED
  BY <1>2, <1>10

\* What makes a rollback complete: commands of one generation agree, a device
\* rolls back only to the original, and what was commanded stays within reach.
Reach ==
  TypesAgree /\ RollbacksGoBack /\ WithinReach /\ CalledOff /\ RollbackReachesAll

\* On every route a rollback commands, with a higher generation, every device
\* the release ever commanded, whatever it answered and whatever expired.
THEOREM RollbackIsComplete == Spec => []RollbackReachesAll
<1>1. Init => Reach
  BY DEF Init, Reach, TypesAgree, RollbacksGoBack, WithinReach, Within, CalledOff,
         InFlight, RollbackReachesAll, Unassigned
<1>2. Inv /\ Commanded /\ Confined /\ Reach /\ [Next]_vars => Reach'
  BY TypesStep, GoesBackStep, WithinStep, CalledOffStep, ReachStep DEF Reach
<1>3. Reach => RollbackReachesAll
  BY DEF Reach
<1>4. QED
  BY <1>1, <1>2, <1>3, Invariance, AlwaysCommanded, AlwaysConfined, PTL DEF Spec
-----------------------------------------------------------------------------
(* The life of an assignment.                                              *)

\* A generation that was given is none a new command carries.
LEMMA GivenBefore ==
  ASSUME TypeOK, Commanded, NEW r \in Releases, NEW d \in Devices,
         assignment[r][d].state # "none"
  PROVE  assignment[r][d].generation < desired[d] + 1
<1>1. PICK c \in commands : c.device = d /\ c.generation = assignment[r][d].generation
  BY DEF Commanded, AssignmentsAreCommanded
<1>2. c.generation \in Nat /\ c.generation <= desired[d] /\ desired[d] \in Nat
  BY <1>1, CommandType DEF Commanded, GenerationsAreUnique, TypeOK
<1>3. QED
  BY <1>1, <1>2

\* An install is the first thing a device is told in a release.
LEMMA InstallIsFirst ==
  ASSUME TypeOK, Confined, NEW r \in Releases,
         Start(r) \/ StartScheduled(r) \/ Advance(r)
  PROVE  \E chosen \in SUBSET Devices :
           /\ Fresh(r, chosen, "install")
           /\ \A d \in chosen : assignment[r][d].state = "none"
<1>1. CASE Start(r)
  <2>1. Fresh(r, Wave(r, 1), "install") /\ Wave(r, 1) \in SUBSET Devices
    BY <1>1, InstallIsFresh DEF Start, Wave
  <2>2. status[r] \in {"ready", "scheduled"}
    BY <1>1 DEF Start, Moves, Step, Edges, BeforeRun
  <2>3. \A d \in Devices : assignment[r][d].state = "none"
    BY <2>2 DEF Confined
  <2>4. QED
    BY <2>1, <2>3
<1>2. CASE \E s : ActivateStage(r, s)
  <2>1. PICK s : ActivateStage(r, s)
    BY <1>2
  <2> DEFINE chosen == {d \in Wave(r, s) : /\ assignment[r][d].state = "none"
                                          /\ lifecycle[d] = "active"}
  <2>2. chosen \in SUBSET Devices /\ Install(r, chosen)
    BY <2>1 DEF ActivateStage, Wave
  <2>3. \A d \in chosen : assignment[r][d].state = "none"
    OBVIOUS
  <2> HIDE DEF chosen
  <2>4. QED
    BY <2>2, <2>3, InstallIsFresh
<1>3. QED
  BY <1>1, <1>2 DEF StartScheduled, Advance

\* Each kind of step is one of the assignment's life, for every device.
LEMMA InstallExposesOne ==
  ASSUME TypeOK, NEW r \in Releases, NEW chosen \in SUBSET Devices,
         Fresh(r, chosen, "install"),
         \A e \in chosen : assignment[r][e].state = "none",
         NEW q \in Releases, NEW d \in Devices
  PROVE  Life(q, d)!Step
<1>1. CASE q = r /\ d \in chosen
  <2>1. /\ assignment[q][d].state = "none" /\ assignment'[q][d].state = "commanded"
        /\ assignment'[q][d].generation = desired[d] + 1
        /\ assignment'[q][d].artifact = q
    BY <1>1 DEF Fresh
  <2>2. assignment'[q][d].generation > 0
    BY <2>1 DEF TypeOK
  <2>3. QED
    BY <2>1, <2>2 DEF Life!Step, Life!Next, Life!Expose
<1>2. CASE ~(q = r /\ d \in chosen)
  BY <1>2 DEF Fresh, Life!Step, Life!assignmentVars
<1>3. QED
  BY <1>1, <1>2

LEMMA RollbackTakesBackOne ==
  ASSUME TypeOK, Commanded, CalledOff, NEW r \in Releases,
         NEW chosen \in SUBSET Devices,
         Fresh(r, chosen, "rollback"), Recalls(r, chosen),
         Retreats(r, "rolling_back", "rolled_back"),
         NEW q \in Releases, NEW d \in Devices
  PROVE  Life(q, d)!Step
<1>1. CASE q = r /\ d \in chosen
  <2>1. assignment[q][d].state \notin {"none", "rolled_back"}
    BY <1>1 DEF Recalls
  <2>2. assignment[q][d].state # "cancelling"
    BY <1>1, RetreatChanges DEF CalledOff
  <2>3. /\ assignment'[q][d].generation = desired[d] + 1
        /\ assignment'[q][d].artifact = Original
        /\ assignment'[q][d].state = "pending"
    BY <1>1 DEF Fresh
  <2>4. /\ assignment[q][d].generation \in Nat /\ desired[d] \in Nat
        /\ assignment[q][d].generation < desired[d] + 1
    BY <2>1, GivenBefore, AssignmentType DEF TypeOK
  <2>5. assignment'[q][d].generation > assignment[q][d].generation
    BY <2>3, <2>4
  <2>6. QED
    BY <2>1, <2>2, <2>3, <2>5 DEF Life!Step, Life!Next, Life!TakeBack
<1>2. CASE ~(q = r /\ d \in chosen)
  BY <1>2 DEF Fresh, Life!Step, Life!assignmentVars
<1>3. QED
  BY <1>1, <1>2

LEMMA AbortCallsOffOne ==
  ASSUME TypeOK, WithinReach, CalledOff, NEW r \in Releases,
         Cancelled(r, {e \in Devices : assignment[r][e].state \in InFlight}),
         Retreats(r, "aborting", "aborted"),
         NEW q \in Releases, NEW d \in Devices
  PROVE  Life(q, d)!Step
<1>0. /\ assignment'[q][d].generation = assignment[q][d].generation
      /\ assignment'[q][d].artifact = assignment[q][d].artifact
  BY DEF Cancelled
<1>1. CASE q = r /\ assignment[q][d].state \in InFlight
  <2>1. assignment'[q][d].state = "cancelling"
    BY <1>1 DEF Cancelled
  <2>2. assignment[q][d].artifact = q
    BY <1>1, RetreatChanges DEF WithinReach, Within, CalledOff, InFlight
  <2>3. QED
    BY <1>0, <1>1, <2>1, <2>2 DEF InFlight, Life!Step, Life!Next, Life!CallOff, Life!Awaited
<1>2. CASE ~(q = r /\ assignment[q][d].state \in InFlight)
  <2>1. assignment'[q][d] = assignment[q][d]
    BY <1>2 DEF Cancelled
  <2>2. QED
    BY <2>1 DEF Life!Step, Life!assignmentVars
<1>3. QED
  BY <1>1, <1>2

LEMMA ExpiryStrandsOne ==
  ASSUME TypeOK, ExpireCommands, Answered, NEW q \in Releases, NEW d \in Devices
  PROVE  Life(q, d)!Step
<1>1. CASE assignment'[q][d] = assignment[q][d]
  BY <1>1 DEF Life!Step, Life!assignmentVars
<1>2. CASE assignment'[q][d] # assignment[q][d]
  <2>1. assignment'[q][d].state = "stranded"
    BY <1>2, ExpireStrands
  <2>2. assignment[q][d].state \in {"pending", "commanded"}
    BY <1>2 DEF ExpireCommands, Strandable
  <2>3. /\ assignment'[q][d].generation = assignment[q][d].generation
        /\ assignment'[q][d].artifact = assignment[q][d].artifact
    BY <1>2 DEF Answered
  <2>4. QED
    BY <2>1, <2>2, <2>3 DEF Life!Step, Life!Next, Life!Strand, Life!Awaited
<1>3. QED
  BY <1>1, <1>2

LEMMA ReportAnswersOne ==
  ASSUME TypeOK, RollbacksGoBack, Answered,
         NEW e \in Devices, NEW n \in 1..MaxReports, Receive(e, n),
         NEW q \in Releases, NEW d \in Devices
  PROVE  Life(q, d)!Step
<1>1. CASE assignment'[q][d] = assignment[q][d]
  BY <1>1 DEF Life!Step, Life!assignmentVars
<1>2. CASE assignment'[q][d] # assignment[q][d]
  <2>1. /\ assignment[q][d].state \in InFlight
        /\ assignment'[q][d].generation = assignment[q][d].generation
        /\ assignment'[q][d].artifact = assignment[q][d].artifact
    BY <1>2 DEF Answered
  <2>2. /\ n \in DOMAIN sent[d]
        /\ assignment'[q][d].state = Outcome(sent[d][n], assignment[q][d])
    BY <1>2, ReceiveOutcome
  <2>3. assignment'[q][d].state \in {"acknowledged", "converged", "failed", "rolled_back"}
    BY <2>2, OutcomeType
  <2>4. assignment'[q][d].state = "rolled_back" => assignment[q][d].artifact = Original
    BY <2>2 DEF Outcome, RollbacksGoBack
  <2>5. QED
    BY <2>1, <2>3, <2>4 DEF InFlight, Life!Step, Life!Next, Life!Answer, Life!Awaited
<1>3. QED
  BY <1>1, <1>2

LEMMA LifeStep ==
  ASSUME TypeOK, Commanded, Confined, RollbacksGoBack, WithinReach, CalledOff, Next,
         NEW q \in Releases, NEW d \in Devices
  PROVE  Life(q, d)!Step
<1>1. ASSUME assignment' = assignment
      PROVE  Life(q, d)!Step
  BY <1>1 DEF Life!Step, Life!assignmentVars
<1>2. ASSUME NEW r \in Releases, Start(r) \/ StartScheduled(r) \/ Advance(r)
      PROVE  Life(q, d)!Step
  BY <1>2, InstallIsFirst, InstallExposesOne
<1>3. ASSUME NEW r \in Releases, Rollback(r) \/ ApproveRollback(r) \/ GateRollback(r)
      PROVE  Life(q, d)!Step
  BY <1>3, RollBackRecalls, RollbackTakesBackOne
<1>4. ASSUME NEW r \in Releases, Abort(r) \/ ApproveAbort(r)
      PROVE  Life(q, d)!Step
  BY <1>4, RetreatKinds, AbortCancels, AbortCallsOffOne
<1>5. ASSUME NEW r \in Releases, Complete(r) \/ Pause(r) \/ Resume(r)
      PROVE  Life(q, d)!Step
  BY <1>1, <1>5 DEF Complete, Pause, Resume
<1>6. ASSUME ExpireCommands
      PROVE  Life(q, d)!Step
  BY <1>6, ExpireAnswers, ExpiryStrandsOne
<1>7. ASSUME NEW e \in Devices, NEW n \in 1..MaxReports, Receive(e, n)
      PROVE  Life(q, d)!Step
  BY <1>7, ReceiveAnswers, ReportAnswersOne
<1>8. ASSUME Device \/ (\E e \in Devices : Poll(e)) \/ (\E c \in commands : Lapse(c))
      PROVE  Life(q, d)!Step
  BY <1>1, <1>8 DEF Device, Acknowledge, Succeed, Fail, Observe, Restart, SetLifecycle,
              Poll, Lapse, server
<1>9. CASE Control
  BY <1>2, <1>3, <1>4, <1>5, <1>6, <1>9 DEF Control
<1>10. QED
  BY <1>7, <1>8, <1>9 DEF Next, Agent

\* The assignments of any number of releases to any number of devices each
\* follow the life of one assignment, whatever the routes, the jobs and the
\* devices do in between.
THEOREM AssignmentsFollowLife == Spec => FollowsAssignmentLifecycle
<1>1. Init => Reach
  BY DEF Init, Reach, TypesAgree, RollbacksGoBack, WithinReach, Within, CalledOff,
         InFlight, RollbackReachesAll, Unassigned
<1>2. Inv /\ Commanded /\ Confined /\ Reach /\ [Next]_vars => Reach'
  BY TypesStep, GoesBackStep, WithinStep, CalledOffStep, ReachStep DEF Reach
<1>3. Init => \A r \in Releases, d \in Devices : Life(r, d)!Init
  BY DEF Init, Unassigned, Life!Init
<1>4. Inv /\ Commanded /\ Confined /\ Reach /\ [Next]_vars
        => [\A r \in Releases, d \in Devices : Life(r, d)!Step]_assignment
  <2> SUFFICES ASSUME Inv, Commanded, Confined, Reach, Next
               PROVE  \A r \in Releases, d \in Devices : Life(r, d)!Step
    BY DEF vars
  <2>1. QED
    BY LifeStep DEF Inv, Reach
<1>5. QED
  BY <1>1, <1>2, <1>3, <1>4, Invariance, AlwaysCommanded, AlwaysConfined, PTL
     DEF Spec, FollowsAssignmentLifecycle
=============================================================================
