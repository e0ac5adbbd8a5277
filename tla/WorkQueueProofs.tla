--------------------------- MODULE WorkQueueProofs ---------------------------
(***************************************************************************)
(* What keeps workers apart and ends final, for any rows, any number of   *)
(* workers and however often leases run out and workers stop.             *)
(***************************************************************************)
EXTENDS WorkQueues, FiniteSetTheorems, TLAPS

AllStatus == UNION {StatusOf(k) : k \in Kinds}

RowRow == [status : AllStatus, owner : Owners \cup {None},
           live : BOOLEAN, backoff : BOOLEAN]

LightTypes ==
  /\ kind \in [Runs -> Kinds]
  /\ row \in [Runs -> RowRow]
  /\ lease \in [Kinds -> Owners \cup {None}]
  /\ worker \in [Workers -> Worker]
  /\ lapsed \subseteq Kinds

\* A worker works on rows of the job in hand, and the remote side is called
\* for deliveries only.
OnItsJob ==
  \A w \in Workers :
    /\ \A r \in worker[w].todo : kind[r] = worker[w].kind
    /\ worker[w].run # None <=> worker[w].at \in {"work", "sent"}
    /\ worker[w].run # None => kind[worker[w].run] = worker[w].kind
    /\ worker[w].at = "sent" => worker[w].kind = "delivery"

\* The workers in a job have names of their own, unless it is noted that two of
\* one name were in it.
Apart(k) == \A v, w \in Busy(k) : Owner[v] = Owner[w] => v = w

Crowds ==
  /\ crowded \subseteq Kinds
  /\ \A k \in Kinds : k \in crowded \/ Apart(k)

\* A worker in the middle of a job holds its lease, unless it ran out or was
\* released by another of its name.
HoldsLease ==
  \A w \in Workers :
    worker[w].at # "idle" =>
      \/ lease[worker[w].kind] = Owner[w]
      \/ worker[w].kind \in lapsed \cup crowded

LEMMA Statuses ==
  /\ {"absent", "queued", "running", "pending", "completed", "failed", "cancelled",
      "reproduced", "diverged", "published", "dead_letter"}
       = AllStatus
  /\ \A k \in RunKinds : /\ EndedAs[k] \subseteq {"completed", "failed", "cancelled",
                                                  "reproduced", "diverged"}
                         /\ k # "delivery"
  BY DEF AllStatus, StatusOf, Kinds, RunKinds, EndedAs

(***************************************************************************)
(* Types and jobs                                                          *)
(***************************************************************************)

Jobs == LightTypes /\ OnItsJob

LEMMA RowWritten ==
  ASSUME LightTypes, NEW r \in Runs, NEW s \in AllStatus
  PROVE  Ends(r, s) \in [Runs -> RowRow]
<1>1. [row[r] EXCEPT !.status = s, !.owner = None, !.live = FALSE] \in RowRow
  BY DEF LightTypes, RowRow
<1>2. Ends(r, s) = [row EXCEPT ![r] = [row[r] EXCEPT !.status = s, !.owner = None, !.live = FALSE]]
  BY DEF Ends, LightTypes
<1>3. QED
  BY <1>1, <1>2 DEF LightTypes

LEMMA RowSettled ==
  ASSUME LightTypes, NEW r \in Runs, NEW s \in AllStatus
  PROVE  Settle(r, s) \in [Runs -> RowRow]
  BY RowWritten DEF Settle, LightTypes

\* A worker that finishes goes on with its list.
LEMMA Finished ==
  ASSUME Jobs, NEW w \in Workers, worker[w].at \in {"work", "sent"},
         worker' = [worker EXCEPT ![w].at = "next", ![w].run = None],
         UNCHANGED <<kind, lease, lapsed>>, row' \in [Runs -> RowRow]
  PROVE  Jobs'
  BY OwnersAssumption DEF Jobs, LightTypes, OnItsJob, Worker, Places

LEMMA RunIsRow ==
  ASSUME Jobs, NEW w \in Workers, worker[w].at \in {"work", "sent"}
  PROVE  worker[w].run \in Runs
  BY DEF Jobs, LightTypes, OnItsJob, Worker

LEMMA FinishKeeps ==
  ASSUME Jobs, NEW w \in Workers, Finish(w) PROVE Jobs'
<1> DEFINE r == worker[w].run
<1>1. worker[w].at \in {"work", "sent"}
  BY DEF Finish, FinishSimulation, FinishReplay, FinishBenchmark, FinishExport, Send,
     FinishDelivery, Working
<1>2. r \in Runs
  BY <1>1, RunIsRow
<1>3. {"completed", "failed", "cancelled", "reproduced", "diverged", "published",
       "dead_letter", "pending"} \subseteq AllStatus
  BY Statuses
<1>4. LightTypes
  BY DEF Jobs
<1>5. row \in [Runs -> RowRow]
  BY DEF Jobs, LightTypes
<1> HIDE DEF r
<1>6. CASE Send(w)
  BY <1>6 DEF Send, Goes, counts, Working, Jobs, LightTypes, OnItsJob, Worker, Places
<1>7. CASE FinishSimulation(w)
  <2>1. row' \in [Runs -> RowRow]
    BY <1>2, <1>3, <1>4, <1>7, RowWritten, RowSettled DEF FinishSimulation, Fail, r
  <2>2. QED
    BY <1>1, <1>7, <2>1, Finished DEF FinishSimulation, FinishRun, counts
<1>8. CASE FinishReplay(w)
  <2>1. row' \in [Runs -> RowRow]
    BY <1>2, <1>3, <1>4, <1>8, RowWritten, RowSettled DEF FinishReplay, Fail, r
  <2>2. QED
    BY <1>1, <1>8, <2>1, Finished DEF FinishReplay, FinishRun, counts
<1>9. CASE FinishBenchmark(w)
  <2>1. row' \in [Runs -> RowRow]
    BY <1>2, <1>3, <1>4, <1>5, <1>9, RowWritten, RowSettled
       DEF FinishBenchmark, SaveBenchmark, Fail, r
  <2>2. QED
    BY <1>1, <1>9, <2>1, Finished DEF FinishBenchmark, FinishRun, counts
<1>10. CASE FinishExport(w)
  <2>1. row' \in [Runs -> RowRow]
    BY <1>2, <1>3, <1>4, <1>10, RowWritten, RowSettled DEF FinishExport, Fail, r
  <2>2. QED
    BY <1>1, <1>10, <2>1, Finished DEF FinishExport, FinishRun, counts
<1>11. CASE FinishDelivery(w)
  <2>1. AfterFailure(r) \in [Runs -> RowRow]
    <3>1. PICK s \in AllStatus : AfterFailure(r) = [Ends(r, s) EXCEPT ![r].backoff = TRUE]
      BY <1>3 DEF AfterFailure
    <3>2. Ends(r, s) \in [Runs -> RowRow]
      BY <1>2, <1>4, RowWritten
    <3>3. QED
      BY <1>2, <3>1, <3>2 DEF RowRow
  <2>2. Ends(r, "dead_letter") \in [Runs -> RowRow] /\ Ends(r, "published") \in [Runs -> RowRow]
    BY <1>2, <1>3, <1>4, RowWritten
  <2>3. row' \in [Runs -> RowRow]
    BY <1>5, <1>11, <2>1, <2>2 DEF FinishDelivery, r
  <2>4. QED
    BY <1>1, <1>11, <2>3, Finished DEF FinishDelivery, counts
<1>12. QED
  BY <1>6, <1>7, <1>8, <1>9, <1>10, <1>11 DEF Finish

LEMMA JobsStep == Jobs /\ [Next]_vars => Jobs'
<1> SUFFICES ASSUME Jobs, [Next]_vars PROVE Jobs'
  OBVIOUS
<1> USE DEF Jobs, LightTypes, OnItsJob, counts
<1>0. {"absent", "queued", "running", "pending", "cancelled"} \subseteq AllStatus
  BY Statuses
<1>1. ASSUME NEW r \in Runs, Submit(r) PROVE Jobs'
  <2>1. row' \in [Runs -> RowRow]
    BY <1>0, <1>1 DEF Submit, RowRow
  <2>2. UNCHANGED <<kind, lease, worker, lapsed>>
    BY <1>1 DEF Submit
  <2>3. QED
    BY <2>1, <2>2
<1>2. ASSUME NEW r \in Runs, Cancel(r) PROVE Jobs'
  <2>1. row' \in [Runs -> RowRow]
    BY <1>0, <1>2 DEF Cancel, RowRow
  <2>2. UNCHANGED <<kind, lease, worker, lapsed>>
    BY <1>2 DEF Cancel
  <2>3. QED
    BY <2>1, <2>2
<1>3. ASSUME NEW r \in Runs, Retry(r) PROVE Jobs'
  <2>1. row' \in [Runs -> RowRow]
    <3> DEFINE t == [row[r] EXCEPT !.status = "pending", !.backoff = FALSE]
    <3>1. t \in RowRow
      BY <1>0, <1>3 DEF RowRow
    <3>2. row' = [row EXCEPT ![r] = t]
      BY <1>3 DEF Retry
    <3> HIDE DEF t
    <3>3. QED
      BY <3>1, <3>2
  <2>2. UNCHANGED <<kind, lease, worker, lapsed>>
    BY <1>3 DEF Retry
  <2>3. QED
    BY <2>1, <2>2
<1>4. ASSUME NEW r \in Runs, BecomesDue(r) PROVE Jobs'
  <2>1. row' \in [Runs -> RowRow]
    BY <1>4 DEF BecomesDue, RowRow
  <2>2. UNCHANGED <<kind, lease, worker, lapsed>>
    BY <1>4 DEF BecomesDue
  <2>3. QED
    BY <2>1, <2>2
<1>5. ASSUME NEW r \in Runs, ClaimLapses(r) PROVE Jobs'
  <2>1. row' \in [Runs -> RowRow]
    BY <1>5 DEF ClaimLapses, RowRow
  <2>2. UNCHANGED <<kind, lease, worker, lapsed>>
    BY <1>5 DEF ClaimLapses
  <2>3. QED
    BY <2>1, <2>2
<1>6. ASSUME NEW k \in Kinds, LeaseLapses(k) PROVE Jobs'
  BY <1>6 DEF LeaseLapses
<1>7. ASSUME NEW w \in Workers, NEW k \in Kinds, Acquire(w, k) PROVE Jobs'
  BY <1>7, OwnersAssumption DEF Acquire, Worker, Places
<1>8. ASSUME NEW w \in Workers, Reclaim(w) PROVE Jobs'
  <2>1. Requeued \in [Runs -> RowRow]
    BY <1>0 DEF Requeued, RowRow
  <2>2. QED
    BY <1>8, <2>1 DEF Reclaim, Goes, Worker, Places
<1>9. ASSUME NEW w \in Workers, Select(w) PROVE Jobs'
  <2>1. \A k \in Kinds : \A batch \in Batches(w, k) :
          batch \subseteq Runs /\ \A r \in batch : kind[r] = k
    BY DEF Batches, Waiting
  <2>2. QED
    <3>1. worker[w] \in Worker /\ worker[w].kind \in Kinds
      BY DEF Worker
    <3>2. PICK batch : /\ batch \in Batches(w, worker[w].kind)
                       /\ worker' = [worker EXCEPT ![w].at = "next", ![w].todo = batch]
      BY <1>9 DEF Select
    <3>3. batch \subseteq Runs /\ \A r \in batch : kind[r] = worker[w].kind
      BY <2>1, <3>1, <3>2
    <3>4. [worker[w] EXCEPT !.at = "next", !.todo = batch] \in Worker
      BY <3>1, <3>3 DEF Worker, Places
    <3>5. worker' \in [Workers -> Worker]
      BY <3>2, <3>4
    <3>6. OnItsJob'
      BY <1>9, <3>1, <3>2, <3>3 DEF Select, Worker
    <3>7. QED
      BY <1>9, <3>5, <3>6 DEF Select
<1>10. ASSUME NEW w \in Workers, NEW r \in Runs, Claim(w, r) PROVE Jobs'
  <2>1. row' \in [Runs -> RowRow]
    <3>1. PICK s \in {"pending", "running"} :
            row' = row \/ row' = [row EXCEPT ![r].owner = Owner[w], ![r].live = TRUE,
                                              ![r].status = s]
      BY <1>10 DEF Claim
    <3>2. s \in AllStatus /\ Owner[w] \in Owners /\ row[r] \in RowRow
      BY <1>0, OwnersAssumption
    <3>3. [row[r] EXCEPT !.owner = Owner[w], !.live = TRUE, !.status = s] \in RowRow
      BY <3>2 DEF RowRow
    <3>4. QED
      BY <3>1, <3>3
  <2>2. QED
    BY <1>10, <2>1, OwnersAssumption DEF Claim, Worker, Places
<1>11. ASSUME NEW w \in Workers, Finish(w) PROVE Jobs'
  BY <1>11, FinishKeeps
<1>12. ASSUME NEW w \in Workers, Done(w) PROVE Jobs'
  BY <1>12, OwnersAssumption DEF Done, ReleaseLease, Idle, Worker, Places, Kinds
<1>13. ASSUME NEW w \in Workers, Crash(w) PROVE Jobs'
  BY <1>13 DEF Crash, Idle, Worker, Places, Kinds
<1>14. CASE UNCHANGED vars
  BY <1>14 DEF vars
<1>15. QED
  BY <1>1, <1>2, <1>3, <1>4, <1>5, <1>6, <1>7, <1>8, <1>9, <1>10, <1>11, <1>12, <1>13, <1>14
     DEF Next, Step

LEMMA JobsStart == Init => Jobs
<1>1. Fresh \in RowRow
  BY Statuses DEF Fresh, RowRow
<1>2. QED
  BY <1>1, OwnersAssumption DEF Init, Idle, Jobs, LightTypes, OnItsJob, Worker, Places, Kinds

(***************************************************************************)
(* Workers apart                                                           *)
(***************************************************************************)

\* The worker's loop between taking a job and its end.
LEMMA StaysInJob ==
  ASSUME Jobs, NEW w \in Workers,
         \/ Reclaim(w) \/ Select(w) \/ \E r \in Runs : Claim(w, r)
         \/ Finish(w)
  PROVE  /\ UNCHANGED <<lease, lapsed, crowded>>
         /\ worker'[w].kind = worker[w].kind
         /\ worker'[w].at # "idle" => worker[w].at # "idle"
         /\ \A v \in Workers \ {w} : worker'[v] = worker[v]
<1> DEFINE Stays == /\ UNCHANGED <<lease, lapsed, crowded>>
                    /\ worker'[w].kind = worker[w].kind
                    /\ worker'[w].at # "idle" => worker[w].at # "idle"
                    /\ \A v \in Workers \ {w} : worker'[v] = worker[v]
<1> SUFFICES Stays
  OBVIOUS
<1> USE DEF counts
<1>1. worker \in [Workers -> Worker] /\ worker[w] \in Worker
  BY DEF Jobs, LightTypes
<1>2. CASE Reclaim(w)
  BY <1>1, <1>2 DEF Reclaim, Goes, Worker
<1>3. CASE Select(w)
  <2>1. PICK batch : worker' = [worker EXCEPT ![w].at = "next", ![w].todo = batch]
    BY <1>3 DEF Select
  <2>2. QED
    BY <1>1, <1>3, <2>1 DEF Select, Worker
<1>4. CASE \E r \in Runs : Claim(w, r)
  <2>1. PICK r \in Runs : Claim(w, r)
    BY <1>4
  <2>2. /\ worker[w].at = "next" /\ UNCHANGED <<lease, lapsed, crowded>>
        /\ worker' = [worker EXCEPT ![w].at = "work", ![w].run = r,
                                    ![w].todo = @ \ {r}]
    BY <2>1 DEF Claim
  <2>3. QED
    BY <1>1, <2>2 DEF Worker
<1>5. CASE Finish(w)
  <2>1. /\ UNCHANGED <<lease, lapsed, crowded>> /\ worker[w].at # "idle"
        /\ \/ Goes(w, "sent")
           \/ worker' = [worker EXCEPT ![w].at = "next", ![w].run = None]
    <3>1. CASE \/ FinishSimulation(w) \/ FinishReplay(w)
               \/ FinishBenchmark(w) \/ FinishExport(w)
      BY <3>1 DEF FinishSimulation, FinishReplay, FinishBenchmark, FinishExport,
         FinishRun, Working
    <3>2. CASE Send(w)
      BY <3>2 DEF Send, Working
    <3>3. CASE FinishDelivery(w)
      BY <3>3 DEF FinishDelivery, Working
    <3>4. QED
      BY <1>5, <3>1, <3>2, <3>3 DEF Finish
  <2>2. CASE Goes(w, "sent")
    BY <1>1, <2>1, <2>2 DEF Goes, Worker
  <2>3. CASE worker' = [worker EXCEPT ![w].at = "next", ![w].run = None]
    BY <1>1, <2>1, <2>3 DEF Worker
  <2>4. QED
    BY <2>1, <2>2, <2>3
<1>6. QED
  BY <1>2, <1>3, <1>4, <1>5

\* Who enters a job with another of its name in it is noted, and nobody else
\* enters.
LEMMA CrowdsStep == Jobs /\ Crowds /\ [Next]_vars => Crowds'
<1> SUFFICES ASSUME Jobs, Crowds, [Next]_vars PROVE Crowds'
  OBVIOUS
<1>1. worker \in [Workers -> Worker]
  BY DEF Jobs, LightTypes
<1>2. ASSUME UNCHANGED crowded, \A k \in Kinds : Busy(k)' \subseteq Busy(k)
      PROVE  Crowds'
  BY <1>2 DEF Crowds, Apart
<1>3. ASSUME NEW w \in Workers, NEW k \in Kinds, Acquire(w, k)
      PROVE  Crowds'
  <2>1. \A v \in Workers \ {w} : worker'[v] = worker[v]
    BY <1>1, <1>3 DEF Acquire
  <2>2. worker[w].at = "idle" /\ worker'[w].kind = k /\ worker'[w].at # "idle"
    BY <1>1, <1>3 DEF Acquire, Worker
  <2>3. \A j \in Kinds : Busy(j)' = IF j = k THEN Busy(j) \cup {w} ELSE Busy(j)
    BY <2>1, <2>2 DEF Busy
  <2>4. crowded' = crowded \cup {j \in {k} : \E v \in Busy(k) : Owner[v] = Owner[w]}
    BY <1>3 DEF Acquire
  <2>5. ASSUME NEW j \in Kinds, j \notin crowded'
        PROVE  Apart(j)'
    <3>1. Apart(j)
      BY <2>4, <2>5 DEF Crowds
    <3>2. CASE j # k
      BY <2>3, <3>1, <3>2 DEF Apart
    <3>3. CASE j = k
      <4>1. \A v \in Busy(k) : Owner[v] # Owner[w]
        BY <2>4, <2>5, <3>3
      <4>2. QED
        BY <2>3, <3>1, <3>3, <4>1 DEF Apart
    <3>4. QED
      BY <3>2, <3>3
  <2>6. QED
    BY <2>4, <2>5 DEF Crowds
<1>4. ASSUME NEW w \in Workers,
             \/ Reclaim(w) \/ Select(w) \/ \E r \in Runs : Claim(w, r)
             \/ Finish(w)
      PROVE  Crowds'
  <2>1. /\ UNCHANGED crowded /\ worker'[w].kind = worker[w].kind
        /\ worker'[w].at # "idle" => worker[w].at # "idle"
        /\ \A v \in Workers \ {w} : worker'[v] = worker[v]
    BY <1>4, StaysInJob
  <2>2. \A k \in Kinds : Busy(k)' \subseteq Busy(k)
    BY <2>1 DEF Busy
  <2>3. QED
    BY <1>2, <2>1, <2>2
<1>5. ASSUME NEW w \in Workers, Done(w) \/ Crash(w)
      PROVE  Crowds'
  <2>1. UNCHANGED crowded /\ worker' = [worker EXCEPT ![w] = Idle]
    BY <1>5 DEF Done, Crash, counts
  <2>2. \A k \in Kinds : Busy(k)' \subseteq Busy(k)
    BY <1>1, <2>1 DEF Busy, Idle
  <2>3. QED
    BY <1>2, <2>1, <2>2
<1>6. ASSUME UNCHANGED <<worker, crowded>>
      PROVE  Crowds'
  <2>1. \A k \in Kinds : Busy(k)' = Busy(k)
    BY <1>6 DEF Busy
  <2>2. QED
    BY <1>2, <1>6, <2>1
<1>7. CASE UNCHANGED vars
  BY <1>6, <1>7 DEF vars
<1>8. ASSUME NEW r \in Runs, \/ Submit(r) \/ Cancel(r) \/ Retry(r)
                             \/ BecomesDue(r) \/ ClaimLapses(r)
      PROVE  Crowds'
  BY <1>6, <1>8 DEF Submit, Cancel, Retry, BecomesDue, ClaimLapses, counts
<1>9. ASSUME NEW k \in Kinds, LeaseLapses(k)
      PROVE  Crowds'
  BY <1>6, <1>9 DEF LeaseLapses
<1>10. QED
  BY <1>3, <1>4, <1>5, <1>7, <1>8, <1>9 DEF Next, Step

LEMMA CrowdedGrows == Jobs /\ Next => crowded \subseteq crowded'
<1> SUFFICES ASSUME Jobs, Next PROVE crowded \subseteq crowded'
  OBVIOUS
<1>1. ASSUME NEW w \in Workers, Step(w) \/ Crash(w)
      PROVE  crowded \subseteq crowded'
  <2>1. CASE \/ Reclaim(w) \/ Select(w) \/ \E r \in Runs : Claim(w, r)
             \/ Finish(w)
    BY <2>1, StaysInJob
  <2>2. CASE (\E k \in Kinds : Acquire(w, k)) \/ Done(w) \/ Crash(w)
    BY <2>2 DEF Acquire, Done, Crash, counts
  <2>3. QED
    BY <1>1, <2>1, <2>2 DEF Step
<1>2. ASSUME NEW r \in Runs, \/ Submit(r) \/ Cancel(r) \/ Retry(r)
                             \/ BecomesDue(r) \/ ClaimLapses(r)
      PROVE  UNCHANGED crowded
  BY <1>2 DEF Submit, Cancel, Retry, BecomesDue, ClaimLapses, counts
<1>3. ASSUME NEW k \in Kinds, LeaseLapses(k)
      PROVE  UNCHANGED crowded
  BY <1>3 DEF LeaseLapses
<1>4. QED
  BY <1>1, <1>2, <1>3 DEF Next

LEMMA CrowdsStart == Init => Crowds
<1> SUFFICES ASSUME Init PROVE Crowds
  OBVIOUS
<1>1. crowded = {} /\ \A k \in Kinds : Busy(k) = {}
  BY DEF Init, Busy, Idle
<1>2. QED
  BY <1>1 DEF Crowds, Apart

Held == Jobs /\ Crowds /\ HoldsLease

LEMMA HeldStep == Held /\ [Next]_vars => HoldsLease'
<1> SUFFICES ASSUME Held, [Next]_vars PROVE HoldsLease'
  OBVIOUS
<1> USE OwnersAssumption DEF Held, HoldsLease, counts
<1>1. \A w \in Workers : worker[w].kind \in Kinds /\ Owner[w] # None
  BY DEF Jobs, LightTypes, Worker
<1>2. /\ worker \in [Workers -> Worker] /\ lease \in [Kinds -> Owners \cup {None}]
  BY DEF Jobs, LightTypes
<1>3. ASSUME NEW r \in Runs, Submit(r) \/ Cancel(r) \/ Retry(r) \/ BecomesDue(r) \/ ClaimLapses(r)
      PROVE  HoldsLease'
  BY <1>3 DEF Submit, Cancel, Retry, BecomesDue, ClaimLapses
<1>4. ASSUME NEW k \in Kinds, LeaseLapses(k) PROVE HoldsLease'
  BY <1>1, <1>2, <1>4 DEF LeaseLapses, Busy
<1>5. ASSUME NEW w \in Workers, NEW k \in Kinds, Acquire(w, k) PROVE HoldsLease'
  BY <1>1, <1>2, <1>5 DEF Acquire, MayHold, Worker
<1>6. ASSUME NEW w \in Workers,
             \/ Reclaim(w) \/ Select(w) \/ \E r \in Runs : Claim(w, r)
             \/ Finish(w)
      PROVE  HoldsLease'
  BY <1>6, StaysInJob
<1>7. ASSUME NEW w \in Workers, Done(w) PROVE HoldsLease'
  <2>1. ASSUME NEW v \in Workers, worker'[v].at # "idle"
        PROVE  /\ v # w /\ worker'[v] = worker[v]
               /\ worker[v].kind \in lapsed \cup crowded
                    \/ lease'[worker[v].kind] = Owner[v]
    <3>1. v # w /\ worker'[v] = worker[v]
      BY <1>2, <1>7, <2>1 DEF Done, Idle
    <3>2. CASE lease'[worker[v].kind] = lease[worker[v].kind]
      BY <2>1, <3>1, <3>2
    <3>3. CASE lease'[worker[v].kind] # lease[worker[v].kind]
      <4>1. worker[w].kind = worker[v].kind /\ lease[worker[v].kind] = Owner[w]
        BY <1>1, <1>2, <1>7, <3>3 DEF Done, ReleaseLease
      <4>2. CASE Owner[v] # Owner[w]
        BY <2>1, <3>1, <4>1, <4>2
      <4>3. CASE Owner[v] = Owner[w]
        <5>1. v \in Busy(worker[v].kind) /\ w \in Busy(worker[v].kind)
          BY <1>7, <2>1, <3>1, <4>1 DEF Busy, Done
        <5>2. ~ Apart(worker[v].kind)
          BY <3>1, <4>3, <5>1 DEF Apart
        <5>3. QED
          BY <1>1, <3>1, <5>2 DEF Crowds
      <4>4. QED
        BY <4>2, <4>3
    <3>4. QED
      BY <3>1, <3>2, <3>3
  <2>2. UNCHANGED <<lapsed, crowded>>
    BY <1>7 DEF Done
  <2>3. QED
    BY <2>1, <2>2
<1>8. ASSUME NEW w \in Workers, Crash(w) PROVE HoldsLease'
  BY <1>2, <1>8 DEF Crash, Idle
<1>9. CASE UNCHANGED vars
  BY <1>9 DEF vars
<1>10. QED
  BY <1>3, <1>4, <1>5, <1>6, <1>7, <1>8, <1>9 DEF Next, Step

LEMMA HeldImplies == Held => OneWorkerPerRow
<1> SUFFICES ASSUME Held, NEW r \in Runs, Cardinality(On(r)) > 1
             PROVE  kind[r] \in lapsed \cup crowded
  BY DEF OneWorkerPerRow
<1>1. SUFFICES ASSUME kind[r] \notin lapsed \cup crowded
               PROVE  Cardinality(On(r)) \in {0, 1}
  BY <1>1
<1>2. \A v, w \in On(r) : v = w
  <2>1. kind[r] \in Kinds /\ r # None
    BY OwnersAssumption DEF Held, Jobs, LightTypes
  <2>2. \A v \in On(r) : v \in Busy(kind[r]) /\ lease[kind[r]] = Owner[v]
    BY <1>1, <2>1 DEF On, Busy, Held, Jobs, OnItsJob, HoldsLease
  <2>3. Apart(kind[r])
    BY <1>1, <2>1 DEF Held, Crowds
  <2>4. QED
    BY <2>2, <2>3 DEF Apart
<1>3. CASE On(r) = {}
  BY <1>3, FS_EmptySet
<1>4. CASE \E w : w \in On(r)
  <2>1. PICK w : w \in On(r)
    BY <1>4
  <2>2. On(r) = {w}
    BY <1>2, <2>1
  <2>3. QED
    BY <2>2, FS_Singleton
<1>5. QED
  BY <1>3, <1>4

\* OneWorkerPerRow (job_lease_store.cpp:7-20, jobs.cpp:535), whatever names the
\* workers bear: nothing but the lease keeps them apart, and it does, for as
\* long as it lasts and nobody else of the holder's name takes the job.
THEOREM WorkersStayApart == Spec => []OneWorkerPerRow
<1>1. Init => Held
  BY JobsStart, CrowdsStart DEF Init, Idle, Held, HoldsLease
<1>2. Held /\ [Next]_vars => Held'
  BY HeldStep, JobsStep, CrowdsStep DEF Held
<1>3. Held => OneWorkerPerRow
  BY HeldImplies
<1>4. QED
  BY <1>1, <1>2, <1>3, PTL DEF Spec

(***************************************************************************)
(* Ends are final                                                          *)
(***************************************************************************)

EndStays(r) ==
  kind[r] \in RunKinds /\ HasEnded(r) => row'[r].status \in {row[r].status, "failed"}

LEMMA EndsStay == Jobs /\ [Next]_vars => \A r \in Runs : EndStays(r)
<1> SUFFICES ASSUME Jobs, [Next]_vars, NEW q \in Runs,
                    kind[q] \in RunKinds, HasEnded(q)
             PROVE  row'[q].status \in {row[q].status, "failed"}
  BY DEF EndStays
<1>1. /\ row[q].status \in {"completed", "failed", "cancelled", "reproduced", "diverged"}
      /\ kind[q] # "delivery"
  BY Statuses DEF HasEnded
<1>2. row \in [Runs -> RowRow] /\ kind \in [Runs -> Kinds] /\ row[q] \in RowRow
  BY DEF Jobs, LightTypes
<1> HIDE DEF RowRow
<1>3. \A r \in Runs : \A s : (q # r => Ends(r, s)[q] = row[q]) /\ Ends(r, s)[r].status \in {s, row[r].status}
  BY <1>2 DEF Ends, RowRow
<1>4. \A r \in Runs : \A s : Settle(r, s)[q] = row[q] \/ row[q].status = "running"
  BY <1>2, <1>3 DEF Settle
<1>5. ASSUME NEW r \in Runs, Submit(r) \/ Cancel(r) \/ Retry(r) \/ BecomesDue(r) \/ ClaimLapses(r)
      PROVE  row'[q].status = row[q].status
  BY <1>1, <1>2, <1>5 DEF Submit, Cancel, Retry, BecomesDue, ClaimLapses, RowRow
<1>6. ASSUME NEW w \in Workers, Reclaim(w) PROVE row'[q] = row[q]
  BY <1>1, <1>2, <1>6 DEF Reclaim, Requeued, Expired
<1>7. ASSUME NEW w \in Workers, NEW r \in Runs, Claim(w, r) PROVE row'[q] = row[q]
  BY <1>1, <1>2, <1>7 DEF Claim, Claimable
<1>8. ASSUME NEW w \in Workers, Finish(w) PROVE row'[q].status \in {row[q].status, "failed"}
  <2> DEFINE r == worker[w].run
  <2>1. worker[w].at \in {"work", "sent"}
    BY <1>8 DEF Finish, FinishSimulation, FinishReplay, FinishBenchmark, FinishExport, Send,
       FinishDelivery, Working
  <2>2. r \in Runs
    BY <2>1, RunIsRow
  <2>3. Fail(r)[q].status \in {row[q].status, "failed"}
    BY <1>3, <2>2 DEF Fail
  <2>4. \A s : Settle(r, s)[q] = row[q]
    BY <1>1, <1>4, <2>2
  <2>5. CASE FinishDelivery(w)
    <3>1. kind[r] = "delivery"
      BY <2>1, <2>5 DEF FinishDelivery, Working, Jobs, OnItsJob
    <3>2. r # q
      BY <1>1, <3>1
    <3>3. AfterFailure(r)[q] = row[q]
      BY <1>2, <2>2, <3>2 DEF AfterFailure, Ends
    <3>4. row' \in {row, Ends(r, "dead_letter"), Ends(r, "published"), AfterFailure(r)}
      BY <2>5 DEF FinishDelivery
    <3>5. QED
      BY <1>3, <2>2, <3>2, <3>3, <3>4
  <2>6. CASE ~FinishDelivery(w)
    <3>1. row' = row \/ row' = Fail(r) \/ \E s : row' = Settle(r, s)
      BY <1>8, <2>6 DEF Finish, FinishSimulation, FinishReplay, FinishBenchmark, SaveBenchmark,
         FinishExport, Send
    <3>2. QED
      BY <2>3, <2>4, <3>1
  <2>7. QED
    BY <2>5, <2>6
<1>9. \/ \E r \in Runs : Submit(r) \/ Cancel(r) \/ Retry(r) \/ BecomesDue(r) \/ ClaimLapses(r)
      \/ \E w \in Workers : Reclaim(w) \/ (\E r \in Runs : Claim(w, r)) \/ Finish(w)
      \/ UNCHANGED row
  BY DEF Next, Step, vars, LeaseLapses, Acquire, Select, Done, Crash
<1>10. QED
  BY <1>5, <1>6, <1>7, <1>8, <1>9

\* EndedRunsStayEnded (jobs.cpp:68-77, 549, 593, 673): no worker, operator or
\* clock takes a run that has ended up again, however late its step comes.
THEOREM EndsAreFinal == Spec => EndedRunsStayEnded
<1>1. Jobs /\ [Next]_vars
        => [\A r \in Runs : kind[r] \in RunKinds /\ HasEnded(r) =>
              row'[r].status \in {row[r].status, "failed"}]_vars
  BY EndsStay DEF EndStays
<1>2. QED
  BY <1>1, JobsStart, JobsStep, PTL DEF Spec, EndedRunsStayEnded

-----------------------------------------------------------------------------
(***************************************************************************)
(* Attempts are counted                                                    *)
(***************************************************************************)

\* A worker is about to call, or has called, the remote side for r without the
\* claim that would make its outcome count: it selects or holds r without the
\* lease, its claim will change nothing, or its claim is gone or has run out.
AtRisk(w, r) ==
  \/ /\ worker[w].at = "select" /\ worker[w].kind = "delivery"
     /\ lease["delivery"] # Owner[w]
  \/ r \in worker[w].todo /\ (lease["delivery"] # Owner[w] \/ ~ Claimable(w, r))
  \/ worker[w].run = r /\ (~ Counted(w, r) \/ ~ row[r].live)

Risk(r) == {w \in Workers : AtRisk(w, r)}
Calling(r) == {w \in On(r) : worker[w].at = "sent"}

\* Every call is counted, under way, or paid for by a lapse or a crash, and
\* each worker at risk has its lapse or crash paid already.
Budget(r) ==
  sends[r] + Cardinality(Risk(r))
    <= attempts[r] + Cardinality(Calling(r)) + lapses + crashes

\* The count of attempts while a delivery may be attempted again, and after.
Limits(r) ==
  /\ attempts[r] <= MaxAttempts + retries
  /\ row[r].status = "pending" => attempts[r] < MaxAttempts + retries
  /\ row[r].status = "absent" => attempts[r] = 0
  /\ kind[r] # "delivery" => attempts[r] = 0 /\ sends[r] = 0

\* A worker has rows in hand only between selecting and the end of its job, and
\* takes each of them once.
Lists ==
  \A w \in Workers :
    /\ worker[w].run \notin worker[w].todo
    /\ worker[w].at \in {"idle", "select", "reclaim"} => worker[w].todo = {}
    /\ worker[w].at = "reclaim" => worker[w].kind # "delivery"

Counters ==
  /\ attempts \in [Runs -> Nat] /\ sends \in [Runs -> Nat]
  /\ lapses \in Nat /\ crashes \in Nat /\ retries \in Nat

Accounts ==
  /\ Jobs /\ Crowds /\ Lists /\ Counters
  /\ \A r \in Runs :
       /\ Limits(r)
       /\ kind[r] = "delivery" /\ "delivery" \notin crowded => Budget(r)

(* Sizes of the two sets of workers.                                       *)

LEMMA Sizes ==
  ASSUME NEW r
  PROVE  /\ IsFiniteSet(Risk(r)) /\ Cardinality(Risk(r)) \in Nat
         /\ IsFiniteSet(Calling(r)) /\ Cardinality(Calling(r)) \in Nat
<1>1. Risk(r) \in SUBSET Workers /\ Calling(r) \in SUBSET Workers
  BY DEF Risk, Calling, On
<1>2. QED
  BY <1>1, WorkersAssumption, FS_Subset, FS_CardinalityType

LEMMA SizesNext ==
  ASSUME NEW r
  PROVE  /\ IsFiniteSet(Risk(r)') /\ Cardinality(Risk(r)') \in Nat
         /\ IsFiniteSet(Calling(r)') /\ Cardinality(Calling(r)') \in Nat
<1>1. Risk(r)' \in SUBSET Workers /\ Calling(r)' \in SUBSET Workers
  BY DEF Risk, Calling, On
<1>2. QED
  BY <1>1, WorkersAssumption, FS_Subset, FS_CardinalityType

\* A set that one element at most enters, and another may leave.
LEMMA OneEnters ==
  ASSUME NEW S, IsFiniteSet(S), NEW T, IsFiniteSet(T),
         \A u, v \in T \ S : u = v
  PROVE  /\ Cardinality(T) <= Cardinality(S) + 1
         /\ S \ T # {} => Cardinality(T) <= Cardinality(S)
<1>1. Cardinality(S) \in Nat /\ Cardinality(T) \in Nat
  BY FS_CardinalityType
<1>2. CASE T \subseteq S
  BY <1>1, <1>2, FS_Subset
<1>3. CASE ~ (T \subseteq S)
  <2>1. PICK u \in T : u \notin S
    BY <1>3
  <2>2. T \ {u} \in SUBSET S
    BY <2>1
  <2>3. Cardinality(T \ {u}) = Cardinality(T) - 1 /\ IsFiniteSet(T \ {u})
    BY <2>1, FS_RemoveElement
  <2>4. Cardinality(T \ {u}) <= Cardinality(S)
    BY <2>2, FS_Subset
  <2>5. ASSUME S \ T # {}
        PROVE  Cardinality(T) <= Cardinality(S)
    <3>1. PICK w \in S : w \notin T
      BY <2>5
    <3>2. T \ {u} \in SUBSET (S \ {w})
      BY <2>2, <3>1
    <3>3. Cardinality(S \ {w}) = Cardinality(S) - 1 /\ IsFiniteSet(S \ {w})
      BY <3>1, FS_RemoveElement
    <3>4. Cardinality(T \ {u}) <= Cardinality(S \ {w})
      BY <3>2, <3>3, FS_Subset
    <3>5. QED
      BY <1>1, <2>3, <3>3, <3>4
  <2>6. QED
    BY <1>1, <2>3, <2>4, <2>5
<1>4. QED
  BY <1>2, <1>3

LEMMA OneLeaves ==
  ASSUME NEW S, IsFiniteSet(S), NEW T, T \subseteq S
  PROVE  /\ Cardinality(T) <= Cardinality(S)
         /\ S # T => Cardinality(T) + 1 <= Cardinality(S)
<1>1. IsFiniteSet(T) /\ Cardinality(T) <= Cardinality(S) /\ (Cardinality(S) = Cardinality(T) => S = T)
  BY FS_Subset
<1>2. Cardinality(S) \in Nat /\ Cardinality(T) \in Nat
  BY <1>1, FS_CardinalityType
<1>3. QED
  BY <1>1, <1>2

(* Steps that put no worker at risk, and the lapse of a lease or a claim.  *)

LEMMA NobodyEnters ==
  ASSUME Counters, Counters', NEW r \in Runs, Budget(r),
         Risk(r)' \subseteq Risk(r), Calling(r)' = Calling(r),
         sends'[r] = sends[r], attempts'[r] = attempts[r],
         lapses <= lapses', crashes <= crashes'
  PROVE  Budget(r)'
<1>1. Cardinality(Risk(r)') <= Cardinality(Risk(r))
  BY Sizes, OneLeaves
<1>2. /\ Cardinality(Risk(r)) \in Nat /\ Cardinality(Risk(r)') \in Nat
      /\ Cardinality(Calling(r)) \in Nat
      /\ Cardinality(Calling(r)') = Cardinality(Calling(r))
  BY Sizes, SizesNext
<1>3. /\ sends[r] \in Nat /\ attempts[r] \in Nat /\ lapses \in Nat /\ crashes \in Nat
      /\ lapses' \in Nat /\ crashes' \in Nat
  BY DEF Counters
<1>4. QED
  BY <1>1, <1>2, <1>3 DEF Budget

LEMMA LapsePays ==
  ASSUME Counters, NEW r \in Runs, Budget(r),
         \A u, v \in Risk(r)' \ Risk(r) : u = v, Calling(r)' = Calling(r),
         sends' = sends, attempts' = attempts, crashes' = crashes,
         lapses' = lapses + 1
  PROVE  Budget(r)'
<1>1. Cardinality(Risk(r)') <= Cardinality(Risk(r)) + 1
  BY Sizes, SizesNext, OneEnters
<1>2. /\ Cardinality(Risk(r)) \in Nat /\ Cardinality(Risk(r)') \in Nat
      /\ Cardinality(Calling(r)) \in Nat
      /\ Cardinality(Calling(r)') = Cardinality(Calling(r))
  BY Sizes, SizesNext
<1>3. /\ sends[r] \in Nat /\ attempts[r] \in Nat /\ lapses \in Nat /\ crashes \in Nat
  BY DEF Counters
<1>4. QED
  BY <1>1, <1>2, <1>3 DEF Budget

(* Rows and workers, as far as the accounts of one delivery r depend on    *)
(* them.                                                                   *)

LEMMA Shape ==
  ASSUME Jobs, NEW w \in Workers
  PROVE  /\ worker[w] \in Worker /\ worker[w].kind \in Kinds
         /\ Owner[w] \in Owners /\ Owner[w] # None
         /\ \A r \in worker[w].todo : r \in Runs /\ kind[r] = worker[w].kind
         /\ worker[w].run # None =>
              /\ worker[w].at \in {"work", "sent"}
              /\ worker[w].run \in Runs /\ kind[worker[w].run] = worker[w].kind
         /\ worker[w].at \in {"work", "sent"} => worker[w].run # None
  BY OwnersAssumption DEF Jobs, LightTypes, OnItsJob, Worker

\* Whoever may come to call the remote side for r is in the job.
LEMMA InTheJob ==
  ASSUME Jobs, Lists, NEW r \in Runs, kind[r] = "delivery", NEW w \in Workers,
         \/ worker[w].at = "select" /\ worker[w].kind = "delivery"
         \/ r \in worker[w].todo
         \/ worker[w].run = r
  PROVE  w \in Busy("delivery")
<1>1. r # None
  BY OwnersAssumption
<1>2. worker[w].at # "idle" /\ worker[w].kind = "delivery"
  BY <1>1, Shape DEF Lists
<1>3. QED
  BY <1>2 DEF Busy

\* An operator or the clock keeps a waiting delivery waiting, and its claim.
LEMMA RowOnly ==
  ASSUME Jobs, NEW r \in Runs, kind[r] = "delivery",
         UNCHANGED <<kind, worker, lease>>,
         row'[r].owner = row[r].owner, row'[r].live = row[r].live,
         row[r].status = "pending" => row'[r].status = "pending"
  PROVE  Risk(r)' \subseteq Risk(r) /\ Calling(r)' = Calling(r)
<1>1. Calling(r)' = Calling(r)
  BY DEF Calling, On
<1>2. ASSUME NEW w \in Workers, AtRisk(w, r)'
      PROVE  AtRisk(w, r)
  BY <1>2 DEF AtRisk, Claimable, ClaimFree, Counted
<1>3. QED
  BY <1>1, <1>2 DEF Risk

LEMMA OperatorKeeps ==
  ASSUME Accounts, Counters', NEW r \in Runs, Budget(r), kind[r] = "delivery", NEW q \in Runs,
         Submit(q) \/ Cancel(q) \/ Retry(q) \/ BecomesDue(q)
  PROVE  Budget(r)'
<1>1. row \in [Runs -> RowRow] /\ row[r] \in RowRow
  BY DEF Accounts, Jobs, LightTypes
<1>2. UNCHANGED <<kind, worker, lease, attempts, sends, lapses, crashes>>
  BY DEF Submit, Cancel, Retry, BecomesDue, counts
<1>3. /\ row'[r].owner = row[r].owner /\ row'[r].live = row[r].live
      /\ row[r].status = "pending" => row'[r].status = "pending"
  <2>1. CASE Submit(q)
    BY <1>1, <2>1 DEF Submit, RowRow
  <2>2. CASE Cancel(q)
    BY <1>1, <2>2 DEF Cancel, RowRow
  <2>3. CASE Retry(q)
    BY <1>1, <2>3 DEF Retry, RowRow
  <2>4. CASE BecomesDue(q)
    BY <1>1, <2>4 DEF BecomesDue, RowRow
  <2>5. QED
    BY <2>1, <2>2, <2>3, <2>4
<1>4. Risk(r)' \subseteq Risk(r) /\ Calling(r)' = Calling(r)
  BY <1>2, <1>3, RowOnly DEF Accounts
<1>5. Budget(r) /\ Counters
  BY DEF Accounts
<1>6. lapses <= lapses' /\ crashes <= crashes'
  BY <1>2, <1>5 DEF Counters
<1>7. QED
  BY <1>2, <1>4, <1>5, <1>6, NobodyEnters

LEMMA ClaimLapseKeeps ==
  ASSUME Accounts, Apart("delivery"), Counters',
         NEW r \in Runs, kind[r] = "delivery", Budget(r),
         NEW q \in Runs, ClaimLapses(q)
  PROVE  Budget(r)'
<1>1. row \in [Runs -> RowRow] /\ row[r] \in RowRow /\ Jobs
  BY DEF Accounts, Jobs, LightTypes
<1>2. UNCHANGED <<kind, worker, lease, attempts, sends, crashes>>
  BY DEF ClaimLapses
<1>3. /\ row'[r].owner = row[r].owner /\ row'[r].status = row[r].status
      /\ row'[r].live = IF q = r THEN FALSE ELSE row[r].live
  BY <1>1 DEF ClaimLapses, RowRow
<1>4. Calling(r)' = Calling(r)
  BY <1>2 DEF Calling, On
<1>5. ASSUME NEW w \in Risk(r)' \ Risk(r)
      PROVE  q = r /\ w \in On(r) /\ Owner[w] = row[r].owner
  BY <1>2, <1>3 DEF Risk, AtRisk, Claimable, ClaimFree, Counted, On
<1>6. \A u, v \in Risk(r)' \ Risk(r) : u = v
  <2>1. \A w \in Risk(r)' \ Risk(r) : w \in Busy("delivery")
    BY <1>1, <1>5, InTheJob DEF On, Accounts
  <2>2. QED
    BY <1>5, <2>1 DEF Apart
<1>7. Budget(r) /\ Counters
  BY DEF Accounts
<1>8. CASE Risk(r)' \subseteq Risk(r)
  <2>1. lapses' = lapses \/ lapses' = lapses + 1
    BY DEF ClaimLapses
  <2>2. lapses <= lapses' /\ crashes <= crashes'
    BY <1>2, <1>7, <2>1 DEF Counters
  <2>3. QED
    BY <1>2, <1>4, <1>7, <1>8, <2>2, NobodyEnters
<1>9. CASE ~ (Risk(r)' \subseteq Risk(r))
  <2>1. \E w \in On(q) : Owner[w] = row[q].owner
    BY <1>5, <1>9
  <2>2. lapses' = lapses + 1
    BY <2>1 DEF ClaimLapses
  <2>3. QED
    BY <1>2, <1>4, <1>6, <1>7, <2>2, LapsePays
<1>10. QED
  BY <1>8, <1>9

LEMMA LeaseLapseKeeps ==
  ASSUME Accounts, Apart("delivery"), Counters',
         NEW r \in Runs, kind[r] = "delivery", Budget(r),
         NEW k \in Kinds, LeaseLapses(k)
  PROVE  Budget(r)'
<1>1. Jobs /\ lease \in [Kinds -> Owners \cup {None}] /\ "delivery" \in Kinds
  BY DEF Accounts, Jobs, LightTypes, Kinds
<1>2. UNCHANGED <<kind, row, worker, attempts, sends, crashes>>
  BY DEF LeaseLapses
<1>3. lease'["delivery"] = IF k = "delivery" THEN None ELSE lease["delivery"]
  BY <1>1 DEF LeaseLapses
<1>4. Calling(r)' = Calling(r)
  BY <1>2 DEF Calling, On
<1>5. ASSUME NEW w \in Risk(r)' \ Risk(r)
      PROVE  k = "delivery" /\ w \in Busy(k) /\ Owner[w] = lease["delivery"]
  <2>1. w \in Workers /\ AtRisk(w, r)' /\ ~ AtRisk(w, r)
    BY DEF Risk
  <2>2. lease'["delivery"] # lease["delivery"] /\ lease["delivery"] = Owner[w]
    BY <1>2, <2>1 DEF AtRisk, Claimable, ClaimFree, Counted
  <2>3. \/ worker[w].at = "select" /\ worker[w].kind = "delivery"
        \/ r \in worker[w].todo
    BY <1>2, <2>1, <2>2 DEF AtRisk, Claimable, ClaimFree, Counted
  <2>4. worker[w].at # "idle" /\ worker[w].kind = "delivery"
    BY <1>1, <2>1, <2>3, Shape DEF Accounts, Lists
  <2>5. QED
    BY <1>3, <2>1, <2>2, <2>4 DEF Busy
<1>6. \A u, v \in Risk(r)' \ Risk(r) : u = v
  BY <1>5 DEF Apart
<1>7. Budget(r) /\ Counters
  BY DEF Accounts
<1>8. CASE Risk(r)' \subseteq Risk(r)
  <2>1. lapses' = lapses \/ lapses' = lapses + 1
    BY DEF LeaseLapses
  <2>2. lapses <= lapses' /\ crashes <= crashes'
    BY <1>2, <1>7, <2>1 DEF Counters
  <2>3. QED
    BY <1>2, <1>4, <1>7, <1>8, <2>2, NobodyEnters
<1>9. CASE ~ (Risk(r)' \subseteq Risk(r))
  <2>1. \E w \in Busy(k) : Owner[w] = lease[k]
    BY <1>5, <1>9
  <2>2. lapses' = lapses + 1
    BY <2>1 DEF LeaseLapses
  <2>3. QED
    BY <1>2, <1>4, <1>6, <1>7, <2>2, LapsePays
<1>10. QED
  BY <1>8, <1>9

(* Steps of a worker w.                                                    *)

\* It leaves the other workers, r and their hold on the lease alone, and is not
\* at risk itself unless it was.
LEMMA WorkerMoves ==
  ASSUME Accounts, Counters', NEW r \in Runs, Budget(r), kind[r] = "delivery", NEW w \in Workers,
         UNCHANGED <<kind, lapses, crashes>>,
         row'[r] = row[r], sends'[r] = sends[r], attempts'[r] = attempts[r],
         \A v \in Workers \ {w} :
           /\ worker'[v] = worker[v]
           /\ v \in Busy("delivery") /\ lease["delivery"] = Owner[v] =>
                lease'["delivery"] = Owner[v],
         AtRisk(w, r)' => AtRisk(w, r),
         worker[w].run = r /\ worker[w].at = "sent"
           <=> worker'[w].run = r /\ worker'[w].at = "sent"
  PROVE  Budget(r)'
<1>1. Calling(r)' = Calling(r)
  BY DEF Calling, On
<1>2. ASSUME NEW v \in Workers \ {w}, AtRisk(v, r)'
      PROVE  AtRisk(v, r)
  <2>1. v \in Busy("delivery")
    BY <1>2, InTheJob DEF AtRisk, Accounts
  <2>2. QED
    BY <1>2, <2>1 DEF AtRisk, Claimable, ClaimFree, Counted
<1>3. Risk(r)' \subseteq Risk(r)
  BY <1>2 DEF Risk
<1>4. Budget(r) /\ Counters
  BY DEF Accounts
<1>5. lapses <= lapses' /\ crashes <= crashes'
  BY <1>4 DEF Counters
<1>6. QED
  BY <1>1, <1>3, <1>4, <1>5, NobodyEnters

LEMMA AcquireKeeps ==
  ASSUME Accounts, Apart("delivery"), Counters',
         NEW r \in Runs, kind[r] = "delivery", Budget(r),
         NEW w \in Workers, NEW k \in Kinds, Acquire(w, k)
  PROVE  Budget(r)'
<1>1. Jobs /\ worker \in [Workers -> Worker] /\ lease \in [Kinds -> Owners \cup {None}]
  BY DEF Accounts, Jobs, LightTypes
<1>2. UNCHANGED <<kind, row, attempts, sends, lapses, crashes>>
  BY DEF Acquire, counts
<1>3. worker[w].todo = {} /\ worker[w].run = None /\ worker[w].at = "idle"
  BY <1>1, Shape DEF Accounts, Lists, Acquire
<1>4. /\ worker'[w].kind = k /\ worker'[w].todo = {} /\ worker'[w].run = None
      /\ worker'[w].at \in {"select", "reclaim"}
      /\ \A v \in Workers \ {w} : worker'[v] = worker[v]
  BY <1>1, <1>3 DEF Acquire, Worker
<1>5. \A j \in Kinds : lease'[j] = IF j = k THEN Owner[w] ELSE lease[j]
  BY <1>1 DEF Acquire
<1>6. r # None /\ "delivery" \in Kinds
  BY OwnersAssumption DEF Kinds
<1>7. ~ AtRisk(w, r)'
  BY <1>4, <1>5, <1>6 DEF AtRisk
<1>8. ASSUME NEW v \in Workers \ {w}, lease["delivery"] = Owner[v]
      PROVE  lease'["delivery"] = Owner[v]
  <2>1. Owner[v] # None
    BY OwnersAssumption
  <2>2. lease[k] \in {None, Owner[w]}
    BY DEF Acquire, MayHold
  <2>3. QED
    BY <1>5, <1>6, <1>8, <2>1, <2>2
<1>9. QED
  BY <1>2, <1>3, <1>4, <1>6, <1>7, <1>8, WorkerMoves

LEMMA ReclaimKeeps ==
  ASSUME Accounts, Counters', NEW r \in Runs, Budget(r), kind[r] = "delivery",
         NEW w \in Workers, Reclaim(w)
  PROVE  Budget(r)'
<1>1. Jobs /\ worker \in [Workers -> Worker]
  BY DEF Accounts, Jobs, LightTypes
<1>2. UNCHANGED <<kind, lease, attempts, sends, lapses, crashes>>
  BY DEF Reclaim, counts
<1>3. /\ worker[w].todo = {} /\ worker[w].run = None
      /\ worker[w].at \in {"idle", "reclaim"}
      /\ worker[w].at = "reclaim" => worker[w].kind # "delivery"
  BY <1>1, Shape DEF Accounts, Lists, Reclaim
<1>4. /\ worker'[w].kind = worker[w].kind /\ worker'[w].todo = {}
      /\ worker'[w].run = None
      /\ worker'[w].at = IF worker[w].at = "reclaim" THEN "select" ELSE "idle"
      /\ \A v \in Workers \ {w} : worker'[v] = worker[v]
  BY <1>1, <1>3 DEF Reclaim, Goes, Worker
<1>5. row'[r] = row[r]
  BY DEF Reclaim, Requeued, Expired, RunKinds
<1>6. r # None
  BY OwnersAssumption
<1>7. ~ AtRisk(w, r)'
  BY <1>3, <1>4, <1>6 DEF AtRisk
<1>8. QED
  BY <1>2, <1>3, <1>4, <1>5, <1>6, <1>7, WorkerMoves

LEMMA SelectKeeps ==
  ASSUME Accounts, Counters', NEW r \in Runs, Budget(r), kind[r] = "delivery",
         NEW w \in Workers, Select(w)
  PROVE  Budget(r)'
<1>1. Jobs /\ worker \in [Workers -> Worker]
  BY DEF Accounts, Jobs, LightTypes
<1>2. UNCHANGED <<kind, row, lease, attempts, sends, lapses, crashes>>
  BY DEF Select, counts
<1>3. worker[w].at = "select" /\ worker[w].run = None
  BY <1>1, Shape DEF Select
<1>4. PICK batch \in Batches(w, worker[w].kind) :
        worker' = [worker EXCEPT ![w].at = "next", ![w].todo = batch]
  BY DEF Select
<1>5. batch \subseteq Waiting(w, worker[w].kind)
  BY DEF Batches
<1>6. /\ worker'[w].todo = batch /\ worker'[w].run = None
      /\ worker'[w].at = "next"
      /\ \A v \in Workers \ {w} : worker'[v] = worker[v]
  BY <1>1, <1>3, <1>4 DEF Worker
<1>7. r \in batch => worker[w].kind = "delivery" /\ Claimable(w, r)
  BY <1>5 DEF Waiting, Claimable
<1>8. r # None
  BY OwnersAssumption
<1>9. ASSUME AtRisk(w, r)'
      PROVE  AtRisk(w, r)
  <2>1. r \in batch /\ (lease["delivery"] # Owner[w] \/ ~ Claimable(w, r))
    BY <1>2, <1>6, <1>8, <1>9 DEF AtRisk, Claimable, ClaimFree
  <2>2. QED
    BY <1>3, <1>7, <2>1 DEF AtRisk
<1>10. QED
  BY <1>2, <1>3, <1>6, <1>8, <1>9, WorkerMoves

LEMMA DoneKeeps ==
  ASSUME Accounts, Apart("delivery"), Counters',
         NEW r \in Runs, kind[r] = "delivery", Budget(r),
         NEW w \in Workers, Done(w)
  PROVE  Budget(r)'
<1>1. Jobs /\ worker \in [Workers -> Worker] /\ lease \in [Kinds -> Owners \cup {None}]
  BY DEF Accounts, Jobs, LightTypes
<1>2. UNCHANGED <<kind, row, attempts, sends, lapses, crashes>>
  BY DEF Done, counts
<1>3. worker'[w] = Idle /\ \A v \in Workers \ {w} : worker'[v] = worker[v]
  BY <1>1 DEF Done
<1>4. r # None /\ worker[w].at = "next" /\ worker[w].kind \in Kinds
  BY <1>1, OwnersAssumption DEF Done, Worker
<1>5. ~ AtRisk(w, r)'
  BY <1>3, <1>4 DEF AtRisk, Idle
<1>6. ASSUME NEW v \in Busy("delivery") \ {w}, lease["delivery"] = Owner[v]
      PROVE  lease'["delivery"] = Owner[v]
  <2>1. CASE worker[w].kind = "delivery"
    <3>1. w \in Busy("delivery")
      BY <1>4, <2>1 DEF Busy
    <3>2. Owner[v] # Owner[w]
      BY <3>1 DEF Apart
    <3>3. QED
      BY <1>6, <2>1, <3>2 DEF Done, ReleaseLease
  <2>2. CASE worker[w].kind # "delivery"
    BY <1>1, <1>6, <2>2 DEF Done, ReleaseLease, Kinds
  <2>3. QED
    BY <2>1, <2>2
<1>7. worker'[w].run # r
  BY <1>3, <1>4 DEF Idle
<1>8. QED
  BY <1>2, <1>3, <1>4, <1>5, <1>6, <1>7, WorkerMoves

LEMMA CrashKeeps ==
  ASSUME Accounts, NEW r \in Runs, Budget(r), kind[r] = "delivery",
         NEW w \in Workers, Crash(w)
  PROVE  Budget(r)'
<1>1. Jobs /\ Budget(r) /\ Counters /\ worker \in [Workers -> Worker]
  BY DEF Accounts, Jobs, LightTypes
<1>2. /\ UNCHANGED <<kind, row, lease, attempts, sends, lapses>>
      /\ crashes' = crashes + 1
  BY DEF Crash
<1>3. worker'[w] = Idle /\ \A v \in Workers \ {w} : worker'[v] = worker[v]
  BY <1>1 DEF Crash
<1>4. r # None
  BY OwnersAssumption
<1>5. Risk(r)' \subseteq Risk(r)
  <2>1. ~ AtRisk(w, r)'
    BY <1>3, <1>4 DEF AtRisk, Idle
  <2>2. ASSUME NEW v \in Workers \ {w}, AtRisk(v, r)'
        PROVE  AtRisk(v, r)
    BY <1>2, <1>3, <2>2 DEF AtRisk, Claimable, ClaimFree, Counted
  <2>3. QED
    BY <2>1, <2>2 DEF Risk
<1>6. Cardinality(Risk(r)') <= Cardinality(Risk(r))
  BY <1>5, Sizes, OneLeaves
<1>7. \A u, v \in Calling(r) \ Calling(r)' : u = v
  BY <1>3 DEF Calling, On
<1>8. Cardinality(Calling(r)) <= Cardinality(Calling(r)') + 1
  BY <1>7, Sizes, SizesNext, OneEnters
<1>9. /\ Cardinality(Risk(r)) \in Nat /\ Cardinality(Risk(r)') \in Nat
      /\ Cardinality(Calling(r)) \in Nat /\ Cardinality(Calling(r)') \in Nat
  BY Sizes, SizesNext
<1>10. /\ sends[r] \in Nat /\ attempts[r] \in Nat /\ lapses \in Nat /\ crashes \in Nat
  BY <1>1 DEF Counters
<1>11. QED
  BY <1>1, <1>2, <1>6, <1>8, <1>9, <1>10 DEF Budget

(* Claims.                                                                 *)

\* A claim that takes r away from a worker with the lease was written without
\* the lease: one worker at risk takes the place of another.
LEMMA ClaimKeeps ==
  ASSUME Accounts, Apart("delivery"), Counters',
         NEW r \in Runs, kind[r] = "delivery", Budget(r),
         NEW w \in Workers, NEW q \in Runs, Claim(w, q)
  PROVE  Budget(r)'
<1>1. /\ Jobs /\ Budget(r) /\ Counters /\ worker \in [Workers -> Worker]
      /\ row \in [Runs -> RowRow] /\ row[r] \in RowRow
  BY DEF Accounts, Jobs, LightTypes
<1>2. UNCHANGED <<kind, lease, attempts, sends, lapses, crashes>>
  BY DEF Claim, counts
<1>3. /\ worker'[w].todo = worker[w].todo \ {q} /\ worker'[w].run = q
      /\ worker'[w].at = "work"
      /\ \A v \in Workers \ {w} : worker'[v] = worker[v]
  BY <1>1 DEF Claim, Worker
<1>4. q \in worker[w].todo /\ worker[w].at = "next" /\ worker[w].run = None /\ r # None
  BY <1>1, Shape, OwnersAssumption DEF Claim
<1>5. CASE q # r
  <2>1. row'[r] = row[r]
    BY <1>1, <1>5 DEF Claim
  <2>2. AtRisk(w, r)' => AtRisk(w, r)
    BY <1>2, <1>3, <1>5, <2>1 DEF AtRisk, Claimable, ClaimFree
  <2>3. QED
    BY <1>2, <1>3, <1>4, <2>1, <2>2, WorkerMoves
<1>6. CASE q = r
  <2>1. Calling(r)' = Calling(r)
    BY <1>3, <1>4 DEF Calling, On
  <2>2. CASE ~ Claimable(w, r)
    <3>1. UNCHANGED row
      BY <1>6, <2>2 DEF Claim
    <3>2. w \in Risk(r)
      BY <1>4, <1>6, <2>2 DEF Risk, AtRisk
    <3>3. Risk(r)' \subseteq Risk(r)
      BY <1>2, <1>3, <3>1, <3>2 DEF Risk, AtRisk, Claimable, ClaimFree, Counted
    <3>4. lapses <= lapses' /\ crashes <= crashes'
      BY <1>1, <1>2 DEF Counters
    <3>5. QED
      BY <1>1, <1>2, <2>1, <3>3, <3>4, NobodyEnters
  <2>3. CASE Claimable(w, r)
    <3>1. /\ row'[r].owner = Owner[w] /\ row'[r].live = TRUE
          /\ row'[r].status = "pending"
      BY <1>1, <1>6, <2>3 DEF Claim, RowRow
    <3>2. row[r].status = "pending" /\ ClaimFree(w, r)
      BY <2>3 DEF Claimable
    <3>3. w \notin Risk(r)'
      BY <1>3, <1>4, <1>6, <3>1 DEF Risk, AtRisk, Counted
    <3>4. ASSUME NEW v \in Risk(r)' \ Risk(r)
          PROVE  /\ v \in Busy("delivery") /\ lease["delivery"] = Owner[v]
                 /\ Owner[v] # Owner[w]
      <4>1. v \in Workers \ {w} /\ AtRisk(v, r)' /\ ~ AtRisk(v, r)
        BY <3>3 DEF Risk
      <4>2. Owner[v] # Owner[w] /\ Owner[v] # None
        <5>1. v \in Busy("delivery")
          BY <1>1, <1>3, <4>1, InTheJob DEF AtRisk, Accounts
        <5>2. w \in Busy("delivery")
          BY <1>1, <1>4, <1>6, InTheJob DEF Accounts
        <5>3. QED
          BY <4>1, <5>1, <5>2, OwnersAssumption DEF Apart
      <4>3. worker[v].run = r => ~ (row[r].owner = Owner[v] /\ row[r].live)
        BY <3>2, <4>2 DEF ClaimFree
      <4>4. worker'[v] = worker[v]
        BY <1>3, <4>1
      <4>5. worker[v].run # r
        BY <4>1, <4>3 DEF AtRisk, Counted
      <4>6. r \in worker[v].todo /\ lease["delivery"] = Owner[v]
        BY <1>2, <4>1, <4>4, <4>5 DEF AtRisk
      <4>7. v \in Busy("delivery")
        BY <1>1, <4>1, <4>6, InTheJob DEF Accounts
      <4>8. QED
        BY <4>2, <4>6, <4>7
    <3>5. \A u, v \in Risk(r)' \ Risk(r) : u = v
      BY <3>4 DEF Apart
    <3>6. lapses <= lapses' /\ crashes <= crashes'
      BY <1>1, <1>2 DEF Counters
    <3>7. CASE Risk(r)' \subseteq Risk(r)
      BY <1>1, <1>2, <2>1, <3>6, <3>7, NobodyEnters
    <3>8. CASE ~ (Risk(r)' \subseteq Risk(r))
      <4>1. PICK v : v \in Risk(r)' \ Risk(r)
        BY <3>8
      <4>2. lease["delivery"] # Owner[w]
        BY <3>4, <4>1
      <4>3. w \in Risk(r)
        BY <1>4, <1>6, <4>2 DEF Risk, AtRisk
      <4>4. Cardinality(Risk(r)') <= Cardinality(Risk(r))
        BY <3>3, <3>5, <4>3, Sizes, SizesNext, OneEnters
      <4>5. /\ Cardinality(Risk(r)) \in Nat /\ Cardinality(Risk(r)') \in Nat
            /\ Cardinality(Calling(r)) \in Nat
            /\ Cardinality(Calling(r)') = Cardinality(Calling(r))
        BY <2>1, Sizes, SizesNext
      <4>6. sends[r] \in Nat /\ attempts[r] \in Nat /\ lapses \in Nat /\ crashes \in Nat
        BY <1>1 DEF Counters
      <4>7. QED
        BY <1>1, <1>2, <4>4, <4>5, <4>6 DEF Budget
    <3>9. QED
      BY <3>7, <3>8
  <2>4. QED
    BY <2>2, <2>3
<1>7. QED
  BY <1>5, <1>6

(* Calls and their outcomes.                                               *)

LEMMA FinishPlaces ==
  ASSUME Jobs, NEW w \in Workers, Finish(w)
  PROVE  /\ worker[w].at \in {"work", "sent"} /\ worker[w].run \in Runs
         /\ worker'[w].todo = worker[w].todo
         /\ \/ Send(w) /\ worker'[w].at = "sent" /\ worker'[w].run = worker[w].run
            \/ ~ Send(w) /\ worker'[w].at = "next" /\ worker'[w].run = None
         /\ \A v \in Workers \ {w} : worker'[v] = worker[v]
         /\ UNCHANGED <<kind, lease, lapsed, crowded, lapses, crashes, retries>>
<1>1. worker \in [Workers -> Worker]
  BY DEF Jobs, LightTypes
<1>2. worker[w].at \in {"work", "sent"}
  BY DEF Finish, FinishSimulation, FinishReplay, FinishBenchmark, FinishExport, Send,
     FinishDelivery, Working
<1>3. UNCHANGED <<kind, lease, lapsed, crowded, lapses, crashes, retries>>
  BY DEF Finish, FinishSimulation, FinishReplay, FinishBenchmark, FinishExport, FinishRun,
     Send, FinishDelivery, counts
<1>4. CASE Send(w)
  <2>1. worker' = [worker EXCEPT ![w].at = "sent"]
    BY <1>4 DEF Send, Goes
  <2>2. QED
    BY <1>1, <1>2, <1>3, <1>4, <2>1, RunIsRow DEF Worker
<1>5. CASE ~ Send(w)
  <2>1. worker' = [worker EXCEPT ![w].at = "next", ![w].run = None]
    BY <1>5 DEF Finish, FinishSimulation, FinishReplay, FinishBenchmark, FinishExport,
       FinishRun, FinishDelivery
  <2>2. QED
    BY <1>1, <1>2, <1>3, <1>5, <2>1, RunIsRow DEF Worker
<1>6. QED
  BY <1>4, <1>5

\* The result of another row leaves r alone.
LEMMA FinishElsewhere ==
  ASSUME Jobs, Counters, NEW r \in Runs, NEW w \in Workers, Finish(w), worker[w].run # r
  PROVE  row'[r] = row[r] /\ sends'[r] = sends[r] /\ attempts'[r] = attempts[r]
<1> DEFINE q == worker[w].run
<1>1. /\ q \in Runs /\ q # r /\ row \in [Runs -> RowRow]
      /\ attempts \in [Runs -> Nat] /\ sends \in [Runs -> Nat]
  BY FinishPlaces DEF Jobs, LightTypes, Counters
<1>2. \A s : Ends(q, s)[r] = row[r] /\ Settle(q, s)[r] = row[r] /\ Fail(q)[r] = row[r]
  BY <1>1 DEF Ends, Settle, Fail
<1>3. AfterFailure(q)[r] = row[r]
  BY <1>1 DEF AfterFailure, Ends
<1> HIDE DEF q
<1>4. row'[r] = row[r]
  <2>1. CASE FinishDelivery(w)
    BY <1>2, <1>3, <2>1 DEF FinishDelivery, q
  <2>2. CASE ~ FinishDelivery(w)
    BY <1>2, <2>2 DEF Finish, FinishSimulation, FinishReplay, FinishBenchmark,
       SaveBenchmark, FinishExport, Send, q
  <2>3. QED
    BY <2>1, <2>2
<1>5. sends'[r] = sends[r] /\ attempts'[r] = attempts[r]
  BY <1>1 DEF Finish, FinishSimulation, FinishReplay, FinishBenchmark, FinishExport,
     FinishRun, Send, FinishDelivery, q
<1>6. QED
  BY <1>4, <1>5

LEMMA SendKeeps ==
  ASSUME Accounts, NEW r \in Runs, Budget(r), kind[r] = "delivery", NEW w \in Workers,
         Send(w), worker[w].run = r
  PROVE  Budget(r)'
<1>1. Jobs /\ Budget(r) /\ Counters /\ Finish(w)
  BY DEF Accounts, Finish
<1>2. /\ worker'[w].todo = worker[w].todo /\ worker'[w].at = "sent"
      /\ worker'[w].run = r
      /\ \A v \in Workers \ {w} : worker'[v] = worker[v]
      /\ UNCHANGED <<kind, lease, row, attempts, lapses, crashes>>
  BY <1>1, FinishPlaces DEF Send
<1>3. worker[w].at = "work" /\ r # None
  BY OwnersAssumption DEF Send, Working
<1>4. Risk(r)' \subseteq Risk(r)
  <2>1. ASSUME NEW v \in Workers, AtRisk(v, r)'
        PROVE  AtRisk(v, r)
    <3>1. CASE v # w
      BY <1>2, <2>1, <3>1 DEF AtRisk, Claimable, ClaimFree, Counted
    <3>2. CASE v = w
      BY <1>2, <2>1, <3>2 DEF AtRisk, Claimable, ClaimFree, Counted
    <3>3. QED
      BY <3>1, <3>2
  <2>2. QED
    BY <2>1 DEF Risk
<1>5. Cardinality(Risk(r)') <= Cardinality(Risk(r))
  BY <1>4, Sizes, OneLeaves
<1>6. Calling(r) \subseteq Calling(r)' /\ w \in Calling(r)' \ Calling(r)
  BY <1>2, <1>3 DEF Calling, On
<1>7. Cardinality(Calling(r)) + 1 <= Cardinality(Calling(r)')
  BY <1>6, SizesNext, OneLeaves
<1>8. /\ Cardinality(Risk(r)) \in Nat /\ Cardinality(Risk(r)') \in Nat
      /\ Cardinality(Calling(r)) \in Nat /\ Cardinality(Calling(r)') \in Nat
  BY Sizes, SizesNext
<1>9. /\ sends[r] \in Nat /\ attempts[r] \in Nat /\ lapses \in Nat /\ crashes \in Nat
      /\ sends'[r] = sends[r] + 1
  BY <1>1 DEF Counters, Send
<1>10. QED
  BY <1>1, <1>2, <1>5, <1>7, <1>8, <1>9 DEF Budget

\* What FinishDelivery writes of r is no claim.
LEMMA OutcomeRow ==
  ASSUME Jobs, NEW r \in Runs,
         NEW s \in {"published", "dead_letter", "pending"},
         row' = Ends(r, s) \/ row' = [Ends(r, s) EXCEPT ![r].backoff = TRUE]
  PROVE  row'[r].owner = None /\ row'[r].live = FALSE /\ row'[r].status = s
<1>1. /\ Ends(r, s) \in [Runs -> RowRow]
      /\ Ends(r, s)[r] = [row[r] EXCEPT !.status = s, !.owner = None, !.live = FALSE]
      /\ row[r] \in RowRow
  <2>1. s \in AllStatus
    BY Statuses
  <2>2. QED
    BY <2>1, RowWritten DEF Jobs, LightTypes, Ends
<1>2. /\ Ends(r, s)[r].owner = None /\ Ends(r, s)[r].live = FALSE
      /\ Ends(r, s)[r].status = s
  BY <1>1 DEF RowRow
<1>3. [Ends(r, s) EXCEPT ![r].backoff = TRUE][r] = [Ends(r, s)[r] EXCEPT !.backoff = TRUE]
  BY <1>1
<1>4. Ends(r, s)[r] \in RowRow
  BY <1>1
<1>5. /\ [Ends(r, s)[r] EXCEPT !.backoff = TRUE].owner = None
      /\ [Ends(r, s)[r] EXCEPT !.backoff = TRUE].live = FALSE
      /\ [Ends(r, s)[r] EXCEPT !.backoff = TRUE].status = s
  BY <1>2, <1>4 DEF RowRow
<1>6. QED
  BY <1>2, <1>3, <1>5

\* Only an attempt that counts is recorded, and the last one that may is.
LEMMA DeliveryOutcome ==
  ASSUME Jobs, Counters, NEW r \in Runs, NEW w \in Workers,
         FinishDelivery(w), worker[w].run = r
  PROVE  \/ ~ Counted(w, r) /\ UNCHANGED <<row, attempts>>
         \/ /\ Counted(w, r) /\ attempts'[r] = attempts[r] + 1
            /\ row'[r].owner = None /\ row'[r].live = FALSE
            /\ row'[r].status \in {"published", "dead_letter", "pending"}
            /\ row'[r].status = "pending" => attempts[r] < MaxAttempts - 1
<1>1. CASE ~ Counted(w, r)
  BY <1>1 DEF FinishDelivery
<1>2. CASE Counted(w, r)
  <2>1. attempts'[r] = attempts[r] + 1
    BY <1>2 DEF FinishDelivery, Counters
  <2>2. attempts[r] \in Nat /\ MaxAttempts \in Nat
    BY BoundsAssumption DEF Counters
  <2>3. \E s \in {"published", "dead_letter", "pending"} :
          /\ row' = Ends(r, s) \/ row' = [Ends(r, s) EXCEPT ![r].backoff = TRUE]
          /\ s = "pending" => attempts[r] < MaxAttempts - 1
    <3>1. row' \in {Ends(r, "dead_letter"), Ends(r, "published"), AfterFailure(r)}
      BY <1>2 DEF FinishDelivery
    <3>2. CASE row' = AfterFailure(r)
      <4>1. CASE attempts[r] >= MaxAttempts - 1
        BY <3>2, <4>1 DEF AfterFailure
      <4>2. CASE ~ (attempts[r] >= MaxAttempts - 1)
        BY <2>2, <3>2, <4>2 DEF AfterFailure
      <4>3. QED
        BY <4>1, <4>2
    <3>3. QED
      BY <3>1, <3>2
  <2>4. QED
    BY <1>2, <2>1, <2>3, OutcomeRow
<1>3. QED
  BY <1>1, <1>2

\* An outcome that does not count is of a worker at risk, and one that takes a
\* delivery from the worker with the lease is of a worker whose claim ran out.
LEMMA DeliveryKeeps ==
  ASSUME Accounts, Apart("delivery"),
         NEW r \in Runs, kind[r] = "delivery", Budget(r),
         NEW w \in Workers, FinishDelivery(w), worker[w].run = r
  PROVE  Budget(r)'
<1>1. Jobs /\ Budget(r) /\ Counters /\ Finish(w) /\ worker \in [Workers -> Worker]
  BY DEF Accounts, Finish, Jobs, LightTypes
<1>2. UNCHANGED <<kind, lease, sends, lapses, crashes>>
  BY DEF FinishDelivery, counts
<1>3. /\ worker'[w].todo = worker[w].todo /\ worker'[w].at = "next"
      /\ worker'[w].run = None
      /\ \A v \in Workers \ {w} : worker'[v] = worker[v]
  <2>1. worker' = [worker EXCEPT ![w].at = "next", ![w].run = None]
    BY DEF FinishDelivery
  <2>2. QED
    BY <1>1, <2>1 DEF Worker
<1>4. /\ worker[w].at \in {"work", "sent"} /\ r # None
  BY <1>1, FinishPlaces, OwnersAssumption
<1>5. /\ Cardinality(Risk(r)) \in Nat /\ Cardinality(Risk(r)') \in Nat
      /\ Cardinality(Calling(r)) \in Nat /\ Cardinality(Calling(r)') \in Nat
      /\ sends[r] \in Nat /\ attempts[r] \in Nat /\ lapses \in Nat /\ crashes \in Nat
  BY <1>1, Sizes, SizesNext DEF Counters
<1>6. Cardinality(Calling(r)) <= Cardinality(Calling(r)') + 1
  <2>1. \A u, v \in Calling(r) \ Calling(r)' : u = v
    BY <1>3 DEF Calling, On
  <2>2. QED
    BY <2>1, Sizes, SizesNext, OneEnters
<1>7. w \notin Risk(r)'
  BY <1>3, <1>4 DEF Risk, AtRisk, Accounts, Lists
<1>8. CASE ~ Counted(w, r)
  <2>1. UNCHANGED <<row, attempts>>
    BY <1>1, <1>8, DeliveryOutcome
  <2>2. Risk(r)' \subseteq Risk(r)
    BY <1>2, <1>3, <1>7, <2>1 DEF Risk, AtRisk, Claimable, ClaimFree, Counted
  <2>3. w \in Risk(r)
    BY <1>8 DEF Risk, AtRisk
  <2>4. Cardinality(Risk(r)') + 1 <= Cardinality(Risk(r))
    BY <1>7, <2>2, <2>3, Sizes, OneLeaves
  <2>5. QED
    BY <1>1, <1>2, <1>5, <1>6, <2>1, <2>4 DEF Budget
<1>9. CASE Counted(w, r)
  <2>1. attempts'[r] = attempts[r] + 1
    BY <1>1, <1>9, DeliveryOutcome
  <2>2. ASSUME NEW v \in Risk(r)' \ Risk(r)
        PROVE  /\ v \in Busy("delivery") /\ lease["delivery"] = Owner[v]
               /\ w \in Risk(r)
    <3>1. v \in Workers \ {w} /\ AtRisk(v, r)' /\ ~ AtRisk(v, r)
      BY <1>7 DEF Risk
    <3>0. v \in Busy("delivery") /\ w \in Busy("delivery")
      BY <1>1, <1>3, <3>1, InTheJob DEF AtRisk, Accounts
    <3>2. row[r].owner = Owner[w] /\ Owner[v] # Owner[w] /\ Owner[w] # None
      BY <1>9, <3>0, <3>1, OwnersAssumption DEF Counted, Apart
    <3>3. worker'[v] = worker[v] /\ worker[v].run # r
      BY <1>3, <3>1, <3>2 DEF AtRisk, Counted
    <3>4. /\ r \in worker[v].todo /\ lease["delivery"] = Owner[v]
          /\ Claimable(v, r)
      BY <1>2, <3>1, <3>3 DEF AtRisk
    <3>5. ~ row[r].live
      BY <3>2, <3>4 DEF Claimable, ClaimFree
    <3>6. w \in Risk(r)
      BY <3>5 DEF Risk, AtRisk
    <3>7. QED
      BY <3>0, <3>4, <3>6
  <2>3. \A u, v \in Risk(r)' \ Risk(r) : u = v
    BY <2>2 DEF Apart
  <2>4. Cardinality(Risk(r)') <= Cardinality(Risk(r))
    <3>1. CASE Risk(r)' \subseteq Risk(r)
      BY <3>1, Sizes, OneLeaves
    <3>2. CASE ~ (Risk(r)' \subseteq Risk(r))
      <4>1. w \in Risk(r) \ Risk(r)'
        BY <1>7, <2>2, <3>2
      <4>2. QED
        BY <2>3, <4>1, Sizes, SizesNext, OneEnters
    <3>3. QED
      BY <3>1, <3>2
  <2>5. QED
    BY <1>1, <1>2, <1>5, <1>6, <2>1, <2>4 DEF Budget
<1>10. QED
  BY <1>8, <1>9

LEMMA FinishBudget ==
  ASSUME Accounts, Apart("delivery"), Counters',
         NEW r \in Runs, kind[r] = "delivery", Budget(r),
         NEW w \in Workers, Finish(w)
  PROVE  Budget(r)'
<1>1. Jobs /\ Counters
  BY DEF Accounts
<1>2. CASE worker[w].run = r
  <2>1. kind[worker[w].run] = "delivery"
    BY <1>2
  <2>2. Send(w) \/ FinishDelivery(w)
    BY <2>1 DEF Finish, FinishSimulation, FinishReplay, FinishBenchmark, FinishExport, Working
  <2>3. QED
    BY <1>2, <2>2, SendKeeps, DeliveryKeeps
<1>3. CASE worker[w].run # r
  <2>1. row'[r] = row[r] /\ sends'[r] = sends[r] /\ attempts'[r] = attempts[r]
    BY <1>1, <1>3, FinishElsewhere
  <2>2. /\ worker'[w].todo = worker[w].todo
        /\ worker[w].at \in {"work", "sent"}
        /\ \/ worker'[w].run = worker[w].run
           \/ worker'[w].run = None
        /\ worker'[w].at # "select"
        /\ \A v \in Workers \ {w} : worker'[v] = worker[v]
        /\ UNCHANGED <<kind, lease, lapses, crashes>>
    BY <1>1, FinishPlaces
  <2>3. worker'[w].run # r
    BY <1>3, <2>2, OwnersAssumption
  <2>4. AtRisk(w, r)' => AtRisk(w, r)
    BY <2>1, <2>2, <2>3 DEF AtRisk, Claimable, ClaimFree
  <2>5. QED
    BY <1>3, <2>1, <2>2, <2>3, <2>4, WorkerMoves
<1>4. QED
  BY <1>2, <1>3

LEMMA BudgetStep ==
  ASSUME Accounts, Apart("delivery"), Counters',
         NEW r \in Runs, kind[r] = "delivery", Budget(r), Next
  PROVE  Budget(r)'
<1>1. ASSUME NEW w \in Workers, Step(w)
      PROVE  Budget(r)'
  BY <1>1, AcquireKeeps, ReclaimKeeps, SelectKeeps, ClaimKeeps, FinishBudget, DoneKeeps
     DEF Step
<1>2. QED
  BY <1>1, OperatorKeeps, ClaimLapseKeeps, LeaseLapseKeeps, CrashKeeps DEF Next

(* The bounds on attempts.                                                 *)

LEMMA CountersStep == Accounts /\ Next => Counters'
<1> SUFFICES ASSUME Accounts, Next PROVE Counters'
  OBVIOUS
<1> USE DEF Accounts, Counters
<1>1. ASSUME UNCHANGED <<attempts, sends>>,
             lapses' \in {lapses, lapses + 1}, crashes' \in {crashes, crashes + 1},
             retries' \in {retries, retries + 1}
      PROVE  Counters'
  BY <1>1
<1>2. ASSUME NEW r \in Runs, \/ Submit(r) \/ Cancel(r) \/ Retry(r)
                             \/ BecomesDue(r) \/ ClaimLapses(r)
      PROVE  Counters'
  BY <1>1, <1>2 DEF Submit, Cancel, Retry, BecomesDue, ClaimLapses, counts
<1>3. ASSUME NEW k \in Kinds, LeaseLapses(k)
      PROVE  Counters'
  BY <1>1, <1>3 DEF LeaseLapses
<1>4. ASSUME NEW w \in Workers, Finish(w)
      PROVE  Counters'
  <2>1. UNCHANGED <<lapses, crashes, retries>>
    BY <1>4, FinishPlaces
  <2>2. attempts' \in [Runs -> Nat] /\ sends' \in [Runs -> Nat]
    <3> DEFINE r == worker[w].run
    <3>0. r \in Runs /\ sends[r] + 1 \in Nat /\ attempts[r] + 1 \in Nat
      BY <1>4, FinishPlaces
    <3>1. CASE Send(w)
      <4>1. sends' = [sends EXCEPT ![r] = sends[r] + 1] /\ UNCHANGED attempts
        BY <3>1 DEF Send
      <4> HIDE DEF r
      <4>2. QED
        BY <3>0, <4>1
    <3>2. CASE FinishDelivery(w)
      <4>1. /\ UNCHANGED sends
            /\ UNCHANGED attempts \/ attempts' = [attempts EXCEPT ![r] = attempts[r] + 1]
        BY <3>2 DEF FinishDelivery
      <4> HIDE DEF r
      <4>2. QED
        BY <3>0, <4>1
    <3>3. CASE ~ Send(w) /\ ~ FinishDelivery(w)
      BY <1>4, <3>3 DEF Finish, FinishSimulation, FinishReplay, FinishBenchmark,
         FinishExport, FinishRun
    <3>4. QED
      BY <3>1, <3>2, <3>3
  <2>3. QED
    BY <2>1, <2>2
<1>5. ASSUME NEW w \in Workers,
             \/ Reclaim(w) \/ Select(w) \/ Done(w) \/ Crash(w)
             \/ \E k \in Kinds : Acquire(w, k)
             \/ \E r \in Runs : Claim(w, r)
      PROVE  Counters'
  BY <1>1, <1>5 DEF Reclaim, Select, Done, Crash, Acquire, Claim, counts
<1>6. QED
  BY <1>2, <1>3, <1>4, <1>5 DEF Next, Step

LEMMA ListsStep == Accounts /\ Next => Lists'
<1> SUFFICES ASSUME Accounts, Next PROVE Lists'
  OBVIOUS
<1>1. Jobs /\ Lists /\ worker \in [Workers -> Worker]
  BY DEF Accounts, Jobs, LightTypes
<1>2. ASSUME NEW w \in Workers, \A v \in Workers \ {w} : worker'[v] = worker[v],
             /\ worker'[w].run \notin worker'[w].todo
             /\ worker'[w].at \in {"idle", "select", "reclaim"} => worker'[w].todo = {}
             /\ worker'[w].at = "reclaim" => worker'[w].kind # "delivery"
      PROVE  Lists'
  BY <1>1, <1>2 DEF Lists
<1>3. ASSUME NEW r \in Runs, \/ Submit(r) \/ Cancel(r) \/ Retry(r)
                             \/ BecomesDue(r) \/ ClaimLapses(r)
      PROVE  Lists'
  BY <1>1, <1>3 DEF Submit, Cancel, Retry, BecomesDue, ClaimLapses, Lists
<1>4. ASSUME NEW k \in Kinds, LeaseLapses(k)
      PROVE  Lists'
  BY <1>1, <1>4 DEF LeaseLapses, Lists
<1>5. ASSUME NEW w \in Workers, NEW k \in Kinds, Acquire(w, k)
      PROVE  Lists'
  <2>1. worker[w].todo = {}
    BY <1>1, <1>5 DEF Acquire, Lists
  <2>2. /\ \A v \in Workers \ {w} : worker'[v] = worker[v]
        /\ worker'[w].todo = {} /\ worker'[w].kind = k
        /\ worker'[w].at = IF k = "delivery" THEN "select" ELSE "reclaim"
    BY <1>1, <1>5, <2>1 DEF Acquire, Worker
  <2>3. QED
    BY <1>2, <2>2
<1>6. ASSUME NEW w \in Workers, Reclaim(w)
      PROVE  Lists'
  <2>1. worker[w].todo = {}
    BY <1>1, <1>6 DEF Reclaim, Lists
  <2>2. /\ \A v \in Workers \ {w} : worker'[v] = worker[v]
        /\ worker'[w].todo = {}
        /\ worker'[w].at = IF worker[w].at = "reclaim" THEN "select" ELSE "idle"
    BY <1>1, <1>6, <2>1 DEF Reclaim, Goes, Worker
  <2>3. QED
    BY <1>2, <2>2
<1>7. ASSUME NEW w \in Workers, Select(w)
      PROVE  Lists'
  <2>1. PICK batch \in Batches(w, worker[w].kind) :
          worker' = [worker EXCEPT ![w].at = "next", ![w].todo = batch]
    BY <1>7 DEF Select
  <2>2. worker[w].run = None /\ None \notin batch
    BY <1>1, <1>7, Shape, OwnersAssumption DEF Select, Batches, Waiting
  <2>3. /\ \A v \in Workers \ {w} : worker'[v] = worker[v]
        /\ worker'[w].todo = batch /\ worker'[w].at = "next"
        /\ worker'[w].run = None
    BY <1>1, <2>1, <2>2 DEF Worker
  <2>4. QED
    BY <1>2, <2>2, <2>3
<1>8. ASSUME NEW w \in Workers, NEW q \in Runs, Claim(w, q)
      PROVE  Lists'
  <2>1. /\ worker'[w].todo = worker[w].todo \ {q} /\ worker'[w].run = q
        /\ worker'[w].at = "work"
        /\ \A v \in Workers \ {w} : worker'[v] = worker[v]
    BY <1>1, <1>8 DEF Claim, Worker
  <2>2. QED
    BY <1>2, <2>1
<1>9. ASSUME NEW w \in Workers, Finish(w)
      PROVE  Lists'
  <2>1. /\ worker'[w].todo = worker[w].todo /\ worker'[w].at \in {"sent", "next"}
        /\ worker'[w].run \in {None, worker[w].run}
        /\ \A v \in Workers \ {w} : worker'[v] = worker[v]
    BY <1>1, <1>9, FinishPlaces
  <2>2. None \notin worker[w].todo /\ worker[w].run \notin worker[w].todo
    BY <1>1, Shape, OwnersAssumption DEF Lists
  <2>3. QED
    BY <1>2, <2>1, <2>2
<1>10. ASSUME NEW w \in Workers, Done(w) \/ Crash(w)
       PROVE  Lists'
  <2>1. worker'[w] = Idle /\ \A v \in Workers \ {w} : worker'[v] = worker[v]
    BY <1>1, <1>10 DEF Done, Crash
  <2>2. QED
    BY <1>2, <2>1 DEF Idle
<1>11. QED
  BY <1>3, <1>4, <1>5, <1>6, <1>7, <1>8, <1>9, <1>10 DEF Next, Step

LEMMA LimitsKept ==
  ASSUME Counters, Counters', NEW r \in Runs, Limits(r), UNCHANGED kind,
         attempts'[r] = attempts[r], retries <= retries',
         kind[r] # "delivery" => sends'[r] = sends[r],
         kind[r] = "delivery" /\ row'[r].status = "absent" => row[r].status = "absent",
         kind[r] = "delivery" /\ row'[r].status = "pending" =>
           row[r].status \in {"pending", "absent"} \/ retries < retries'
  PROVE  Limits(r)'
<1>1. /\ attempts[r] \in Nat /\ retries \in Nat /\ retries' \in Nat
      /\ MaxAttempts \in Nat /\ 1 <= MaxAttempts
  BY BoundsAssumption DEF Counters
<1>2. QED
  BY <1>1 DEF Limits

LEMMA LimitsFinish ==
  ASSUME Accounts, Counters', NEW r \in Runs, NEW w \in Workers, Finish(w)
  PROVE  Limits(r)'
<1>1. Jobs /\ Counters /\ Limits(r)
  BY DEF Accounts
<1>2. UNCHANGED <<kind, retries>> /\ retries <= retries'
  BY <1>1, FinishPlaces DEF Counters
<1>3. CASE worker[w].run # r
  <2>1. row'[r] = row[r] /\ sends'[r] = sends[r] /\ attempts'[r] = attempts[r]
    BY <1>1, <1>3, FinishElsewhere
  <2>2. QED
    BY <1>1, <1>2, <2>1, LimitsKept
<1>4. CASE worker[w].run = r /\ Send(w)
  <2>1. kind[r] = "delivery" /\ UNCHANGED <<row, attempts>>
    BY <1>4 DEF Send, Working
  <2>2. QED
    BY <1>1, <1>2, <2>1, LimitsKept
<1>5. CASE worker[w].run = r /\ FinishDelivery(w)
  <2>1. kind[r] = "delivery"
    BY <1>1, <1>5 DEF FinishDelivery, Working, Jobs, OnItsJob
  <2>2. CASE ~ Counted(w, r) /\ UNCHANGED <<row, attempts>>
    BY <1>1, <1>2, <2>1, <2>2, LimitsKept
  <2>3. CASE /\ Counted(w, r) /\ attempts'[r] = attempts[r] + 1
             /\ row'[r].status \in {"published", "dead_letter", "pending"}
             /\ row'[r].status = "pending" => attempts[r] < MaxAttempts - 1
    <3>1. attempts[r] < MaxAttempts + retries
      BY <1>1, <2>3 DEF Counted, Limits
    <3>2. attempts[r] \in Nat /\ retries \in Nat /\ MaxAttempts \in Nat
      BY <1>1, BoundsAssumption DEF Counters
    <3>3. QED
      BY <1>2, <2>1, <2>3, <3>1, <3>2 DEF Limits
  <2>4. QED
    BY <1>1, <1>5, <2>2, <2>3, DeliveryOutcome
<1>6. CASE worker[w].run = r /\ ~ Send(w) /\ ~ FinishDelivery(w)
  <2>1. kind[r] # "delivery" /\ UNCHANGED <<attempts, sends>>
    BY <1>6 DEF Finish, FinishSimulation, FinishReplay, FinishBenchmark, FinishExport,
       FinishRun, Working
  <2>2. QED
    BY <1>1, <1>2, <2>1, LimitsKept
<1>7. QED
  BY <1>3, <1>4, <1>5, <1>6

LEMMA LimitsStep ==
  ASSUME Accounts, Counters', NEW r \in Runs, Next
  PROVE  Limits(r)'
<1>1. /\ Jobs /\ Counters /\ Limits(r)
      /\ row \in [Runs -> RowRow] /\ row[r] \in RowRow
  BY DEF Accounts, Jobs, LightTypes
<1>2. ASSUME NEW q \in Runs, Submit(q) \/ Cancel(q) \/ BecomesDue(q) \/ ClaimLapses(q)
      PROVE  Limits(r)'
  <2>1. UNCHANGED <<kind, attempts, sends, retries>> /\ retries <= retries'
    BY <1>1, <1>2 DEF Submit, Cancel, BecomesDue, ClaimLapses, counts, Counters
  <2>2. \/ row'[r].status = row[r].status
        \/ row[r].status = "absent" /\ row'[r].status # "absent"
        \/ kind[r] = "simulation"
    <3>1. CASE Submit(q)
      BY <1>1, <3>1 DEF Submit, RowRow
    <3>2. CASE Cancel(q)
      BY <1>1, <3>2 DEF Cancel, RowRow
    <3>3. CASE BecomesDue(q)
      BY <1>1, <3>3 DEF BecomesDue, RowRow
    <3>4. CASE ClaimLapses(q)
      BY <1>1, <3>4 DEF ClaimLapses, RowRow
    <3>5. QED
      BY <1>2, <3>1, <3>2, <3>3, <3>4
  <2>3. QED
    BY <1>1, <2>1, <2>2, LimitsKept
<1>3. ASSUME NEW q \in Runs, Retry(q)
      PROVE  Limits(r)'
  <2>1. UNCHANGED <<kind, attempts, sends>> /\ retries' = retries + 1
    BY <1>3 DEF Retry
  <2>2. retries < retries' /\ retries <= retries'
    BY <1>1, <2>1 DEF Counters
  <2>3. row'[r].status \in {row[r].status, "pending"}
    BY <1>1, <1>3 DEF Retry, RowRow
  <2>4. QED
    BY <1>1, <2>1, <2>2, <2>3, LimitsKept
<1>4. ASSUME NEW w \in Workers, Finish(w)
      PROVE  Limits(r)'
  BY <1>4, LimitsFinish
<1>5. ASSUME UNCHANGED <<kind, attempts, sends, retries>>,
             kind[r] = "delivery" => row'[r].status = row[r].status
      PROVE  Limits(r)'
  <2>1. retries <= retries'
    BY <1>1, <1>5 DEF Counters
  <2>2. QED
    BY <1>1, <1>5, <2>1, LimitsKept
<1>6. ASSUME NEW w \in Workers, Reclaim(w)
      PROVE  Limits(r)'
  <2>1. kind[r] = "delivery" => row'[r] = row[r]
    BY <1>6 DEF Reclaim, Requeued, Expired, RunKinds
  <2>2. UNCHANGED <<kind, attempts, sends, retries>>
    BY <1>6 DEF Reclaim, counts
  <2>3. QED
    BY <1>5, <2>1, <2>2
<1>7. ASSUME NEW w \in Workers, NEW q \in Runs, Claim(w, q)
      PROVE  Limits(r)'
  <2>1. kind[r] = "delivery" => row'[r].status = row[r].status
    BY <1>1, <1>7 DEF Claim, Claimable, RowRow
  <2>2. UNCHANGED <<kind, attempts, sends, retries>>
    BY <1>7 DEF Claim, counts
  <2>3. QED
    BY <1>5, <2>1, <2>2
<1>8. ASSUME NEW w \in Workers, Select(w) \/ Done(w) \/ Crash(w)
      PROVE  Limits(r)'
  <2>1. UNCHANGED <<kind, row, attempts, sends, retries>>
    BY <1>8 DEF Select, Done, Crash, counts
  <2>2. QED
    BY <1>5, <2>1
<1>9. ASSUME NEW k \in Kinds,
             LeaseLapses(k) \/ \E w \in Workers : Acquire(w, k)
      PROVE  Limits(r)'
  <2>1. UNCHANGED <<kind, row, attempts, sends, retries>>
    BY <1>9 DEF LeaseLapses, Acquire, counts
  <2>2. QED
    BY <1>5, <2>1
<1>10. ASSUME NEW w \in Workers, Step(w)
       PROVE  Limits(r)'
  BY <1>4, <1>6, <1>7, <1>8, <1>9, <1>10 DEF Step
<1>11. QED
  BY <1>2, <1>3, <1>8, <1>9, <1>10 DEF Next

LEMMA AccountsStep == Accounts /\ [Next]_vars => Accounts'
<1> SUFFICES ASSUME Accounts, [Next]_vars PROVE Accounts'
  OBVIOUS
<1>1. CASE UNCHANGED vars
  <2>1. Jobs' /\ Crowds'
    BY JobsStep, CrowdsStep DEF Accounts
  <2>2. UNCHANGED <<kind, row, lease, worker, attempts, sends, crowded, lapses, crashes,
                    retries>>
    BY <1>1 DEF vars
  <2>3. Lists' /\ Counters'
    BY <2>2 DEF Accounts, Lists, Counters
  <2>4. ASSUME NEW r \in Runs
        PROVE  /\ Limits(r)'
               /\ kind[r] = "delivery" /\ "delivery" \notin crowded => Budget(r)'
    <3>1. Limits(r)'
      BY <2>2 DEF Accounts, Limits
    <3>2. \A w \in Workers : AtRisk(w, r)' = AtRisk(w, r)
      BY <2>2 DEF AtRisk, Claimable, ClaimFree, Counted
    <3>3. Risk(r)' = Risk(r) /\ Calling(r)' = Calling(r)
      BY <2>2, <3>2 DEF Risk, Calling, On
    <3>4. kind[r] = "delivery" /\ "delivery" \notin crowded => Budget(r)
      BY DEF Accounts
    <3>5. Budget(r)' <=> Budget(r)
      BY <2>2, <3>3 DEF Budget
    <3>6. QED
      BY <3>1, <3>4, <3>5
  <2>5. QED
    BY <2>1, <2>2, <2>3, <2>4 DEF Accounts
<1>2. CASE Next
  <2>1. Jobs' /\ Crowds' /\ Lists' /\ Counters'
    BY <1>2, JobsStep, CrowdsStep, ListsStep, CountersStep DEF Accounts
  <2>2. UNCHANGED kind
    <3>1. ASSUME NEW w \in Workers, Finish(w)
          PROVE  UNCHANGED kind
      BY <3>1, FinishPlaces DEF Accounts
    <3>2. ASSUME NEW w \in Workers, Step(w) \/ Crash(w)
          PROVE  UNCHANGED kind
      BY <3>1, <3>2 DEF Step, Acquire, Reclaim, Select, Claim, Done, Crash
    <3>3. ASSUME NEW r \in Runs, \/ Submit(r) \/ Cancel(r) \/ Retry(r)
                                 \/ BecomesDue(r) \/ ClaimLapses(r)
          PROVE  UNCHANGED kind
      BY <3>3 DEF Submit, Cancel, Retry, BecomesDue, ClaimLapses
    <3>4. ASSUME NEW k \in Kinds, LeaseLapses(k)
          PROVE  UNCHANGED kind
      BY <3>4 DEF LeaseLapses
    <3>5. QED
      BY <1>2, <3>2, <3>3, <3>4 DEF Next
  <2>3. ASSUME NEW r \in Runs, kind[r] = "delivery", "delivery" \notin crowded'
        PROVE  Budget(r)'
    <3>1. "delivery" \notin crowded
      BY <1>2, <2>3, CrowdedGrows DEF Accounts
    <3>2. Apart("delivery") /\ Budget(r)
      BY <2>3, <3>1 DEF Accounts, Crowds, Kinds
    <3>3. QED
      BY <1>2, <2>1, <2>3, <3>2, BudgetStep
  <2>4. \A r \in Runs : Limits(r)'
    BY <1>2, <2>1, LimitsStep
  <2>5. QED
    BY <2>1, <2>2, <2>3, <2>4 DEF Accounts
<1>3. QED
  BY <1>1, <1>2

LEMMA AccountsStart == Init => Accounts
<1> SUFFICES ASSUME Init PROVE Accounts
  OBVIOUS
<1>1. Jobs /\ Crowds
  BY JobsStart, CrowdsStart
<1>2. Lists /\ Counters
  BY OwnersAssumption DEF Init, Lists, Counters, Idle
<1>3. ASSUME NEW r \in Runs
      PROVE  Limits(r) /\ Budget(r)
  <2>1. Limits(r)
    BY <1>3, BoundsAssumption DEF Init, Limits, Fresh
  <2>2. Risk(r) = {} /\ Calling(r) = {}
    BY <1>3, OwnersAssumption DEF Init, Risk, AtRisk, Calling, On, Idle
  <2>3. /\ Cardinality(Risk(r)) = 0 /\ Cardinality(Calling(r)) = 0
        /\ sends[r] = 0 /\ attempts[r] = 0 /\ lapses = 0 /\ crashes = 0
    BY <1>3, <2>2, FS_EmptySet DEF Init
  <2>4. QED
    BY <2>1, <2>3 DEF Budget
<1>4. QED
  BY <1>1, <1>2, <1>3 DEF Accounts

LEMMA AccountsBalance == Accounts => AttemptsAreCounted
<1> SUFFICES ASSUME Accounts, NEW r \in Runs
             PROVE  /\ kind[r] \notin crowded =>
                         sends[r] <= attempts[r] + Cardinality(Calling(r)) + lapses + crashes
                    /\ attempts[r] <= MaxAttempts + retries
  BY DEF AttemptsAreCounted, CallsAreCounted, Calling
<1>1. /\ Cardinality(Risk(r)) \in Nat /\ Cardinality(Calling(r)) \in Nat
      /\ sends[r] \in Nat /\ attempts[r] \in Nat /\ lapses \in Nat /\ crashes \in Nat
  BY Sizes DEF Accounts, Counters
<1>2. attempts[r] <= MaxAttempts + retries
  BY DEF Accounts, Limits
<1>3. CASE kind[r] = "delivery"
  BY <1>1, <1>2, <1>3 DEF Accounts, Budget
<1>4. CASE kind[r] # "delivery"
  BY <1>1, <1>2, <1>4 DEF Accounts, Limits
<1>5. QED
  BY <1>3, <1>4

\* AttemptsAreCounted (jobs.cpp:461-501), whatever names the workers bear: until
\* two of one name publish at once, every call of a remote side beyond the
\* attempts that were counted and the calls under way is paid for by a lease or
\* claim that ran out under its holder, or by a crash; and the attempts stay
\* within their number in any case.
THEOREM CallsAreAccounted == Spec => []AttemptsAreCounted
<1>1. Accounts /\ [Next]_vars => Accounts'
  BY AccountsStep
<1>2. QED
  BY <1>1, AccountsStart, AccountsBalance, PTL DEF Spec
=============================================================================
