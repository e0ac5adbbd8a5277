----------------------------- MODULE WorkQueues -----------------------------
(***************************************************************************)
(* Workers and the rows they take work from: simulations, replays,        *)
(* benchmarks, evidence exports and deliveries of the outbox.             *)
(* A worker takes the lease of a job, returns the runs whose claim has    *)
(* expired to the queue, selects rows, and for each of them writes a      *)
(* claim, works, and writes the result. Every step is a statement of its  *)
(* own, so other workers, operators and the clock act in between.         *)
(*                                                                         *)
(* A claim is an UPDATE with a guard, but the worker goes on whether or   *)
(* not it changed a row: what keeps workers apart is the job's lease, and *)
(* that goes by a name which every server bears alike.                    *)
(***************************************************************************)
EXTENDS Integers, FiniteSets

CONSTANTS
  Runs,         \* rows of the five tables
  Workers,      \* processes that run the worker's loop
  Owners,       \* names leases are held under
  Owner,        \* the name of each worker, which others may bear too
  MaxAttempts,  \* attempts after which a delivery is a dead letter (5)
  MaxLapses,    \* bound: leases that run out while their holder works
  MaxCrashes,   \* bound: workers that stop half-way
  MaxRetries,   \* bound: deliveries an operator puts back
  None

ASSUME OwnersAssumption == Owner \in [Workers -> Owners] /\ None \notin Owners \cup Runs
ASSUME WorkersAssumption == IsFiniteSet(Workers)
ASSUME BoundsAssumption ==
  /\ MaxAttempts \in Nat \ {0}
  /\ MaxLapses \in Nat /\ MaxCrashes \in Nat /\ MaxRetries \in Nat

RunKinds == {"simulation", "replay", "benchmark", "export"}
Kinds == RunKinds \cup {"delivery"}

\* How the rows of each table may end; an operator may put a delivery back.
EndedAs ==
  [simulation |-> {"completed", "failed", "cancelled"},
   replay |-> {"reproduced", "diverged", "failed"},
   benchmark |-> {"completed", "failed"},
   export |-> {"completed", "failed"},
   delivery |-> {"published", "dead_letter"}]

StatusOf(k) ==
  {"absent"} \cup EndedAs[k]
    \cup IF k = "delivery" THEN {"pending"} ELSE {"queued", "running"}

\* A row with its claim: live until the lease it was claimed with runs out.
\* backoff holds a delivery until its next attempt is due.
Row(k) == [status: StatusOf(k), owner: Owners \cup {None}, live: BOOLEAN,
           backoff: BOOLEAN]

\* Where a worker is: the job in hand, the rows selected and the one it works
\* on. A delivery is "sent" when the remote side has been called.
Places == {"idle", "reclaim", "select", "next", "work", "sent"}
Worker == [at: Places, kind: Kinds, todo: SUBSET Runs, run: Runs \cup {None}]

VARIABLES
  kind,      \* the table of each row
  row,
  lease,     \* the unexpired holder of each job's lease
  worker,
  stored,    \* benchmarks whose cells are in benchmark_results
  attempts,  \* attempt_count of deliveries, as the row has it
  sends,     \* calls of the remote side made for each delivery
  lapsed,    \* jobs whose lease ran out under a worker
  crowded,   \* jobs two workers of one name were in at once
  lapses, crashes, retries

vars == <<kind, row, lease, worker, stored, attempts, sends, lapsed, crowded,
          lapses, crashes, retries>>
counts == <<lapsed, crowded, lapses, crashes, retries>>

-----------------------------------------------------------------------------

Fresh == [status |-> "absent", owner |-> None, live |-> FALSE, backoff |-> FALSE]
Idle == [at |-> "idle", kind |-> "delivery", todo |-> {}, run |-> None]

Init ==
  /\ kind \in [Runs -> Kinds]
  /\ row = [r \in Runs |-> Fresh]
  /\ lease = [k \in Kinds |-> None]
  /\ worker = [w \in Workers |-> Idle]
  /\ stored = {} /\ lapsed = {} /\ crowded = {}
  /\ attempts = [r \in Runs |-> 0] /\ sends = [r \in Runs |-> 0]
  /\ lapses = 0 /\ crashes = 0 /\ retries = 0

\* Workers that are in the middle of a job, and those that are on a row.
Busy(k) == {w \in Workers : worker[w].at # "idle" /\ worker[w].kind = k}
On(r) == {w \in Workers : worker[w].run = r}

\* The worker's next place, by name.
Goes(w, place) == worker' = [worker EXCEPT ![w].at = place]

-----------------------------------------------------------------------------
(* Operators *)

\* A run is created queued, a delivery pending.
Submit(r) ==
  /\ row[r].status = "absent"
  /\ row' = [row EXCEPT ![r].status =
               IF kind[r] = "delivery" THEN "pending" ELSE "queued"]
  /\ UNCHANGED <<kind, lease, worker, stored, attempts, sends, counts>>

Cancel(r) ==
  /\ kind[r] = "simulation" /\ row[r].status \in {"queued", "running"}
  /\ row' = [row EXCEPT ![r].status = "cancelled"]
  /\ UNCHANGED <<kind, lease, worker, stored, attempts, sends, counts>>

\* Mutant of Retry: the claim is taken away from the worker that holds it.
RetryUnclaimed(r) ==
  /\ kind[r] = "delivery" /\ row[r].status # "absent" /\ retries < MaxRetries
  /\ row' = [row EXCEPT ![r] = [Fresh EXCEPT !.status = "pending"]]
  /\ retries' = retries + 1
  /\ UNCHANGED <<kind, lease, worker, stored, attempts, sends, lapsed, crowded,
                 lapses, crashes>>

\* Whatever the delivery's status, its claim and its count of attempts stay.
Retry(r) ==
  /\ kind[r] = "delivery" /\ row[r].status # "absent" /\ retries < MaxRetries
  /\ row' = [row EXCEPT ![r].status = "pending", ![r].backoff = FALSE]
  /\ retries' = retries + 1
  /\ UNCHANGED <<kind, lease, worker, stored, attempts, sends, lapsed, crowded,
                 lapses, crashes>>

-----------------------------------------------------------------------------
(* Taking a job *)

\* Mutant of MayHold: the upsert has no condition.
MayHoldAlways(w, k) == TRUE

\* The upsert takes a lease that is free, expired, or held under this name.
MayHold(w, k) == lease[k] \in {None, Owner[w]}

\* (A job without rows does nothing but reclaim.) A worker that joins another
\* of its name is noted.
Acquire(w, k) ==
  /\ worker[w].at = "idle" /\ \E r \in Runs : kind[r] = k
  /\ MayHold(w, k)
  /\ lease' = [lease EXCEPT ![k] = Owner[w]]
  /\ worker' = [worker EXCEPT ![w].kind = k,
                  ![w].at = IF k = "delivery" THEN "select" ELSE "reclaim"]
  /\ crowded' = crowded \cup {j \in {k} : \E v \in Busy(k) : Owner[v] = Owner[w]}
  /\ UNCHANGED <<kind, row, stored, attempts, sends, lapsed, lapses, crashes,
                 retries>>

\* Mutant of Expired: a table is left out of the list.
ExpiredButExports(r) ==
  kind[r] \in RunKinds \ {"export"} /\ row[r].status = "running" /\ ~row[r].live

Expired(r) == kind[r] \in RunKinds /\ row[r].status = "running" /\ ~row[r].live

Requeued ==
  [r \in Runs |->
     IF Expired(r) THEN [row[r] EXCEPT !.status = "queued", !.owner = None]
                   ELSE row[r]]

\* Runs of every table whose claim has expired go back to their queue: at the
\* start of each of the four jobs, and by the maintenance job, which an idle
\* worker runs in a single transaction.
Reclaim(w) ==
  /\ worker[w].at \in {"reclaim", "idle"}
  /\ row' = Requeued
  /\ Goes(w, IF worker[w].at = "reclaim" THEN "select" ELSE "idle")
  /\ UNCHANGED <<kind, lease, stored, attempts, sends, counts>>

ClaimFree(w, r) == ~row[r].live \/ row[r].owner \in {None, Owner[w]}

Waiting(w, k) ==
  {r \in Runs :
     /\ kind[r] = k
     /\ IF k = "delivery"
          THEN row[r].status = "pending" /\ ~row[r].backoff /\ ClaimFree(w, r)
          ELSE row[r].status = "queued"}

\* Simulations and benchmarks are taken one at a time, the others in batches.
Batches(w, k) ==
  IF k \in {"simulation", "benchmark"} /\ Waiting(w, k) # {}
    THEN {{r} : r \in Waiting(w, k)}
    ELSE {Waiting(w, k)}

Select(w) ==
  /\ worker[w].at = "select"
  /\ \E batch \in Batches(w, worker[w].kind) :
       worker' = [worker EXCEPT ![w].at = "next", ![w].todo = batch]
  /\ UNCHANGED <<kind, row, lease, stored, attempts, sends, counts>>

\* The guard of the claim's UPDATE.
Claimable(w, r) ==
  IF kind[r] = "delivery" THEN row[r].status = "pending" /\ ClaimFree(w, r)
                          ELSE row[r].status = "queued"

\* The worker proceeds also when the UPDATE finds nothing to change.
Claim(w, r) ==
  /\ worker[w].at = "next" /\ r \in worker[w].todo
  /\ row' = IF Claimable(w, r)
              THEN [row EXCEPT ![r].owner = Owner[w], ![r].live = TRUE,
                               ![r].status = IF kind[r] = "delivery"
                                               THEN "pending" ELSE "running"]
              ELSE row
  /\ worker' = [worker EXCEPT ![w].at = "work", ![w].run = r,
                              ![w].todo = @ \ {r}]
  /\ UNCHANGED <<kind, lease, stored, attempts, sends, counts>>

\* The end of a job deletes its lease if it is still held under this name.
ReleaseLease(w) ==
  lease' = IF lease[worker[w].kind] = Owner[w]
             THEN [lease EXCEPT ![worker[w].kind] = None] ELSE lease

Done(w) ==
  /\ worker[w].at = "next" /\ worker[w].todo = {}
  /\ ReleaseLease(w)
  /\ worker' = [worker EXCEPT ![w] = Idle]
  /\ UNCHANGED <<kind, row, stored, attempts, sends, counts>>

-----------------------------------------------------------------------------
(* Doing the work *)

Ends(r, status) ==
  [row EXCEPT ![r].status = status, ![r].owner = None, ![r].live = FALSE]

\* Mutant of Settle: the status is not asked for.
SettleAnyway(r, status) == Ends(r, status)

\* Results are written to a row that is running, whoever claimed it.
Settle(r, status) == IF row[r].status = "running" THEN Ends(r, status) ELSE row

\* Failures of the worker itself (storage, malformed input) are written to the
\* row in whatever status it is.
Fail(r) == Ends(r, "failed")

Working(w, k) == worker[w].at = "work" /\ kind[worker[w].run] = k

FinishRun(w) ==
  /\ worker' = [worker EXCEPT ![w].at = "next", ![w].run = None]
  /\ UNCHANGED <<kind, lease, attempts, sends, counts>>

\* A simulation that was cancelled while it ran stops without a result.
FinishSimulation(w) ==
  /\ Working(w, "simulation")
  /\ row' \in {Settle(worker[w].run, "completed"), Settle(worker[w].run, "failed"),
               Settle(worker[w].run, "cancelled"), Fail(worker[w].run)}
  /\ FinishRun(w) /\ UNCHANGED stored

FinishReplay(w) ==
  /\ Working(w, "replay")
  /\ row' \in {Settle(worker[w].run, "reproduced"), Settle(worker[w].run, "diverged"),
               Settle(worker[w].run, "failed"), Fail(worker[w].run)}
  /\ FinishRun(w) /\ UNCHANGED stored

\* The cells are unique for each run: a second set rolls the transaction back
\* and the row is left as it was. The first is kept also when the row is no
\* longer running.
SaveBenchmark(r) ==
  IF r \in stored THEN UNCHANGED <<row, stored>>
  ELSE stored' = stored \cup {r} /\ row' = Settle(r, "completed")

FinishBenchmark(w) ==
  /\ Working(w, "benchmark")
  /\ \/ SaveBenchmark(worker[w].run)
     \/ row' = Fail(worker[w].run) /\ UNCHANGED stored
  /\ FinishRun(w)

FinishExport(w) ==
  /\ Working(w, "export")
  /\ row' \in {Settle(worker[w].run, "completed"), Fail(worker[w].run)}
  /\ FinishRun(w) /\ UNCHANGED stored

\* The call of the remote side, with the delivery's id as idempotency key.
Send(w) ==
  /\ Working(w, "delivery")
  /\ sends' = [sends EXCEPT ![worker[w].run] = @ + 1]
  /\ Goes(w, "sent")
  /\ UNCHANGED <<kind, row, lease, stored, attempts, counts>>

\* A failure that may be retried backs off, or is the last one.
AfterFailure(r) ==
  [Ends(r, IF attempts[r] >= MaxAttempts - 1 THEN "dead_letter" ELSE "pending")
     EXCEPT ![r].backoff = TRUE]

Counted(w, r) == row[r].status = "pending" /\ row[r].owner = Owner[w]

\* The outcome counts only for the claim it was obtained under. A permanent or
\* an ambiguous failure is a dead letter, as is a delivery whose adapter is
\* disabled (which has not been sent).
FinishDelivery(w) ==
  LET r == worker[w].run IN
  /\ worker[w].at = "sent" \/ Working(w, "delivery")
  /\ IF Counted(w, r)
       THEN /\ attempts' = [attempts EXCEPT ![r] = @ + 1]
            /\ \/ row' = Ends(r, "dead_letter")
               \/ worker[w].at = "sent"
                  /\ row' \in {Ends(r, "published"), AfterFailure(r)}
       ELSE UNCHANGED <<row, attempts>>
  /\ worker' = [worker EXCEPT ![w].at = "next", ![w].run = None]
  /\ UNCHANGED <<kind, lease, stored, sends, counts>>

-----------------------------------------------------------------------------
(* Time and failures *)

BecomesDue(r) ==
  /\ row[r].backoff
  /\ row' = [row EXCEPT ![r].backoff = FALSE]
  /\ UNCHANGED <<kind, lease, worker, stored, attempts, sends, counts>>

\* A lease whose holder is gone runs out in time; one that runs out under its
\* holder is counted.
LeaseLapses(k) ==
  /\ lease[k] # None
  /\ LET early == \E w \in Busy(k) : Owner[w] = lease[k] IN
     /\ early => lapses < MaxLapses
     /\ lapses' = IF early THEN lapses + 1 ELSE lapses
     /\ lapsed' = IF early THEN lapsed \cup {k} ELSE lapsed
  /\ lease' = [lease EXCEPT ![k] = None]
  /\ UNCHANGED <<kind, row, worker, stored, attempts, sends, crowded, crashes,
                 retries>>

ClaimLapses(r) ==
  /\ row[r].live
  /\ LET early == \E w \in On(r) : Owner[w] = row[r].owner IN
     /\ early => lapses < MaxLapses
     /\ lapses' = IF early THEN lapses + 1 ELSE lapses
  /\ row' = [row EXCEPT ![r].live = FALSE]
  /\ UNCHANGED <<kind, lease, worker, stored, attempts, sends, lapsed, crowded,
                 crashes, retries>>

\* The process stops and comes back; leases and claims stay behind.
Crash(w) ==
  /\ worker[w].at # "idle" /\ crashes < MaxCrashes
  /\ worker' = [worker EXCEPT ![w] = Idle]
  /\ crashes' = crashes + 1
  /\ UNCHANGED <<kind, row, lease, stored, attempts, sends, lapsed, crowded,
                 lapses, retries>>

Finish(w) ==
  \/ FinishSimulation(w) \/ FinishReplay(w) \/ FinishBenchmark(w)
  \/ FinishExport(w) \/ Send(w) \/ FinishDelivery(w)

\* The worker's loop.
Step(w) ==
  \/ \E k \in Kinds : Acquire(w, k)
  \/ Reclaim(w)
  \/ Select(w)
  \/ \E r \in Runs : Claim(w, r)
  \/ Finish(w)
  \/ Done(w)

Next ==
  \/ \E r \in Runs : \/ Submit(r) \/ Cancel(r) \/ Retry(r)
                      \/ BecomesDue(r) \/ ClaimLapses(r)
  \/ \E k \in Kinds : LeaseLapses(k)
  \/ \E w \in Workers : Step(w) \/ Crash(w)

Spec == Init /\ [][Next]_vars

\* Workers keep going, and leases nobody renews and backoffs run out. An idle
\* worker that reclaims must not keep from taking a job, so it is the rest of
\* the loop that is fair.
LiveSpec ==
  /\ Spec
  /\ \A w \in Workers : WF_vars(Step(w) /\ (worker[w].at = "idle" => worker'[w].at # "idle"))
  /\ \A r \in Runs : WF_vars(ClaimLapses(r)) /\ WF_vars(BecomesDue(r))
  /\ WF_vars(\E k \in Kinds : LeaseLapses(k))

-----------------------------------------------------------------------------
(* Properties *)

HasEnded(r) == row[r].status \in EndedAs[kind[r]]

\* Rows keep to the statuses their tables allow, and the counters to their
\* bounds.
TypeOK ==
  /\ kind \in [Runs -> Kinds]
  /\ DOMAIN row = Runs
  /\ \A r \in Runs : row[r] \in Row(kind[r])
  /\ lease \in [Kinds -> Owners \cup {None}]
  /\ worker \in [Workers -> Worker]
  /\ stored \subseteq Runs /\ lapsed \subseteq Kinds /\ crowded \subseteq Kinds
  /\ attempts \in [Runs -> Nat] /\ sends \in [Runs -> Nat]
  /\ lapses \in 0..MaxLapses /\ crashes \in 0..MaxCrashes
  /\ retries \in 0..MaxRetries

\* Two workers execute the same row at once only if the lease of its job ran
\* out under one of them, or two of one name were in the job: a claim alone
\* keeps nobody away (job_lease_store.cpp:7-20, jobs.cpp:535).
OneWorkerPerRow ==
  \A r \in Runs : Cardinality(On(r)) > 1 => kind[r] \in lapsed \cup crowded

\* A run that has ended is never queued or executed again, and one that was
\* cancelled gets no result, although results and expired claims are written
\* by workers that may have read it long ago (jobs.cpp:68-77, 549, 593, 673).
\* Only a failure of the worker itself may still be written over its end.
EndedRunsStayEnded ==
  [][\A r \in Runs :
       kind[r] \in RunKinds /\ HasEnded(r) =>
         row'[r].status \in {row[r].status, "failed"}]_vars

CallsAreCounted(r) ==
  sends[r] <= attempts[r] + Cardinality({w \in On(r) : worker[w].at = "sent"})
                + lapses + crashes

\* A remote side is called once for each attempt the row counts, except for
\* calls under way and one for every lease that ran out or worker that
\* stopped, unless two workers of one name published at once; and no delivery
\* is attempted more often than allowed unless an operator puts it back
\* (jobs.cpp:461-501).
AttemptsAreCounted ==
  \A r \in Runs :
    /\ kind[r] \notin crowded => CallsAreCounted(r)
    /\ attempts[r] <= MaxAttempts + retries

\* Every simulation, replay, export and delivery comes to an end, through
\* crashes, lapsed leases and retries.
WorkIsFinished ==
  \A r \in Runs :
    row[r].status \in {"queued", "pending"} /\ kind[r] # "benchmark"
      ~> HasEnded(r)

\* Every benchmark comes to an end: "Jobs resume after abandoned leases
\* without duplicate side effects" (.agent/rules/jobs_rules.md:4).
BenchmarksAreFinished ==
  \A r \in Runs :
    row[r].status = "queued" /\ kind[r] = "benchmark" ~> HasEnded(r)
=============================================================================
