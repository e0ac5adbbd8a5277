# Verification of the rollout safety control plane

The program releases firmware to fleets of edge devices. Operators prepare a
release, ask for approvals and control it; a worker starts scheduled releases,
judges each stage from health samples and promotes, pauses or rolls back;
devices poll for the command that concerns them and report what became of it.
Around this core stand queues of work, a chain of evidence, integrations with
other systems, and a small web server. This directory holds TLA+ models of that
control plane, the TLC runs that check them on small instances, and TLAPS proofs
of what the core does for every instance.

Source paths below are relative to the repository's root; `control_plane.cpp`
and `jobs.cpp` are in `src/application/`.

## 1. Inventory

### Components

| Component | Where | State it keeps | Operations | Module |
|---|---|---|---|---|
| Release state machine | `src/domain/safety.cpp:248-272` | none (a table) | `transition(state, action)` | `ReleaseStateMachine`, `ReleaseLifecycle` |
| Release control | `control_plane.cpp:1186-1261, 1347-1658`, `jobs.cpp:117-393` | `releases`, `release_stages`, `approval_requests`, `health_gate_evaluations`, the trust of artifacts and keys | validate, submit, approve, schedule, start, cancel, pause, resume, abort, rollback, gate evaluation and override; approve and reject; sweep of approvals; scheduled starter; gate job; key compromise and retirement | `ReleaseControl` |
| Device rollout | `control_plane.cpp:1606-1647, 1724-1874, 257-277`, `jobs.cpp:117-173, 228-239` | `release_assignments`, `rollout_commands`, `devices`, `device_reports` | expose a stage, roll back, abort, expire commands, desired-state poll, report | `DeviceRollout`, `AssignmentLifecycle` |
| Leases, queues, outbox | `src/shared/job_lease_store.cpp`, `jobs.cpp:68-77, 461-495, 530-730` | `job_leases`, four run tables, `outbox_deliveries` | submit, cancel, retry; acquire, reclaim, select, claim, execute, end, release; lapse, crash | `WorkQueues` |
| Request handling | `control_plane.cpp:564-601, 712-739` | `idempotency_records`, rate window, open transactions | count, look up, run the route, record, evidence, outbox, commit or fail; sweep | `Requests` |
| Evidence chain | `src/infrastructure/*_storage.cpp`, `jobs.cpp:247-256, 563-601, 672-702`, `src/domain/replay.cpp` | `evidence_events`, `evidence_checkpoints`, one export or replay | append, verify, checkpoint, export, replay | `EvidenceChain` |
| Device credentials | `control_plane.cpp:451-477, 1077-1094, 1853-1872` | `device_credentials`, the key version of a device | rotate, acknowledge, expire, authenticate | `DeviceCredentials` |
| Operators' access | `control_plane.cpp:479-523, 669-684, 818-849` | `operator_credentials`, `browser_sessions` | let in by key or cookie, open and close sessions, create, rotate and revoke keys | `OperatorAccess` |
| Artifact store | `control_plane.cpp:913-1006`, `src/domain/artifact.cpp:75-91`, `jobs.cpp:258-269` | `artifacts`, the files named by digest, temporary files | upload, revalidate, retire, sweep | `ArtifactStore` |
| Downloads | `control_plane.cpp:1017-1044, 1747-1781`, `src/web/http_server.cpp:234-266` | none | range of a file | `ByteRanges` |
| Cohort planner | `safety.cpp:159-228` | none | strata, stages | `CohortPlanner` |
| Gate evaluator | `safety.cpp:278-333`, `control_plane.cpp:1464-1516` | none | rates against thresholds, a decision | `GateEvaluator` |
| Integrations | `control_plane.cpp:1264-1341`, `jobs.cpp:414-528`, `src/infrastructure/integrations.cpp` | `integration_configs`, `health_samples`, a delivery's execution | configure, test, enable, disable; poll; deliver; observe | `Integrations` |
| HTTP client pool | `src/shared/http_client_pool.cpp` | permits, a client for each origin | request, return, close | `HttpClientPool` |
| Web server | `src/web/http_server.cpp` | the socket, connection threads, spool files | start, stop, serve | `HttpServer` |
| Simulator, benchmark arithmetic, export formats, configuration, console | see `PROJECT.json` | - | deterministic functions, formats and I/O | no |

### How the parts interact

Everything goes through one database. Within a process one connection and one
mutex serialise it, so the transaction of an HTTP mutation is atomic for the
tables it writes; two processes on PostgreSQL interleave statement by statement,
except where a unique key collides or an append holds the chain (`Requests`). A
worker thread runs beside the server (and may run as a process of its own): its
jobs read outside of any transaction, compute, and then commit, guarded by
`UPDATE releases ... WHERE version = ?` or by nothing but a lease. Hence each job
is a *read* action and a *commit* action with anything in between.

Operators reach devices only through rows: a control writes assignments and
commands in the transaction that changes the release, a device finds them at its
next poll, and its report, which may be late, repeated or overtaken by a later
one, may in turn settle the release. A mutation that is accepted appends evidence
and, with it, a delivery for each adapter that is enabled; workers make the
deliveries and observers follow what a delivery started.

### What is hard, and what makes each part correct

* *Release control.* Stale reads of jobs; approvals decided after the release
  moved; approvals spent twice; one person doing the work of two; stages out of
  order; an artifact that lost its trust; requests that block the next one; a
  scheduled release nobody starts.
* *Device rollout.* Reports against generations, two releases on one device,
  rollbacks that must reach every exposed device, commands that expire, releases
  that end, and aborts and rollbacks that are sent again.
* *Leases and queues.* A claim is an UPDATE that succeeds whatever rows it
  changes; a lease is held by a name, which all servers bear alike; leases run
  out under their holders; workers stop anywhere; runs are cancelled and
  reclaimed while they are executed.
* *Requests and evidence.* Two requests under one key, effects of a request that
  fails or is refused half-way, events and deliveries without their effect, a
  chain two processes append to, a chain altered around an export.
* *Credentials and access.* A device locked out by a rotation that is repeated,
  broken off or acknowledged twice; access that outlives its key.
* *Artifacts.* Uploads that stop anywhere and share a file.
* *Planner and gates.* Shares and thresholds at their boundaries.
* *Integrations.* Polls and configuration that overtake each other, calls that
  time out after they were served, outcomes that are never told.
* *Downloads.* Ends beyond the file, counts that wrap around.
* *Pool and server.* Lost wake-ups, a stop at any moment. (Every pool of the
  program belongs to one job run or one request, `jobs.cpp:422, 464, 499`, so
  that no two threads meet in one at present; what the pool promises if they do
  is checked, and no hazard is listed for it.)

The full list, line by line and with the property that would notice, is under
`hazards` in `PROJECT.json`.

## 2. Modules and the code

**`ReleaseStateMachine`** is the table of `transition()` as a set of edges.

**`ReleaseLifecycle`** is the abstract specification: the status of a release
and the steps it may take - an edge of the table, validation in one step, and
the settling of a failed rollback. `ReleaseControl` implements it
(`FollowsLifecycle`), which matters because several writers name the next status
themselves instead of asking `transition()`.

**`ReleaseControl`** is one release. `status`, `version`, `cursor`, `stages`,
`requests` and `evaluations` are columns of its tables; `ready` and `keys` are
the trust of the target and of the rollback artifact; `job` is what each worker
has read. Operators' routes are one action each, divided where approval is
needed into asking (`RequestControl`) and doing (`Control`). `StarterReads` /
`StarterCommits` and `GateReads` / `GateCommit` are the jobs; `JobGivesUp` is
every way a commit fails; `Executed` is the state an approval writes, which is
not always the one the table gives. A gate decision is chosen freely: the
properties hold whatever the samples say. `BecomesDue`, `WindowEnds` and
`RequestLapses` are time passing.

**`DeviceRollout`** is several releases over one cohort. `Issue` writes the
assignment, the device's desired generation and the command, as the code does
device by device within a transaction. `Available` is the query of the
desired-state poll; `Receive` is a report from its signature check on, with the
projection, the assignment it counts for and the settling of the release.
`Lapse` lets the seven days of a command pass. Abort and rollback are actions of
two kinds. A release whose policy asks for no second person (`r \notin TwoPerson`)
is moved by the route to the state the table gives, so a second abort ends one
that is aborting and a second rollback one that is rolling back (`Abort`,
`Rollback`); otherwise an approval writes "aborting" or "rolling_back" whenever the
table allows the action, in those states too (`ApproveAbort`, `ApproveRollback`).
Each call, the first or a repeated one, calls off or takes back the devices its
own list of states finds. The device is not in the
repository: `Acknowledge`, `Succeed`, `Fail`, `Observe` and `Restart` are how
the protocol expects one to behave.

**`AssignmentLifecycle`** is the abstract specification of one row of
`release_assignments`, one device's part in one release: it is exposed at most
once; it is taken back any number of times, under a greater generation each time,
and never exposed again; while it is awaited it may be answered, stranded or, if
it is an install, called off; and what was called off or has rolled back is not
reopened by an answer or a command. `DeviceRollout` implements it for
every release `r` and device `d`, through the instance `Life(r, d)` with the
columns of that assignment as its variables. The several releases share the
device, its generations and its reports, and a report counts for an assignment
found by state and not for the one it names, so that the assignments are anything
but independent; the property says that each nevertheless looks as if it were
alone. `FollowsAssignmentLifecycle` is written with the abstract `Init` and `Step`
of all assignments because TLC does not check a temporal formula under a
quantifier; it says the same as `\A r, d : Life(r, d)!Spec`.

`ReleaseControl` and `DeviceRollout` both extend `ReleaseStateMachine`. They
split the same routes at the assignment table: the first says when a release
starts, advances and ends and forgets devices, the second lets those steps
happen whenever the state machine allows and follows the devices. Both take every
edge of the table a route can take, also those that repeat an abort or a rollback,
and write what the code writes. Behaviours of the routes are therefore behaviours
of each module, up to its bounds, and a safety property of `DeviceRollout` needs
nothing of the control's guards; it may need to know who controls a release, which
is what `TwoPerson` says.

**`WorkQueues`** has rows of the five queues (`kind` says which), the lease of
each kind of job, and workers. A worker goes through the loop of
`WorkerCoordinator::runOnce` one statement at a time: it acquires a lease,
reclaims, selects a batch, claims and executes row after row, and releases.
`MayHold`, `Claimable` and `Settle` are the WHERE clauses; an UPDATE that finds
no row still succeeds. A lease is held under the worker's `Owner`, a name others
may bear: all servers are "serve-worker" and all command-line workers "cli-worker"
(`main.cpp:324, 341`). `crowded` remembers the jobs two workers of one name were in
at once. `LeaseLapses`, `ClaimLapses` and `Crash` may happen to a
worker in the middle of a job. `sends` counts calls of a remote side, which the
row itself does not know.

**`EvidenceChain`** is the chain of one tenant. A hash is the value of what it
is computed from, so that verification is what the code computes: each event
links to the one before, and contains what it says it does. `Alter` is someone
editing the database. **`Requests`** extends it and appends to it: a mutating
request counts against its window, looks up its key outside of the transaction,
and then runs the route, records the answer, adds the evidence and the outbox,
and commits, each an action; `Fail` is a failing statement, a serialisation
conflict or the end of the process at any of them. A request may be refused after
its inner transaction wrote something (`Dispatch`, "partial"): the transaction
around it commits that, and `leftovers` counts it.

**`DeviceCredentials`, `OperatorAccess`, `ArtifactStore`, `Integrations`,
`HttpClientPool`, `HttpServer`** are protocols of their own, one module each;
their headers say who the actors are. **`CohortPlanner`** is
`CohortPlanner::plan` with its loops as steps: `PlanStage` begins a stage with
everybody's share rounded down, `GiveOne` is one turn of the loop that hands out
what rounding took, and `MemberStage` is the stage the plan then gives a member.
**`GateEvaluator`, `ByteRanges`** are functions: a behaviour takes one input and
computes its answer, and the property holds the answer against a definition that
is written independently of the code. `GateEvaluator` computes in
ten-thousandths where the code rounds doubles. `ByteRanges` has both routes of a
download: the operators' bounds what it sends by the file, the devices' only
what it names, and refuses an empty file with 503; `Word` is the number of
values of the integers that are added up (2^64), so that sums wrap around as
they do there.

`MCReleaseControl`, `MCDeviceRollout`, `MCWorkQueues`, `MCRequests` and
`MCComponents` name the small instances. `MCComponents` composes the nine
modules of the last paragraph. They share no rows, so a behaviour follows one of
them, chosen by `part`, and the others wait: interleaving their steps would only
multiply the states.

**Mutants.** Definitions whose comment begins "Mutant of" are never used by the
specifications. Each is a plausible bug of the definition it names, kept to show
that the property listed with it in `PROJECT.json` would notice.

## 3. Runs

| Run | Instance | Shows |
|---|---|---|
| `approvals` | 1 worker, 1 request, 2 operators, 1 stage, two-person, both artifacts, version <= 8 | approvals: two people, spent once, in the context they were asked for, swept when stale; no untrusted rollback; blocked is for good |
| `stages` | 2 workers, 2 stages, no two-person policy, the trust of the rollback artifact changing (the target's is looked at where the rollback's is, and nowhere else), version <= 7 | stages in order; jobs act on what is current; promotion on fresh evidence; the lifecycle is implemented; due releases start |
| `waves` | 1 two-person release, 2 devices, 50 % then 100 %, devices quarantined at any time, 2 reports each, 2 generations | commands behind every assignment; quiet ends; blast radius |
| `overlap` | 2 releases, one of them two-person, on 1 device, which is decommissioned and comes back, 2 reports, 1 expiry, 4 generations | types; unique generations; no false convergence; the newest report wins; quiet ends under two-person control; rollback reaches all; every assignment follows its own lifecycle |
| `work` | 1 row of any kind, 3 workers, two of one name, 2 early lapses, 1 crash, 1 retry, 2 attempts | one worker for a row while the lease lasts and names differ; calls are counted; ends stand; work is finished |
| `requests` | 2 requests, 2 keys, 2 bodies, 1 adapter, a window of 1, 1 sweep, 4 events, 1 alteration | at most once; equal answers; effects and evidence go together; verification and exports are exact |
| `parts` | see `Components_parts.cfg` | one property for each protocol and function |

Five runs show where the program departs from what its documents and messages
say; each is expected to be violated:

| Run | Property | Said by | What happens |
|---|---|---|---|
| `schedule` | `DueReleaseStarts` | `openapi.yaml:97-98` | under two-person approval scheduling spends the approval the start needs: the release is never started |
| `commands` | `CommandsStayAvailable` | `README.md:173` | the poll does not serve the states an abort, a late failure and an expiry leave behind: cancel commands are never served, and a rollback may be withdrawn |
| `benchmark` | `BenchmarksAreFinished` | `.agent/rules/jobs_rules.md:4` | a benchmark reclaimed under its worker saves its cells without ending, and collides with them for ever |
| `validation` | `BlockedForCause` | `openapi.yaml:68` | validation holds the signature of the payload against the manifest and blocks intact artifacts |
| `timeouts` | `TimeoutsAreNotRepeated` | `.agent/rules/jobs_rules.md:8` | a live workflow call that timed out is posted again |

Some properties of passing runs promise only what the code keeps to. Where it does
not, the models do what the code does, and the property says whom it speaks of:

* `EndedIsQuiet` speaks of releases under two-person control, where no approval
  writes "aborted" or "rolled_back". Where one person controls a release, a second
  abort ends it while devices are still being called off, and a second rollback ends
  it in the transaction that sets its assignments to pending under a new generation
  (`safety.cpp:267-268`, `control_plane.cpp:1595-1599, 1628-1646`).
* No property says what a resume must be based on: the route looks for a passing
  evaluation (`control_plane.cpp:1580`), but under two-person approval, where every
  resume is requested and approved, nothing looks at one (1229-1230, 1556-1577).
* `OneWorkerPerRow` and `AttemptsAreCounted` except jobs in which two workers of one
  name met: two servers hold one lease and may call for one attempt twice, with
  nothing abandoned.
* `EffectsAreEvidenced` counts the effects of accepted requests. What a failing inner
  transaction wrote before its route answers 4xx is committed without an event
  (`sqlite_storage.cpp:132`, `control_plane.cpp:728`); `leftovers` keeps count of it,
  and `AtMostOnce` bounds it together with the effects.
* `RangesAreExact` speaks of what is sent. A device that asks beyond the end of a file
  gets no answer ("dropped"; `control_plane.cpp:1781`, `http_server.cpp:240`), and the
  length of the widest range it can ask for does not fit its integer.
* `EnabledWasTested` excepts the poll that outlasts a new configuration (the hazard at
  `jobs.cpp:451`), and `PlansAreProportional` speaks of the plan and not of which
  devices a wave takes from it.

**Bounds.** `MaxVersion` limits how often a release changes; a start, pause,
resume, rollback with an approval each take five or six versions, so 7 or 8
leave room for an interfering change. `MaxReports` limits what a device sends:
two are a failure and a result, or an acknowledgement overtaken by a result;
`MaxLapses` = 1 lets an install or a rollback command expire. `MaxGeneration` is
what makes repeated rollbacks finite: in `overlap` four generations are an
install by each release and a rollback of each, or three rollbacks of one; in
`waves` two are an install and its rollback. Two devices are the least on which
a wave, a remainder and a rounding up show; two releases the least that overlap.
In `work` rows do not influence each other except through the lease, so one row
of any kind and two workers are the least that race; the third shares the first
one's name, so that workers of one name and of two race. Two lapses take a claim and
a lease away from the same worker. In `requests` two
requests are the race of one key, and four events are two accepted mutations
with events of their own. In `parts`: four versions and two overlapping
acknowledgements, so that one can commit after a later rotation; two uploads of
the same bytes and one of others; stage plans close together and far apart over
fleets of up to 24 devices; counts of up to five devices around each threshold;
two pollers, one reading, two configurations; four threads for two permits; two
connections; files of up to five bytes in a word of 16, with offsets below, at
and beyond their ends and the greatest; three keys, two sessions, two requests.
Because a specification stops at its bounds, and much of the system may rest
anyway, the runs do not look for deadlock; each cfg says so, and what must go on
is stated as liveness or as an invariant (`NoWakeUpIsLost`, `StopsCleanly`).

**Symmetry** is used in `requests` only, over clients and bodies, which that
module never orders and for which it checks no liveness.

**Fairness.** `ReleaseControl` assumes weak fairness of the jobs (the worker's
loop in `src/cli/main.cpp:318-328` runs each of them every five seconds) and of
time (`BecomesDue`); nothing of operators, devices, gate decisions or
compromises. `WorkQueues` assumes weak fairness of each worker's loop and of the
lapse of leases and claims nobody renews and of back-offs; nothing of operators,
and crashes, early lapses and retries are bounded, which stands for "not for
ever". The idle worker's reclaiming is not counted as progress of its loop.

## 4. Proofs

TLAPS checks the following for all values of the constants. The assumptions are
those the modules state: at least one stage, a positive bound on versions, a
finite cohort with distinct ordinals, an increasing plan of percentages, finitely
many workers and threads, sizes and offsets that are natural numbers, gate values
from 0 to 100 as `policyValidationError` demands, and `None` (or `Missing`)
different from what it stands beside. None of them restricts how many workers bear a
name, or which releases ask for a second person.

*Release control* (`ReleaseControlProofs`, `ReleaseSafetyProofs`). The inductive
invariant is `TypeOK /\ ReadsAreCurrent`. `ReadsAreCurrent` says that what a job
or a request recorded together with a version still holds while the release has
that version, and that versions recorded are not ahead of it. It is what makes
the compare-and-set on the version sufficient: every action that changes what
was read also bumps the version. From it follow `SpentApprovalIsPast`,
`ApprovalActsOnWhatWasRequested` and, with three strengthenings, the rest:
`StagePhases` (which stages are pending, active and passed below, at and above
the cursor, by status) for `StagesInOrder` and `PromotionOnFreshEvidence`;
`ApprovalsHeld` (who asked for and who granted an approval differ) for
`TwoPersonControl`; `BlockedByKey` (a blocked release has a compromised key) for
`BlockedForGood`. `ControlImplementsLifecycle` maps each action to an edge or a
stutter. `NoUntrustedRollback` is an action property proved from the guards of
the three routes to `rolling_back`.

*Device rollout* (`DeviceRolloutProofs`, `DeviceSafetyProofs`). `StepKinds`
sorts the steps into fresh commands (a generation one above the device's desired
one), cancellations (which keep generations and artifacts) and answers (which
issue nothing and only move on what was in flight); the proofs distinguish these
instead of twenty actions. How the status moves is sorted likewise: `Moved` before a
release is taken back, `Retreats` for an abort or a rollback, the first or one more,
which ends the release at once only without two-person control. The types need
`CancelIsFinal`: what an abort cancels stays cancelling, of a release that is
aborting or aborted, which is why a poll never offers a cancellation - and why the
`commands` run fails. `GenerationsAreUnique` and
`AssignmentsAreCommanded` are inductive only together: a cancellation reuses the
generation of the assignment, which is unique because a command of the same
release backs it. `NewestReportWins` needs `NeverBack`: reports of a device
never go back in generation, because it is only ever offered its newest one.
`EndedIsQuiet` and `ConvergenceWasReported` are inductive with the types (and,
for the latter, with reports received having been sent). The former is a theorem
about the releases under two-person control: there a release ends only with a
report that leaves nothing awaited or called off (`ReceiveSettles`), and no action
is legal on one that has ended.

`BlastRadius` counts, so it is derived and not kept: `Confined` says that only
devices of the waves up to the present stage have an assignment, none before the
release starts, and that who was commanded has one. The waves are the devices
whose ordinals are below the stage's share of the cohort; `WavesGrow` and
`WaveSize` bound them with the arithmetic of the rounding, and the devices
commanded are a subset of one. A step can break `Confined` only if it sends
installs: `Exposes` says those go to the first wave or the next, and every other
step leaves assignments empty that are empty.

`RollbackReachesAll` is kept by `Reach`. A rollback finds its devices by the
states of their assignments, so what has to be shown is that no device slips out
of those states first: `WithinReach` says that until a release is taken back, each
device it commanded has an assignment for the release's artifact in one of them.
`CalledOff` goes on from there: what is cancelling belongs to an abort, and an
aborting release has nothing in flight, so that a repeated abort cancels nothing
and no rollback finds a cancellation.
A report could break that if it were taken for the answer to something else:
`TypesAgree` (a generation of a device is an install or a rollback, not both) and
`RollbacksGoBack` (a device is told to roll back only to the original, and says
only of that that it did) exclude it.

`AssignmentsFollowLife` is the refinement of `AssignmentLifecycle`, for any
number of releases and devices. It needs no invariant of its own but most of
those above: an install finds its devices without an assignment (`Confined`, for
the first wave); an abort finds what is in flight with the release's artifact
(`WithinReach` for the first, `CalledOff` for a repeated one); a rollback finds
devices that were commanded, have not rolled back (`Recalls`) and were not
called off (`CalledOff`); the generation it gives is greater than the one it
replaces because that one was commanded (`GenerationsAreUnique` and
`AssignmentsAreCommanded`, in `GivenBefore`); and a device answers that it
rolled back only if it was told to (`RollbacksGoBack`). One lemma for each kind
of step says what it is for the assignments it touches, and that it leaves the
others alone.

*Workers* (`WorkQueueProofs`). `Jobs` types the rows and keeps a worker on rows
of the job it took. `Crowds` says that in a job not noted in `crowded` the workers
have names of their own (`Apart`), and `HoldsLease` that a worker in the middle of a
job holds the job's lease unless that ran out under it or the job is noted;
`WorkersStayApart` follows for any names. With one server and one command at a time,
as `jobs_rules.md:4` has it for SQLite, nothing is ever noted.
`EndsAreFinal` goes through the WHERE clause of every write to a run's row.

`CallsAreAccounted` is an argument about a budget, kept for deliveries until two
workers of one name publish at once. The statement itself is not inductive: a
worker that has lost its lease may still call. `Budget` charges in advance. A
worker is at risk (`AtRisk`) when it is about to call, or has called, without
the claim that would make the outcome count: every such worker has been paid for
by the lapse or the crash that put it there, and calls and workers at risk
together stay within attempts, calls under way, lapses and crashes. A call by a
worker at risk moves it from one side of the account to the other. `Limits` is
the second half: a row that may still be claimed has attempts left.

*Requests* (`RequestProofs`). `RowIsAlone`: the row a transaction has inserted
is the only one of its key, committed or not, which is what the unique index is
for. `EffectsAreRecorded` and `AnswersAreRecorded` tie effects (and what refused
requests leave behind) and answers to the row, up to what retention has swept.
Together they are inductive and give `KeysTakeEffectOnce` and
`RepeatsAreAnsweredAlike` for any clients, keys, bodies and failures.

*Evidence* (the same module, for the whole of `Requests`, whose steps are the
only ones that append). `Intact` describes the chain without its verification:
an event that was not altered has its own hash, one that was has not, and each
links to the hash of the event before it as it was written. It says so of the
chain and of the chain as each open transaction sees it, and that only the
holder of the lock has appended anything: this is what makes a link right when
it is committed. The verification is a least broken position, so
`VerificationFindsTheFirst` follows. An event is altered at most once in the
model: a second alteration could restore the first, and then a verification that
finds nothing would be right. `Frozen` says that the snapshot of an export is
what the chain was, event by event, and still is unless something was altered; a
completed export has verified what it read against it. `Told` ties effects to
events: a transaction under way holds the event for its effect, and only that
one, and its deliveries name it, so that a commit adds one of each. A
transaction that was refused holds no such event, which is why the theorem
counts effects of accepted requests.

*Credentials* (`ComponentProofs`). A late acknowledgement can set the device's
row back to an earlier version, so no invariant over `keyVersion` alone is
inductive. `HeldLast` speaks of the last version ever acknowledged instead: the
device has it, and only a successor's acknowledgement revokes it.

*Cohort planner* (`PlannerProofs`). `PlansStayProportional` is about sums over
sequences of any length, so it needs induction. The library's induction rules
take an operator as a parameter; `SetInduction` gets around that by taking a set
of numbers and its least missing element, and `SumsExist` shows by it that the
recursion of `Sums` has a solution, from which the other lemmas on sums follow.
The invariant is `PlanTypes`, `Proportional` (each stratum between its share and
its size, stages nested, ended stages at their targets) and `FirstStage`, which
is the argument for the largest remainders: while the first stage is short of its
target, the remainders left, together, still cover what is missing (a division
with remainder, summed: `SumsDivide`), so the neediest stratum has one, has had
nothing but its share, and stays below that share rounded up. Later stages begin
from the stage before and may already be over their target; for them the code
promises only that they are not short.

*Other components* (`ComponentProofs`). One strengthening each: `Backed` (an
upload about to insert has its file), `Orderly` (what the listener's place says
of the stop and of the connections), `Tested` and `Evidenced` (a poll or an
observer in the middle of its work carries what the row will claim), and for
operators a step lemma, `AccessStep`: nobody is let in whose key had been issued
and who had nothing left.

`NoWakeUpIsLost` is inductive once threads are known to be in one of five places
(`Pooled`); its proof is the counting of two sets of threads, step by step. Note
what it does not need: that the thread woken is the next to have the mutex.
`RangesAreExact` is kept by `Exact`, which types the answer and says of one that
is to be sent that its length is that of the bytes it names or reaches beyond
the file (`Within`), in which case the server sends nothing; `SelectedIsAsked`
and `RefusedIsEmpty` compare the arithmetic of a range with what was asked for,
on both routes and for all numbers. `DecisionsAreSound` has no invariant worth
the name; its lemmas are about the operators, for all counts and for any
thresholds with no rate that rolls back below the rate that pauses (`Graded`,
which `RatesAreGraded` shows of every policy that is accepted):
`DecisionIsExplained` and `DecisionIsNoMilder`.

**Only model-checked.** Every invariant and every action property of a passing
run is a theorem. (The types of `ReleaseControl` are a theorem only.) Liveness
(`StaleRequestIsSwept`, `DueReleaseStarts`,
`WorkIsFinished`) under fairness is out of the prover's reach and is checked on
the small instances only. The five violated properties are what the runs show.

## 5. Not modelled

* The simulator's, benchmark's and replay strategies' arithmetic, the formats of
  exports and of the adapters' requests, parsing, cryptography: deterministic
  functions of their input. A signature, a hash or a secret is its meaning.
* Configuration, logging, clocks, the command line's own commands, migrations
  (one idempotent file run before anything else) and the console.
* The routes that store a validated row and start no protocol (fleets, labels,
  policies, tenants). A policy is activated within one process in one step.
* Devices' health samples: a gate decision is free in `ReleaseControl`, and its
  inputs are free counts in `GateEvaluator`.
* Operators' requests to one adapter's row take turns in `Integrations`; two
  processes on PostgreSQL could interleave the look-up of an enabling with a new
  configuration. The same holds for the first set-up of a tenant.
* HTTP framing: headers are refused or not. Ports that are taken again, and
  clients that never read, are not in `HttpServer`.
