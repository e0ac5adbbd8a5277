---------------------------- MODULE Integrations ----------------------------
(***************************************************************************)
(* The row of one adapter (IoT readings, notifications or workflows), the *)
(* pollers that read from an IoT adapter, and one delivery to a workflow  *)
(* adapter with the observers that follow what it started. Pollers and    *)
(* observers take no lease: each process runs its own, and the remote     *)
(* side answers between what they read and what they write.               *)
(* WorkQueues.tla has the workers that make the deliveries.               *)
(***************************************************************************)
EXTENDS Integers

CONSTANTS
  Readings,     \* what an IoT adapter may send
  Pollers,      \* processes that poll and observe
  MaxConfigs,   \* bound: times the adapter is configured
  MaxAttempts,  \* attempts after which a delivery is a dead letter (5)
  MaxPutBack    \* bound: times an operator puts the delivery back

AdapterType == {"iot_rest_v1", "notification_hub_v1", "workflow_manual_v1"}
Health == {"disabled", "healthy", "degraded", "unhealthy"}
Unfinished == {"none", "running"}
Terminal == {"completed", "failed", "cancelled"}

VARIABLES
  adapter,    \* which adapter this is
  config,     \* its row in integration_configs
  controlled, \* a release is running, paused, scheduled or awaits approval
  samples,    \* readings in health_samples
  poller,     \* "idle", or what each process waits for or is to write
  delivery,   \* a row of outbox_deliveries
  remote,     \* the execution the remote side has started for it
  evidence,   \* outcomes the chain of evidence tells of
  notices,    \* outcomes operators were told of
  configs, putBack,
  tested,     \* history: the present configuration was tested
  overtaken,  \* history: it was made while a poll was under way
  timedOut    \* history: a call timed out that the remote side may have served

integrationVars == <<adapter, config, controlled, samples, poller, delivery,
                     remote, evidence, notices, configs, putBack, tested,
                     overtaken, timedOut>>
iotVars == <<samples>>
workflowVars == <<delivery, remote, evidence, notices, putBack, timedOut>>

NotConfigured == [present |-> FALSE, enabled |-> FALSE, health |-> "disabled",
                  required |-> FALSE, fixture |-> TRUE, endpoint |-> FALSE]

IntegrationInit ==
  /\ adapter \in AdapterType /\ config = NotConfigured
  /\ controlled \in BOOLEAN /\ samples = {}
  /\ poller = [p \in Pollers |-> "idle"]
  /\ delivery = [status |-> "pending", attempts |-> 0, external |-> "none",
                 atOnce |-> FALSE]
  /\ remote = "none" /\ evidence = {} /\ notices = {}
  /\ configs = 0 /\ putBack = 0
  /\ tested = FALSE /\ overtaken = FALSE /\ timedOut = FALSE

-----------------------------------------------------------------------------
(* The row *)

\* Mutant of Configure: the health of the configuration before stays.
ConfigureKeepsHealth(required, fixture, endpoint) ==
  /\ configs < MaxConfigs /\ configs' = configs + 1
  /\ fixture \/ endpoint
  /\ config' = [present |-> TRUE, enabled |-> FALSE, health |-> config.health,
                required |-> required, fixture |-> fixture, endpoint |-> endpoint]
  /\ tested' = FALSE /\ overtaken' = (\E p \in Pollers : poller[p] # "idle")
  /\ UNCHANGED <<adapter, controlled, poller, iotVars, workflowVars>>

\* Configuring always disables. A live adapter needs an endpoint, a fixture
\* may have one.
Configure(required, fixture, endpoint) ==
  /\ configs < MaxConfigs /\ configs' = configs + 1
  /\ fixture \/ endpoint
  /\ config' = [present |-> TRUE, enabled |-> FALSE, health |-> "disabled",
                required |-> required, fixture |-> fixture, endpoint |-> endpoint]
  /\ tested' = FALSE /\ overtaken' = (\E p \in Pollers : poller[p] # "idle")
  /\ UNCHANGED <<adapter, controlled, poller, iotVars, workflowVars>>

\* The settings are not among the columns the test reads, so it never calls
\* the remote side; it is refused without an endpoint.
Test ==
  /\ config.present /\ config.endpoint
  /\ config' = [config EXCEPT !.health = "healthy"]
  /\ tested' = TRUE
  /\ UNCHANGED <<adapter, controlled, poller, iotVars, workflowVars, configs, overtaken>>

Enable ==
  /\ config.present /\ config.health = "healthy"
  /\ config' = [config EXCEPT !.enabled = TRUE, !.health = "healthy"]
  /\ UNCHANGED <<adapter, controlled, poller, iotVars, workflowVars, configs, tested, overtaken>>

Disable ==
  /\ config.present /\ ~(config.required /\ controlled)
  /\ config' = [config EXCEPT !.enabled = FALSE, !.health = "disabled"]
  /\ UNCHANGED <<adapter, controlled, poller, iotVars, workflowVars, configs, tested, overtaken>>

\* Releases come and go; ReleaseControl.tla has their status.
ReleasesChange ==
  /\ controlled' = ~controlled
  /\ UNCHANGED <<adapter, config, poller, iotVars, workflowVars, configs, tested, overtaken>>

Ails == config' = [config EXCEPT !.health = "unhealthy"]

-----------------------------------------------------------------------------
(* Polling *)

PollBegins(p) ==
  /\ adapter = "iot_rest_v1" /\ config.enabled /\ poller[p] = "idle"
  /\ poller' = [poller EXCEPT ![p] = IF config.fixture THEN "fixture" ELSE "live"]
  /\ UNCHANGED <<adapter, config, controlled, iotVars, workflowVars, configs, tested, overtaken>>

Polled(p) == poller[p] \in {"fixture", "live"} /\ poller' = [poller EXCEPT ![p] = "idle"]

\* Nothing is kept, and the row says so whatever has become of it.
NoReadings(p) ==
  /\ Polled(p) /\ Ails
  /\ UNCHANGED <<adapter, controlled, iotVars, workflowVars, configs, tested, overtaken>>

\* The remote side does not answer, refuses, or sends something else.
PollIsRefused(p) == poller[p] = "live" /\ NoReadings(p)

\* One reading that is malformed spoils them all.
PollIsMalformed(p) == NoReadings(p)

\* Readings of devices whose assignment is open are kept, each once; only a
\* new one that is stale degrades the adapter. The row is healthy again
\* whatever has become of it.
PollStores(p, read, stale) ==
  /\ Polled(p)
  /\ samples' = samples \cup read
  /\ config' = [config EXCEPT !.health =
                  IF (read \ samples) \cap stale = {} THEN "healthy" ELSE "degraded"]
  /\ UNCHANGED <<adapter, controlled, workflowVars, configs, tested, overtaken>>

\* The transaction fails, or another process has stored one of the readings.
PollIsLost(p) ==
  /\ Polled(p)
  /\ UNCHANGED <<adapter, config, controlled, iotVars, workflowVars, configs, tested, overtaken>>

-----------------------------------------------------------------------------
(* Delivering *)

\* What a call comes to, for a fixture and for a live adapter: a 2xx with what
\* a workflow needs, an answer that will not change, one that may, or none in
\* time. Without a secret or an endpoint nothing is called.
Calls == IF config.fixture THEN {"published", "permanent", "retryable", "ambiguous"}
                           ELSE {"published", "permanent", "retryable", "timeout"}

\* A timeout is a transport failure as any other.
Disposition(call) ==
  IF call = "timeout" THEN "retryable"
  ELSE IF call = "ambiguous" THEN "permanent" ELSE call

\* The row after an attempt whose call ended so; started is the execution.
Attempted(disposition, started) ==
  [delivery EXCEPT
     !.attempts = @ + 1,
     !.status = IF disposition = "published" THEN "published"
                ELSE IF disposition = "permanent" \/ delivery.attempts >= MaxAttempts - 1
                  THEN "dead_letter" ELSE "pending",
     !.external = IF disposition = "published" THEN started ELSE @,
     !.atOnce = IF disposition = "published" THEN started \in Terminal ELSE @]

\* The delivery's id is the idempotency key: the remote side starts one
\* execution for it, also where its answer is lost, and answers with that.
\* (A notification starts nothing.)
Deliver(call, started) ==
  /\ adapter = "workflow_manual_v1" /\ config.enabled
  /\ delivery.status = "pending" /\ call \in Calls
  /\ remote # "none" => started = remote
  /\ delivery' = Attempted(Disposition(call), started)
  /\ remote' \in IF call = "published" THEN {started} ELSE {remote, started}
  /\ timedOut' = (timedOut \/ call = "timeout")
  /\ UNCHANGED <<adapter, config, controlled, poller, iotVars, evidence, notices,
                 configs, putBack, tested, overtaken>>

\* A delivery of an adapter that is disabled is a dead letter at once.
Refuse ==
  /\ adapter = "workflow_manual_v1" /\ ~config.enabled
  /\ delivery.status = "pending"
  /\ delivery' = Attempted("permanent", "none")
  /\ UNCHANGED <<adapter, config, controlled, poller, iotVars, remote, evidence,
                 notices, timedOut, configs, putBack, tested, overtaken>>

\* The count of attempts and the outcome of the last one stay.
PutBack ==
  /\ putBack < MaxPutBack /\ putBack' = putBack + 1
  /\ adapter = "workflow_manual_v1"
  /\ delivery' = [delivery EXCEPT !.status = "pending"]
  /\ UNCHANGED <<adapter, config, controlled, poller, iotVars, remote, evidence,
                 notices, timedOut, configs, tested, overtaken>>

\* External: the execution ends.
RemoteEnds(status) ==
  /\ remote = "running" /\ remote' = status
  /\ UNCHANGED <<adapter, config, controlled, poller, iotVars, delivery, evidence,
                 notices, timedOut, configs, putBack, tested, overtaken>>

-----------------------------------------------------------------------------
(* Observing *)

Observable == delivery.status = "published" /\ delivery.external \in Unfinished

\* What an observer is told: by the settings of a fixture, or by the remote side.
Told == IF config.fixture THEN Terminal \cup {"running"} ELSE {remote}

Observe(p) ==
  /\ adapter = "workflow_manual_v1" /\ poller[p] = "idle" /\ Observable
  /\ \E status \in Told \cap Terminal : poller' = [poller EXCEPT ![p] = status]
  /\ UNCHANGED <<adapter, config, controlled, iotVars, workflowVars, configs, tested, overtaken>>

\* The row of the adapter says so, whatever has become of it.
ObserveFails ==
  /\ adapter = "workflow_manual_v1" /\ Observable /\ ~config.fixture
  /\ Ails
  /\ UNCHANGED <<adapter, controlled, poller, iotVars, workflowVars, configs, tested, overtaken>>

\* Mutant of ObserverStores: the row is written before its evidence.
ObserverStoresFirst(p) ==
  /\ poller[p] \in Terminal /\ poller' = [poller EXCEPT ![p] = "idle"]
  /\ delivery' = IF Observable THEN [delivery EXCEPT !.external = poller[p]] ELSE delivery
  /\ \/ /\ evidence' = evidence \cup {poller[p]}
        /\ notices' = notices \cup ({poller[p]} \ {"completed"})
     \/ UNCHANGED <<evidence, notices>>
  /\ UNCHANGED <<adapter, config, controlled, iotVars, remote, timedOut, configs,
                 putBack, tested, overtaken>>

\* In one transaction, which tells of the outcome also when the UPDATE finds
\* no row to change.
ObserverStores(p) ==
  /\ poller[p] \in Terminal /\ poller' = [poller EXCEPT ![p] = "idle"]
  /\ \/ /\ delivery' = IF Observable THEN [delivery EXCEPT !.external = poller[p]] ELSE delivery
        /\ evidence' = evidence \cup {poller[p]}
        /\ notices' = notices \cup ({poller[p]} \ {"completed"})
     \/ UNCHANGED <<delivery, evidence, notices>>
  /\ UNCHANGED <<adapter, config, controlled, iotVars, remote, timedOut, configs,
                 putBack, tested, overtaken>>

IntegrationNext ==
  \/ \E required, fixture, endpoint \in BOOLEAN : Configure(required, fixture, endpoint)
  \/ Test \/ Enable \/ Disable \/ ReleasesChange
  \/ \E p \in Pollers :
       \/ PollBegins(p) \/ PollIsRefused(p) \/ PollIsMalformed(p) \/ PollIsLost(p)
       \/ \E read, stale \in SUBSET Readings : PollStores(p, read, stale)
       \/ Observe(p) \/ ObserverStores(p)
  \/ \E call \in {"published", "permanent", "retryable", "ambiguous", "timeout"},
        started \in Terminal \cup {"running"} : Deliver(call, started)
  \/ Refuse \/ PutBack \/ ObserveFails
  \/ \E status \in Terminal : RemoteEnds(status)

IntegrationSpec == IntegrationInit /\ [][IntegrationNext]_integrationVars

-----------------------------------------------------------------------------
(* Properties *)

\* Unless a poll that was under way when it was configured has marked the row
\* healthy, an adapter is enabled only after a test of its configuration
\* (control_plane.cpp:1283, 1322, jobs.cpp:451).
EnabledWasTested == config.enabled => tested \/ overtaken

\* An outcome an observer has written is in the evidence, and a bad one was
\* told to the operators: once written it is not observed again
\* (jobs.cpp:498, 514-524). What the remote side answers at once is not
\* observed at all.
OutcomesAreEvidenced ==
  delivery.status = "published" /\ delivery.external \in Terminal /\ ~delivery.atOnce =>
    /\ delivery.external \in evidence
    /\ delivery.external # "completed" => delivery.external \in notices

\* Said of the program by .agent/rules/jobs_rules.md:8 ("Workflow timeout
\* after possible delivery becomes AMBIGUOUS_DELIVERY; do not trigger again
\* automatically").
TimeoutsAreNotRepeated == timedOut /\ putBack = 0 => delivery.status # "pending"
=============================================================================
