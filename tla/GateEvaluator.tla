---------------------------- MODULE GateEvaluator ----------------------------
(***************************************************************************)
(* The decision on a stage from the counts of its devices and a policy's  *)
(* thresholds. Ratios are in ten-thousandths; their products are exact    *)
(* here, where the code rounds doubles.                                   *)
(***************************************************************************)
EXTENDS Integers

CONSTANTS
  Assigned,  \* how many devices are assigned
  Rates,     \* numbers policies give for the rate of each gate, in hundredths
  CrashFree, \* rates of crash-free devices, in hundredths of a percent
  MaxFailures  \* how many devices fail of each kind, at most

\* A policy's numbers are from 0 to 100, here in hundredths (policyValidationError).
ASSUME GateAssumption ==
  /\ Assigned \subseteq Nat
  /\ \A rate \in Rates.fresh \cup Rates.install \cup Rates.health \cup Rates.convergence
                   \cup Rates.offline \cup Rates.rollback \cup CrashFree :
       rate \in Nat /\ rate <= 10000
  /\ MaxFailures \in [install : Nat, health : Nat, rollback : Nat]

VARIABLES metrics, policy, decision

gateVars == <<metrics, policy, decision>>

Lesser(a, b) == IF a <= b THEN a ELSE b
Greater(a, b) == IF a >= b THEN a ELSE b

\* A number above one is a percentage.
PolicyRatio(hundredths) ==
  IF hundredths > 100 THEN hundredths ELSE 100 * hundredths

\* Five times the rate that pauses rolls back, and no less than the default.
RollbackRate(pause, default) == Greater(default, Lesser(10000, 5 * pause))

Thresholds(p) ==
  [freshCoverage |-> PolicyRatio(p.fresh),
   installPause |-> PolicyRatio(p.install),
   installRollback |-> RollbackRate(PolicyRatio(p.install), 500),
   crashPause |-> p.crashFree, crashRollback |-> 9700,
   healthPause |-> PolicyRatio(p.health),
   healthRollback |-> RollbackRate(PolicyRatio(p.health), 1000),
   convergence |-> PolicyRatio(p.convergence), offline |-> PolicyRatio(p.offline),
   rollbackFailure |-> PolicyRatio(p.rollback)]

\* More failures than the share rounded down; fewer than the share rounded up.
Exceeds(failures, n, rate) == n > 0 /\ failures > (rate * n) \div 10000
Short(count, n, rate) == count < (rate * n + 9999) \div 10000

FailedGates(m, t) ==
  {g \in {"fresh_device_coverage"} :
     m.assigned = 0 \/ Short(m.fresh, m.assigned, t.freshCoverage)}
  \cup {g \in {"install_failure_rate"} :
          Exceeds(m.installFailures, m.assigned, t.installPause)}
  \cup {g \in {"health_failure_rate"} :
          Exceeds(m.healthFailures, m.assigned, t.healthPause)}
  \cup {g \in {"crash_free_rate"} : m.crashFree < t.crashPause}
  \cup {g \in {"convergence_rate"} :
          m.assigned > 0 /\ Short(m.converged, m.assigned, t.convergence)}
  \cup {g \in {"offline_fraction"} : Exceeds(m.offline, m.assigned, t.offline)}
  \cup {g \in {"rollback_failure_rate"} :
          Exceeds(m.rollbackFailures, m.assigned, t.rollbackFailure)}

RollsBack(m, t) ==
  \/ Exceeds(m.installFailures, m.assigned, t.installRollback)
  \/ m.crashFree < t.crashRollback
  \/ Exceeds(m.healthFailures, m.assigned, t.healthRollback)
  \/ Exceeds(m.rollbackFailures, m.assigned, t.rollbackFailure)

\* Mutant of Pauses: health failures only ever roll back.
PausesButHealth(m, t) ==
  \/ Exceeds(m.installFailures, m.assigned, t.installPause)
  \/ m.crashFree < t.crashPause
  \/ Exceeds(m.offline, m.assigned, t.offline)
  \/ Short(m.converged, m.assigned, t.convergence)

Pauses(m, t) ==
  \/ Exceeds(m.installFailures, m.assigned, t.installPause)
  \/ m.crashFree < t.crashPause
  \/ Exceeds(m.healthFailures, m.assigned, t.healthPause)
  \/ Exceeds(m.offline, m.assigned, t.offline)
  \/ Short(m.converged, m.assigned, t.convergence)

Evaluate(m, t) ==
  IF m.assigned = 0 THEN "insufficient_evidence"
  ELSE IF RollsBack(m, t) THEN "rollback"
  ELSE IF Pauses(m, t) THEN "pause"
  ELSE IF Short(m.fresh, m.assigned, t.freshCoverage) THEN "insufficient_evidence"
  ELSE "pass"

\* Evidence of another system that is required and missing leaves the decision
\* open.
Decide(m, t) == IF m.iotReady THEN Evaluate(m, t) ELSE "insufficient_evidence"

\* What the queries count: a failed rollback is one of the failed installs, and
\* a device that was never seen is offline, and neither fresh nor settled.
Metrics ==
  UNION {{m \in [assigned: {n}, fresh: 0..n, converged: 0..n, offline: 0..n,
                 installFailures: 0..Lesser(n, MaxFailures.install),
                 healthFailures: 0..Lesser(n, MaxFailures.health),
                 rollbackFailures: 0..Lesser(n, MaxFailures.rollback),
                 crashFree: CrashFree, iotReady: BOOLEAN] :
            /\ m.installFailures + m.converged + m.offline <= n
            /\ m.rollbackFailures <= m.installFailures
            /\ m.fresh + m.offline <= n} : n \in Assigned}

\* A gate a policy does not give has its default, one of the numbers as well.
Policies ==
  [fresh: Rates.fresh, install: Rates.install, health: Rates.health,
   convergence: Rates.convergence, offline: Rates.offline,
   rollback: Rates.rollback, crashFree: CrashFree]

GateInit ==
  /\ metrics \in Metrics /\ policy \in Policies /\ decision = "none"

GateNext ==
  /\ decision = "none" /\ decision' = Decide(metrics, Thresholds(policy))
  /\ UNCHANGED <<metrics, policy>>

GateSpec == GateInit /\ [][GateNext]_gateVars

-----------------------------------------------------------------------------
(* Properties *)

Severity == [pass |-> 0, insufficient_evidence |-> 1, pause |-> 2, rollback |-> 3]

\* A stage passes exactly when its evidence is there and none of its gates
\* failed, for every policy whose crash-free rate is not below the rate that
\* rolls back; the two are computed apart (safety.cpp:310-333).
Explained ==
  decision # "none" /\ policy.crashFree >= 9700 =>
    ((decision = "pass")
       <=> metrics.iotReady /\ FailedGates(metrics, Thresholds(policy)) = {})

\* Were one more of the devices to fail its health check, to fail its install
\* or to be offline, the decision would not be milder.
Worse(m) ==
  {w \in {[m EXCEPT !.healthFailures = @ + 1],
          [m EXCEPT !.installFailures = @ + 1, !.converged = @ - 1],
          [m EXCEPT !.offline = @ + 1, !.fresh = @ - 1]} :
     w.fresh >= 0 /\ w.converged >= 0 /\ w.healthFailures <= m.assigned}

Monotone ==
  decision # "none" =>
    \A w \in Worse(metrics) :
      Severity[Decide(w, Thresholds(policy))] >= Severity[decision]

\* A decision says what its gates say, and never gets milder as a device fails
\* (safety.cpp:290-345).
DecisionsAreSound == Explained /\ Monotone
=============================================================================
