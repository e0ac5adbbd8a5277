---------------------------- MODULE MCComponents ----------------------------
(***************************************************************************)
(* Instances for TLC of components that share no rows. A behaviour follows *)
(* one of them, chosen at the start: interleaving their steps would        *)
(* multiply the states and reach nothing new. The others wait in a state   *)
(* that is their first.                                                    *)
(***************************************************************************)
EXTENDS DeviceCredentials, ArtifactStore, CohortPlanner, GateEvaluator,
        Integrations, HttpClientPool, HttpServer, ByteRanges, OperatorAccess

CONSTANT Parts  \* the components a run looks at

VARIABLE part

vars == <<part, credentialVars, artifactVars, planVars, gateVars,
          integrationVars, poolVars, serverVars, rangeVars, accessVars>>

\* Uploads 1 and 2 bring the same bytes.
SameBytes == <<"x", "x", "y">>

\* Strata of equal and of very different sizes, and plans with stages close
\* together and far apart.
Fleets == [1..2 -> 1..6] \cup [1..3 -> {1, 3, 7}] \cup {<<1>>, <<1, 1, 11, 11>>}
Plans == {<<100>>, <<1, 5, 20, 50, 100>>, <<10, 35, 36, 100>>, <<30, 37, 100>>}

\* The gates whose values interact vary; the others keep their defaults.
GateRates ==
  [fresh |-> {80}, install |-> {1, 30, 2000}, health |-> {1, 30, 2000},
   convergence |-> {98}, offline |-> {20}, rollback |-> {5}]
FailuresOfAKind == [install |-> 4, health |-> 3, rollback |-> 1]

\* Two of the threads call the same origin.
Origins == <<"a", "a", "b", "c">>

\* A component that is not looked at stays in one of its first states.
CredentialIdle == CredentialInit
ArtifactIdle == ArtifactInit /\ signature = [u \in Uploads |-> "payload"]
PlanIdle == PlanInit /\ sizes = <<1>> /\ percentages = <<100>>
GateIdle == metrics = [assigned |-> 0] /\ policy = <<>> /\ decision = "none"
IntegrationIdle == IntegrationInit /\ adapter = "iot_rest_v1" /\ ~controlled
PoolIdle == PoolInit
ServerIdle == ServerInit /\ large = {}
AccessIdle == AccessInit
RangeIdle ==
  /\ route = "operator" /\ size = 0 /\ response = NoBytes("none")
  /\ range = [given |-> FALSE, first |-> Missing, last |-> Missing]

Init ==
  /\ part \in Parts
  /\ CredentialIdle
  /\ IF part = "artifacts" THEN ArtifactInit ELSE ArtifactIdle
  /\ IF part = "planner" THEN PlanInit ELSE PlanIdle
  /\ IF part = "gates" THEN GateInit ELSE GateIdle
  /\ IF part = "integrations" THEN IntegrationInit ELSE IntegrationIdle
  /\ PoolIdle
  /\ IF part = "server" THEN ServerInit ELSE ServerIdle
  /\ IF part = "ranges" THEN RangeInit ELSE RangeIdle
  /\ AccessIdle

Next ==
  \/ /\ part = "credentials" /\ CredentialNext
     /\ UNCHANGED <<part, artifactVars, planVars, gateVars, integrationVars,
                    poolVars, serverVars, rangeVars, accessVars>>
  \/ /\ part = "artifacts" /\ ArtifactNext
     /\ UNCHANGED <<part, credentialVars, planVars, gateVars, integrationVars,
                    poolVars, serverVars, rangeVars, accessVars>>
  \/ /\ part = "planner" /\ PlanNext
     /\ UNCHANGED <<part, credentialVars, artifactVars, gateVars, integrationVars,
                    poolVars, serverVars, rangeVars, accessVars>>
  \/ /\ part = "gates" /\ GateNext
     /\ UNCHANGED <<part, credentialVars, artifactVars, planVars, integrationVars,
                    poolVars, serverVars, rangeVars, accessVars>>
  \/ /\ part = "integrations" /\ IntegrationNext
     /\ UNCHANGED <<part, credentialVars, artifactVars, planVars, gateVars,
                    poolVars, serverVars, rangeVars, accessVars>>
  \/ /\ part = "pool" /\ PoolNext
     /\ UNCHANGED <<part, credentialVars, artifactVars, planVars, gateVars,
                    integrationVars, serverVars, rangeVars, accessVars>>
  \/ /\ part = "server" /\ ServerNext
     /\ UNCHANGED <<part, credentialVars, artifactVars, planVars, gateVars,
                    integrationVars, poolVars, rangeVars, accessVars>>
  \/ /\ part = "ranges" /\ RangeNext
     /\ UNCHANGED <<part, credentialVars, artifactVars, planVars, gateVars,
                    integrationVars, poolVars, serverVars, accessVars>>
  \/ /\ part = "access" /\ AccessNext
     /\ UNCHANGED <<part, credentialVars, artifactVars, planVars, gateVars,
                    integrationVars, poolVars, serverVars, rangeVars>>

Spec == Init /\ [][Next]_vars
=============================================================================
