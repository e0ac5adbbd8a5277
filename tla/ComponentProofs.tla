--------------------------- MODULE ComponentProofs ---------------------------
(***************************************************************************)
(* Safety of the components around the control plane's core, which the    *)
(* run of MCComponents checks for two or three of each thing, proved for   *)
(* any number of them. Each component has a strengthening of its property *)
(* that every step keeps.                                                  *)
(***************************************************************************)
EXTENDS ArtifactStore, HttpServer, OperatorAccess, Integrations, HttpClientPool,
        ByteRanges, GateEvaluator, DeviceCredentials, FiniteSetTheorems, TLAPS

(***************************************************************************)
(* ArtifactStore                                                           *)
(***************************************************************************)

\* An upload that is about to insert its row has its file as well.
Backed ==
  /\ file \in [Digests -> {"absent", "whole"}]
  /\ at \in [Uploads -> {"start", "look", "write", "rename", "insert", "done"}]
  /\ artifact \in [Uploads -> RowStatus]
  /\ \A u \in Uploads :
       artifact[u] # "none" \/ at[u] = "insert" => Intact(u) \/ Digest[u] \in damaged

LEMMA DigestsAreKnown == \A u \in Uploads : Digest[u] \in Digests
  BY DEF Digests

LEMMA BackedStep == Backed /\ [ArtifactNext]_artifactVars => Backed'
<1> SUFFICES ASSUME Backed, [ArtifactNext]_artifactVars PROVE Backed'
  OBVIOUS
<1> USE DigestsAreKnown DEF Backed, Intact
<1>1. ASSUME NEW u \in Uploads, Accept(u) PROVE Backed'
  BY <1>1 DEF Accept, Moves
<1>2. ASSUME NEW u \in Uploads, Look(u) PROVE Backed'
  BY <1>2 DEF Look, Moves
<1>3. ASSUME NEW u \in Uploads, Write(u) PROVE Backed'
  BY <1>3 DEF Write, Moves
<1>4. ASSUME NEW u \in Uploads, WriteFails(u) PROVE Backed'
  BY <1>4 DEF WriteFails, Moves
<1>5. ASSUME NEW u \in Uploads, Rename(u) PROVE Backed'
  BY <1>5 DEF Rename, Moves
<1>6. ASSUME NEW u \in Uploads, Insert(u) PROVE Backed'
  BY <1>6 DEF Insert, Moves, RowStatus
<1>7. ASSUME NEW u \in Uploads, Crash(u) PROVE Backed'
  BY <1>7 DEF Crash, Moves
<1>8. ASSUME NEW u \in Uploads, Again(u) PROVE Backed'
  BY <1>8 DEF Again, Moves
<1>9. ASSUME NEW u \in Uploads, Revalidate(u) PROVE Backed'
  BY <1>9 DEF Revalidate, RowStatus
<1>10. ASSUME NEW u \in Uploads, Retire(u) PROVE Backed'
  BY <1>10 DEF Retire, RowStatus
<1>11. CASE SweepTemporary
  BY <1>11 DEF SweepTemporary
<1>12. CASE RetireKey
  BY <1>12 DEF RetireKey
<1>13. CASE CompromiseKey
  BY <1>13 DEF CompromiseKey, RowStatus
<1>14. ASSUME NEW d \in Digests, Damage(d) PROVE Backed'
  BY <1>14 DEF Damage
<1>15. CASE UNCHANGED artifactVars
  BY <1>15 DEF artifactVars
<1>16. QED
  BY <1>1, <1>2, <1>3, <1>4, <1>5, <1>6, <1>7, <1>8, <1>9, <1>10, <1>11, <1>12,
     <1>13, <1>14, <1>15 DEF ArtifactNext

\* RowsAreBacked (control_plane.cpp:951-980): however many uploads, of however
\* many processes, meet at one digest, no artifact is recorded before its file
\* is whole, and only the disk takes it away.
THEOREM RowsHaveFiles == ArtifactSpec => []RowsAreBacked
<1>1. ArtifactInit => Backed
  BY DEF ArtifactInit, Backed, RowStatus
<1>2. Backed => RowsAreBacked
  BY DEF Backed, RowsAreBacked
<1>3. QED
  BY <1>1, <1>2, BackedStep, PTL DEF ArtifactSpec

(***************************************************************************)
(* HttpServer                                                              *)
(***************************************************************************)

\* Before the server runs no stop is heard; after one was heard it does not
\* run again; a stop that is through has shut the socket the loop waits on.
\* A spool file belongs to a thread that still needs it, and there are threads
\* only between bind and the end of join.
Orderly ==
  /\ listener \in {"new", "bound", "failed", "loop", "accept", "close", "clear", "join",
                    "returned"}
  /\ stopper \in {"calm", "load", "shutdown", "done"}
  /\ listener \in {"loop", "accept", "close"} => published
  /\ running => listener \notin {"new", "bound", "failed"}
  /\ heard => ~running /\ listener \notin {"new", "bound", "failed"}
  /\ stopper = "calm" => ~heard
  /\ stopper \in {"load", "shutdown"} => heard
  /\ heard /\ stopper = "done" /\ ~shut => listener \in {"clear", "join", "returned"}
  /\ conn \in [Clients -> {"away", "queued", "headers", "body", "handler", "answer", "closed"}]
  /\ spools \subseteq {c \in Clients : conn[c] \in {"body", "handler"}}
  /\ listener \in {"new", "bound", "failed", "returned"} => Serving = {}

LEMMA OrderlyStep == Orderly /\ [ServerNext]_serverVars => Orderly'
<1> SUFFICES ASSUME Orderly, [ServerNext]_serverVars PROVE Orderly'
  OBVIOUS
<1> USE DEF Orderly, Serving
<1>1. CASE Bind
  BY <1>1 DEF Bind, Goto
<1>2. CASE Run
  BY <1>2 DEF Run, Goto
<1>3. CASE Loop
  BY <1>3 DEF Loop, Goto
<1>4. CASE AcceptFails
  BY <1>4 DEF AcceptFails, Goto
<1>5. CASE CloseListener
  BY <1>5 DEF CloseListener, Goto
<1>6. CASE Join
  BY <1>6 DEF Join, Goto
<1>7. CASE Stop
  BY <1>7 DEF Stop
<1>8. CASE Shutdown
  BY <1>8 DEF Shutdown
<1>9. ASSUME NEW c \in Clients, Connect(c) PROVE Orderly'
  BY <1>9 DEF Connect, listening
<1>10. ASSUME NEW c \in Clients, AcceptClient(c) PROVE Orderly'
  BY <1>10 DEF AcceptClient, Goto
<1>11. ASSUME NEW c \in Clients, ReadHeaders(c) PROVE Orderly'
  BY <1>11 DEF ReadHeaders, MovesTo, listening
<1>12. ASSUME NEW c \in Clients, ReadBody(c) PROVE Orderly'
  BY <1>12 DEF ReadBody, MovesTo, listening
<1>13. ASSUME NEW c \in Clients, Handle(c) PROVE Orderly'
  BY <1>13 DEF Handle, MovesTo, listening
<1>14. ASSUME NEW c \in Clients, Answer(c) PROVE Orderly'
  BY <1>14 DEF Answer, MovesTo, listening
<1>15. CASE ClearListener
  BY <1>15 DEF ClearListener, Goto
<1>16. CASE LoadSocket
  BY <1>16 DEF LoadSocket
<1>17. CASE UNCHANGED serverVars
  BY <1>17 DEF serverVars
<1>18. QED
  BY <1>1, <1>2, <1>3, <1>4, <1>5, <1>6, <1>7, <1>8, <1>9, <1>10, <1>11, <1>12,
     <1>13, <1>14, <1>15, <1>16, <1>17 DEF ServerNext

\* StopsCleanly (http_server.cpp:101-145, 192-236): for any number of clients,
\* a stop that found the server running is not slept through, and start
\* returns only when no thread serves and no spool file is left.
THEOREM ServerStopsCleanly == ServerSpec => []StopsCleanly
<1>1. ServerInit => Orderly
  BY DEF ServerInit, Orderly, Serving
<1>2. Orderly => StopsCleanly
  BY DEF Orderly, StopsCleanly, Serving
<1>3. QED
  BY <1>1, <1>2, OrderlyStep, PTL DEF ServerSpec

(***************************************************************************)
(* Integrations                                                            *)
(***************************************************************************)

ConfigRow ==
  [present : BOOLEAN, enabled : BOOLEAN, health : Health, required : BOOLEAN,
   fixture : BOOLEAN, endpoint : BOOLEAN]

\* The health that lets an adapter be enabled, and a poll that may restore it,
\* come from a configuration that was tested or that overtook a poll.
Tested ==
  /\ config \in ConfigRow
  /\ config.enabled \/ config.health \in {"healthy", "degraded"} => tested \/ overtaken
  /\ (\E p \in Pollers : poller[p] \in {"fixture", "live"}) => tested \/ overtaken

DeliveryRow ==
  [status : {"pending", "published", "dead_letter"}, attempts : Int,
   external : Terminal \cup Unfinished, atOnce : BOOLEAN]

\* The evidence holds every outcome that an observer has stored in the row.
Evidenced ==
  /\ poller \in [Pollers -> {"idle", "fixture", "live"} \cup Terminal]
  /\ delivery \in DeliveryRow
  /\ delivery.external \in Terminal /\ ~delivery.atOnce =>
       /\ delivery.external \in evidence
       /\ delivery.external # "completed" => delivery.external \in notices

LEMMA AttemptedRow ==
  ASSUME delivery \in DeliveryRow, NEW disposition, NEW started \in Terminal \cup Unfinished
  PROVE  LET row == Attempted(disposition, started) IN
         /\ row \in DeliveryRow
         /\ IF disposition = "published"
            THEN row.external = started /\ (started \in Terminal => row.atOnce)
            ELSE row.external = delivery.external /\ row.atOnce = delivery.atOnce
<1>1. delivery.attempts + 1 \in Int
  BY DEF DeliveryRow
<1>2. CASE disposition = "published"
  <2> DEFINE once == started \in Terminal
             row == [delivery EXCEPT !.attempts = delivery.attempts + 1,
                       !.status = "published", !.external = started, !.atOnce = once]
  <2>1. Attempted(disposition, started) = row
    BY <1>2 DEF Attempted, DeliveryRow
  <2>2. once \in BOOLEAN
    OBVIOUS
  <2>3. row \in DeliveryRow /\ row.external = started /\ row.atOnce = once
    <3> HIDE DEF once
    <3>1. QED
      BY <1>1, <2>2 DEF DeliveryRow
  <2>4. QED
    BY <1>2, <2>1, <2>3
<1>3. CASE disposition # "published"
  <2>1. PICK ending \in {"dead_letter", "pending"} :
          Attempted(disposition, started)
            = [delivery EXCEPT !.attempts = delivery.attempts + 1, !.status = ending]
    BY <1>3 DEF Attempted, DeliveryRow
  <2>2. QED
    BY <1>1, <1>3, <2>1 DEF DeliveryRow
<1>4. QED
  BY <1>2, <1>3

LEMMA IntegrationStep ==
  Tested /\ Evidenced /\ [IntegrationNext]_integrationVars => Tested' /\ Evidenced'
<1> SUFFICES ASSUME Tested, Evidenced, [IntegrationNext]_integrationVars
             PROVE  Tested' /\ Evidenced'
  OBVIOUS
<1> USE DEF Tested, Evidenced, ConfigRow, DeliveryRow, Health, Terminal, Unfinished
<1>1. ASSUME NEW required \in BOOLEAN, NEW fixture \in BOOLEAN, NEW endpoint \in BOOLEAN,
             Configure(required, fixture, endpoint)
      PROVE  Tested' /\ Evidenced'
  BY <1>1 DEF Configure, iotVars, workflowVars
<1>2. CASE Test
  BY <1>2 DEF Test, iotVars, workflowVars
<1>3. CASE Enable
  BY <1>3 DEF Enable, iotVars, workflowVars
<1>4. CASE Disable
  BY <1>4 DEF Disable, iotVars, workflowVars
<1>5. CASE ReleasesChange
  BY <1>5 DEF ReleasesChange, iotVars, workflowVars
<1>6. ASSUME NEW p \in Pollers, PollBegins(p) PROVE Tested' /\ Evidenced'
  BY <1>6 DEF PollBegins, iotVars, workflowVars
<1>7. ASSUME NEW p \in Pollers, NoReadings(p) PROVE Tested' /\ Evidenced'
  BY <1>7 DEF NoReadings, Polled, Ails, iotVars, workflowVars
<1>8. ASSUME NEW p \in Pollers, PollIsLost(p) PROVE Tested' /\ Evidenced'
  BY <1>8 DEF PollIsLost, Polled, iotVars, workflowVars
<1>9. ASSUME NEW p \in Pollers, NEW read \in SUBSET Readings, NEW stale \in SUBSET Readings,
             PollStores(p, read, stale)
      PROVE  Tested' /\ Evidenced'
  BY <1>9 DEF PollStores, Polled, workflowVars
<1>10. ASSUME NEW p \in Pollers, Observe(p) PROVE Tested' /\ Evidenced'
  BY <1>10 DEF Observe, Told, iotVars, workflowVars
<1>11. ASSUME NEW p \in Pollers, ObserverStores(p) PROVE Tested' /\ Evidenced'
  BY <1>11 DEF ObserverStores, Observable, iotVars
<1>12. ASSUME NEW call, NEW started \in Terminal \cup {"running"}, Deliver(call, started)
       PROVE  Tested' /\ Evidenced'
  BY <1>12, AttemptedRow DEF Deliver, iotVars
<1>13. CASE Refuse
  BY <1>13, AttemptedRow DEF Refuse, iotVars
<1>14. CASE PutBack
  BY <1>14 DEF PutBack, iotVars
<1>15. CASE ObserveFails
  BY <1>15 DEF ObserveFails, Ails, iotVars, workflowVars
<1>16. ASSUME NEW ending \in Terminal, RemoteEnds(ending) PROVE Tested' /\ Evidenced'
  BY <1>16 DEF RemoteEnds, iotVars
<1>17. CASE UNCHANGED integrationVars
  BY <1>17 DEF integrationVars
<1>18. QED
  BY <1>1, <1>2, <1>3, <1>4, <1>5, <1>6, <1>7, <1>8, <1>9, <1>10, <1>11, <1>12,
     <1>13, <1>14, <1>15, <1>16, <1>17
     DEF IntegrationNext, PollIsRefused, PollIsMalformed

LEMMA IntegrationStart == IntegrationInit => Tested /\ Evidenced
  BY DEF IntegrationInit, NotConfigured, Tested, Evidenced, ConfigRow, DeliveryRow,
         Health, Terminal, Unfinished

\* EnabledWasTested (control_plane.cpp:1283, 1322, jobs.cpp:451): an adapter is
\* not enabled untested, but for polls that end after it was configured anew.
THEOREM AdaptersAreTested == IntegrationSpec => []EnabledWasTested
<1>1. Tested => EnabledWasTested
  BY DEF Tested, EnabledWasTested, ConfigRow
<1>2. QED
  BY <1>1, IntegrationStart, IntegrationStep, PTL DEF IntegrationSpec

\* OutcomesAreEvidenced (jobs.cpp:498, 514-524): however many processes observe
\* one execution, the outcome that stands in the row is in the evidence.
THEOREM OutcomesAreKept == IntegrationSpec => []OutcomesAreEvidenced
<1>1. Evidenced => OutcomesAreEvidenced
  BY DEF Evidenced, OutcomesAreEvidenced
<1>2. QED
  BY <1>1, IntegrationStart, IntegrationStep, PTL DEF IntegrationSpec

(***************************************************************************)
(* OperatorAccess                                                          *)
(***************************************************************************)

KeyRow == [role : Roles, prefix : {"edge_live_", "operator-"}, ended : BOOLEAN]
SessionRow == [actor : Keys, ended : BOOLEAN]
RequestRow == [actor : Keys, role : Roles \cup {"none"}, cookie : {NoCookie} \cup Sessions]

\* Sessions and requests name keys, and a cookie names a session that is there.
AccessTypes ==
  /\ operatorKey \in [Keys -> KeyRow \cup {NoKey}]
  /\ session \in [Sessions -> SessionRow \cup {NoSession}]
  /\ request \in [Requesters -> RequestRow \cup {NoRequest}]
  /\ \A r \in Requesters :
       In(r) /\ request[r].cookie # NoCookie => session[request[r].cookie] # NoSession

LEMMA RowsAreThere ==
  /\ NoKey \notin KeyRow /\ NoSession \notin SessionRow /\ NoRequest \notin RequestRow
  /\ NoCookie \notin Sessions /\ Bootstrap \in Keys
  BY AccessBounds DEF NoKey, KeyRow, NoSession, SessionRow, NoRequest, RequestRow,
     NoCookie, Sessions, Keys, Bootstrap

\* What a step may do to those who may act: no one joins them whose key had
\* been issued.
KeepsOut ==
  /\ AccessTypes'
  /\ \A k \in Keys : Issued(k) /\ ~MayAct(k) => ~MayAct(k)'

LEMMA AccessStep == AccessTypes /\ [AccessNext]_accessVars => KeepsOut
<1> SUFFICES ASSUME AccessTypes, [AccessNext]_accessVars PROVE KeepsOut
  OBVIOUS
<1> USE RowsAreThere DEF AccessTypes, KeepsOut, In, Issued, MayAct, Opens
<1>1. ASSUME NEW r \in Requesters, NEW k \in Keys,
             NEW cookie \in {NoCookie} \cup {s \in Sessions : session[s] # NoSession},
             PresentKey(r, k, cookie)
      PROVE  KeepsOut
  BY <1>1 DEF PresentKey, LetIn, RequestRow, KeyRow
<1>2. ASSUME NEW r \in Requesters, NEW k \in Keys, Revoke(r, k) PROVE KeepsOut
  BY <1>2 DEF Revoke, IsAdmin, Answered, KeyRow
<1>3. ASSUME NEW r \in Requesters, NEW k \in Keys, NEW role \in Roles, CreateKey(r, k, role)
      PROVE  KeepsOut
  BY <1>3 DEF CreateKey, IsAdmin, Answered, KeyRow, Key
<1>4. ASSUME NEW r \in Requesters, NEW k \in Keys, NEW old \in Keys, RotateKey(r, old, k)
      PROVE  KeepsOut
  BY <1>4 DEF RotateKey, IsAdmin, Answered, KeyRow, Key
<1>5. ASSUME NEW r \in Requesters, NEW s \in Sessions, PresentCookie(r, s) PROVE KeepsOut
  BY <1>5 DEF PresentCookie, Lasts, LetIn, RequestRow, SessionRow, KeyRow, NoKey
<1>6. ASSUME NEW r \in Requesters, NEW s \in Sessions, OpenSession(r, s) PROVE KeepsOut
  <2>1. In(r) /\ request[r] \in RequestRow /\ request[r].actor \in Keys
    BY <1>6 DEF OpenSession, RequestRow
  <2>2. /\ session[s] = NoSession /\ UNCHANGED operatorKey
        /\ session' = [session EXCEPT ![s] = [actor |-> request[r].actor, ended |-> FALSE]]
        /\ request' = [request EXCEPT ![r] = NoRequest]
    BY <1>6 DEF OpenSession, Answered
  <2>3. [actor |-> request[r].actor, ended |-> FALSE] \in SessionRow
    BY <2>1 DEF SessionRow
  <2>4. AccessTypes'
    BY <2>2, <2>3
  <2>5. \A k \in Keys : Issued(k) /\ ~MayAct(k) => ~MayAct(k)'
    BY <2>1, <2>2
  <2>6. QED
    BY <2>4, <2>5
<1>7. ASSUME NEW r \in Requesters, CloseSession(r) PROVE KeepsOut
  <2> DEFINE s == request[r].cookie
  <2>1. s \in Sessions /\ session[s] \in SessionRow
    BY <1>7 DEF CloseSession, RequestRow
  <2>2. /\ UNCHANGED operatorKey /\ request' = [request EXCEPT ![r] = NoRequest]
        /\ session' = [session EXCEPT ![s].ended = TRUE]
    BY <1>7 DEF CloseSession, Answered
  <2> HIDE DEF s
  <2>3. /\ session'[s] \in SessionRow
        /\ session'[s].actor = session[s].actor /\ session'[s].ended
        /\ \A t \in Sessions \ {s} : session'[t] = session[t]
    <3>1. /\ session'[s] = [session[s] EXCEPT !.ended = TRUE]
          /\ \A t \in Sessions \ {s} : session'[t] = session[t]
      BY <2>1, <2>2
    <3>2. /\ [session[s] EXCEPT !.ended = TRUE] \in SessionRow
          /\ [session[s] EXCEPT !.ended = TRUE].actor = session[s].actor
          /\ [session[s] EXCEPT !.ended = TRUE].ended
      BY <2>1 DEF SessionRow
    <3>3. QED
      BY <3>1, <3>2
  <2>4. AccessTypes'
    <3>1. session' \in [Sessions -> SessionRow \cup {NoSession}]
      BY <2>1, <2>2, <2>3
    <3>2. \A t \in Sessions : session[t] # NoSession => session'[t] # NoSession
      BY <2>1, <2>3
    <3>3. QED
      BY <2>2, <3>1, <3>2 DEF RequestRow
  <2>5. \A k \in Keys : Issued(k) /\ ~MayAct(k) => ~MayAct(k)'
    BY <2>2, <2>3
  <2>6. QED
    BY <2>4, <2>5
<1>8. ASSUME NEW r \in Requesters, AnswerOnly(r) PROVE KeepsOut
  BY <1>8 DEF AnswerOnly, Answered
<1>9. ASSUME NEW s \in Sessions, SessionExpires(s) PROVE KeepsOut
  <2>1. session[s] \in SessionRow
    BY <1>9 DEF SessionExpires, Lasts
  <2>2. /\ session'[s] \in SessionRow
        /\ session'[s].actor = session[s].actor /\ session'[s].ended
    BY <1>9, <2>1 DEF SessionExpires, SessionRow
  <2>3. \A t \in Sessions \ {s} : session'[t] = session[t]
    BY <1>9 DEF SessionExpires
  <2>4. /\ session' \in [Sessions -> SessionRow \cup {NoSession}]
        /\ \A t \in Sessions : session[t] # NoSession => session'[t] # NoSession
    <3>1. session' = [session EXCEPT ![s] = session'[s]]
      BY <1>9 DEF SessionExpires
    <3>2. QED
      BY <2>2, <3>1
  <2>5. QED
    BY <1>9, <2>2, <2>3, <2>4 DEF SessionExpires, RequestRow
<1>10. ASSUME NEW k \in Keys, KeyExpires(k) PROVE KeepsOut
  BY <1>10 DEF KeyExpires, KeyRow
<1>11. CASE UNCHANGED accessVars
  BY <1>11 DEF accessVars
<1>12. QED
  BY <1>1, <1>2, <1>3, <1>4, <1>5, <1>6, <1>7, <1>8, <1>9, <1>10, <1>11 DEF AccessNext

\* GoneForGood (control_plane.cpp:479-523, 674-684, 818-848): for any number of
\* keys, sessions and requests under way, an actor whose key, sessions and
\* requests have all ended does not come back.
THEOREM ActorsStayGone == AccessSpec => GoneForGood
<1>1. AccessInit => AccessTypes
  BY RowsAreThere DEF AccessInit, AccessTypes, KeyRow, Key, Roles, Keys, In, NoRequest
<1>2. AccessTypes /\ [AccessNext]_accessVars
        => [\A k \in Keys : Issued(k) /\ ~MayAct(k) => ~MayAct(k)']_accessVars
  BY AccessStep DEF KeepsOut
<1>3. AccessTypes /\ [AccessNext]_accessVars => AccessTypes'
  BY AccessStep DEF KeepsOut
<1>4. QED
  BY <1>1, <1>2, <1>3, PTL DEF AccessSpec, GoneForGood

(***************************************************************************)
(* HttpClientPool                                                          *)
(***************************************************************************)

Holding == At("permit") \cup At("calling")

\* NoWakeUpIsLost is inductive, once threads are known to be somewhere.
Pooled ==
  /\ thread \in [Threads -> {"away", "waiting", "woken", "permit", "calling"}]
  /\ closed \in BOOLEAN /\ inFlight \in Nat
  /\ inFlight = Cardinality(Holding) /\ inFlight <= Capacity
  /\ At("waiting") # {} => ~closed /\ inFlight + Cardinality(At("woken")) >= Capacity

\* A thread that goes from one place to another leaves the one set for the other.
LEMMA ThreadMoves ==
  ASSUME DOMAIN thread = Threads, NEW t \in Threads, NEW place,
         thread' = [thread EXCEPT ![t] = place]
  PROVE  /\ Holding' = IF place \in {"permit", "calling"} THEN Holding \cup {t}
                                                        ELSE Holding \ {t}
         /\ At("waiting")' = IF place = "waiting" THEN At("waiting") \cup {t}
                                                  ELSE At("waiting") \ {t}
         /\ At("woken")' = IF place = "woken" THEN At("woken") \cup {t}
                                              ELSE At("woken") \ {t}
<1>1. \A d \in Threads : thread'[d] = IF d = t THEN place ELSE thread[d]
  OBVIOUS
<1>2. Holding' = IF place \in {"permit", "calling"} THEN Holding \cup {t} ELSE Holding \ {t}
  BY <1>1 DEF Holding, At
<1>3. At("waiting")' = IF place = "waiting" THEN At("waiting") \cup {t}
                                           ELSE At("waiting") \ {t}
  BY <1>1 DEF At
<1>4. At("woken")' = IF place = "woken" THEN At("woken") \cup {t} ELSE At("woken") \ {t}
  BY <1>1 DEF At
<1>5. QED
  BY <1>2, <1>3, <1>4

LEMMA ThreadLeaves ==
  ASSUME DOMAIN thread = Threads, NEW t \in Threads,
         thread' = [thread EXCEPT ![t] = "away"]
  PROVE  /\ Holding' = Holding \ {t}
         /\ At("waiting")' = At("waiting") \ {t}
         /\ At("woken")' = At("woken") \ {t}
<1>1. \A d \in Threads : thread'[d] = IF d = t THEN "away" ELSE thread[d]
  OBVIOUS
<1>2. Holding' = Holding \ {t}
  BY <1>1 DEF Holding, At
<1>3. At("waiting")' = At("waiting") \ {t}
  BY <1>1 DEF At
<1>4. At("woken")' = At("woken") \ {t}
  BY <1>1 DEF At
<1>5. QED
  BY <1>2, <1>3, <1>4

LEMMA PlacesAreFinite ==
  \A S \in SUBSET Threads : IsFiniteSet(S) /\ Cardinality(S) \in Nat
  BY ThreadsAssumption, FS_Subset, FS_CardinalityType

LEMMA OneMore ==
  ASSUME NEW S \in SUBSET Threads, NEW t
  PROVE  /\ t \in S => Cardinality(S \ {t}) = Cardinality(S) - 1
         /\ t \notin S => Cardinality(S \cup {t}) = Cardinality(S) + 1
         /\ t \notin S => S \ {t} = S
  BY PlacesAreFinite, FS_AddElement, FS_RemoveElement

LEMMA EnterKeeps ==
  ASSUME Pooled, NEW t \in Threads, thread[t] \in {"away", "woken"},
         thread[t] = "away" => ~closed, Enter(t)
  PROVE  Pooled'
<1>1. /\ t \notin Holding /\ t \notin At("waiting")
      /\ Holding \in SUBSET Threads /\ At("woken") \in SUBSET Threads
  BY DEF Holding, At
<1>2. /\ DOMAIN thread = Threads /\ Capacity \in Nat /\ inFlight \in Nat
      /\ inFlight = Cardinality(Holding) /\ inFlight <= Capacity
      /\ At("waiting") # {} => ~closed /\ inFlight + Cardinality(At("woken")) >= Capacity
  BY CapacityAssumption DEF Pooled
<1>3. /\ Cardinality(At("woken")) \in Nat
      /\ Cardinality(At("woken") \ {t}) \in {Cardinality(At("woken")), Cardinality(At("woken")) - 1}
      /\ Cardinality(At("woken") \ {t}) \in Nat
      /\ Cardinality(Holding \cup {t}) = Cardinality(Holding) + 1
  BY <1>1, OneMore, PlacesAreFinite
<1>4. UNCHANGED closed
  BY DEF Enter
<1>5. CASE closed
  <2>1. thread' = [thread EXCEPT ![t] = "away"] /\ UNCHANGED inFlight
    BY <1>5 DEF Enter
  <2>2. Holding' = Holding /\ At("waiting")' = At("waiting")
    <3>1. /\ Holding' = Holding \ {t}
          /\ At("waiting")' = At("waiting") \ {t}
          /\ At("woken")' = At("woken") \ {t}
      BY <1>2, <2>1, ThreadLeaves
    <3>2. QED
      BY <1>1, <3>1
  <2>3. At("waiting") = {}
    BY <1>2, <1>5
  <2>4. QED
    BY <1>2, <1>4, <2>1, <2>2, <2>3 DEF Pooled
<1>6. CASE ~ closed /\ inFlight < Capacity
  <2>1. thread' = [thread EXCEPT ![t] = "permit"] /\ inFlight' = inFlight + 1
    BY <1>6 DEF Enter
  <2>2. /\ Holding' = Holding \cup {t} /\ At("waiting")' = At("waiting")
        /\ At("woken")' = At("woken") \ {t}
    <3>1. /\ Holding' = Holding \cup {t}
          /\ At("waiting")' = At("waiting") \ {t}
          /\ At("woken")' = At("woken") \ {t}
      BY <1>2, <2>1, ThreadMoves
    <3>2. QED
      BY <1>1, <3>1
  <2>3. inFlight' = Cardinality(Holding)' /\ inFlight' <= Capacity
    BY <1>2, <1>3, <1>6, <2>1, <2>2
  <2>4. At("waiting")' # {} =>
          ~closed' /\ inFlight' + Cardinality(At("woken")') >= Capacity
    BY <1>2, <1>3, <1>4, <2>1, <2>2
  <2>5. QED
    BY <1>2, <1>4, <2>1, <2>3, <2>4 DEF Pooled
<1>7. CASE ~ closed /\ ~ (inFlight < Capacity)
  <2>1. thread' = [thread EXCEPT ![t] = "waiting"] /\ UNCHANGED inFlight
    BY <1>7 DEF Enter
  <2>2. Holding' = Holding /\ At("woken")' = At("woken") \ {t}
    <3>1. /\ Holding' = Holding \ {t}
          /\ At("waiting")' = At("waiting") \cup {t}
          /\ At("woken")' = At("woken") \ {t}
      BY <1>2, <2>1, ThreadMoves
    <3>2. QED
      BY <1>1, <3>1
  <2>3. ~closed' /\ inFlight' + Cardinality(At("woken")') >= Capacity
    BY <1>2, <1>3, <1>4, <1>7, <2>1, <2>2
  <2>4. QED
    BY <1>2, <1>4, <2>1, <2>2, <2>3 DEF Pooled
<1>8. QED
  BY <1>5, <1>6, <1>7

LEMMA ReturnKeeps ==
  ASSUME Pooled, NEW t \in Threads, Return(t)
  PROVE  Pooled'
<1>1. /\ t \in Holding /\ t \notin At("waiting") /\ t \notin At("woken")
      /\ Holding \in SUBSET Threads /\ At("woken") \in SUBSET Threads
  BY DEF Holding, At, Return
<1>2. /\ DOMAIN thread = Threads /\ Capacity \in Nat /\ inFlight \in Nat
      /\ inFlight = Cardinality(Holding) /\ inFlight <= Capacity
      /\ At("waiting") # {} => ~closed /\ inFlight + Cardinality(At("woken")) >= Capacity
  BY CapacityAssumption DEF Pooled
<1>3. /\ Cardinality(At("woken")) \in Nat /\ Cardinality(Holding \ {t}) \in Nat
      /\ Cardinality(Holding \ {t}) = Cardinality(Holding) - 1
  BY <1>1, OneMore, PlacesAreFinite
<1>4. UNCHANGED closed /\ inFlight' = inFlight - 1 /\ inFlight' \in Nat
  BY <1>2, <1>3 DEF Return, Release
<1> DEFINE gone == [thread EXCEPT ![t] = "away"]
<1>5. /\ gone \in [Threads -> {"away", "waiting", "woken", "permit", "calling"}]
      /\ \A d \in Threads : gone[d] = IF d = t THEN "away" ELSE thread[d]
  BY DEF Pooled
<1>6. CASE At("waiting") = {}
  <2>1. thread' = [thread EXCEPT ![t] = "away"]
    BY <1>6 DEF Return, Release
  <2>2. Holding' = Holding \ {t} /\ At("waiting")' = {}
    <3>1. /\ Holding' = Holding \ {t}
          /\ At("waiting")' = At("waiting") \ {t}
          /\ At("woken")' = At("woken") \ {t}
      BY <1>2, <2>1, ThreadLeaves
    <3>2. QED
      BY <1>1, <1>6, <3>1
  <2>3. QED
    BY <1>2, <1>3, <1>4, <1>5, <2>1, <2>2 DEF Pooled
<1>7. CASE At("waiting") # {}
  <2>1. PICK w \in At("waiting") : thread' = [gone EXCEPT ![w] = "woken"]
    BY <1>7 DEF Return, Release
  <2>2. w \in Threads /\ w # t /\ thread[w] = "waiting"
    BY <1>1, <2>1 DEF At
  <2>3. /\ thread' \in [Threads -> {"away", "waiting", "woken", "permit", "calling"}]
        /\ \A d \in Threads : thread'[d] = IF d = w THEN "woken" ELSE gone[d]
    <3> HIDE DEF gone
    <3>1. QED
      BY <1>5, <2>1, <2>2
  <2> HIDE DEF gone
  <2>4. Holding' = Holding \ {t} /\ At("woken")' = At("woken") \cup {w}
    BY <1>5, <2>2, <2>3, <1>1 DEF Holding, At
  <2>5. w \notin At("woken")
    BY <2>2 DEF At
  <2>6. Cardinality(At("woken") \cup {w}) = Cardinality(At("woken")) + 1
    BY <1>1, <2>5, OneMore
  <2>7. inFlight' + Cardinality(At("woken")') >= Capacity
    <3>1. Cardinality(At("woken")') = Cardinality(At("woken")) + 1
      BY <2>4, <2>6
    <3>2. inFlight + Cardinality(At("woken")) >= Capacity
      BY <1>2, <1>7
    <3>3. QED
      BY <1>2, <1>3, <1>4, <3>1, <3>2
  <2>8. inFlight' = Cardinality(Holding)' /\ inFlight' <= Capacity
    BY <1>2, <1>3, <1>4, <2>4
  <2>9. QED
    BY <1>2, <1>4, <1>7, <2>3, <2>7, <2>8 DEF Pooled
<1>8. QED
  BY <1>6, <1>7

LEMMA PooledStep == Pooled /\ [PoolNext]_poolVars => Pooled'
<1> SUFFICES ASSUME Pooled, [PoolNext]_poolVars PROVE Pooled'
  OBVIOUS
<1>1. /\ DOMAIN thread = Threads /\ Capacity \in Nat /\ inFlight \in Nat
      /\ inFlight = Cardinality(Holding) /\ inFlight <= Capacity
      /\ At("waiting") # {} => ~closed /\ inFlight + Cardinality(At("woken")) >= Capacity
      /\ Holding \in SUBSET Threads /\ At("woken") \in SUBSET Threads
  BY CapacityAssumption DEF Pooled, Holding, At
<1>2. CASE UNCHANGED poolVars
  BY <1>2 DEF poolVars, Pooled, Holding, At
<1>3. ASSUME NEW t \in Threads, Request(t) \/ Resume(t)
      PROVE  Pooled'
  BY <1>3, EnterKeeps DEF Request, Resume
<1>4. ASSUME NEW t \in Threads, WakeUp(t)
      PROVE  Pooled'
  <2>1. /\ thread' = [thread EXCEPT ![t] = "woken"] /\ UNCHANGED <<inFlight, closed>>
        /\ thread[t] = "waiting"
    BY <1>4 DEF WakeUp
  <2>2. /\ Holding' = Holding \ {t} /\ At("woken")' = At("woken") \cup {t}
        /\ At("waiting")' = At("waiting") \ {t}
    BY <1>1, <2>1, ThreadMoves
  <2>3. t \notin Holding /\ t \notin At("woken")
    BY <2>1 DEF Holding, At
  <2>4. Holding' = Holding /\ Cardinality(At("woken") \cup {t}) = Cardinality(At("woken")) + 1
    BY <1>1, <2>2, <2>3, OneMore
  <2>5. Cardinality(At("woken")) \in Nat
    BY <1>1, PlacesAreFinite
  <2>6. At("waiting")' # {} =>
          ~closed' /\ inFlight' + Cardinality(At("woken")') >= Capacity
    BY <1>1, <2>1, <2>2, <2>4, <2>5
  <2>7. QED
    BY <1>1, <2>1, <2>4, <2>6 DEF Pooled
<1>5. ASSUME NEW t \in Threads, Call(t)
      PROVE  Pooled'
  <2>1. /\ thread' = [thread EXCEPT ![t] = "calling"] /\ UNCHANGED <<inFlight, closed>>
        /\ thread[t] = "permit"
    BY <1>5 DEF Call
  <2>2. /\ Holding' = Holding /\ At("woken")' = At("woken")
        /\ At("waiting")' = At("waiting")
    <3>1. /\ Holding' = Holding \cup {t} /\ At("waiting")' = At("waiting") \ {t}
          /\ At("woken")' = At("woken") \ {t}
      BY <1>1, <2>1, ThreadMoves
    <3>2. t \in Holding /\ t \notin At("woken") /\ t \notin At("waiting")
      BY <2>1 DEF Holding, At
    <3>3. QED
      BY <3>1, <3>2
  <2>3. QED
    BY <1>1, <2>1, <2>2 DEF Pooled
<1>6. ASSUME NEW t \in Threads, Return(t)
      PROVE  Pooled'
  BY <1>6, ReturnKeeps
<1>7. CASE Close
  <2>1. Holding' = Holding /\ At("waiting")' = {}
    BY <1>7 DEF Close, Holding, At
  <2>2. QED
    BY <1>1, <1>7, <2>1 DEF Close, Pooled
<1>8. QED
  BY <1>2, <1>3, <1>4, <1>5, <1>6, <1>7 DEF PoolNext

\* NoWakeUpIsLost (http_client_pool.cpp:72-106): for any number of threads and
\* permits, permits are given once each, and no thread sleeps beside a free one.
THEOREM PermitsAreHandedOn == PoolSpec => []NoWakeUpIsLost
<1>1. PoolInit => Pooled
  <2> SUFFICES ASSUME PoolInit PROVE Pooled
    OBVIOUS
  <2>1. Holding = {} /\ At("waiting") = {}
    BY DEF PoolInit, Holding, At
  <2>2. Cardinality(Holding) = 0 /\ Capacity \in Nat
    BY <2>1, FS_EmptySet, CapacityAssumption
  <2>3. /\ thread \in [Threads -> {"away", "waiting", "woken", "permit", "calling"}]
        /\ closed \in BOOLEAN /\ inFlight = 0
    BY DEF PoolInit
  <2>4. inFlight \in Nat /\ inFlight = Cardinality(Holding) /\ inFlight <= Capacity
    BY <2>2, <2>3
  <2>5. QED
    BY <2>1, <2>3, <2>4 DEF Pooled
<1>2. Pooled => NoWakeUpIsLost
  BY DEF Pooled, NoWakeUpIsLost, Holding
<1>3. QED
  BY <1>1, <1>2, PooledStep, PTL DEF PoolSpec

(***************************************************************************)
(* ByteRanges                                                              *)
(***************************************************************************)

RangeRow == [given : BOOLEAN, first : Offsets \cup {Missing}, last : Offsets \cup {Missing}]
ReplyRow ==
  [status : {"none", "416", "503", "200", "206", "sent", "dropped"},
   first : Nat, last : Int, length : 0..(Word - 1)]

\* What is to be sent lies within the file, and is counted as it is named or,
\* where the range was not bounded, reaches beyond the file; only the widest
\* range of all may be counted as anything.
Within ==
  /\ response.last \in -1..(size - 1)
  /\ response.first \in 0..(response.last + 1)
  /\ Widest => response.last = size - 1
  /\ ~Widest =>
       \/ /\ response.length = response.last - response.first + 1
          /\ response.length = 0 => size = 0
       \/ response.first + response.length \in (size + 1)..(Word - 1)

\* An answer that is to be sent is within the file; one that was sent is exact.
Exact ==
  /\ route \in {"operator", "device"}
  /\ size \in Sizes /\ range \in RangeRow /\ response \in ReplyRow
  /\ RangesAreExact
  /\ response.status \in {"200", "206"} => Within

\* Headers hold natural numbers that fit a word.
LEMMA OffsetsFit ==
  /\ Word \in Nat \ {0}
  /\ \A n \in Sizes : n \in Nat /\ n <= Word - 1
  /\ \A r \in RangeRow :
       /\ r.first # Missing => r.first \in Nat /\ r.first <= Word - 1
       /\ r.last # Missing => r.last \in Nat /\ r.last <= Word - 1
<1>1. Word \in Nat \ {0} /\ \A k \in 0..(Word - 1) : k \in Nat /\ k <= Word - 1
  BY RangeAssumption
<1>2. \A n \in Sizes : n \in 0..(Word - 1)
  BY RangeAssumption
<1>3. ASSUME NEW r \in RangeRow
      PROVE  /\ r.first # Missing => r.first \in 0..(Word - 1)
             /\ r.last # Missing => r.last \in 0..(Word - 1)
  <2>1. r.first \in Offsets \cup {Missing} /\ r.last \in Offsets \cup {Missing}
    BY DEF RangeRow
  <2>2. QED
    BY <2>1, RangeAssumption
<1>4. QED
  BY <1>1, <1>2, <1>3

\* What a range that can be read selects.
LEMMA SelectedIsAsked ==
  ASSUME NEW n \in Nat, NEW r \in RangeRow, Readable(n, r)
  PROVE  /\ First(n, r) \in 0..Last(n, r) /\ Last(n, r) \in 0..(n - 1)
         /\ \A b \in 0..(n - 1) :
              b \in First(n, r)..Last(n, r)
                <=> IF r.first = Missing THEN r.last # Missing /\ b >= n - r.last
                    ELSE b >= r.first /\ (r.last = Missing \/ b <= r.last)
<1>1. /\ r.first = Missing \/ r.first \in Nat
      /\ r.last = Missing \/ r.last \in Nat
      /\ n > 0
  BY OffsetsFit DEF Readable
<1>2. CASE r.first = Missing
  <2>1. r.last # Missing /\ r.last \in Nat /\ r.last > 0 /\ Last(n, r) = n - 1
        /\ First(n, r) = IF r.last >= n THEN 0 ELSE n - r.last
    BY <1>1, <1>2 DEF Readable, First, Last
  <2>2. QED
    BY <1>1, <1>2, <2>1
<1>3. CASE r.first # Missing /\ r.last = Missing
  <2>1. First(n, r) = r.first /\ Last(n, r) = n - 1 /\ r.first \in Nat /\ r.first < n
    BY <1>1, <1>3 DEF Readable, First, Last
  <2>2. QED
    BY <1>1, <1>3, <2>1
<1>4. CASE r.first # Missing /\ r.last # Missing
  <2>1. /\ First(n, r) = r.first /\ r.first \in Nat /\ r.last \in Nat
        /\ Last(n, r) = IF r.last >= n THEN n - 1 ELSE r.last
        /\ r.first < n /\ r.first <= r.last
    BY <1>1, <1>4 DEF Readable, First, Last
  <2>2. QED
    BY <1>1, <1>4, <2>1
<1>5. QED
  BY <1>2, <1>3, <1>4

\* What is asked of a range that cannot be read.
LEMMA RefusedIsEmpty ==
  ASSUME NEW n \in Nat, NEW r \in RangeRow, ~Readable(n, r), NEW b \in 0..(n - 1)
  PROVE  ~ IF r.first = Missing THEN r.last # Missing /\ b >= n - r.last
           ELSE b >= r.first /\ (r.last = Missing \/ b <= r.last)
<1>1. /\ r.first = Missing \/ r.first \in Nat
      /\ r.last = Missing \/ r.last \in Nat
  BY OffsetsFit
<1>2. n > 0 /\ b \in Nat /\ b < n
  OBVIOUS
<1>3. CASE r.first = Missing
  BY <1>1, <1>2, <1>3 DEF Readable
<1>4. CASE r.first # Missing
  BY <1>1, <1>2, <1>4 DEF Readable
<1>5. QED
  BY <1>3, <1>4

LEMMA DownloadKeeps ==
  ASSUME Exact, Download
  PROVE  Exact'
<1>1. /\ size \in 0..(Word - 1) /\ size \in Sizes /\ range \in RangeRow
      /\ route \in {"operator", "device"} /\ Word \in Nat \ {0}
  BY RangeAssumption DEF Exact
<1>2. UNCHANGED <<route, size, range>> /\ Asked' = Asked /\ Widest' = Widest
  BY DEF Download, Asked, Widest
<1>3. CASE response' = NoBytes("503")
  <2>1. size = 0
    BY <1>3 DEF Download, NoBytes, Reply, Select
  <2>2. response' \in ReplyRow /\ response'.status = "503" /\ Asked = {}
    BY <1>1, <1>3, <2>1 DEF NoBytes, Reply, ReplyRow, Asked
  <2>3. QED
    BY <1>1, <1>2, <2>2 DEF Exact, RangesAreExact
<1>4. CASE response' # NoBytes("503") /\ ~range.given
  <2>1. response' = Reply("200", 0, size - 1, size)
    BY <1>4 DEF Download
  <2>2. /\ response' \in ReplyRow /\ response'.status = "200"
        /\ response'.first = 0 /\ response'.last = size - 1 /\ response'.length = size
    BY <1>1, <2>1 DEF Reply, ReplyRow
  <2>3. Named' = Asked'
    BY <1>2, <1>4, <2>2 DEF Named, Asked
  <2>4. ~Widest' /\ Within'
    BY <1>1, <1>2, <1>4, <2>2 DEF Widest, Within
  <2>5. QED
    BY <1>1, <1>2, <2>2, <2>3, <2>4 DEF Exact, RangesAreExact
<1>5. CASE response' # NoBytes("503") /\ range.given /\ ~Readable(size, range)
  <2>1. response' = NoBytes("416")
    BY <1>5 DEF Download, Select
  <2>2. Asked = {}
    BY <1>1, <1>5, RefusedIsEmpty DEF Asked
  <2>3. response' \in ReplyRow /\ response'.status = "416"
    BY <1>1, <2>1 DEF NoBytes, Reply, ReplyRow
  <2>4. QED
    BY <1>1, <1>2, <2>2, <2>3 DEF Exact, RangesAreExact
<1>6. CASE response' # NoBytes("503") /\ range.given /\ Readable(size, range)
  <2> DEFINE first == First(size, range)
             last == Last(size, range)
             length == Length(size, range)
  <2>1. response' = Reply("206", first, last, length)
    BY <1>6 DEF Download, Select
  <2>2. /\ first \in 0..last /\ last \in 0..(size - 1)
        /\ \A b \in 0..(size - 1) :
             b \in first..last
               <=> IF range.first = Missing
                     THEN range.last # Missing /\ b >= size - range.last
                   ELSE b >= range.first /\ (range.last = Missing \/ b <= range.last)
    BY <1>1, <1>6, SelectedIsAsked
  <2>3. length \in 0..(Word - 1)
    <3>1. CASE route = "operator" \/ range.first = Missing \/ range.last = Missing
      BY <1>1, <2>2, <3>1 DEF Length
    <3>2. CASE ~(route = "operator" \/ range.first = Missing \/ range.last = Missing)
      <4>1. /\ range.first \in Nat /\ range.last \in Nat /\ range.last <= Word - 1
            /\ range.first <= range.last
        BY <1>1, <1>6, <3>2, OffsetsFit DEF Readable
      <4>2. length = Wrap(range.last - range.first + 1)
        BY <3>2 DEF Length
      <4>3. QED
        BY <1>1, <4>1, <4>2 DEF Wrap
    <3>3. QED
      BY <3>1, <3>2
  <2>4. Widest => last = size - 1
    BY <1>1, RangeAssumption DEF Widest, Last
  <2>5. ~Widest => \/ length = last - first + 1
                   \/ first + length \in (size + 1)..(Word - 1)
    <3>1. CASE route = "operator" \/ range.first = Missing \/ range.last = Missing
      BY <3>1 DEF Length
    <3>2. CASE /\ ~Widest
               /\ ~(route = "operator" \/ range.first = Missing \/ range.last = Missing)
      <4>1. /\ range.first \in Nat /\ range.last \in Nat /\ range.last <= Word - 1
            /\ range.last # Word - 1 /\ first = range.first
            /\ range.first <= range.last
        BY <1>1, <1>6, <3>2, OffsetsFit DEF Widest, First, Readable
      <4>2. length = range.last - range.first + 1
        BY <1>1, <3>2, <4>1 DEF Length, Wrap
      <4>3. last = IF range.last >= size THEN size - 1 ELSE range.last
        BY <3>2 DEF Last
      <4>4. QED
        BY <1>1, <4>1, <4>2, <4>3
    <3>3. QED
      BY <3>1, <3>2
  <2> HIDE DEF first, last, length
  <2>6. /\ response' \in ReplyRow /\ response'.status = "206"
        /\ response'.first = first /\ response'.last = last /\ response'.length = length
    BY <1>1, <2>1, <2>2, <2>3 DEF Reply, ReplyRow
  <2>7. first..last \subseteq 0..(size - 1) /\ first \in first..last
    BY <1>1, <2>2
  <2>8. Named' = Asked' /\ Named' # {}
    BY <1>2, <1>6, <2>2, <2>6, <2>7 DEF Named, Asked
  <2>9. Within'
    <3>1. /\ last \in -1..(size - 1) /\ first \in 0..(last + 1)
          /\ last - first + 1 # 0
      BY <1>1, <2>2
    <3>2. QED
      BY <1>2, <2>4, <2>5, <2>6, <3>1 DEF Within
  <2>10. QED
    BY <1>1, <1>2, <2>6, <2>8, <2>9 DEF Exact, RangesAreExact
<1>7. QED
  BY <1>3, <1>4, <1>5, <1>6

LEMMA ServeKeeps ==
  ASSUME Exact, NEW n \in Sizes, n <= size, Serve(n)
  PROVE  Exact'
<1> DEFINE first == response.first
           last == response.last
           length == IF response.length = 0 THEN n - first ELSE response.length
<1>1. /\ n \in 0..(Word - 1) /\ size \in 0..(Word - 1) /\ Word \in Nat \ {0}
      /\ size' = n /\ UNCHANGED <<route, range>> /\ Widest' = Widest
      /\ first \in Nat /\ last \in Int /\ response.length \in 0..(Word - 1)
      /\ Within
  BY RangeAssumption DEF Exact, Serve, ReplyRow, Widest
<1>2. CASE response' = NoBytes("dropped")
  <2>1. response' \in ReplyRow /\ response'.status = "dropped"
    BY <1>1, <1>2 DEF NoBytes, Reply, ReplyRow
  <2>2. QED
    BY <1>1, <2>1 DEF Exact, RangesAreExact
<1>3. CASE response' # NoBytes("dropped")
  <2>1. /\ response' = [response EXCEPT !.status = "sent", !.length = length]
        /\ first <= n /\ Wrap(first + length) <= n
    <3>1. ~(first > n \/ Wrap(first + length) > n)
      BY <1>3 DEF Serve
    <3>2. length \in Int /\ Wrap(first + length) \in Int
      BY <1>1 DEF Wrap
    <3>3. QED
      BY <1>1, <1>3, <3>1, <3>2 DEF Serve
  <2>2. length \in 0..(Word - 1)
    BY <1>1, <2>1
  <2>3. /\ response' \in ReplyRow /\ response'.status = "sent"
        /\ response'.first = first /\ response'.last = last
        /\ response'.length = length
    BY <1>1, <2>1, <2>2 DEF Exact, ReplyRow
  <2>4. Widest => last = size - 1
    BY <1>1 DEF Within
  <2>5. ~Widest => length = last - first + 1 /\ last < n
    <3>1. CASE ~Widest /\ response.length = last - first + 1
      <4>1. response.length = 0 => n = 0 /\ first = 0
        BY <1>1, <3>1 DEF Within
      <4>2. CASE response.length = 0
        BY <1>1, <3>1, <4>1, <4>2
      <4>3. CASE response.length # 0
        <5>1. length = last - first + 1 /\ first + length = last + 1
          BY <1>1, <3>1, <4>3
        <5>2. last + 1 \in 0..(Word - 1)
          BY <1>1 DEF Within
        <5>3. Wrap(first + length) = last + 1
          BY <1>1, <5>1, <5>2 DEF Wrap
        <5>4. QED
          BY <1>1, <2>1, <5>1, <5>3
      <4>4. QED
        BY <4>2, <4>3
    <3>2. CASE first + response.length \in (size + 1)..(Word - 1)
      <4>1. first <= size
        BY <1>1 DEF Within
      <4>2. length = response.length
        BY <1>1, <3>2, <4>1
      <4>3. first + length \in (size + 1)..(Word - 1) /\ Wrap(first + length) = first + length
        BY <1>1, <3>2, <4>2 DEF Wrap
      <4>4. QED
        BY <1>1, <2>1, <4>3
    <3>3. QED
      BY <1>1, <3>1, <3>2 DEF Within
  <2> HIDE DEF first, last, length
  <2>6. /\ Sent' = {b \in 0..(n - 1) : first <= b /\ b < first + length}
        /\ Named' = first..last
    BY <1>1, <2>3 DEF Sent, Named
  <2>7. Sent' \subseteq Named' /\ (~Widest => Sent' = Named')
    <3>1. CASE Widest
      BY <1>1, <2>2, <2>4, <2>6, <3>1
    <3>2. CASE ~Widest
      BY <1>1, <2>2, <2>5, <2>6, <3>2
    <3>3. QED
      BY <3>1, <3>2
  <2>8. QED
    BY <1>1, <2>3, <2>5, <2>7 DEF Exact, RangesAreExact
<1>4. QED
  BY <1>2, <1>3

\* RangesAreExact (control_plane.cpp:1017-1044, 1747-1781,
\* http_server.cpp:234-262): for files, ranges and words of every size and on
\* both routes, what is named is what was asked for and what is sent is what is
\* named, however the file is cut short in between.
THEOREM RangesAreAnswered == RangeSpec => []RangesAreExact
<1>1. RangeInit => Exact
  BY RangeAssumption DEF RangeInit, Exact, RangeRow, ReplyRow, NoBytes, Reply, RangesAreExact
<1>2. Exact /\ [RangeNext]_rangeVars => Exact'
  <2>1. ASSUME Exact, UNCHANGED rangeVars
        PROVE  Exact'
    <3>1. UNCHANGED <<route, size, range, response>>
      BY <2>1 DEF rangeVars
    <3>2. /\ Asked' = Asked /\ Named' = Named /\ Sent' = Sent /\ Widest' = Widest
          /\ Within' = Within
      BY <3>1 DEF Asked, Named, Sent, Widest, Within
    <3>3. QED
      BY <2>1, <3>1, <3>2 DEF Exact, RangesAreExact
  <2>2. QED
    BY <2>1, DownloadKeeps, ServeKeeps DEF RangeNext
<1>3. Exact => RangesAreExact
  BY DEF Exact
<1>4. QED
  BY <1>1, <1>2, <1>3, PTL DEF RangeSpec

(***************************************************************************)
(* GateEvaluator                                                           *)
(***************************************************************************)

\* What the lemmas need of counts and of thresholds: numbers, and no rate that
\* rolls back below the rate that pauses.
Counts ==
  [assigned : Nat, fresh : Nat, converged : Nat, offline : Nat, installFailures : Nat,
   healthFailures : Nat, rollbackFailures : Nat, crashFree : Nat, iotReady : BOOLEAN]

Graded(t) ==
  /\ t \in [freshCoverage : Nat, installPause : Nat, installRollback : Nat,
            crashPause : Nat, crashRollback : Nat, healthPause : Nat,
            healthRollback : Nat, convergence : Nat, offline : Nat,
            rollbackFailure : Nat]
  /\ t.installPause <= t.installRollback /\ t.healthPause <= t.healthRollback

LEMMA NumbersAreNatural ==
  /\ \A n \in Assigned : n \in Nat
  /\ \A rate \in Rates.fresh \cup Rates.install \cup Rates.health \cup Rates.convergence
                   \cup Rates.offline \cup Rates.rollback :
       rate \in Nat /\ rate <= 10000
  /\ \A rate \in CrashFree : rate \in Nat
<1> DEFINE Given == Rates.fresh \cup Rates.install \cup Rates.health \cup Rates.convergence
                    \cup Rates.offline \cup Rates.rollback
<1>1. \A n \in Assigned : n \in Nat
  BY GateAssumption
<1>2. \A rate \in Given \cup CrashFree : rate \in Nat /\ rate <= 10000
  BY GateAssumption
<1> HIDE DEF Given
<1>3. (\A rate \in Given : rate \in Nat /\ rate <= 10000) /\ \A rate \in CrashFree : rate \in Nat
  BY <1>2
<1>4. QED
  BY <1>1, <1>3 DEF Given

\* The counts that the evaluator looks at are those, and its thresholds are graded.
LEMMA MetricsAreCounts == Metrics \subseteq Counts
<1> SUFFICES ASSUME NEW n \in Assigned,
                    NEW m \in [assigned: {n}, fresh: 0..n, converged: 0..n, offline: 0..n,
                               installFailures: 0..Lesser(n, MaxFailures.install),
                               healthFailures: 0..Lesser(n, MaxFailures.health),
                               rollbackFailures: 0..Lesser(n, MaxFailures.rollback),
                               crashFree: CrashFree, iotReady: BOOLEAN]
             PROVE  m \in Counts
  BY DEF Metrics
<1>1. n \in Nat
  BY NumbersAreNatural
<1>2. /\ m.assigned \in {n} /\ m.fresh \in 0..n /\ m.converged \in 0..n
      /\ m.offline \in 0..n /\ m.crashFree \in CrashFree /\ m.iotReady \in BOOLEAN
  OBVIOUS
<1>3. /\ m.installFailures \in 0..Lesser(n, MaxFailures.install)
      /\ m.healthFailures \in 0..Lesser(n, MaxFailures.health)
      /\ m.rollbackFailures \in 0..Lesser(n, MaxFailures.rollback)
  OBVIOUS
<1>4. /\ m.assigned \in Nat /\ m.fresh \in Nat /\ m.converged \in Nat
      /\ m.offline \in Nat
  BY <1>1, <1>2
<1>5. m.crashFree \in Nat
  BY <1>2, NumbersAreNatural
<1>6. /\ m.installFailures \in Nat /\ m.healthFailures \in Nat
      /\ m.rollbackFailures \in Nat
  BY <1>3
<1>7. m = [assigned |-> m.assigned, fresh |-> m.fresh, converged |-> m.converged,
           offline |-> m.offline, installFailures |-> m.installFailures,
           healthFailures |-> m.healthFailures, rollbackFailures |-> m.rollbackFailures,
           crashFree |-> m.crashFree, iotReady |-> m.iotReady]
  OBVIOUS
<1>8. QED
  BY <1>2, <1>4, <1>5, <1>6, <1>7 DEF Counts

LEMMA RatesAreGraded ==
  ASSUME NEW rate \in Nat, rate <= 10000
  PROVE  /\ PolicyRatio(rate) \in Nat
         /\ RollbackRate(PolicyRatio(rate), 500) \in Nat
         /\ PolicyRatio(rate) <= RollbackRate(PolicyRatio(rate), 500)
         /\ RollbackRate(PolicyRatio(rate), 1000) \in Nat
         /\ PolicyRatio(rate) <= RollbackRate(PolicyRatio(rate), 1000)
<1> DEFINE pause == PolicyRatio(rate)
<1>1. pause \in Nat /\ pause <= 10000
  BY DEF PolicyRatio
<1> HIDE DEF pause
<1>2. RollbackRate(pause, 500) \in Nat /\ pause <= RollbackRate(pause, 500)
  BY <1>1 DEF RollbackRate, Lesser, Greater
<1>3. RollbackRate(pause, 1000) \in Nat /\ pause <= RollbackRate(pause, 1000)
  BY <1>1 DEF RollbackRate, Lesser, Greater
<1>4. QED
  BY <1>1, <1>2, <1>3 DEF pause

LEMMA ThresholdsAreGraded ==
  ASSUME NEW p \in Policies
  PROVE  /\ Graded(Thresholds(p)) /\ Thresholds(p).crashPause = p.crashFree
         /\ Thresholds(p).crashRollback = 9700 /\ p.crashFree \in Nat
<1>1. /\ p.fresh \in Nat /\ p.fresh <= 10000
      /\ p.install \in Nat /\ p.install <= 10000
      /\ p.health \in Nat /\ p.health <= 10000
      /\ p.convergence \in Nat /\ p.convergence <= 10000
      /\ p.offline \in Nat /\ p.offline <= 10000
      /\ p.rollback \in Nat /\ p.rollback <= 10000
      /\ p.crashFree \in Nat
  <2>1. /\ p.fresh \in Rates.fresh /\ p.install \in Rates.install
        /\ p.health \in Rates.health /\ p.convergence \in Rates.convergence
        /\ p.offline \in Rates.offline /\ p.rollback \in Rates.rollback
        /\ p.crashFree \in CrashFree
    BY DEF Policies
  <2>2. QED
    BY <2>1, NumbersAreNatural
<1> DEFINE fresh == PolicyRatio(p.fresh)
           install == PolicyRatio(p.install)
           health == PolicyRatio(p.health)
           convergence == PolicyRatio(p.convergence)
           away == PolicyRatio(p.offline)
           undone == PolicyRatio(p.rollback)
           most == RollbackRate(install, 500)
           worst == RollbackRate(health, 1000)
<1>2. /\ fresh \in Nat /\ convergence \in Nat /\ away \in Nat /\ undone \in Nat
  <2>1. \A rate \in Nat : rate <= 10000 => PolicyRatio(rate) \in Nat
    BY RatesAreGraded
  <2>2. QED
    BY <1>1, <2>1
<1>3. install \in Nat /\ most \in Nat /\ install <= most
  <2>1. \A rate \in Nat : rate <= 10000 =>
          /\ PolicyRatio(rate) \in Nat
          /\ RollbackRate(PolicyRatio(rate), 500) \in Nat
          /\ PolicyRatio(rate) <= RollbackRate(PolicyRatio(rate), 500)
    BY RatesAreGraded
  <2>2. QED
    BY <1>1, <2>1
<1>4. health \in Nat /\ worst \in Nat /\ health <= worst
  <2>1. \A rate \in Nat : rate <= 10000 =>
          /\ PolicyRatio(rate) \in Nat
          /\ RollbackRate(PolicyRatio(rate), 1000) \in Nat
          /\ PolicyRatio(rate) <= RollbackRate(PolicyRatio(rate), 1000)
    BY RatesAreGraded
  <2>2. QED
    BY <1>1, <2>1
<1>5. Thresholds(p) =
        [freshCoverage |-> fresh, installPause |-> install, installRollback |-> most,
         crashPause |-> p.crashFree, crashRollback |-> 9700,
         healthPause |-> health, healthRollback |-> worst,
         convergence |-> convergence, offline |-> away, rollbackFailure |-> undone]
  BY DEF Thresholds
<1> HIDE DEF fresh, install, health, convergence, away, undone, most, worst
<1>6. QED
  BY <1>1, <1>2, <1>3, <1>4, <1>5 DEF Graded

\* A share is a number, and grows with the rate.
LEMMA SharesGrow ==
  ASSUME NEW n \in Nat, NEW p \in Nat, NEW q \in Nat
  PROVE  /\ (p * n) \div 10000 \in Int /\ (p * n + 9999) \div 10000 \in Int
         /\ p <= q => (p * n) \div 10000 <= (q * n) \div 10000
<1>1. p * n \in Nat /\ q * n \in Nat
  OBVIOUS
<1>2. \A a, b \in Nat : /\ a \div 10000 \in Int /\ (a + 9999) \div 10000 \in Int
                        /\ a <= b => a \div 10000 <= b \div 10000
  OBVIOUS
<1>3. ASSUME p <= q PROVE p * n <= q * n
  <2>1. (q - p) * n \in Nat /\ q * n = p * n + (q - p) * n
    BY <1>3
  <2>2. QED
    BY <1>1, <2>1
<1>4. QED
  BY <1>1, <1>2, <1>3

LEMMA HigherRateIsExceededLess ==
  ASSUME NEW n \in Nat, NEW p \in Nat, NEW q \in Nat, NEW f \in Nat, p <= q,
         Exceeds(f, n, q)
  PROVE  Exceeds(f, n, p)
<1> DEFINE low == (p * n) \div 10000
           high == (q * n) \div 10000
<1>1. low \in Int /\ high \in Int /\ low <= high
  BY SharesGrow
<1>2. n > 0 /\ f > high
  BY DEF Exceeds
<1>3. f > low => Exceeds(f, n, p)
  BY <1>2 DEF Exceeds
<1> HIDE DEF low, high
<1>4. QED
  BY <1>1, <1>2, <1>3

LEMMA MoreFailuresExceed ==
  ASSUME NEW n \in Nat, NEW p \in Nat, NEW f \in Nat, NEW g \in Nat, f <= g,
         Exceeds(f, n, p)
  PROVE  Exceeds(g, n, p)
<1> DEFINE share == (p * n) \div 10000
<1>1. share \in Int
  BY SharesGrow
<1>2. n > 0 /\ f > share
  BY DEF Exceeds
<1>3. g > share => Exceeds(g, n, p)
  BY <1>2 DEF Exceeds
<1> HIDE DEF share
<1>4. QED
  BY <1>1, <1>2, <1>3

LEMMA FewerAreShort ==
  ASSUME NEW n \in Nat, NEW p \in Nat, NEW f \in Nat, NEW g \in Nat, f <= g,
         Short(g, n, p)
  PROVE  Short(f, n, p)
<1> DEFINE share == (p * n + 9999) \div 10000
<1>1. share \in Int
  BY SharesGrow
<1>2. g < share
  BY DEF Short
<1>3. f < share => Short(f, n, p)
  BY DEF Short
<1> HIDE DEF share
<1>4. QED
  BY <1>1, <1>2, <1>3

\* A stage that rolls back would at least have paused, but for the rollbacks
\* that failed.
LEMMA RollbacksWouldPause ==
  ASSUME NEW m \in Counts, NEW t, Graded(t), t.crashRollback <= t.crashPause,
         RollsBack(m, t)
  PROVE  Pauses(m, t) \/ Exceeds(m.rollbackFailures, m.assigned, t.rollbackFailure)
<1>1. /\ m.assigned \in Nat /\ m.installFailures \in Nat /\ m.healthFailures \in Nat
      /\ m.crashFree \in Nat /\ t.crashRollback \in Nat /\ t.crashPause \in Nat
      /\ t.installPause \in Nat /\ t.installRollback \in Nat
      /\ t.healthPause \in Nat /\ t.healthRollback \in Nat
      /\ t.installPause <= t.installRollback /\ t.healthPause <= t.healthRollback
  BY DEF Counts, Graded
<1>2. Exceeds(m.installFailures, m.assigned, t.installRollback)
        => Exceeds(m.installFailures, m.assigned, t.installPause)
  BY <1>1, HigherRateIsExceededLess
<1>3. Exceeds(m.healthFailures, m.assigned, t.healthRollback)
        => Exceeds(m.healthFailures, m.assigned, t.healthPause)
  BY <1>1, HigherRateIsExceededLess
<1>4. m.crashFree < t.crashRollback => m.crashFree < t.crashPause
  BY <1>1
<1>5. QED
  BY <1>2, <1>3, <1>4 DEF RollsBack, Pauses

\* No gate has failed when none of its conditions holds.
LEMMA NoGateFailed ==
  ASSUME NEW m \in Counts, NEW t
  PROVE  FailedGates(m, t) = {} <=>
           /\ m.assigned # 0 /\ ~Short(m.fresh, m.assigned, t.freshCoverage)
           /\ ~Pauses(m, t)
           /\ ~Exceeds(m.rollbackFailures, m.assigned, t.rollbackFailure)
<1>1. m.assigned > 0 <=> m.assigned # 0
  BY DEF Counts
<1>2. FailedGates(m, t) = {} <=>
        /\ ~(m.assigned = 0) /\ ~Short(m.fresh, m.assigned, t.freshCoverage)
        /\ ~Exceeds(m.installFailures, m.assigned, t.installPause)
        /\ ~Exceeds(m.healthFailures, m.assigned, t.healthPause)
        /\ ~(m.crashFree < t.crashPause)
        /\ ~(m.assigned > 0 /\ Short(m.converged, m.assigned, t.convergence))
        /\ ~Exceeds(m.offline, m.assigned, t.offline)
        /\ ~Exceeds(m.rollbackFailures, m.assigned, t.rollbackFailure)
  BY Zenon DEF FailedGates
<1>3. QED
  BY <1>1, <1>2 DEF Pauses

\* The two that are computed apart agree.
LEMMA DecisionIsExplained ==
  ASSUME NEW m \in Counts, NEW t, Graded(t), t.crashRollback <= t.crashPause
  PROVE  (Decide(m, t) = "pass") <=> m.iotReady /\ FailedGates(m, t) = {}
<1>1. (Decide(m, t) = "pass") <=>
        /\ m.iotReady /\ m.assigned # 0 /\ ~RollsBack(m, t) /\ ~Pauses(m, t)
        /\ ~Short(m.fresh, m.assigned, t.freshCoverage)
  BY DEF Decide, Evaluate
<1>2. Exceeds(m.rollbackFailures, m.assigned, t.rollbackFailure) => RollsBack(m, t)
  BY DEF RollsBack
<1>3. QED
  BY <1>1, <1>2, RollbacksWouldPause, NoGateFailed

\* Counts of a fleet that fares no better than another of the same size.
NoBetter(w, m) ==
  /\ w.assigned = m.assigned /\ w.iotReady = m.iotReady /\ w.crashFree = m.crashFree
  /\ m.installFailures <= w.installFailures /\ m.healthFailures <= w.healthFailures
  /\ m.rollbackFailures <= w.rollbackFailures /\ m.offline <= w.offline
  /\ w.fresh <= m.fresh /\ w.converged <= m.converged

LEMMA WorseIsNoBetter ==
  ASSUME NEW m \in Counts, NEW w \in Worse(m)
  PROVE  w \in Counts /\ NoBetter(w, m)
<1>1. w.fresh >= 0 /\ w.converged >= 0
  BY DEF Worse
<1>2. CASE w = [m EXCEPT !.healthFailures = @ + 1]
  BY <1>2 DEF Counts, NoBetter
<1>3. CASE w = [m EXCEPT !.installFailures = @ + 1, !.converged = @ - 1]
  <2> DEFINE half == [m EXCEPT !.installFailures = m.installFailures + 1]
  <2>1. half \in Counts /\ NoBetter(half, m) /\ half.converged = m.converged
    BY DEF Counts, NoBetter
  <2>2. w = [half EXCEPT !.converged = m.converged - 1]
    BY <1>3
  <2> HIDE DEF half
  <2>3. w.converged = m.converged - 1 /\ m.converged \in Nat
    BY <2>1, <2>2 DEF Counts
  <2>4. w.converged \in Nat /\ w.converged <= m.converged
    BY <1>1, <2>3
  <2>5. QED
    BY <2>1, <2>2, <2>3, <2>4 DEF Counts, NoBetter
<1>4. CASE w = [m EXCEPT !.offline = @ + 1, !.fresh = @ - 1]
  <2> DEFINE half == [m EXCEPT !.offline = m.offline + 1]
  <2>1. half \in Counts /\ NoBetter(half, m) /\ half.fresh = m.fresh
    BY DEF Counts, NoBetter
  <2>2. w = [half EXCEPT !.fresh = m.fresh - 1]
    BY <1>4
  <2> HIDE DEF half
  <2>3. w.fresh = m.fresh - 1 /\ m.fresh \in Nat
    BY <2>1, <2>2 DEF Counts
  <2>4. w.fresh \in Nat /\ w.fresh <= m.fresh
    BY <1>1, <2>3
  <2>5. QED
    BY <2>1, <2>2, <2>3, <2>4 DEF Counts, NoBetter
<1>5. QED
  BY <1>2, <1>3, <1>4 DEF Worse

LEMMA DecisionIsNoMilder ==
  ASSUME NEW m \in Counts, NEW w \in Counts, NEW t, Graded(t), NoBetter(w, m)
  PROVE  Severity[Decide(w, t)] >= Severity[Decide(m, t)]
<1>1. /\ m.assigned \in Nat /\ m.fresh \in Nat /\ w.fresh \in Nat
      /\ m.converged \in Nat /\ w.converged \in Nat /\ m.offline \in Nat /\ w.offline \in Nat
      /\ m.installFailures \in Nat /\ w.installFailures \in Nat
      /\ m.healthFailures \in Nat /\ w.healthFailures \in Nat
      /\ m.rollbackFailures \in Nat /\ w.rollbackFailures \in Nat
  BY DEF Counts
<1>2. /\ t.freshCoverage \in Nat /\ t.installPause \in Nat /\ t.installRollback \in Nat
      /\ t.healthPause \in Nat /\ t.healthRollback \in Nat /\ t.convergence \in Nat
      /\ t.offline \in Nat /\ t.rollbackFailure \in Nat
  BY DEF Graded
<1>3. /\ w.assigned = m.assigned /\ w.iotReady = m.iotReady /\ w.crashFree = m.crashFree
      /\ m.installFailures <= w.installFailures /\ m.healthFailures <= w.healthFailures
      /\ m.rollbackFailures <= w.rollbackFailures /\ m.offline <= w.offline
      /\ w.fresh <= m.fresh /\ w.converged <= m.converged
  BY DEF NoBetter
<1>4. Exceeds(m.installFailures, m.assigned, t.installPause)
         => Exceeds(w.installFailures, w.assigned, t.installPause)
  BY <1>1, <1>2, <1>3, MoreFailuresExceed
<1>5. Exceeds(m.installFailures, m.assigned, t.installRollback)
         => Exceeds(w.installFailures, w.assigned, t.installRollback)
  BY <1>1, <1>2, <1>3, MoreFailuresExceed
<1>6. Exceeds(m.healthFailures, m.assigned, t.healthPause)
         => Exceeds(w.healthFailures, w.assigned, t.healthPause)
  BY <1>1, <1>2, <1>3, MoreFailuresExceed
<1>7. Exceeds(m.healthFailures, m.assigned, t.healthRollback)
         => Exceeds(w.healthFailures, w.assigned, t.healthRollback)
  BY <1>1, <1>2, <1>3, MoreFailuresExceed
<1>8. Exceeds(m.rollbackFailures, m.assigned, t.rollbackFailure)
         => Exceeds(w.rollbackFailures, w.assigned, t.rollbackFailure)
  BY <1>1, <1>2, <1>3, MoreFailuresExceed
<1>9. Exceeds(m.offline, m.assigned, t.offline)
         => Exceeds(w.offline, w.assigned, t.offline)
  BY <1>1, <1>2, <1>3, MoreFailuresExceed
<1>10. Short(m.converged, m.assigned, t.convergence)
         => Short(w.converged, w.assigned, t.convergence)
  BY <1>1, <1>2, <1>3, FewerAreShort
<1>11. Short(m.fresh, m.assigned, t.freshCoverage)
         => Short(w.fresh, w.assigned, t.freshCoverage)
  BY <1>1, <1>2, <1>3, FewerAreShort
<1>12. RollsBack(m, t) => RollsBack(w, t)
  BY <1>3, <1>5, <1>7, <1>8 DEF RollsBack
<1>13. Pauses(m, t) => Pauses(w, t)
  BY <1>3, <1>4, <1>6, <1>9, <1>10 DEF Pauses
<1>14. /\ Severity["pass"] = 0 /\ Severity["insufficient_evidence"] = 1
       /\ Severity["pause"] = 2 /\ Severity["rollback"] = 3
  BY DEF Severity
<1>15. QED
  BY <1>3, <1>11, <1>12, <1>13, <1>14 DEF Decide, Evaluate

\* DecisionsAreSound (safety.cpp:290-345): for every count of devices and every
\* policy that is accepted, a decision says what its gates say, and is no milder
\* for a device that fails.
THEOREM DecisionsAreExplained == GateSpec => []DecisionsAreSound
<1> DEFINE Judged == /\ metrics \in Metrics /\ policy \in Policies
                     /\ decision \in {"none", Decide(metrics, Thresholds(policy))}
<1>1. GateInit => Judged
  BY DEF GateInit
<1>2. Judged /\ [GateNext]_gateVars => Judged'
  BY DEF GateNext, gateVars
<1>3. Judged => DecisionsAreSound
  <2> SUFFICES ASSUME Judged, decision = Decide(metrics, Thresholds(policy))
               PROVE  Explained /\ Monotone
    BY DEF DecisionsAreSound, Explained, Monotone
  <2>1. metrics \in Counts /\ Graded(Thresholds(policy))
    BY MetricsAreCounts, ThresholdsAreGraded
  <2>2. Explained
    <3> SUFFICES ASSUME policy.crashFree >= 9700
                 PROVE  (decision = "pass") <=>
                          metrics.iotReady /\ FailedGates(metrics, Thresholds(policy)) = {}
      BY DEF Explained
    <3>1. Thresholds(policy).crashRollback <= Thresholds(policy).crashPause
      BY ThresholdsAreGraded
    <3>2. QED
      BY <2>1, <3>1, DecisionIsExplained
  <2>3. Monotone
    <3> SUFFICES ASSUME NEW w \in Worse(metrics)
                 PROVE  Severity[Decide(w, Thresholds(policy))] >= Severity[decision]
      BY DEF Monotone
    <3>1. w \in Counts /\ NoBetter(w, metrics)
      BY <2>1, WorseIsNoBetter
    <3>2. QED
      BY <2>1, <3>1, DecisionIsNoMilder
  <2>4. QED
    BY <2>2, <2>3
<1>4. QED
  BY <1>1, <1>2, <1>3, PTL DEF GateSpec

(***************************************************************************)
(* DeviceCredentials. A late acknowledgement may move the device's row     *)
(* back to a version before; what holds the argument together is the last  *)
(* version that was ever acknowledged, which the device keeps and nobody   *)
(* revokes.                                                                *)
(***************************************************************************)

\* The first version needs no acknowledgement.
Done(v) == v = 1 \/ (Exists(v) /\ credential[v].acknowledged)

CredentialTypes ==
  /\ keyVersion \in Versions
  /\ credential \in [Versions -> Credential \cup {Absent}]
  /\ held \subseteq Versions
  /\ acks \in [Versions -> Nat]

\* Versions follow each other, each created when the one before was done with.
Chained ==
  /\ \A v \in Versions : Exists(v) /\ v > 1 =>
       /\ credential[v].secret = "kept" /\ credential[v].supersedes = v - 1
       /\ ~credential[v].expires /\ ~credential[v].expired
       /\ Exists(v - 1)
  /\ Exists(1) => credential[1].secret = "empty" /\ credential[1].supersedes = 0
  /\ \A v, w \in Versions : v < w /\ Exists(w) => Done(v)
  /\ Done(keyVersion)

\* A version is revoked exactly when its successor was acknowledged.
RevokedBySuccessor ==
  \A v \in Versions : Exists(v) =>
    (credential[v].revoked <=> v + 1 \in Versions /\ Done(v + 1))

\* The last version that was acknowledged is one the device has, as is one it
\* is about to acknowledge.
HeldLast ==
  /\ \A v \in Versions : acks[v] > 0 => v > 1 /\ Exists(v) /\ (Done(v) \/ v \in held)
  /\ \E t \in held : Done(t) /\ \A w \in Versions : w > t => ~Done(w)

Rotation == CredentialTypes /\ Chained /\ RevokedBySuccessor /\ HeldLast

LEMMA VersionsAreNumbers == 1 \in Versions /\ Versions \subseteq Nat /\ 0 \notin Versions
  BY CredentialBounds DEF Versions

LEMMA AbsentIsNoRow == Absent \notin Credential
  BY DEF Absent, Credential

LEMMA RowType ==
  ASSUME CredentialTypes, NEW v \in Versions, Exists(v)
  PROVE  credential[v] \in Credential
  BY DEF CredentialTypes, Exists

LEMMA RotationImplies == Rotation => OneCredentialWorks
<1> SUFFICES ASSUME Rotation PROVE OneCredentialWorks
  OBVIOUS
<1> USE VersionsAreNumbers DEF Rotation, CredentialTypes
<1>1. \A v \in Versions : v < keyVersion => ~Authenticates(v)
  <2> SUFFICES ASSUME NEW v \in Versions, v < keyVersion, Authenticates(v) PROVE FALSE
    OBVIOUS
  <2>1. Exists(v) /\ credential[v].secret = "kept" /\ ~credential[v].revoked
    BY DEF Authenticates
  <2>2. v + 1 \in Versions /\ v + 1 <= keyVersion
    BY CredentialBounds DEF Versions
  <2>3. Done(v + 1)
    BY <2>2 DEF Chained, Done
  <2>4. QED
    BY <2>1, <2>2, <2>3 DEF RevokedBySuccessor
<1>2. ASSUME lifecycle # "decommissioned" PROVE \E v \in held : Authenticates(v)
  <2>1. PICK t \in held : Done(t) /\ \A w \in Versions : w > t => ~Done(w)
    BY DEF HeldLast
  <2>2. CASE keyVersion = t
    BY <1>2, <2>1, <2>2 DEF Authenticates
  <2>3. CASE keyVersion # t
    <3>1. t > 1 /\ Exists(t)
      BY <2>1, <2>3 DEF Chained, Done
    <3>2. credential[t].secret = "kept" /\ ~credential[t].expired
      BY <3>1 DEF Chained
    <3>3. ~credential[t].revoked
      BY <2>1, <3>1 DEF RevokedBySuccessor
    <3>4. QED
      BY <1>2, <2>1, <3>1, <3>2, <3>3 DEF Authenticates
  <2>4. QED
    BY <2>2, <2>3
<1>3. QED
  BY <1>1, <1>2 DEF OneCredentialWorks

LEMMA RotateKeeps == Rotation /\ Rotate => Rotation'
<1> SUFFICES ASSUME Rotation, Rotate PROVE Rotation'
  OBVIOUS
<1> DEFINE k == keyVersion
           next == keyVersion + 1
           before == IF credential[k] = Absent THEN Copy ELSE credential[k]
<1> USE VersionsAreNumbers, AbsentIsNoRow DEF CredentialTypes
<1>1. k \in Versions /\ next \in Versions /\ next # k /\ ~Exists(next) /\ next > 1
  BY DEF Rotate, Rotation
<1>2. Copy \in Credential /\ Successor(k) \in Credential
  BY <1>1 DEF Copy, Successor, Credential
<1>3. credential' = [credential EXCEPT ![next] = Successor(k), ![k] = before]
  BY <1>1 DEF Rotate
<1>4. before \in Credential /\ (Exists(k) => before = credential[k])
  BY <1>1, <1>2 DEF Rotation, Exists
<1>5. /\ credential'[next] = Successor(k) /\ credential'[k] = before
      /\ \A v \in Versions \ {next, k} : credential'[v] = credential[v]
  BY <1>1, <1>3 DEF Rotation
<1>6. CredentialTypes'
  BY <1>1, <1>2, <1>3, <1>4 DEF Rotate, Rotation
<1>7. ~Exists(k) => k = 1 /\ before = Copy
  BY <1>1 DEF Rotation, Chained, Done, Exists
<1>8. \A v \in Versions : Exists(v)' <=> Exists(v) \/ v \in {k, next}
  BY <1>1, <1>2, <1>4, <1>5 DEF Exists
<1>9. \A v \in Versions : Done(v)' <=> Done(v)
  BY <1>1, <1>4, <1>5, <1>7, <1>8 DEF Done, Exists, Successor, Copy
<1>10. ~Done(next) /\ \A w \in Versions : w > k => ~Exists(w)
  <2>1. ~Done(next)
    BY <1>1 DEF Done
  <2>2. ASSUME NEW w \in Versions, w > k, Exists(w) PROVE FALSE
    BY <1>1, <2>1, <2>2 DEF Rotation, Chained
  <2>3. QED
    BY <2>1, <2>2
<1>11. Chained'
  <2>1. Done(keyVersion)'
    BY <1>1, <1>9 DEF Rotate, Rotation, Chained
  <2>2. \A v, w \in Versions : v < w /\ Exists(w)' => Done(v)'
    BY <1>1, <1>8, <1>9 DEF Rotation, Chained, Done
  <2>3. Exists(1)' => credential'[1].secret = "empty" /\ credential'[1].supersedes = 0
    BY <1>1, <1>4, <1>5, <1>7, <1>8 DEF Rotation, Chained, Copy
  <2>4. ASSUME NEW v \in Versions, Exists(v)', v > 1
        PROVE  /\ credential'[v].secret = "kept" /\ credential'[v].supersedes = v - 1
               /\ ~credential'[v].expires /\ ~credential'[v].expired
               /\ Exists(v - 1)'
    <3>1. CASE v = next
      <4>1. next - 1 = k
        BY <1>1
      <4>2. QED
        BY <1>1, <1>5, <1>8, <3>1, <4>1 DEF Successor
    <3>2. CASE v # next
      <4>1. Exists(v) /\ credential'[v] = credential[v] /\ v - 1 \in Versions
        BY <1>4, <1>5, <1>7, <1>8, <2>4, <3>2, CredentialBounds DEF Versions
      <4>2. QED
        BY <1>8, <2>4, <4>1 DEF Rotation, Chained
    <3>3. QED
      BY <3>1, <3>2
  <2>5. QED
    BY <2>1, <2>2, <2>3, <2>4 DEF Chained
<1>12. RevokedBySuccessor'
  <2> SUFFICES ASSUME NEW v \in Versions, Exists(v)'
               PROVE  credential'[v].revoked <=> v + 1 \in Versions /\ Done(v + 1)'
    BY DEF RevokedBySuccessor
  <2>1. CASE v = next
    <3>1. v + 1 \in Versions => ~Done(v + 1)
      BY <1>1, <1>10, <2>1 DEF Done
    <3>2. ~credential'[v].revoked
      BY <1>5, <2>1 DEF Successor
    <3>3. QED
      BY <1>9, <3>1, <3>2
  <2>2. CASE v = k
    <3>1. ~credential'[v].revoked
      BY <1>4, <1>5, <1>7, <2>2 DEF Rotate, Copy
    <3>2. QED
      BY <1>9, <1>10, <2>2, <3>1
  <2>3. CASE v \notin {k, next}
    BY <1>5, <1>8, <1>9, <2>3 DEF Rotation, RevokedBySuccessor
  <2>4. QED
    BY <2>1, <2>2, <2>3
<1>13. HeldLast'
  BY <1>8, <1>9 DEF Rotate, Rotation, HeldLast
<1>14. QED
  BY <1>6, <1>11, <1>12, <1>13 DEF Rotation

LEMMA AckBeginsKeeps ==
  ASSUME Rotation, NEW v \in Versions, AckBegins(v) PROVE Rotation'
<1> USE VersionsAreNumbers
<1>1. v > 1 /\ Exists(v) /\ v \in held
  BY DEF AckBegins, Rotation, Chained
<1>2. CredentialTypes' /\ HeldLast'
  BY <1>1 DEF AckBegins, Rotation, CredentialTypes, HeldLast, Done, Exists
<1>3. Chained' /\ RevokedBySuccessor'
  BY DEF AckBegins, Rotation, Chained, RevokedBySuccessor, Done, Exists
<1>4. QED
  BY <1>2, <1>3 DEF Rotation

LEMMA AckCommitsKeeps ==
  ASSUME Rotation, NEW v \in Versions, AckCommits(v) PROVE Rotation'
<1> USE VersionsAreNumbers, AbsentIsNoRow DEF CredentialTypes
<1> DEFINE p == v - 1
<1>1. /\ v > 1 /\ Exists(v) /\ credential[v].supersedes = p
      /\ p \in Versions /\ p # v /\ Exists(p)
  <2>1. v > 1 /\ Exists(v)
    BY DEF AckCommits, Rotation, HeldLast
  <2>2. p \in Versions /\ p # v
    BY <2>1, CredentialBounds DEF Versions
  <2>3. QED
    BY <2>1, <2>2 DEF Rotation, Chained
<1>2. credential[v] \in Credential /\ credential[p] \in Credential
  BY <1>1, RowType DEF Rotation
<1>3. credential' = [credential EXCEPT ![v] = [credential[v] EXCEPT !.acknowledged = TRUE],
                                       ![p] = [credential[p] EXCEPT !.revoked = TRUE]]
  BY <1>1 DEF AckCommits, Rotation
<1>4. /\ credential'[v] = [credential[v] EXCEPT !.acknowledged = TRUE]
      /\ credential'[p] = [credential[p] EXCEPT !.revoked = TRUE]
      /\ \A w \in Versions \ {v, p} : credential'[w] = credential[w]
  BY <1>1, <1>3 DEF Rotation
<1>5. credential'[v] \in Credential /\ credential'[p] \in Credential
  BY <1>2, <1>4 DEF Credential
<1>6. \A w \in Versions : Exists(w)' <=> Exists(w)
  BY <1>1, <1>4, <1>5 DEF Exists
<1>7. \A w \in Versions : Done(w)' <=> Done(w) \/ w = v
  BY <1>1, <1>2, <1>4, <1>6 DEF Done, Credential
<1>8. \A w \in Versions : Exists(w) =>
        /\ credential'[w].secret = credential[w].secret
        /\ credential'[w].supersedes = credential[w].supersedes
        /\ credential'[w].expires = credential[w].expires
        /\ credential'[w].expired = credential[w].expired
        /\ credential'[w].revoked <=> credential[w].revoked \/ w = p
  BY <1>1, <1>2, <1>4 DEF Credential
<1>9. held' \subseteq held /\ \A w \in held : w >= v => w \in held'
  BY DEF AckCommits, Heard
<1>10. CredentialTypes'
  <2>1. credential' \in [Versions -> Credential \cup {Absent}]
    BY <1>3, <1>4, <1>5 DEF Rotation
  <2>2. acks' \in [Versions -> Nat]
    BY DEF AckCommits, Rotation
  <2>3. keyVersion' \in Versions /\ held' \subseteq Versions
    BY <1>9 DEF AckCommits, Rotation
  <2>4. QED
    BY <2>1, <2>2, <2>3
<1>11. Chained'
  <2>1. ASSUME NEW w \in Versions, Exists(w), w > 1
        PROVE  /\ credential'[w].secret = "kept" /\ credential'[w].supersedes = w - 1
               /\ ~credential'[w].expires /\ ~credential'[w].expired
               /\ Exists(w - 1)'
    <3>1. w - 1 \in Versions
      BY <2>1, CredentialBounds DEF Versions
    <3>2. QED
      BY <1>6, <1>8, <2>1, <3>1 DEF Rotation, Chained
  <2>2. Exists(1)' => credential'[1].secret = "empty" /\ credential'[1].supersedes = 0
    BY <1>6, <1>8 DEF Rotation, Chained
  <2>3. \A w, x \in Versions : w < x /\ Exists(x)' => Done(w)'
    BY <1>6, <1>7 DEF Rotation, Chained
  <2>4. Done(keyVersion)'
    <3>1. keyVersion' = v
      BY DEF AckCommits
    <3>2. Exists(v)' /\ credential'[v].acknowledged
      BY <1>1, <1>2, <1>4, <1>6 DEF Credential
    <3>3. QED
      BY <3>1, <3>2 DEF Done
  <2>5. QED
    BY <1>6, <2>1, <2>2, <2>3, <2>4 DEF Chained
<1>12. RevokedBySuccessor'
  <2> SUFFICES ASSUME NEW w \in Versions, Exists(w)
               PROVE  credential'[w].revoked <=> w + 1 \in Versions /\ Done(w + 1)'
    BY <1>6 DEF RevokedBySuccessor
  <2>1. w + 1 = v <=> w = p
    OBVIOUS
  <2>2. QED
    BY <1>7, <1>8, <2>1 DEF Rotation, RevokedBySuccessor
<1>13. HeldLast'
  <2>1. ASSUME NEW w \in Versions, acks'[w] > 0
        PROVE  w > 1 /\ Exists(w)' /\ (Done(w)' \/ w \in held')
    <3>1. acks[w] > 0
      BY <2>1 DEF AckCommits, Rotation
    <3>2. w > 1 /\ Exists(w) /\ (Done(w) \/ w \in held)
      BY <3>1 DEF Rotation, HeldLast
    <3>3. w < v => Done(w)
      BY <1>1 DEF Rotation, Chained
    <3>4. QED
      BY <1>6, <1>7, <1>9, <3>2, <3>3
  <2>2. PICK t \in held : Done(t) /\ \A w \in Versions : w > t => ~Done(w)
    BY DEF Rotation, HeldLast
  <2>3. CASE Done(v)
    <3>1. t >= v
      BY <2>2, <2>3 DEF Rotation
    <3>2. QED
      BY <1>7, <1>9, <2>1, <2>2, <2>3, <3>1 DEF HeldLast, Rotation
  <2>4. CASE ~Done(v)
    <3>1. v \in held'
      BY <1>9, <2>4 DEF AckCommits, Rotation, HeldLast
    <3>2. \A w \in Versions : w > v => ~Done(w)
      BY <1>1, <2>4 DEF Rotation, Chained, Done
    <3>3. QED
      BY <1>7, <2>1, <3>1, <3>2 DEF HeldLast
  <2>5. QED
    BY <2>3, <2>4
<1>14. QED
  BY <1>10, <1>11, <1>12, <1>13 DEF Rotation

LEMMA RotationStep == Rotation /\ [CredentialNext]_credentialVars => Rotation'
<1> SUFFICES ASSUME Rotation, [CredentialNext]_credentialVars PROVE Rotation'
  OBVIOUS
<1>1. CASE Rotate
  BY <1>1, RotateKeeps
<1>2. ASSUME NEW v \in Versions, Provision(v) PROVE Rotation'
  BY <1>2, VersionsAreNumbers DEF Provision, Rotation, CredentialTypes, Chained,
     RevokedBySuccessor, HeldLast, Done, Exists
<1>3. ASSUME NEW v \in Versions, Expire(v) PROVE Rotation'
  <2> USE VersionsAreNumbers
  <2>1. v = 1 /\ Exists(1) /\ credential[1] \in Credential
    BY <1>3, RowType DEF Expire, Rotation, Chained
  <2>2. /\ credential' = [credential EXCEPT ![1] = [credential[1] EXCEPT !.expired = TRUE]]
        /\ \A w \in Versions \ {1} : credential'[w] = credential[w]
    BY <1>3, <2>1 DEF Expire, Rotation, CredentialTypes
  <2>3. /\ credential'[1] \in Credential
        /\ credential'[1].secret = credential[1].secret
        /\ credential'[1].supersedes = credential[1].supersedes
        /\ credential'[1].revoked = credential[1].revoked
    BY <2>1, <2>2 DEF Rotation, CredentialTypes, Credential
  <2>4. \A w \in Versions : (Exists(w)' <=> Exists(w)) /\ (Done(w)' <=> Done(w))
    BY <2>1, <2>2, <2>3, AbsentIsNoRow DEF Exists, Done
  <2>5. CredentialTypes'
    BY <1>3, <2>2, <2>3 DEF Expire, Rotation, CredentialTypes
  <2>6. Chained'
    <3>1. \A w \in Versions : w > 1 => w - 1 \in Versions /\ credential'[w] = credential[w]
      BY <2>2, CredentialBounds DEF Versions
    <3>2. Done(keyVersion)'
      BY <1>3, <2>4 DEF Expire, Rotation, CredentialTypes, Chained, Done
    <3>3. Exists(1)' => credential'[1].secret = "empty" /\ credential'[1].supersedes = 0
      BY <2>1, <2>3 DEF Rotation, Chained
    <3>4. \A w, x \in Versions : w < x /\ Exists(x)' => Done(w)'
      BY <2>4 DEF Rotation, Chained
    <3>5. \A w \in Versions : Exists(w)' /\ w > 1 =>
            /\ credential'[w].secret = "kept" /\ credential'[w].supersedes = w - 1
            /\ ~credential'[w].expires /\ ~credential'[w].expired
            /\ Exists(w - 1)'
      BY <2>4, <3>1 DEF Rotation, Chained
    <3>6. QED
      BY <3>2, <3>3, <3>4, <3>5 DEF Chained
  <2>7. RevokedBySuccessor'
    BY <2>2, <2>3, <2>4 DEF Rotation, RevokedBySuccessor
  <2>8. HeldLast'
    BY <1>3, <2>4 DEF Expire, Rotation, CredentialTypes, HeldLast
  <2>9. QED
    BY <2>5, <2>6, <2>7, <2>8 DEF Rotation
<1>4. ASSUME NEW v \in Versions, AckBegins(v) PROVE Rotation'
  BY <1>4, AckBeginsKeeps
<1>5. ASSUME NEW v \in Versions, AckCommits(v) PROVE Rotation'
  BY <1>5, AckCommitsKeeps
<1>6. ASSUME NEW v \in Versions, AckFails(v) PROVE Rotation'
  BY <1>6, VersionsAreNumbers DEF AckFails, Rotation, CredentialTypes, Chained,
     RevokedBySuccessor, HeldLast, Done, Exists
<1>7. ASSUME NEW status \in Lifecycles, SetLifecycle(status) PROVE Rotation'
  BY <1>7 DEF SetLifecycle, Rotation, CredentialTypes, Chained, RevokedBySuccessor,
     HeldLast, Done, Exists
<1>8. CASE UNCHANGED credentialVars
  BY <1>8 DEF credentialVars, Rotation, CredentialTypes, Chained, RevokedBySuccessor,
     HeldLast, Done, Exists
<1>9. QED
  BY <1>1, <1>2, <1>3, <1>4, <1>5, <1>6, <1>7, <1>8 DEF CredentialNext

\* OneCredentialWorks (control_plane.cpp:451-477, 1077-1094, 1853-1872): for any
\* number of rotations and of acknowledgements that overtake each other, a
\* device in service has a secret that lets it in, and none older than the
\* version of its row does.
THEOREM DevicesAreNotLockedOut == CredentialSpec => []OneCredentialWorks
<1>1. CredentialInit => Rotation
  BY VersionsAreNumbers DEF CredentialInit, Rotation, CredentialTypes, Chained,
     RevokedBySuccessor, HeldLast, Done, Exists
<1>2. QED
  BY <1>1, RotationStep, RotationImplies, PTL DEF CredentialSpec
=============================================================================
