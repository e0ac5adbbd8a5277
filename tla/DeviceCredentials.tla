-------------------------- MODULE DeviceCredentials --------------------------
(***************************************************************************)
(* The secrets of one device and their rotation. An administrator creates *)
(* a successor, the device proves that it has it by acknowledging under   *)
(* it, and only then does the secret before it stop to work.              *)
(* The device's row names one version; further versions are rows of       *)
(* device_credentials. Secrets are named by their version.                *)
(***************************************************************************)
EXTENDS Integers

CONSTANTS
  MaxVersion,  \* bound: versions created
  MaxAcks      \* bound: acknowledgements of one version under way

ASSUME CredentialBounds == MaxVersion \in Nat \ {0} /\ MaxAcks \in Nat

Versions == 1..MaxVersion
Lifecycles == {"registered", "active", "quarantined", "decommissioned"}

\* A row of device_credentials. Its secret is empty where nothing was copied.
Absent == [secret |-> "absent"]
Credential ==
  [secret: {"kept", "empty"}, supersedes: Versions \cup {0}, expires: BOOLEAN,
   expired: BOOLEAN, acknowledged: BOOLEAN, revoked: BOOLEAN]

VARIABLES
  lifecycle,
  keyVersion,   \* devices.device_key_version; the hash beside it is its secret's
  credential,   \* device_credentials, by version
  held,         \* secrets the device has been given and has not dropped
  acks          \* acknowledgements that were let in and have not committed

credentialVars == <<lifecycle, keyVersion, credential, held, acks>>

Exists(v) == credential[v] # Absent

CredentialInit ==
  /\ lifecycle = "registered" /\ keyVersion = 1
  /\ credential = [v \in Versions |-> Absent]
  /\ held = {1} /\ acks = [v \in Versions |-> 0]

\* The device's own version needs its secret only; another version needs a row
\* that is neither revoked nor expired and holds the secret.
Authenticates(v) ==
  /\ lifecycle # "decommissioned"
  /\ \/ keyVersion = v
     \/ /\ Exists(v) /\ credential[v].secret = "kept"
        /\ ~credential[v].revoked /\ ~credential[v].expired

Copy ==
  [secret |-> "empty", supersedes |-> 0, expires |-> TRUE, expired |-> FALSE,
   acknowledged |-> FALSE, revoked |-> FALSE]
Successor(v) ==
  [secret |-> "kept", supersedes |-> v, expires |-> FALSE, expired |-> FALSE,
   acknowledged |-> FALSE, revoked |-> FALSE]

\* Mutant of Rotate: the device's row moves to the successor at once.
RotateAtOnce ==
  LET next == keyVersion + 1 IN
  /\ next \in Versions /\ ~Exists(next)
  /\ Exists(keyVersion) => ~credential[keyVersion].revoked
  /\ credential' = [credential EXCEPT ![next] = Successor(keyVersion),
                      ![keyVersion] = IF @ = Absent THEN Copy ELSE @]
  /\ keyVersion' = next
  /\ UNCHANGED <<lifecycle, held, acks>>

\* The present secret is copied beside its successor, without its hash, which
\* the query of the device leaves out. Versions are unique, so the rotation
\* fails as a whole while the successor is not acknowledged.
Rotate ==
  LET next == keyVersion + 1 IN
  /\ next \in Versions /\ ~Exists(next)
  /\ Exists(keyVersion) => ~credential[keyVersion].revoked
  /\ credential' = [credential EXCEPT ![next] = Successor(keyVersion),
                      ![keyVersion] = IF @ = Absent THEN Copy ELSE @]
  /\ UNCHANGED <<lifecycle, keyVersion, held, acks>>

\* The operator brings the secret, which is shown once, to the device.
Provision(v) ==
  /\ Exists(v) /\ credential[v].secret = "kept" /\ ~credential[v].acknowledged
  /\ held' = held \cup {v}
  /\ UNCHANGED <<lifecycle, keyVersion, credential, acks>>

\* A day has passed.
Expire(v) ==
  /\ Exists(v) /\ credential[v].expires /\ ~credential[v].expired
  /\ credential' = [credential EXCEPT ![v].expired = TRUE]
  /\ UNCHANGED <<lifecycle, keyVersion, held, acks>>

\* An acknowledgement is let in under the version it acknowledges, and finds
\* the successor before its transaction starts.
AckBegins(v) ==
  /\ v \in held /\ Authenticates(v) /\ acks[v] < MaxAcks
  /\ Exists(v) /\ credential[v].supersedes # 0
  /\ ~credential[v].acknowledged /\ ~credential[v].revoked
  /\ acks' = [acks EXCEPT ![v] = @ + 1]
  /\ UNCHANGED <<lifecycle, keyVersion, credential, held>>

\* The device drops older secrets when it hears of it.
Heard(v) == {held, {w \in held : w >= v}}

\* The transaction does not look again.
AckCommits(v) ==
  /\ acks[v] > 0
  /\ credential' = [credential EXCEPT ![v].acknowledged = TRUE,
                      ![credential[v].supersedes].revoked = TRUE]
  /\ keyVersion' = v
  /\ held' \in Heard(v)
  /\ acks' = [acks EXCEPT ![v] = @ - 1]
  /\ UNCHANGED lifecycle

\* The transaction fails or the process stops.
AckFails(v) ==
  /\ acks[v] > 0 /\ acks' = [acks EXCEPT ![v] = @ - 1]
  /\ UNCHANGED <<lifecycle, keyVersion, credential, held>>

\* An operator may move a device from any status to another, a decommissioned
\* one too.
SetLifecycle(status) ==
  /\ status \in Lifecycles \ {"registered", lifecycle}
  /\ lifecycle' = status
  /\ UNCHANGED <<keyVersion, credential, held, acks>>

CredentialNext ==
  \/ Rotate
  \/ \E v \in Versions :
       Provision(v) \/ Expire(v) \/ AckBegins(v) \/ AckCommits(v) \/ AckFails(v)
  \/ \E status \in Lifecycles : SetLifecycle(status)

CredentialSpec == CredentialInit /\ [][CredentialNext]_credentialVars

-----------------------------------------------------------------------------
(* Properties *)

\* A device in service always has a secret that lets it in, and none older
\* than the version of its row does, wherever a rotation was broken off,
\* repeated or heard of too late (control_plane.cpp:451-477, 1077-1094,
\* 1853-1872).
OneCredentialWorks ==
  /\ lifecycle # "decommissioned" => \E v \in held : Authenticates(v)
  /\ \A v \in Versions : v < keyVersion => ~Authenticates(v)
=============================================================================
