---------------------------- MODULE ArtifactStore ----------------------------
(***************************************************************************)
(* Uploaded artifacts: their rows, and the files behind them, each named  *)
(* by its digest. An upload writes a temporary file, renames it, and then *)
(* inserts the row; it may stop between any two of these. Uploads of      *)
(* processes that share the store interleave.                             *)
(***************************************************************************)
EXTENDS Integers, FiniteSets

CONSTANTS
  Uploads,    \* requests to upload, one name and version each
  Digest,     \* the digest of what each of them brings
  MaxDamage   \* bound: files the disk damages

Digests == {Digest[u] : u \in Uploads}
FileStatus == {"absent", "partial", "whole"}
KeyStatus == {"active", "retired", "compromised"}
RowStatus == {"none", "ready", "blocked", "retired"}

\* What a signature was made over: the upload's payload, with the digest and
\* the manifest in it, or the manifest alone.
Signed == {"payload", "manifest"}
Verify(signature, message) == signature = message

VARIABLES
  at,         \* where each upload is
  signature,  \* what its signature was made over
  temp,       \* its temporary file
  file,       \* the store, by digest
  artifact,   \* status of the row of each upload
  key,        \* status of the tenant's signing key
  damaged,    \* digests whose file the disk has damaged
  litter      \* temporary files nobody works on are left

artifactVars == <<at, signature, temp, file, artifact, key, damaged, litter>>

ArtifactInit ==
  /\ at = [u \in Uploads |-> "start"] /\ signature \in [Uploads -> Signed]
  /\ temp = [u \in Uploads |-> "absent"] /\ file = [d \in Digests |-> "absent"]
  /\ artifact = [u \in Uploads |-> "none"]
  /\ key = "active" /\ damaged = {} /\ litter = FALSE

Moves(u, place) == at' = [at EXCEPT ![u] = place]

\* A key that is not active, or a signature of something else, is refused.
Accept(u) ==
  /\ at[u] = "start"
  /\ Moves(u, IF key = "active" /\ Verify(signature[u], "payload")
                THEN "look" ELSE "done")
  /\ UNCHANGED <<signature, temp, file, artifact, key, damaged, litter>>

\* A file that is already there, whatever is in it, is taken for the artifact.
\* Short of disk space the upload is refused.
Look(u) ==
  /\ at[u] = "look"
  /\ \/ Moves(u, IF file[Digest[u]] = "absent" THEN "write" ELSE "insert")
     \/ Moves(u, "done")
  /\ UNCHANGED <<signature, temp, file, artifact, key, damaged, litter>>

Write(u) ==
  /\ at[u] = "write"
  /\ temp' = [temp EXCEPT ![u] = IF @ = "absent" THEN "partial" ELSE "whole"]
  /\ Moves(u, IF temp[u] = "absent" THEN "write" ELSE "rename")
  /\ UNCHANGED <<signature, file, artifact, key, damaged, litter>>

\* The disk is full: the temporary file stays.
WriteFails(u) ==
  /\ at[u] = "write" /\ temp[u] = "partial"
  /\ temp' = [temp EXCEPT ![u] = "absent"] /\ litter' = TRUE
  /\ Moves(u, "done")
  /\ UNCHANGED <<signature, file, artifact, key, damaged>>

\* Mutant of Rename: the bytes are copied, and the copy may end early.
RenameByCopy(u) ==
  /\ at[u] = "rename"
  /\ temp' = [temp EXCEPT ![u] = "absent"]
  /\ \/ file' = [file EXCEPT ![Digest[u]] = "whole"]
        /\ damaged' = damaged \ {Digest[u]} /\ Moves(u, "insert")
     \/ file' = [file EXCEPT ![Digest[u]] = "partial"]
        /\ damaged' = damaged \ {Digest[u]} /\ Moves(u, "done")
  /\ UNCHANGED <<signature, artifact, key, litter>>

\* The file appears at once and whole, in place of one that came before, or
\* the rename fails and the temporary file is removed.
Rename(u) ==
  /\ at[u] = "rename"
  /\ temp' = [temp EXCEPT ![u] = "absent"]
  /\ \/ file' = [file EXCEPT ![Digest[u]] = "whole"]
        /\ damaged' = damaged \ {Digest[u]} /\ Moves(u, "insert")
     \/ UNCHANGED <<file, damaged>> /\ Moves(u, "done")
  /\ UNCHANGED <<signature, artifact, key, litter>>

\* The row is inserted, or its transaction fails and the file stays.
Insert(u) ==
  /\ at[u] = "insert"
  /\ artifact' \in {artifact, [artifact EXCEPT ![u] = "ready"]}
  /\ Moves(u, "done")
  /\ UNCHANGED <<signature, temp, file, key, damaged, litter>>

\* The process stops, or the operator tries again after an upload that left no
\* row.
Crash(u) ==
  /\ at[u] \notin {"start", "done"}
  /\ litter' = (litter \/ temp[u] # "absent")
  /\ temp' = [temp EXCEPT ![u] = "absent"] /\ Moves(u, "done")
  /\ UNCHANGED <<signature, file, artifact, key, damaged>>

Again(u) ==
  /\ at[u] = "done" /\ artifact[u] = "none" /\ Moves(u, "start")
  /\ UNCHANGED <<signature, temp, file, artifact, key, damaged, litter>>

\* Temporary files of yesterday are removed.
SweepTemporary ==
  /\ litter /\ litter' = FALSE
  /\ UNCHANGED <<at, signature, temp, file, artifact, key, damaged>>

-----------------------------------------------------------------------------

Intact(u) == file[Digest[u]] = "whole" /\ Digest[u] \notin damaged

\* Whatever its status was, the artifact is ready or blocked by what is found
\* now; the signature is held against the manifest.
Revalidate(u) ==
  /\ artifact[u] # "none"
  /\ artifact' = [artifact EXCEPT ![u] =
       IF Intact(u) /\ key # "compromised" /\ Verify(signature[u], "manifest")
         THEN "ready" ELSE "blocked"]
  /\ UNCHANGED <<at, signature, temp, file, key, damaged, litter>>

Retire(u) ==
  /\ artifact[u] = "ready" /\ artifact' = [artifact EXCEPT ![u] = "retired"]
  /\ UNCHANGED <<at, signature, temp, file, key, damaged, litter>>

RetireKey ==
  /\ key = "active" /\ key' = "retired"
  /\ UNCHANGED <<at, signature, temp, file, artifact, damaged, litter>>

\* The artifacts it signed are blocked, also where the key was retired before
\* and stays so.
CompromiseKey ==
  /\ key' = IF key = "active" THEN "compromised" ELSE key
  /\ artifact' = [u \in Uploads |->
                    IF artifact[u] = "ready" THEN "blocked" ELSE artifact[u]]
  /\ UNCHANGED <<at, signature, temp, file, damaged, litter>>

\* External: the disk loses or changes bytes.
Damage(d) ==
  /\ file[d] = "whole" /\ Cardinality(damaged) < MaxDamage
  /\ damaged' = damaged \cup {d}
  /\ file' \in {file, [file EXCEPT ![d] = "absent"]}
  /\ UNCHANGED <<at, signature, temp, artifact, key, litter>>

ArtifactNext ==
  \/ \E u \in Uploads :
       \/ Accept(u) \/ Look(u) \/ Write(u) \/ WriteFails(u) \/ Rename(u)
       \/ Insert(u) \/ Crash(u) \/ Again(u) \/ Revalidate(u) \/ Retire(u)
  \/ SweepTemporary \/ RetireKey \/ CompromiseKey
  \/ \E d \in Digests : Damage(d)

ArtifactSpec == ArtifactInit /\ [][ArtifactNext]_artifactVars

-----------------------------------------------------------------------------
(* Properties *)

\* No row is without its file, and no file is there in part, unless the disk
\* did it: whatever step of an upload is the last, and whoever else uploads
\* the same bytes (control_plane.cpp:951-980).
RowsAreBacked ==
  /\ \A d \in Digests : file[d] # "partial"
  /\ \A u \in Uploads :
       artifact[u] # "none" => Intact(u) \/ Digest[u] \in damaged

\* Said of the program by openapi.yaml:68 ("Validate artifact bytes, manifest,
\* compatibility, and signature") and by the operator's journey in README.md:
\* an artifact whose key is active is blocked only if its bytes are damaged.
BlockedForCause ==
  \A u \in Uploads :
    artifact[u] = "blocked" /\ key = "active" => Digest[u] \in damaged
=============================================================================
