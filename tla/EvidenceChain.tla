--------------------------- MODULE EvidenceChain ---------------------------
(***************************************************************************)
(* The chain of evidence of one tenant: events, each with the hash of the *)
(* one before it, their verification, the checkpoints the maintenance job *)
(* takes, and the export and replay of a range that was frozen when it    *)
(* was asked for. Requests.tla says who appends.                          *)
(***************************************************************************)
EXTENDS Integers, Sequences, FiniteSets

CONSTANTS
  Tags,       \* what events say
  Subjects,   \* the aggregates events are about
  Interval,   \* a checkpoint is due at its multiples
  MaxEvents,  \* bound: length of the chain
  MaxAlters   \* bound: events altered behind the program's back

ASSUME IntervalAssumption == Interval \in Nat \ {0}

VARIABLES
  chain,        \* evidence_events, by sequence number
  checkpoints,  \* evidence_checkpoints: [at, hash]
  order,        \* an export or a replay of a range, while there is one
  altered       \* sequence numbers of events that were altered

evidenceVars == <<chain, checkpoints, order, altered>>

\* A hash stands for what was hashed: the hash before and the content.
Genesis == <<>>
Hash(prev, tag, subject) == <<prev, tag, subject>>
Corrupted == <<"corrupted">>

HeadHash(events) ==
  IF events = <<>> THEN Genesis ELSE events[Len(events)].hash

\* The event that comes after these.
NextEvent(events, tag, subject) ==
  LET prev == HeadHash(events) IN
  [tag |-> tag, subject |-> subject, prev |-> prev,
   hash |-> Hash(prev, tag, subject)]

\* verifyEvidence recomputes each hash and compares the links.
Sound(events, i) ==
  /\ events[i].prev = HeadHash(SubSeq(events, 1, i - 1))
  /\ events[i].hash = Hash(events[i].prev, events[i].tag, events[i].subject)

Valid(events) == \A i \in DOMAIN events : Sound(events, i)

FirstBroken(events) ==
  IF Valid(events) THEN 0
  ELSE CHOOSE i \in DOMAIN events :
         ~Sound(events, i) /\ \A j \in 1..(i - 1) : Sound(events, j)

-----------------------------------------------------------------------------

NoOrder == [kind |-> "none"]

EvidenceInit ==
  /\ chain = <<>> /\ checkpoints = {} /\ order = NoOrder /\ altered = {}

\* Maintenance verifies, and takes the newest event if it is at a multiple of
\* the interval when the job runs. A broken chain undoes the whole run.
Checkpoint ==
  /\ Valid(chain) /\ Len(chain) >= Interval /\ Len(chain) % Interval = 0
  /\ ~\E c \in checkpoints : c.at = Len(chain)
  /\ checkpoints' = checkpoints \cup {[at |-> Len(chain), hash |-> HeadHash(chain)]}
  /\ UNCHANGED <<chain, order, altered>>

\* The rows of events about one subject. A replay of a release is asked for
\* the range from its first to its last event, with a snapshot of its own
\* events only.
About(subject) == {i \in DOMAIN chain : chain[i].subject = subject}
LeastOf(S) == CHOOSE i \in S : \A j \in S : i <= j
GreatestOf(S) == CHOOSE i \in S : \A j \in S : j <= i
Slice(events, S) ==
  [n \in 1..Cardinality(S) |->
     events[CHOOSE i \in S : Cardinality({j \in S : j <= i}) = n]]

\* The range of a chain without events is from zero to zero.
RequestExport ==
  /\ order.kind = "none"
  /\ order' = [kind |-> "export", status |-> "queued",
               from |-> IF chain = <<>> THEN 0 ELSE 1, to |-> Len(chain), head |-> HeadHash(chain),
               snapshot |-> chain, read |-> <<>>]
  /\ UNCHANGED <<chain, checkpoints, altered>>

RequestReplay(subject) ==
  /\ order.kind = "none" /\ Valid(chain) /\ About(subject) # {}
  /\ order' = [kind |-> "replay", status |-> "queued",
               from |-> LeastOf(About(subject)), to |-> GreatestOf(About(subject)),
               head |-> Genesis, snapshot |-> Slice(chain, About(subject)),
               read |-> <<>>]
  /\ UNCHANGED <<chain, checkpoints, altered>>

End(status) == order' = [order EXCEPT !.status = status]

\* The export worker looks for the head of the range, reads the range, and
\* then verifies the chain.
ExportReads ==
  /\ order.kind = "export" /\ order.status = "queued"
  /\ IF order.to \notin DOMAIN chain \/ chain[order.to].hash # order.head
       THEN End("failed")
     ELSE order' = [order EXCEPT !.status = "read",
                                 !.read = SubSeq(chain, order.from, order.to)]
  /\ UNCHANGED <<chain, checkpoints, altered>>

\* Mutant of ExportFinishes: the chain is not verified again.
ExportFinishesUnverified ==
  /\ order.kind = "export" /\ order.status = "read"
  /\ End("completed")
  /\ UNCHANGED <<chain, checkpoints, altered>>

ExportFinishes ==
  /\ order.kind = "export" /\ order.status = "read"
  /\ End(IF Valid(chain) THEN "completed" ELSE "failed")
  /\ UNCHANGED <<chain, checkpoints, altered>>

\* The replay worker verifies the chain first and then reads every event of
\* the range, whatever it is about.
ReplayVerifies ==
  /\ order.kind = "replay" /\ order.status = "queued"
  /\ End(IF Valid(chain) THEN "verified" ELSE "failed")
  /\ UNCHANGED <<chain, checkpoints, altered>>

ReplayFinishes ==
  /\ order.kind = "replay" /\ order.status = "verified"
  /\ End(IF SubSeq(chain, order.from, order.to) = order.snapshot
           THEN "reproduced" ELSE "diverged")
  /\ UNCHANGED <<chain, checkpoints, altered>>

OrderIsDone ==
  /\ order.kind # "none"
  /\ order.status \in {"completed", "failed", "reproduced", "diverged"}
  /\ order' = NoOrder
  /\ UNCHANGED <<chain, checkpoints, altered>>

\* Someone edits the database: a hash, as the storage's test hook does, or
\* what an event says.
Alter(i) ==
  /\ i \in DOMAIN chain \ altered /\ Cardinality(altered) < MaxAlters
  /\ \/ chain' = [chain EXCEPT ![i].hash = Corrupted]
     \/ \E tag \in Tags \ {chain[i].tag} : chain' = [chain EXCEPT ![i].tag = tag]
  /\ altered' = altered \cup {i}
  /\ UNCHANGED <<checkpoints, order>>

EvidenceNext ==
  \/ Checkpoint
  \/ RequestExport \/ ExportReads \/ ExportFinishes
  \/ \E s \in Subjects : RequestReplay(s)
  \/ ReplayVerifies \/ ReplayFinishes
  \/ OrderIsDone
  \/ \E i \in 1..MaxEvents : Alter(i)

-----------------------------------------------------------------------------
(* Properties *)

\* Verification points at the first event that was altered, and finds nothing
\* where nothing was: appended events link to what was committed before them,
\* whoever appended them (sqlite_storage.cpp:209-252,
\* postgres_storage.cpp:288-340).
VerificationIsExact ==
  FirstBroken(chain) = IF altered = {} THEN 0 ELSE LeastOf(altered)

\* A completed export is the range as it stood when it was asked for, also
\* when the chain is altered before, or while, the worker reads it
\* (jobs.cpp:680-701).
ExportsAreFrozen ==
  order.kind = "export" /\ order.status = "completed" =>
    order.read = order.snapshot
=============================================================================
