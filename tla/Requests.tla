------------------------------ MODULE Requests ------------------------------
(***************************************************************************)
(* Mutating requests of operators: the limit on their rate, the key that  *)
(* makes a repeated request return the stored answer, and the transaction *)
(* in which the route's effect, the record of its answer, the evidence of *)
(* it and the deliveries of that evidence are committed together.         *)
(* Threads of one process take turns at the storage; processes that share *)
(* PostgreSQL do not, except where a key collides or evidence is appended.*)
(***************************************************************************)
EXTENDS EvidenceChain

CONSTANTS
  Clients,      \* requests under way at once
  Keys,         \* an operator, a route and an Idempotency-Key
  Digests,      \* bodies
  Adapters,     \* notification and workflow adapters
  Limit,        \* requests of a window
  MaxRequests,  \* bound: requests made
  MaxSweeps,    \* bound: records deleted for their age
  None

ASSUME RequestAssumption ==
  /\ Limit \in Nat \ {0} /\ MaxRequests \in Nat /\ MaxSweeps \in Nat
  /\ None \notin Clients /\ None \notin Digests
ASSUME NoneIsNoRecord == None \notin [digest : Digests, answer : Nat]

\* An execution is named by its number, and so is the answer it stored. The
\* other answers come from elsewhere.
Nothing == 0    \* no answer yet
Limited == -1   \* 429
Conflict == -2  \* 409, the key was used for another body
Failed == -3    \* 500, rolled back
Executed == Nat \ {0}

VARIABLES
  client,      \* [at, key, digest, answer] of each request
  txn,         \* what an open transaction has written
  lock,        \* the transaction that holds the tenant's chain
  records,     \* idempotency_records, by key
  deliveries,  \* outbox_deliveries: [event, adapter]
  enabled,     \* adapters that are enabled
  effects,     \* effects of accepted requests, by key
  leftovers,   \* what refused requests have left behind, by key
  bucket,      \* requests counted in the current window
  requests, executions, swept

requestVars == <<client, txn, lock, records, deliveries, enabled, effects,
                 leftovers, bucket, requests, executions, swept>>
vars == <<evidenceVars, requestVars>>

NoTxn == [events |-> <<>>, record |-> FALSE, outbox |-> {}, status |-> "none", id |-> 0]
Resting == [at |-> "idle", key |-> None, digest |-> None, answer |-> Nothing]

Init ==
  /\ EvidenceInit
  /\ client = [c \in Clients |-> Resting] /\ txn = [c \in Clients |-> NoTxn]
  /\ lock = None /\ records = [k \in Keys |-> None]
  /\ deliveries = {} /\ enabled \in SUBSET Adapters
  /\ effects = [k \in Keys |-> 0] /\ leftovers = [k \in Keys |-> 0]
  /\ bucket = 0 /\ requests = 0 /\ executions = 0
  /\ swept = [k \in Keys |-> 0]

Answer(c, a) == client' = [client EXCEPT ![c].at = "done", ![c].answer = a]

-----------------------------------------------------------------------------
(* Before the transaction *)

\* The bucket is counted before anything is looked up.
Arrive(c, k, d) ==
  /\ client[c].at = "idle" /\ requests < MaxRequests
  /\ requests' = requests + 1
  /\ client' = [client EXCEPT ![c] =
       [at |-> IF bucket < Limit THEN "lookup" ELSE "done", key |-> k,
        digest |-> d, answer |-> IF bucket < Limit THEN Nothing ELSE Limited]]
  /\ bucket' = IF bucket < Limit THEN bucket + 1 ELSE bucket
  /\ UNCHANGED <<evidenceVars, txn, lock, records, deliveries, enabled, effects,
                 leftovers, executions, swept>>

WindowEnds ==
  /\ bucket > 0 /\ bucket' = 0
  /\ UNCHANGED <<evidenceVars, client, txn, lock, records, deliveries, enabled,
                 effects, leftovers, requests, executions, swept>>

\* Mutant of Prior: the digest is not compared.
PriorByKey(c) ==
  LET r == records[client[c].key] IN
  IF r = None THEN Nothing ELSE r.answer

\* What is known of the key: nothing, another request, or the stored answer.
Prior(c) ==
  LET r == records[client[c].key] IN
  IF r = None THEN Nothing
  ELSE IF r.digest # client[c].digest THEN Conflict ELSE r.answer

\* The record is looked up outside of the transaction.
Lookup(c) ==
  /\ client[c].at = "lookup"
  /\ IF Prior(c) = Nothing
       THEN client' = [client EXCEPT ![c].at = "begin"]
       ELSE Answer(c, Prior(c))
  /\ UNCHANGED <<evidenceVars, txn, lock, records, deliveries, enabled, effects,
                 leftovers, bucket, requests, executions, swept>>

-----------------------------------------------------------------------------
(* The transaction *)

\* Mutant of MayAppend: the chain is not locked.
MayAppendAnytime(c) == Len(chain) + Len(txn[c].events) < MaxEvents

\* An append waits for the chain and keeps it to the end of the transaction.
MayAppend(c) == lock \in {None, c} /\ Len(chain) + Len(txn[c].events) < MaxEvents

Appended(c, tag) ==
  Append(txn[c].events, NextEvent(chain \o txn[c].events, tag, client[c].key))

\* The route runs: it takes effect, with an event of its own or without, or
\* refuses. A route's own transaction is only the operation it calls: what that
\* has written before it fails, as an approval decided before the release turns
\* out to have moved, stays part of this one. Its own event is its last write.
Dispatch(c) ==
  /\ client[c].at = "begin"
  /\ client' = [client EXCEPT ![c].at = "record"]
  /\ executions' = executions + 1
  /\ \E status \in {"ok", "partial", "refused"}, evident \in BOOLEAN :
       /\ evident => status = "ok" /\ MayAppend(c)
       /\ lock' = IF evident THEN c ELSE lock
       /\ txn' = [txn EXCEPT ![c] =
            [NoTxn EXCEPT !.status = status, !.id = executions + 1,
               !.events = IF evident THEN Appended(c, "route") ELSE @]]
  /\ UNCHANGED <<evidenceVars, records, deliveries, enabled, effects, leftovers,
                 bucket, requests, swept>>

\* A row with the same key that is not yet committed makes the insert wait.
Collides(c) ==
  \E other \in Clients \ {c} :
    txn[other].record /\ client[other].key = client[c].key

Abort(c) ==
  /\ Answer(c, Failed)
  /\ txn' = [txn EXCEPT ![c] = NoTxn]
  /\ lock' = IF lock = c THEN None ELSE lock

\* Mutant of InsertRecord: a committed row is replaced.
InsertRecordReplaces(c) ==
  /\ client[c].at = "record" /\ ~Collides(c)
  /\ txn' = [txn EXCEPT ![c].record = TRUE]
  /\ client' = [client EXCEPT ![c].at =
                  IF txn[c].status = "ok" THEN "accept" ELSE "commit"]
  /\ UNCHANGED lock
  /\ UNCHANGED <<evidenceVars, records, deliveries, enabled, effects, leftovers,
                 bucket, requests, executions, swept>>

\* Mutant of InsertRecord: a route with an event of its own adds no other.
InsertRecordShort(c) ==
  /\ client[c].at = "record" /\ ~Collides(c)
  /\ IF records[client[c].key] # None THEN Abort(c)
     ELSE /\ txn' = [txn EXCEPT ![c].record = TRUE]
          /\ client' = [client EXCEPT ![c].at =
                          IF txn[c].status = "ok" /\ txn[c].events = <<>>
                            THEN "accept" ELSE "commit"]
          /\ UNCHANGED lock
  /\ UNCHANGED <<evidenceVars, records, deliveries, enabled, effects, leftovers,
                 bucket, requests, executions, swept>>

\* A row that is committed makes it fail.
InsertRecord(c) ==
  /\ client[c].at = "record" /\ ~Collides(c)
  /\ IF records[client[c].key] # None THEN Abort(c)
     ELSE /\ txn' = [txn EXCEPT ![c].record = TRUE]
          /\ client' = [client EXCEPT ![c].at =
                          IF txn[c].status = "ok" THEN "accept" ELSE "commit"]
          /\ UNCHANGED lock
  /\ UNCHANGED <<evidenceVars, records, deliveries, enabled, effects, leftovers,
                 bucket, requests, executions, swept>>

Outbox(c) ==
  {[event |-> Len(chain) + Len(txn[c].events) + 1, adapter |-> a] : a \in enabled}

\* The evidence that a mutation was accepted, and a delivery of it for each
\* adapter that is enabled.
Accept(c) ==
  /\ client[c].at = "accept" /\ MayAppend(c)
  /\ lock' = c
  /\ txn' = [txn EXCEPT ![c].events = Appended(c, "accepted"),
                           ![c].outbox = Outbox(c)]
  /\ client' = [client EXCEPT ![c].at = "commit"]
  /\ UNCHANGED <<evidenceVars, records, deliveries, enabled, effects, leftovers,
                 bucket, requests, executions, swept>>

Committed(c) == [digest |-> client[c].digest, answer |-> txn[c].id]

Commit(c) ==
  /\ client[c].at = "commit"
  /\ chain' = chain \o txn[c].events
  /\ records' = [records EXCEPT ![client[c].key] = Committed(c)]
  /\ deliveries' = deliveries \cup txn[c].outbox
  /\ effects' = [effects EXCEPT ![client[c].key] =
                   @ + IF txn[c].status = "ok" THEN 1 ELSE 0]
  /\ leftovers' = [leftovers EXCEPT ![client[c].key] =
                     @ + IF txn[c].status = "partial" THEN 1 ELSE 0]
  /\ lock' = IF lock = c THEN None ELSE lock
  /\ txn' = [txn EXCEPT ![c] = NoTxn]
  /\ Answer(c, txn[c].id)
  /\ UNCHANGED <<checkpoints, order, altered, enabled, bucket, requests,
                 executions, swept>>

\* Any statement may fail: the storage, a conflict the database resolves
\* against this transaction, or the end of the process.
Fail(c) ==
  /\ client[c].at \in {"begin", "record", "accept", "commit"}
  /\ Abort(c)
  /\ UNCHANGED <<evidenceVars, records, deliveries, enabled, effects, leftovers,
                 bucket, requests, executions, swept>>

-----------------------------------------------------------------------------

\* The client has its answer, or has lost it, and may ask again.
Rest(c) ==
  /\ client[c].at = "done" /\ requests < MaxRequests
  /\ client' = [client EXCEPT ![c] = Resting]
  /\ UNCHANGED <<evidenceVars, txn, lock, records, deliveries, enabled, effects,
                 leftovers, bucket, requests, executions, swept>>

\* Records of a week ago are deleted.
SweepRecord(k) ==
  /\ records[k] # None /\ swept[k] < MaxSweeps
  /\ records' = [records EXCEPT ![k] = None]
  /\ swept' = [swept EXCEPT ![k] = @ + 1]
  /\ UNCHANGED <<evidenceVars, client, txn, lock, deliveries, enabled, effects,
                 leftovers, bucket, requests, executions>>

Next ==
  \/ EvidenceNext /\ UNCHANGED requestVars
  \/ WindowEnds
  \/ \E c \in Clients :
       \/ \E k \in Keys, d \in Digests : Arrive(c, k, d)
       \/ Lookup(c) \/ Dispatch(c) \/ InsertRecord(c) \/ Accept(c) \/ Commit(c)
       \/ Fail(c) \/ Rest(c)
  \/ \E k \in Keys : SweepRecord(k)

Spec == Init /\ [][Next]_vars

-----------------------------------------------------------------------------
(* Properties *)

AcceptedFor(k) == {i \in DOMAIN chain : chain[i].tag = "accepted" /\ chain[i].subject = k}

\* A key takes effect once, in full or in part, however often and by however
\* many threads its request is sent, unless its record was swept in between
\* (control_plane.cpp:717-733).
AtMostOnce == \A k \in Keys : effects[k] + leftovers[k] <= 1 + swept[k]

\* Two requests under one key that were both answered agree: the same body
\* has the same answer, another body a conflict, unless the record was swept.
AnswersAgree ==
  \A c, d \in Clients :
    /\ client[c].key = client[d].key /\ client[c].key # None
    /\ client[c].answer \in Executed /\ client[d].answer \in Executed
    /\ swept[client[c].key] = 0
    => client[c].digest = client[d].digest /\ client[c].answer = client[d].answer

\* Every effect of an accepted request is evidenced as accepted, and nothing
\* else is, a refused request's leftovers least of all; a delivery carries an
\* event that says so. The effect, the event and the deliveries of one request
\* commit together or not at all (control_plane.cpp:725-741).
EffectsAreEvidenced ==
  altered = {} =>
    /\ \A k \in Keys : Cardinality(AcceptedFor(k)) = effects[k]
    /\ \A d \in deliveries : d.event \in DOMAIN chain /\ chain[d.event].tag = "accepted"
=============================================================================
