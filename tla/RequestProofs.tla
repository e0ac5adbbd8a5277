---------------------------- MODULE RequestProofs ----------------------------
(***************************************************************************)
(* That a key takes effect once and is answered alike, for any number of  *)
(* requests, keys and bodies, whether or not the rate is limited; that    *)
(* every effect of an accepted request is evidenced, that verification    *)
(* finds the first event that was altered, and that completed exports are *)
(* what was asked for.                                                    *)
(***************************************************************************)
EXTENDS Requests, SequenceTheorems, FiniteSetTheorems, TLAPS

ClientRow ==
  [at : {"idle", "lookup", "begin", "record", "accept", "commit", "done"},
   key : Keys \cup {None}, digest : Digests \cup {None}, answer : Int]

\* What a transaction's events and deliveries are does not matter here.
TxnRow(E, O) ==
  [events : E, record : BOOLEAN, outbox : O, status : {"none", "ok", "partial", "refused"}, id : Nat]
TxnTypes == \E E, O : txn \in [Clients -> TxnRow(E, O)]

RecordRow == [digest : Digests, answer : Nat]

RequestTypes ==
  /\ client \in [Clients -> ClientRow]
  /\ TxnTypes
  /\ records \in [Keys -> RecordRow \cup {None}]
  /\ effects \in [Keys -> Nat] /\ leftovers \in [Keys -> Nat] /\ swept \in [Keys -> Nat]
  /\ executions \in Nat

\* The row a transaction has inserted is the only one of its key, committed or
\* not: that is what the unique index of the table is for.
RowIsAlone ==
  /\ \A c \in Clients :
       /\ client[c].at \notin {"idle", "done"} => client[c].key \in Keys /\ client[c].digest \in Digests
       /\ client[c].at \in {"record", "accept", "commit"} => txn[c].id > 0
       /\ txn[c].record <=> client[c].at \in {"accept", "commit"}
       /\ txn[c].record => records[client[c].key] = None
  /\ \A c, d \in Clients :
       txn[c].record /\ txn[d].record /\ c # d => client[c].key # client[d].key

\* A key without a record has taken no effect since the last sweep.
EffectsAreRecorded ==
  \A k \in Keys :
    effects[k] + leftovers[k] <= swept[k] + IF records[k] = None THEN 0 ELSE 1

\* What an execution answered is on record until it is swept.
AnswersAreRecorded ==
  \A c \in Clients :
    client[c].answer \in Executed =>
      /\ client[c].key \in Keys /\ client[c].digest \in Digests
      /\ swept[client[c].key] = 0 =>
           records[client[c].key] = [digest |-> client[c].digest, answer |-> client[c].answer]

Once == RequestTypes /\ RowIsAlone /\ EffectsAreRecorded /\ AnswersAreRecorded

LEMMA OnceImplies == Once => AtMostOnce /\ AnswersAgree
<1>1. Once => AtMostOnce
  BY DEF Once, RequestTypes, EffectsAreRecorded, AtMostOnce
<1>2. ASSUME Once, NEW c \in Clients, NEW d \in Clients, client[c].key = client[d].key,
             client[c].answer \in Executed, client[d].answer \in Executed,
             swept[client[c].key] = 0
      PROVE  client[c].digest = client[d].digest /\ client[c].answer = client[d].answer
  <2>1. [digest |-> client[c].digest, answer |-> client[c].answer]
          = [digest |-> client[d].digest, answer |-> client[d].answer]
    BY <1>2 DEF Once, AnswersAreRecorded
  <2>2. QED
    BY <2>1
<1>3. QED
  BY <1>1, <1>2 DEF AnswersAgree

LEMMA TxnChanges ==
  ASSUME TxnTypes, NEW c \in Clients, NEW E, NEW O, NEW t \in TxnRow(E, O),
         txn' = [txn EXCEPT ![c] = t]
  PROVE  /\ TxnTypes' /\ txn'[c] = t
         /\ \A d \in Clients \ {c} : txn'[d] = txn[d]
<1>1. PICK F, P : txn \in [Clients -> TxnRow(F, P)]
  BY DEF TxnTypes
<1>2. /\ \A d \in Clients : txn[d] \in TxnRow(E \cup F, O \cup P)
      /\ t \in TxnRow(E \cup F, O \cup P)
  BY <1>1 DEF TxnRow
<1>3. txn' \in [Clients -> TxnRow(E \cup F, O \cup P)]
  <2> HIDE DEF TxnRow
  <2>1. QED
    BY <1>1, <1>2
<1>4. TxnTypes'
  BY <1>3 DEF TxnTypes
<1>5. QED
  BY <1>1, <1>4

LEMMA NoTxnIsTxn == NoTxn \in TxnRow({<<>>}, {{}}) /\ ~NoTxn.record
  BY DEF NoTxn, TxnRow

LEMMA ClientChanges ==
  ASSUME RequestTypes, NEW c \in Clients, NEW place,
         client' = [client EXCEPT ![c].at = place]
  PROVE  /\ client'[c].at = place /\ client'[c].key = client[c].key
         /\ client'[c].digest = client[c].digest /\ client'[c].answer = client[c].answer
         /\ \A d \in Clients \ {c} : client'[d] = client[d]
  BY DEF RequestTypes, ClientRow

LEMMA ClientAnswers ==
  ASSUME RequestTypes, NEW c \in Clients, NEW a, Answer(c, a)
  PROVE  /\ client'[c].at = "done" /\ client'[c].key = client[c].key
         /\ client'[c].digest = client[c].digest /\ client'[c].answer = a
         /\ \A d \in Clients \ {c} : client'[d] = client[d]
  BY DEF RequestTypes, ClientRow, Answer

LEMMA ArriveKeeps ==
  ASSUME Once, NEW c \in Clients, NEW k \in Keys, NEW d \in Digests, Arrive(c, k, d)
  PROVE  Once'
<1>1. RequestTypes'
  BY DEF Arrive, Once, RequestTypes, TxnTypes, ClientRow, Nothing, Limited
<1>2. RowIsAlone' /\ EffectsAreRecorded' /\ AnswersAreRecorded'
  BY DEF Arrive, Once, RequestTypes, ClientRow, RowIsAlone, EffectsAreRecorded,
     AnswersAreRecorded, Nothing, Limited, Executed
<1>3. QED
  BY <1>1, <1>2 DEF Once

LEMMA LookupKeeps ==
  ASSUME Once, NEW c \in Clients, Lookup(c) PROVE Once'
<1>1. client[c].key \in Keys
  BY DEF Lookup, Once, RowIsAlone
<1>2. /\ Prior(c) \in Int
      /\ Prior(c) \in Executed =>
           records[client[c].key] = [digest |-> client[c].digest, answer |-> Prior(c)]
      /\ client[c].digest \in Digests
  BY <1>1 DEF Lookup, RowIsAlone, Prior, Once, RequestTypes, RecordRow, Nothing, Conflict, Executed
<1>3. RequestTypes'
  BY <1>2 DEF Lookup, Answer, Once, RequestTypes, TxnTypes, ClientRow
<1>4. RowIsAlone' /\ EffectsAreRecorded'
  BY DEF Lookup, Answer, Once, RequestTypes, ClientRow, RowIsAlone, EffectsAreRecorded
<1>5. AnswersAreRecorded'
  BY <1>1, <1>2 DEF Lookup, Answer, Once, RequestTypes, ClientRow, AnswersAreRecorded
<1>6. QED
  BY <1>3, <1>4, <1>5 DEF Once

LEMMA DispatchKeeps ==
  ASSUME Once, NEW c \in Clients, Dispatch(c) PROVE Once'
<1>1. PICK status \in {"ok", "partial", "refused"}, evident \in BOOLEAN :
        txn' = [txn EXCEPT ![c] =
          [NoTxn EXCEPT !.status = status, !.id = executions + 1,
             !.events = IF evident THEN Appended(c, "route") ELSE @]]
  BY DEF Dispatch
<1> DEFINE id == executions + 1
           events == IF evident THEN Appended(c, "route") ELSE NoTxn.events
           t == [NoTxn EXCEPT !.status = status, !.id = id, !.events = events]
<1>2. t \in TxnRow({events}, {{}}) /\ ~t.record /\ t.id > 0
  <2>1. id \in Nat /\ id > 0
    BY DEF Once, RequestTypes
  <2> HIDE DEF events, id
  <2>2. QED
    BY <2>1, NoTxnIsTxn DEF TxnRow
<1>3. /\ TxnTypes' /\ txn'[c] = t
      /\ \A d \in Clients \ {c} : txn'[d] = txn[d]
  <2>1. txn' = [txn EXCEPT ![c] = t]
    BY <1>1
  <2> HIDE DEF t
  <2>2. QED
    BY <1>2, <2>1, TxnChanges DEF Once, RequestTypes
<1> HIDE DEF t
<1>4. /\ client' = [client EXCEPT ![c].at = "record"] /\ client[c].at = "begin"
      /\ executions' = executions + 1
      /\ UNCHANGED <<records, effects, leftovers, swept>>
  BY DEF Dispatch
<1>5. RequestTypes'
  BY <1>3, <1>4 DEF Once, RequestTypes, ClientRow
<1>6. RowIsAlone'
  BY <1>2, <1>3, <1>4 DEF Once, RequestTypes, ClientRow, RowIsAlone
<1>7. EffectsAreRecorded' /\ AnswersAreRecorded'
  BY <1>4 DEF Once, RequestTypes, ClientRow, EffectsAreRecorded, AnswersAreRecorded
<1>8. QED
  BY <1>5, <1>6, <1>7 DEF Once

LEMMA AbortKeeps ==
  ASSUME Once, NEW c \in Clients, Abort(c),
         UNCHANGED <<records, effects, leftovers, executions, swept>>
  PROVE  Once'
<1>1. /\ TxnTypes' /\ txn'[c] = NoTxn
      /\ \A d \in Clients \ {c} : txn'[d] = txn[d]
  BY NoTxnIsTxn, TxnChanges DEF Abort, Once, RequestTypes
<1>2. client' = [client EXCEPT ![c].at = "done", ![c].answer = Failed]
  BY DEF Abort, Answer
<1> DEFINE Answered ==
             /\ client'[c].at = "done" /\ client'[c].key = client[c].key
             /\ client'[c].digest = client[c].digest /\ client'[c].answer = Failed
             /\ \A d \in Clients \ {c} : client'[d] = client[d]
<1>8. Answered
  BY ClientAnswers DEF Abort, Once
<1>3. Failed \in Int /\ Failed \notin Executed
  BY DEF Failed, Executed
<1>4. RequestTypes'
  <2>1. client[c] \in ClientRow
    BY DEF Once, RequestTypes
  <2>2. [client[c] EXCEPT !.at = "done", !.answer = Failed] \in ClientRow
    BY <1>3, <2>1 DEF ClientRow
  <2>3. client' \in [Clients -> ClientRow]
    BY <1>2, <2>2 DEF Once, RequestTypes
  <2>4. QED
    BY <1>1, <2>3 DEF Once, RequestTypes
<1>5. RowIsAlone'
  BY <1>1, <1>8, NoTxnIsTxn DEF Once, RowIsAlone
<1>6. EffectsAreRecorded' /\ AnswersAreRecorded'
  BY <1>8, <1>3 DEF Once, EffectsAreRecorded, AnswersAreRecorded
<1>9. QED
  BY <1>4, <1>5, <1>6 DEF Once

LEMMA InsertRecordKeeps ==
  ASSUME Once, NEW c \in Clients, InsertRecord(c) PROVE Once'
<1>1. CASE records[client[c].key] # None
  BY <1>1, AbortKeeps DEF InsertRecord
<1>2. CASE records[client[c].key] = None
  <2> DEFINE t == [txn[c] EXCEPT !.record = TRUE]
  <2>1. PICK F, P : txn \in [Clients -> TxnRow(F, P)]
    BY DEF Once, RequestTypes, TxnTypes
  <2>2. txn' = [txn EXCEPT ![c] = t]
    BY <1>2, <2>1 DEF InsertRecord
  <2>3. t \in TxnRow(F, P) /\ t.record /\ t.id = txn[c].id
    <3>1. txn[c] \in TxnRow(F, P)
      BY <2>1
    <3>2. QED
      BY <3>1 DEF TxnRow
  <2>4. /\ TxnTypes' /\ txn'[c] = t
        /\ \A d \in Clients \ {c} : txn'[d] = txn[d]
    BY <2>2, <2>3, TxnChanges DEF Once, RequestTypes
  <2> HIDE DEF t
  <2>5. PICK place \in {"accept", "commit"} : client' = [client EXCEPT ![c].at = place]
    BY <1>2 DEF InsertRecord
  <2>6. client[c].at = "record" /\ UNCHANGED <<records, effects, leftovers, executions, swept>>
    BY <1>2 DEF InsertRecord
  <2>7. RequestTypes'
    BY <2>4, <2>5, <2>6 DEF Once, RequestTypes, ClientRow
  <2>8. RowIsAlone'
    BY <1>2, <2>3, <2>4, <2>5, <2>6 DEF InsertRecord, Collides, Once, RequestTypes,
       ClientRow, RowIsAlone
  <2>9. EffectsAreRecorded' /\ AnswersAreRecorded'
    BY <2>5, <2>6 DEF Once, RequestTypes, ClientRow, EffectsAreRecorded, AnswersAreRecorded
  <2>10. QED
    BY <2>7, <2>8, <2>9 DEF Once
<1>3. QED
  BY <1>1, <1>2

LEMMA AcceptKeeps ==
  ASSUME Once, NEW c \in Clients, Accept(c) PROVE Once'
<1> DEFINE events == Appended(c, "accepted")
           outbox == Outbox(c)
           t == [txn[c] EXCEPT !.events = events, !.outbox = outbox]
<1>1. PICK F, P : txn \in [Clients -> TxnRow(F, P)]
  BY DEF Once, RequestTypes, TxnTypes
<1>2. txn' = [txn EXCEPT ![c] = t]
  BY <1>1 DEF Accept
<1>3. t \in TxnRow({events}, {outbox}) /\ t.record = txn[c].record /\ t.id = txn[c].id
  <2>1. txn[c] \in TxnRow(F, P)
    BY <1>1
  <2> HIDE DEF events, outbox
  <2>2. QED
    BY <2>1 DEF TxnRow
<1>4. /\ TxnTypes' /\ txn'[c] = t
      /\ \A d \in Clients \ {c} : txn'[d] = txn[d]
  BY <1>2, <1>3, TxnChanges DEF Once, RequestTypes
<1> HIDE DEF t
<1>5. /\ client' = [client EXCEPT ![c].at = "commit"] /\ client[c].at = "accept"
      /\ UNCHANGED <<records, effects, leftovers, executions, swept>>
  BY DEF Accept
<1>6. RequestTypes'
  BY <1>4, <1>5 DEF Once, RequestTypes, ClientRow
<1>7. /\ client'[c].at = "commit" /\ client'[c].key = client[c].key
      /\ client'[c].digest = client[c].digest /\ client'[c].answer = client[c].answer
      /\ \A d \in Clients \ {c} : client'[d] = client[d]
  BY <1>5, ClientChanges DEF Once
<1>8. RowIsAlone'
  BY <1>3, <1>4, <1>5, <1>7 DEF Once, RowIsAlone
<1>9. EffectsAreRecorded' /\ AnswersAreRecorded'
  BY <1>5, <1>7 DEF Once, EffectsAreRecorded, AnswersAreRecorded
<1>10. QED
  BY <1>6, <1>8, <1>9 DEF Once

LEMMA CommitKeeps ==
  ASSUME Once, NEW c \in Clients, Commit(c) PROVE Once'
<1> DEFINE k == client[c].key
           r == Committed(c)
           more == IF txn[c].status = "ok" THEN 1 ELSE 0
           part == IF txn[c].status = "partial" THEN 1 ELSE 0
<1>1. k \in Keys /\ records[k] = None /\ txn[c].record /\ txn[c].id \in Nat
  <2>1. PICK F, P : txn \in [Clients -> TxnRow(F, P)]
    BY DEF Once, RequestTypes, TxnTypes
  <2>2. txn[c].id \in Nat
    BY <2>1 DEF TxnRow
  <2>3. QED
    BY <2>2 DEF Commit, Once, RowIsAlone
<1>2. r \in RecordRow /\ r # None
  BY <1>1, NoneIsNoRecord DEF Commit, Committed, RecordRow, Once, RowIsAlone
<1>3. /\ TxnTypes' /\ txn'[c] = NoTxn /\ ~NoTxn.record
      /\ \A d \in Clients \ {c} : txn'[d] = txn[d]
  <2>1. txn' = [txn EXCEPT ![c] = NoTxn]
    BY DEF Commit
  <2>2. TxnTypes
    BY DEF Once, RequestTypes
  <2>3. NoTxn \in TxnRow({<<>>}, {{}})
    BY NoTxnIsTxn
  <2>4. TxnTypes' /\ txn'[c] = NoTxn /\ \A d \in Clients \ {c} : txn'[d] = txn[d]
    BY <2>1, <2>2, <2>3, TxnChanges
  <2>5. QED
    BY <2>4, NoTxnIsTxn
<1>4. effects' = [effects EXCEPT ![k] = effects[k] + more] /\ more \in {0, 1}
  BY DEF Commit
<1>11. leftovers' = [leftovers EXCEPT ![k] = leftovers[k] + part] /\ part \in {0, 1}
       /\ more + part <= 1
  BY DEF Commit
<1>5. records' = [records EXCEPT ![k] = r]
  BY DEF Commit
<1>6. client' = [client EXCEPT ![c].at = "done", ![c].answer = txn[c].id]
  BY DEF Commit, Answer
<1>7. RequestTypes'
  <2>1. records' \in [Keys -> RecordRow \cup {None}]
    <3> HIDE DEF r
    <3>1. QED
      BY <1>2, <1>5 DEF Once, RequestTypes
  <2>2. effects' \in [Keys -> Nat] /\ leftovers' \in [Keys -> Nat]
    <3> HIDE DEF more, part
    <3>1. QED
      BY <1>1, <1>4, <1>11 DEF Once, RequestTypes
  <2>3. client' \in [Clients -> ClientRow]
    <3> DEFINE id == txn[c].id
    <3>1. id \in Int
      BY <1>1
    <3> HIDE DEF id
    <3>2. client' = [client EXCEPT ![c] = [client[c] EXCEPT !.at = "done", !.answer = id]]
      BY <1>6 DEF id, Once, RequestTypes
    <3>3. [client[c] EXCEPT !.at = "done", !.answer = id] \in ClientRow
      BY <3>1 DEF Once, RequestTypes, ClientRow
    <3>4. QED
      BY <3>2, <3>3 DEF Once, RequestTypes
  <2>4. QED
    BY <1>3, <2>1, <2>2, <2>3 DEF Commit, Once, RequestTypes
<1>8. RowIsAlone'
  BY <1>1, <1>3, <1>5, <1>6 DEF Commit, Once, RequestTypes, ClientRow, RowIsAlone
<1>9. EffectsAreRecorded'
  <2> HIDE DEF more, part, r
  <2>1. UNCHANGED swept
    BY DEF Commit
  <2>2. QED
    BY <1>1, <1>2, <1>4, <1>5, <1>11, <2>1 DEF Once, RequestTypes, EffectsAreRecorded
<1>10. AnswersAreRecorded'
  <2>1. client'[c].key = k /\ client'[c].digest = client[c].digest /\ client'[c].answer = txn[c].id
    BY <1>6 DEF Once, RequestTypes, ClientRow
  <2>2. \A d \in Clients \ {c} : client'[d] = client[d]
    BY <1>6 DEF Once, RequestTypes
  <2>3. records'[k] = [digest |-> client[c].digest, answer |-> txn[c].id]
    BY <1>1, <1>5 DEF Committed, Once, RequestTypes
  <2>4. \A j \in Keys \ {k} : records'[j] = records[j]
    BY <1>5 DEF Once, RequestTypes
  <2>5. ASSUME NEW d \in Clients \ {c}, client[d].answer \in Executed, client[d].key = k,
               swept[k] = 0
        PROVE  FALSE
    <3>1. records[k] = [digest |-> client[d].digest, answer |-> client[d].answer]
      BY <2>5 DEF Once, AnswersAreRecorded
    <3>2. client[d].digest \in Digests
      BY <2>5 DEF Once, AnswersAreRecorded
    <3>3. QED
      BY <1>1, <3>1, <3>2, <2>5, NoneIsNoRecord DEF Executed
  <2>6. UNCHANGED swept /\ client[c].digest \in Digests
    BY DEF Commit, Once, RowIsAlone
  <2>7. ASSUME NEW d \in Clients \ {c}, client[d].answer \in Executed
        PROVE  /\ client[d].key \in Keys /\ client[d].digest \in Digests
               /\ swept[client[d].key] = 0 => client[d].key # k
    BY <2>5, <2>7 DEF Once, AnswersAreRecorded
  <2>8. QED
    <3> HIDE DEF k
    <3>1. QED
      BY <1>1, <2>1, <2>2, <2>3, <2>4, <2>6, <2>7 DEF Once, AnswersAreRecorded
<1>12. QED
  BY <1>7, <1>8, <1>9, <1>10 DEF Once

LEMMA SweepKeeps ==
  ASSUME Once, NEW k \in Keys, SweepRecord(k) PROVE Once'
<1>1. RequestTypes'
  BY DEF SweepRecord, Once, RequestTypes, TxnTypes
<1>2. RowIsAlone' /\ EffectsAreRecorded' /\ AnswersAreRecorded'
  BY DEF SweepRecord, Once, RequestTypes, ClientRow, RowIsAlone, EffectsAreRecorded,
     AnswersAreRecorded
<1>3. QED
  BY <1>1, <1>2 DEF Once

LEMMA OnceStep == Once /\ [Next]_vars => Once'
<1> SUFFICES ASSUME Once, [Next]_vars PROVE Once'
  OBVIOUS
<1>1. CASE UNCHANGED requestVars
  BY <1>1 DEF requestVars, Once, RequestTypes, RowIsAlone, EffectsAreRecorded,
     AnswersAreRecorded, TxnTypes
<1>2. CASE WindowEnds
  BY <1>2 DEF WindowEnds, Once, RequestTypes, RowIsAlone, EffectsAreRecorded,
     AnswersAreRecorded, TxnTypes
<1>3. ASSUME NEW c \in Clients, NEW k \in Keys, NEW d \in Digests, Arrive(c, k, d) PROVE Once'
  BY <1>3, ArriveKeeps
<1>4. ASSUME NEW c \in Clients, Lookup(c) PROVE Once'
  BY <1>4, LookupKeeps
<1>5. ASSUME NEW c \in Clients, Dispatch(c) PROVE Once'
  BY <1>5, DispatchKeeps
<1>6. ASSUME NEW c \in Clients, InsertRecord(c) PROVE Once'
  BY <1>6, InsertRecordKeeps
<1>7. ASSUME NEW c \in Clients, Accept(c) PROVE Once'
  BY <1>7, AcceptKeeps
<1>8. ASSUME NEW c \in Clients, Commit(c) PROVE Once'
  BY <1>8, CommitKeeps
<1>9. ASSUME NEW c \in Clients, Fail(c) PROVE Once'
  BY <1>9, AbortKeeps DEF Fail
<1>10. ASSUME NEW c \in Clients, Rest(c) PROVE Once'
  <2>1. RequestTypes'
    BY <1>10 DEF Rest, Resting, Once, RequestTypes, TxnTypes, ClientRow, Nothing
  <2>2. RowIsAlone' /\ EffectsAreRecorded' /\ AnswersAreRecorded'
    BY <1>10 DEF Rest, Resting, Once, RequestTypes, ClientRow, RowIsAlone,
       EffectsAreRecorded, AnswersAreRecorded, Nothing, Executed
  <2>3. QED
    BY <2>1, <2>2 DEF Once
<1>11. ASSUME NEW k \in Keys, SweepRecord(k) PROVE Once'
  BY <1>11, SweepKeeps
<1>12. QED
  BY <1>1, <1>2, <1>3, <1>4, <1>5, <1>6, <1>7, <1>8, <1>9, <1>10, <1>11
     DEF Next, vars, requestVars

LEMMA OnceStart == Init => Once
<1>1. Init => RequestTypes
  <2>1. Init => TxnTypes
    BY NoTxnIsTxn DEF Init, TxnTypes
  <2>2. QED
    BY <2>1 DEF Init, RequestTypes, Resting, ClientRow, Nothing
<1>2. Init => RowIsAlone /\ EffectsAreRecorded /\ AnswersAreRecorded
  BY DEF Init, Resting, NoTxn, RowIsAlone, EffectsAreRecorded, AnswersAreRecorded, Nothing,
     Executed
<1>3. QED
  BY <1>1, <1>2 DEF Once

\* AtMostOnce (control_plane.cpp:717-733): the lookup before the transaction
\* may miss a row; the insert inside it does not.
THEOREM KeysTakeEffectOnce == Spec => []AtMostOnce
  BY OnceStart, OnceStep, OnceImplies, PTL DEF Spec

\* AnswersAgree (control_plane.cpp:717-733): answers under one key are those of
\* the one execution on record.
THEOREM RepeatsAreAnsweredAlike == Spec => []AnswersAgree
  BY OnceStart, OnceStep, OnceImplies, PTL DEF Spec

(***************************************************************************)
(* The chain                                                               *)
(***************************************************************************)

EventRow(V) == [tag : V, subject : V, prev : V, hash : V]

\* Whatever events say.
Written ==
  \E V : /\ chain \in Seq(EventRow(V))
         /\ \A c \in Clients : txn[c].events \in Seq(EventRow(V))

Genuine(e) == e.hash = Hash(e.prev, e.tag, e.subject)
Before(events, i) == IF i = 1 THEN Genesis ELSE events[i - 1].hash

\* Altered events are those that do not have their own hash, and an event
\* carries the hash of the one before, unless that one was altered since.
Linked(events, bad) ==
  \A i \in DOMAIN events :
    /\ Genuine(events[i]) <=> i \notin bad
    /\ i - 1 \notin bad => events[i].prev = Before(events, i)

\* The chain as a transaction sees it, with what it has appended.
View(c) == chain \o txn[c].events
InTxn == {"record", "accept", "commit"}

Intact ==
  /\ Written
  /\ altered \subseteq DOMAIN chain
  /\ altered = {} \/ \E i \in altered : \A j \in altered : i <= j
  /\ Linked(chain, altered)
  /\ \A c \in Clients :
       /\ Linked(View(c), altered)
       /\ txn[c].events # <<>> => lock = c /\ client[c].at \in InTxn

LEMMA RowsGrow ==
  ASSUME NEW V, NEW W, V \subseteq W, NEW s \in Seq(EventRow(V))
  PROVE  s \in Seq(EventRow(W))
<1>1. EventRow(V) \subseteq EventRow(W)
  BY DEF EventRow
<1>2. QED
  BY <1>1, SeqMonotonic

LEMMA HeadIs ==
  ASSUME NEW V, NEW s \in Seq(EventRow(V))
  PROVE  HeadHash(s) = Before(s, Len(s) + 1)
<1>1. Len(s) \in Nat /\ (s = <<>> <=> Len(s) = 0)
  BY EmptySeq, LenProperties
<1>2. QED
  BY <1>1 DEF HeadHash, Before

LEMMA HeadOfPrefix ==
  ASSUME NEW V, NEW s \in Seq(EventRow(V)), NEW i \in DOMAIN s
  PROVE  HeadHash(SubSeq(s, 1, i - 1)) = Before(s, i)
<1> DEFINE p == SubSeq(s, 1, i - 1)
<1>1. DOMAIN s = 1..Len(s) /\ Len(s) \in Nat
  BY LenProperties
<1>2. \A j \in 1..(i - 1) : s[j] \in EventRow(V)
  BY <1>1, ElementOfSeq
<1>3. i - 1 \in Int /\ 1 \in Int
  BY <1>1
<1>4. /\ p \in Seq(EventRow(V))
      /\ Len(p) = IF 1 <= i - 1 THEN (i - 1) - 1 + 1 ELSE 0
      /\ \A j \in 1..((i - 1) - 1 + 1) : p[j] = s[1 + j - 1]
  BY <1>2, <1>3, SubSeqProperties
<1> HIDE DEF p
<1>5. Len(p) = i - 1
  BY <1>1, <1>4
<1>6. Before(p, i) = Before(s, i)
  BY <1>1, <1>4, <1>5 DEF Before
<1>7. HeadHash(p) = Before(p, i)
  BY <1>1, <1>4, <1>5, HeadIs
<1>8. QED
  BY <1>6, <1>7 DEF p

LEMMA NextIsEvent ==
  ASSUME NEW s, NEW tag, NEW subject
  PROVE  /\ NextEvent(s, tag, subject)
              \in EventRow({tag, subject, HeadHash(s), Hash(HeadHash(s), tag, subject)})
         /\ Genuine(NextEvent(s, tag, subject))
         /\ NextEvent(s, tag, subject).prev = HeadHash(s)
         /\ NextEvent(s, tag, subject).tag = tag
         /\ NextEvent(s, tag, subject).subject = subject
  BY DEF NextEvent, EventRow, Genuine

LEMMA AppendsLink ==
  ASSUME NEW V, NEW s \in Seq(EventRow(V)), NEW bad, bad \subseteq DOMAIN s,
         Linked(s, bad), NEW e \in EventRow(V), Genuine(e), e.prev = HeadHash(s)
  PROVE  Linked(Append(s, e), bad)
<1> DEFINE t == Append(s, e)
<1>1. Len(s) \in Nat /\ DOMAIN s = 1..Len(s)
  BY LenProperties
<1>2. /\ DOMAIN t = 1..(Len(s) + 1)
      /\ \A i \in DOMAIN s : t[i] = s[i]
      /\ t[Len(s) + 1] = e
  BY <1>1
<1>3. e.prev = Before(s, Len(s) + 1)
  BY HeadIs
<1> HIDE DEF t
<1>4. ASSUME NEW i \in DOMAIN s
      PROVE  /\ Genuine(t[i]) <=> i \notin bad
             /\ i - 1 \notin bad => t[i].prev = Before(t, i)
  <2>1. Before(t, i) = Before(s, i)
    BY <1>1, <1>2 DEF Before
  <2>2. QED
    BY <1>2, <2>1 DEF Linked
<1>5. Before(t, Len(s) + 1) = Before(s, Len(s) + 1)
  BY <1>1, <1>2 DEF Before
<1>6. Len(s) + 1 \notin bad
  BY <1>1
<1>7. ASSUME NEW i \in DOMAIN t
      PROVE  /\ Genuine(t[i]) <=> i \notin bad
             /\ i - 1 \notin bad => t[i].prev = Before(t, i)
  <2>1. CASE i \in DOMAIN s
    BY <1>4, <2>1
  <2>2. CASE i = Len(s) + 1
    BY <1>2, <1>3, <1>5, <1>6, <2>2
  <2>3. QED
    BY <1>1, <1>2, <2>1, <2>2
<1>8. QED
  BY <1>7 DEF Linked, t

LEMMA AlteredLink ==
  ASSUME NEW V, NEW s \in Seq(EventRow(V)), NEW t \in Seq(EventRow(V)), Len(t) = Len(s),
         NEW bad, Linked(s, bad), NEW i \in DOMAIN s, i \notin bad,
         ~ Genuine(t[i]), t[i].prev = s[i].prev,
         \A j \in DOMAIN s : j # i => t[j] = s[j]
  PROVE  Linked(t, bad \cup {i})
<1>1. Len(s) \in Nat /\ DOMAIN s = 1..Len(s) /\ DOMAIN t = 1..Len(s)
  BY LenProperties
<1>2. ASSUME NEW j \in DOMAIN t, j - 1 \notin bad \cup {i}
      PROVE  t[j].prev = Before(t, j)
  <2>1. s[j].prev = Before(s, j) /\ t[j].prev = s[j].prev
    BY <1>1, <1>2 DEF Linked
  <2>2. Before(t, j) = Before(s, j)
    BY <1>1, <1>2 DEF Before
  <2>3. QED
    BY <2>1, <2>2
<1>3. ASSUME NEW j \in DOMAIN t
      PROVE  Genuine(t[j]) <=> j \notin bad \cup {i}
  <2>1. CASE j = i
    BY <2>1
  <2>2. CASE j # i
    BY <1>1, <2>2 DEF Linked
  <2>3. QED
    BY <2>1, <2>2
<1>4. QED
  BY <1>2, <1>3 DEF Linked

\* Verification finds the first altered event.
LEMMA IntactIsSound ==
  ASSUME Intact, NEW i \in DOMAIN chain
  PROVE  /\ (\A j \in altered : i < j) => Sound(chain, i)
         /\ i \in altered => ~ Sound(chain, i)
<1>1. PICK V : chain \in Seq(EventRow(V))
  BY DEF Intact, Written
<1>2. HeadHash(SubSeq(chain, 1, i - 1)) = Before(chain, i)
  BY <1>1, HeadOfPrefix
<1>3. /\ Genuine(chain[i]) <=> i \notin altered
      /\ i - 1 \notin altered => chain[i].prev = Before(chain, i)
  BY DEF Intact, Linked
<1>4. i \in Nat
  BY <1>1, LenProperties
<1>5. (\A j \in altered : i < j) => i \notin altered /\ i - 1 \notin altered
  BY <1>4
<1>6. QED
  BY <1>2, <1>3, <1>5 DEF Sound, Genuine

LEMMA IntactIsExact == Intact => VerificationIsExact /\ (Valid(chain) <=> altered = {})
<1> SUFFICES ASSUME Intact
             PROVE  VerificationIsExact /\ (Valid(chain) <=> altered = {})
  OBVIOUS
<1>1. CASE altered = {}
  <2>1. Valid(chain)
    BY <1>1, IntactIsSound DEF Valid
  <2>2. QED
    BY <1>1, <2>1 DEF VerificationIsExact, FirstBroken
<1>2. CASE altered # {}
  <2>1. PICK m \in altered : \A j \in altered : m <= j
    BY <1>2 DEF Intact
  <2>2. DOMAIN chain \subseteq Nat /\ altered \subseteq DOMAIN chain
        /\ DOMAIN chain = 1..Len(chain) /\ Len(chain) \in Nat
    BY LenProperties DEF Intact, Written
  <2>3. ~ Sound(chain, m) /\ \A j \in 1..(m - 1) : Sound(chain, j)
    <3>1. ASSUME NEW j \in 1..(m - 1)
          PROVE  j \in DOMAIN chain /\ \A i \in altered : j < i
      BY <2>1, <2>2
    <3>2. QED
      BY <2>2, <3>1, IntactIsSound
  <2>4. ~ Valid(chain)
    BY <2>2, <2>3 DEF Valid
  <2>5. LeastOf(altered) = m
    BY <2>1, <2>2 DEF LeastOf
  <2>6. \A i \in DOMAIN chain :
          ~ Sound(chain, i) /\ (\A j \in 1..(i - 1) : Sound(chain, j)) => i = m
    BY <2>2, <2>3
  <2>7. (CHOOSE i \in DOMAIN chain :
           ~ Sound(chain, i) /\ \A j \in 1..(i - 1) : Sound(chain, j)) = m
    BY <2>2, <2>3, <2>6
  <2>8. FirstBroken(chain) = m
    BY <2>4, <2>7 DEF FirstBroken
  <2>9. QED
    BY <1>2, <2>4, <2>5, <2>8 DEF VerificationIsExact
<1>3. QED
  BY <1>1, <1>2

LEMMA ConcatAppend ==
  ASSUME NEW S, NEW s \in Seq(S), NEW t \in Seq(S), NEW e \in S
  PROVE  s \o Append(t, e) = Append(s \o t, e)
<1>1. /\ s \o t \in Seq(S) /\ Len(s \o t) = Len(s) + Len(t)
      /\ \A i \in 1..Len(s) + Len(t) :
           (s \o t)[i] = IF i <= Len(s) THEN s[i] ELSE t[i - Len(s)]
  BY ConcatProperties
<1>2. Append(t, e) \in Seq(S) /\ Len(Append(t, e)) = Len(t) + 1
  OBVIOUS
<1>3. /\ s \o Append(t, e) \in Seq(S) /\ Len(s \o Append(t, e)) = Len(s) + Len(Append(t, e))
      /\ \A i \in 1..Len(s) + Len(Append(t, e)) :
           (s \o Append(t, e))[i] = IF i <= Len(s) THEN s[i] ELSE Append(t, e)[i - Len(s)]
  BY <1>2, ConcatProperties
<1> DEFINE u == s \o t
           v == s \o Append(t, e)
<1>4. Append(u, e) \in Seq(S) /\ Len(Append(u, e)) = Len(s) + Len(t) + 1
  BY <1>1
<1>5. Len(s) \in Nat /\ Len(t) \in Nat
  BY LenProperties
<1>6. ASSUME NEW i \in 1..Len(v)
      PROVE  v[i] = Append(u, e)[i]
  <2>1. CASE i <= Len(s) + Len(t)
    <3>1. Append(u, e)[i] = u[i]
      BY <1>1, <1>2, <1>3, <2>1
    <3>2. i > Len(s) => Append(t, e)[i - Len(s)] = t[i - Len(s)]
      BY <1>2, <1>3, <1>5, <2>1
    <3>3. QED
      BY <1>1, <1>2, <1>3, <1>5, <2>1, <3>1, <3>2
  <2>2. CASE i = Len(s) + Len(t) + 1
    <3>1. Append(u, e)[i] = e
      BY <1>1, <2>2
    <3>2. Append(t, e)[i - Len(s)] = e
      BY <1>5, <2>2
    <3>3. QED
      BY <1>2, <1>3, <1>5, <2>2, <3>1, <3>2
  <2>3. QED
    BY <1>2, <1>3, <1>5, <2>1, <2>2
<1> HIDE DEF u, v
<1>7. Len(v) = Len(Append(u, e)) /\ v \in Seq(S)
  BY <1>2, <1>3, <1>4 DEF v
<1>8. v = Append(u, e)
  BY <1>4, <1>6, <1>7, SeqEqual
<1>9. QED
  BY <1>8 DEF u, v

(* Steps of transactions.                                                  *)

\* Nothing is appended to the chain, and a transaction keeps its events or
\* drops them.
LEMMA NothingAppended ==
  ASSUME Intact, UNCHANGED <<chain, altered>>,
         \A c \in Clients :
           /\ txn'[c].events \in {txn[c].events, <<>>}
           /\ txn'[c].events # <<>> => lock' = c /\ client'[c].at \in InTxn
  PROVE  Intact'
<1>1. PICK V : /\ chain \in Seq(EventRow(V))
               /\ \A c \in Clients : txn[c].events \in Seq(EventRow(V))
  BY DEF Intact, Written
<1>2. \A c \in Clients : txn'[c].events \in Seq(EventRow(V))
  BY <1>1, EmptySeq
<1>3. Written'
  BY <1>1, <1>2 DEF Written
<1>4. ASSUME NEW c \in Clients
      PROVE  Linked(View(c), altered)'
  <2>1. CASE txn'[c].events = txn[c].events
    BY <2>1 DEF Intact, View, Linked
  <2>2. CASE txn'[c].events = <<>>
    <3>1. View(c)' = chain
      BY <1>1, <2>2, ConcatEmptySeq DEF View
    <3>2. QED
      BY <3>1 DEF Intact, Linked
  <2>3. QED
    BY <2>1, <2>2
<1>5. Linked(chain, altered)'
  BY DEF Intact, Linked
<1>6. QED
  BY <1>3, <1>4, <1>5 DEF Intact

\* The first event a transaction appends, or the next, under the lock.
LEMMA AppendKeepsIntact ==
  ASSUME Intact, UNCHANGED <<chain, altered>>, NEW c \in Clients, NEW tag,
         MayAppend(c), lock' = c, client'[c].at \in InTxn,
         txn'[c].events = Appended(c, tag),
         \A d \in Clients \ {c} : txn'[d] = txn[d]
  PROVE  Intact'
<1> DEFINE e == NextEvent(View(c), tag, client[c].key)
           X == {tag, client[c].key, HeadHash(View(c)),
                 Hash(HeadHash(View(c)), tag, client[c].key)}
<1>1. PICK U : /\ chain \in Seq(EventRow(U))
               /\ \A d \in Clients : txn[d].events \in Seq(EventRow(U))
  BY DEF Intact, Written
<1> DEFINE V == U \cup X
<1>2. /\ chain \in Seq(EventRow(V))
      /\ \A d \in Clients : txn[d].events \in Seq(EventRow(V))
  <2>1. U \subseteq V
    OBVIOUS
  <2> HIDE DEF V
  <2>2. QED
    BY <1>1, <2>1, RowsGrow
<1>3. e \in EventRow(V) /\ Genuine(e) /\ e.prev = HeadHash(View(c))
  <2>1. e \in EventRow(X) /\ Genuine(e) /\ e.prev = HeadHash(View(c))
    BY NextIsEvent
  <2>2. QED
    BY <2>1 DEF EventRow
<1>4. txn'[c].events = Append(txn[c].events, e)
  BY DEF Appended, View
<1> HIDE DEF e, X, V
<1>5. txn'[c].events \in Seq(EventRow(V))
  BY <1>2, <1>3, <1>4
<1>6. Written'
  <2>1. \A d \in Clients : txn'[d].events \in Seq(EventRow(V))
    BY <1>2, <1>5
  <2>2. QED
    BY <1>2, <2>1 DEF Written
<1>7. View(c) \in Seq(EventRow(V)) /\ altered \subseteq DOMAIN View(c)
  <2>1. /\ View(c) \in Seq(EventRow(V)) /\ Len(View(c)) = Len(chain) + Len(txn[c].events)
    BY <1>2, ConcatProperties DEF View
  <2>2. DOMAIN View(c) = 1..(Len(chain) + Len(txn[c].events)) /\ DOMAIN chain = 1..Len(chain)
        /\ Len(chain) \in Nat /\ Len(txn[c].events) \in Nat
    BY <1>2, <2>1, LenProperties
  <2>3. QED
    BY <2>1, <2>2 DEF Intact
<1>8. View(c)' = Append(View(c), e)
  <2>1. View(c)' = chain \o Append(txn[c].events, e) /\ View(c) = chain \o txn[c].events
    BY <1>4 DEF View
  <2> DEFINE t == txn[c].events
             S == EventRow(V)
  <2>2. chain \in Seq(S) /\ t \in Seq(S) /\ e \in S
    BY <1>2, <1>3
  <2> HIDE DEF t, S
  <2>3. chain \o Append(t, e) = Append(chain \o t, e)
    BY <2>2, ConcatAppend
  <2>4. QED
    BY <2>1, <2>3 DEF t
<1>9. Linked(View(c), altered)'
  <2>1. Linked(Append(View(c), e), altered)
    BY <1>3, <1>7, AppendsLink DEF Intact
  <2>2. QED
    BY <1>8, <2>1 DEF Linked
<1>10. ASSUME NEW d \in Clients \ {c}
       PROVE  Linked(View(d), altered)' /\ txn'[d].events = <<>>
  <2>1. txn[d].events = <<>>
    BY RequestAssumption DEF Intact, MayAppend
  <2>2. View(d)' = chain
    BY <1>2, <2>1, ConcatEmptySeq DEF View
  <2>3. QED
    BY <2>1, <2>2 DEF Intact, Linked
<1>11. \A d \in Clients :
         Linked(View(d), altered)' /\ (txn'[d].events # <<>> => lock' = d /\ client'[d].at \in InTxn)
  BY <1>9, <1>10
<1>12. Linked(chain, altered)'
  BY DEF Intact, Linked
<1>13. QED
  BY <1>6, <1>11, <1>12 DEF Intact

LEMMA CommitKeepsIntact ==
  ASSUME Intact, UNCHANGED altered, NEW c \in Clients,
         chain' = View(c), txn'[c].events = <<>>,
         lock # c => lock' = lock,
         \A d \in Clients \ {c} : txn'[d] = txn[d] /\ client'[d] = client[d]
  PROVE  Intact'
<1>1. PICK V : /\ chain \in Seq(EventRow(V))
               /\ \A d \in Clients : txn[d].events \in Seq(EventRow(V))
  BY DEF Intact, Written
<1>2. chain' \in Seq(EventRow(V)) /\ Len(chain') = Len(chain) + Len(txn[c].events)
  BY <1>1, ConcatProperties DEF View
<1>3. \A d \in Clients : txn'[d].events \in Seq(EventRow(V))
  BY <1>1, EmptySeq
<1>4. Written'
  BY <1>2, <1>3 DEF Written
<1>5. altered' \subseteq DOMAIN chain'
  <2>1. /\ DOMAIN chain = 1..Len(chain) /\ DOMAIN chain' = 1..Len(chain')
        /\ Len(chain) \in Nat /\ Len(txn[c].events) \in Nat
    BY <1>1, <1>2, LenProperties
  <2>2. QED
    BY <1>2, <2>1 DEF Intact
<1>6. Linked(chain, altered)'
  BY DEF Intact, Linked
<1>7. ASSUME NEW d \in Clients
      PROVE  Linked(View(d), altered)'
  <2>1. CASE txn'[d].events = <<>>
    <3>1. View(d)' = chain'
      BY <1>2, <2>1, ConcatEmptySeq DEF View
    <3>2. QED
      BY <1>6, <3>1 DEF Linked
  <2>2. CASE txn'[d].events # <<>>
    <3>1. d # c /\ lock = d
      BY <2>2 DEF Intact
    <3>2. txn[c].events = <<>>
      BY <3>1 DEF Intact
    <3>3. chain' = chain
      BY <1>1, <3>2, ConcatEmptySeq DEF View
    <3>4. View(d)' = View(d)
      BY <3>1, <3>3 DEF View
    <3>5. QED
      BY <3>4 DEF Intact, Linked
  <2>3. QED
    BY <2>1, <2>2
<1>8. \A d \in Clients : txn'[d].events # <<>> => lock' = d /\ client'[d].at \in InTxn
  BY DEF Intact
<1>9. QED
  BY <1>4, <1>5, <1>6, <1>7, <1>8 DEF Intact

LEMMA AlterKeepsIntact ==
  ASSUME Intact, NEW i, Alter(i), UNCHANGED <<txn, lock, client>>
  PROVE  Intact'
<1>1. PICK U : /\ chain \in Seq(EventRow(U))
               /\ \A d \in Clients : txn[d].events \in Seq(EventRow(U))
  BY DEF Intact, Written
<1>2. i \in DOMAIN chain /\ i \notin altered /\ altered' = altered \cup {i}
  BY DEF Alter
<1>3. Genuine(chain[i]) /\ chain[i] \in EventRow(U) /\ DOMAIN chain = 1..Len(chain)
  <2>1. DOMAIN chain = 1..Len(chain)
    BY <1>1, LenProperties
  <2>2. QED
    BY <1>1, <1>2, <2>1, ElementOfSeq DEF Intact, Linked
<1>4. PICK x, e : /\ e \in EventRow(U \cup {x}) /\ ~ Genuine(e) /\ e.prev = chain[i].prev
                  /\ chain' = [chain EXCEPT ![i] = e]
  <2>1. CASE chain' = [chain EXCEPT ![i].hash = Corrupted]
    <3> DEFINE f == [chain[i] EXCEPT !.hash = Corrupted]
    <3>1. f \in EventRow(U \cup {Corrupted}) /\ f.prev = chain[i].prev /\ f.hash = Corrupted
      BY <1>3 DEF EventRow
    <3>2. ~ Genuine(f)
      BY <3>1 DEF Genuine, Hash, Corrupted
    <3>3. chain' = [chain EXCEPT ![i] = f]
      BY <2>1
    <3>4. QED
      BY <3>1, <3>2, <3>3
  <2>2. ASSUME NEW tag \in Tags \ {chain[i].tag}, chain' = [chain EXCEPT ![i].tag = tag]
        PROVE  \E x, e : /\ e \in EventRow(U \cup {x}) /\ ~ Genuine(e) /\ e.prev = chain[i].prev
                         /\ chain' = [chain EXCEPT ![i] = e]
    <3> DEFINE f == [chain[i] EXCEPT !.tag = tag]
    <3>1. /\ f \in EventRow(U \cup {tag}) /\ f.prev = chain[i].prev /\ f.hash = chain[i].hash
          /\ f.tag = tag
      BY <1>3 DEF EventRow
    <3>2. ~ Genuine(f)
      BY <1>3, <3>1 DEF Genuine, Hash
    <3>3. chain' = [chain EXCEPT ![i] = f]
      BY <2>2
    <3>4. QED
      BY <3>1, <3>2, <3>3
  <2>3. QED
    BY <2>1, <2>2 DEF Alter
<1> DEFINE V == U \cup {x}
<1>5. /\ chain \in Seq(EventRow(V))
      /\ \A d \in Clients : txn[d].events \in Seq(EventRow(V))
  <2>1. U \subseteq V
    OBVIOUS
  <2> HIDE DEF V
  <2>2. QED
    BY <1>1, <2>1, RowsGrow
<1>6. /\ chain' \in Seq(EventRow(V)) /\ Len(chain') = Len(chain)
      /\ \A j \in DOMAIN chain : chain'[j] = IF j = i THEN e ELSE chain[j]
  <2>1. e \in EventRow(V)
    BY <1>4
  <2> HIDE DEF V
  <2>2. i \in 1..Len(chain) /\ chain \in Seq(EventRow(V)) /\ DOMAIN chain = 1..Len(chain)
    BY <1>2, <1>3, <1>5
  <2>3. QED
    BY <1>4, <2>1, <2>2, ExceptSeq
<1> HIDE DEF V
<1>7. Written'
  BY <1>5, <1>6 DEF Written
<1>8. Linked(chain, altered)'
  <2>1. Linked(chain', altered \cup {i})
    BY <1>2, <1>4, <1>5, <1>6, AlteredLink DEF Intact
  <2>2. QED
    BY <1>2, <2>1 DEF Linked
<1>9. ASSUME NEW c \in Clients
      PROVE  Linked(View(c), altered)'
  <2>1. /\ View(c) \in Seq(EventRow(V)) /\ Len(View(c)) = Len(chain) + Len(txn[c].events)
        /\ \A j \in 1..(Len(chain) + Len(txn[c].events)) :
             View(c)[j] = IF j <= Len(chain) THEN chain[j] ELSE txn[c].events[j - Len(chain)]
    BY <1>5, ConcatProperties DEF View
  <2> DEFINE W == chain' \o txn[c].events
  <2>2. /\ W \in Seq(EventRow(V)) /\ Len(W) = Len(chain) + Len(txn[c].events)
        /\ \A j \in 1..(Len(chain) + Len(txn[c].events)) :
             W[j] = IF j <= Len(chain) THEN chain'[j] ELSE txn[c].events[j - Len(chain)]
    <3> DEFINE t == txn[c].events
               s == chain'
               S == EventRow(V)
    <3>1. t \in Seq(S) /\ s \in Seq(S) /\ Len(s) = Len(chain)
      BY <1>5, <1>6
    <3> HIDE DEF s, t, S
    <3>2. /\ s \o t \in Seq(S) /\ Len(s \o t) = Len(s) + Len(t)
          /\ \A j \in 1..Len(s) + Len(t) :
               (s \o t)[j] = IF j <= Len(s) THEN s[j] ELSE t[j - Len(s)]
      BY <3>1, ConcatProperties
    <3>3. QED
      BY <3>1, <3>2 DEF s, t, S
  <2>3. View(c)' = W
    BY DEF View
  <2> HIDE DEF W
  <2>4. /\ Len(chain) \in Nat /\ Len(txn[c].events) \in Nat
        /\ DOMAIN View(c) = 1..(Len(chain) + Len(txn[c].events))
    BY <1>5, <2>1, LenProperties
  <2>5. i \in DOMAIN View(c) /\ View(c)[i] = chain[i] /\ W[i] = e
    BY <1>2, <1>3, <1>6, <2>1, <2>2, <2>4
  <2>6. ASSUME NEW j \in DOMAIN View(c), j # i
        PROVE  W[j] = View(c)[j]
    <3>1. j \in 1..(Len(chain) + Len(txn[c].events))
      BY <2>4
    <3>2. CASE j <= Len(chain)
      <4>1. chain'[j] = chain[j]
        BY <1>3, <1>6, <2>4, <2>6, <3>1, <3>2
      <4>2. QED
        BY <2>1, <2>2, <3>1, <3>2, <4>1
    <3>3. CASE ~ (j <= Len(chain))
      BY <2>1, <2>2, <3>1, <3>3
    <3>4. QED
      BY <3>2, <3>3
  <2>7. ~ Genuine(W[i]) /\ W[i].prev = View(c)[i].prev
    BY <1>4, <2>5
  <2>8. Linked(View(c), altered) /\ Len(W) = Len(View(c))
    BY <2>1, <2>2 DEF Intact
  <2>9. Linked(W, altered \cup {i})
    BY <1>2, <2>1, <2>2, <2>5, <2>6, <2>7, <2>8, AlteredLink
  <2>10. QED
    BY <1>2, <2>3, <2>9 DEF Linked
<1>10. altered' \subseteq DOMAIN chain'
  BY <1>2, <1>5, <1>6, LenProperties DEF Intact
<1>11. \E m \in altered' : \A j \in altered' : m <= j
  <2>1. DOMAIN chain \subseteq Int /\ altered \subseteq DOMAIN chain /\ i \in Int
    BY <1>2, <1>3 DEF Intact
  <2>2. CASE altered = {}
    BY <1>2, <2>1, <2>2
  <2>3. CASE altered # {}
    <3>1. PICK m \in altered : \A j \in altered : m <= j
      BY <2>3 DEF Intact
    <3>2. CASE m <= i
      BY <1>2, <3>1, <3>2
    <3>3. CASE i < m
      BY <1>2, <2>1, <3>1, <3>3
    <3>4. QED
      BY <2>1, <3>2, <3>3
  <2>4. QED
    BY <2>2, <2>3
<1>12. \A d \in Clients : txn'[d].events # <<>> => lock' = d /\ client'[d].at \in InTxn
  BY DEF Intact
<1>13. QED
  BY <1>7, <1>8, <1>9, <1>10, <1>11, <1>12 DEF Intact

LEMMA TxnPoint ==
  ASSUME Once, NEW c \in Clients, NEW t, txn' = [txn EXCEPT ![c] = t]
  PROVE  txn'[c] = t /\ \A d \in Clients \ {c} : txn'[d] = txn[d]
<1>1. DOMAIN txn = Clients
  BY DEF Once, RequestTypes, TxnTypes
<1>2. QED
  BY <1>1

LEMMA TxnFields ==
  ASSUME Once, NEW c \in Clients, NEW events, NEW outbox
  PROVE  /\ [txn[c] EXCEPT !.record = TRUE].events = txn[c].events
         /\ [txn[c] EXCEPT !.record = TRUE].outbox = txn[c].outbox
         /\ [txn[c] EXCEPT !.record = TRUE].status = txn[c].status
         /\ [txn[c] EXCEPT !.events = events, !.outbox = outbox].events = events
         /\ [txn[c] EXCEPT !.events = events, !.outbox = outbox].outbox = outbox
         /\ [txn[c] EXCEPT !.events = events, !.outbox = outbox].status = txn[c].status
<1>1. PICK F, P : txn \in [Clients -> TxnRow(F, P)]
  BY DEF Once, RequestTypes, TxnTypes
<1>2. txn[c] \in TxnRow(F, P)
  BY <1>1
<1>3. QED
  BY <1>2 DEF TxnRow

\* What a route leaves in its transaction.
LEMMA Dispatched ==
  ASSUME Once, NEW c \in Clients, Dispatch(c)
  PROVE  /\ UNCHANGED <<evidenceVars, deliveries, effects>>
         /\ client[c].at = "begin" /\ client'[c].at = "record"
         /\ client'[c].key = client[c].key
         /\ \A d \in Clients \ {c} : client'[d] = client[d] /\ txn'[d] = txn[d]
         /\ txn'[c].outbox = {} /\ txn'[c].status \in {"ok", "partial", "refused"}
         /\ \/ txn'[c].events = <<>> /\ lock' = lock
            \/ /\ txn'[c].events = Appended(c, "route") /\ lock' = c
               /\ MayAppend(c) /\ txn'[c].status = "ok"
<1>1. PICK status \in {"ok", "partial", "refused"}, evident \in BOOLEAN :
        /\ evident => status = "ok" /\ MayAppend(c)
        /\ lock' = IF evident THEN c ELSE lock
        /\ txn' = [txn EXCEPT ![c] =
             [NoTxn EXCEPT !.status = status, !.id = executions + 1,
                !.events = IF evident THEN Appended(c, "route") ELSE @]]
  BY DEF Dispatch
<1> DEFINE id == executions + 1
           events == IF evident THEN Appended(c, "route") ELSE NoTxn.events
           t == [NoTxn EXCEPT !.status = status, !.id = id, !.events = events]
<1>2. t.outbox = {} /\ t.status = status /\ t.events = events
  <2> HIDE DEF events, id
  <2>1. QED
    BY DEF NoTxn
<1>3. txn'[c] = t /\ \A d \in Clients \ {c} : txn'[d] = txn[d]
  <2>1. txn' = [txn EXCEPT ![c] = t]
    BY <1>1
  <2> HIDE DEF t
  <2>2. QED
    BY <2>1, TxnPoint
<1>4. /\ client'[c].at = "record" /\ client'[c].key = client[c].key
      /\ \A d \in Clients \ {c} : client'[d] = client[d]
  <2>1. client' = [client EXCEPT ![c].at = "record"]
    BY DEF Dispatch
  <2>2. QED
    BY <2>1, ClientChanges DEF Once
<1>5. NoTxn.events = <<>>
  BY DEF NoTxn
<1>6. txn'[c].outbox = {} /\ txn'[c].status = status /\ txn'[c].events = events
  <2> HIDE DEF t, events
  <2>1. QED
    BY <1>2, <1>3
<1>7. UNCHANGED <<evidenceVars, deliveries, effects>> /\ client[c].at = "begin"
  BY DEF Dispatch
<1> HIDE DEF t
<1>8. QED
  BY <1>1, <1>3, <1>4, <1>5, <1>6, <1>7

LEMMA Inserted ==
  ASSUME Once, NEW c \in Clients, InsertRecord(c)
  PROVE  \/ Abort(c)
         \/ /\ UNCHANGED lock
            /\ client[c].at = "record" /\ client'[c].key = client[c].key
            /\ client'[c].at = IF txn[c].status = "ok" THEN "accept" ELSE "commit"
            /\ \A d \in Clients \ {c} : client'[d] = client[d] /\ txn'[d] = txn[d]
            /\ txn'[c].events = txn[c].events /\ txn'[c].outbox = txn[c].outbox
            /\ txn'[c].status = txn[c].status
<1>1. CASE records[client[c].key] # None
  BY <1>1 DEF InsertRecord
<1>2. CASE records[client[c].key] = None
  <2> DEFINE t == [txn[c] EXCEPT !.record = TRUE]
             place == IF txn[c].status = "ok" THEN "accept" ELSE "commit"
  <2>1. PICK F, P : txn \in [Clients -> TxnRow(F, P)]
    BY DEF Once, RequestTypes, TxnTypes
  <2>2. txn' = [txn EXCEPT ![c] = t]
    BY <1>2, <2>1 DEF InsertRecord
  <2>3. client' = [client EXCEPT ![c].at = place] /\ UNCHANGED lock /\ client[c].at = "record"
    BY <1>2 DEF InsertRecord
  <2>4. t.events = txn[c].events /\ t.outbox = txn[c].outbox /\ t.status = txn[c].status
    BY TxnFields
  <2> HIDE DEF t
  <2>5. txn'[c] = t /\ \A d \in Clients \ {c} : txn'[d] = txn[d]
    BY <2>2, TxnPoint
  <2>6. /\ client'[c].at = place /\ client'[c].key = client[c].key
        /\ \A d \in Clients \ {c} : client'[d] = client[d]
    <3> HIDE DEF place
    <3>1. QED
      BY <2>3, ClientChanges DEF Once
  <2>7. QED
    BY <2>3, <2>4, <2>5, <2>6
<1>3. QED
  BY <1>1, <1>2

LEMMA Aborted ==
  ASSUME Once, NEW c \in Clients, Abort(c)
  PROVE  /\ lock # c => lock' = lock
         /\ txn'[c].events = <<>> /\ txn'[c].outbox = {}
         /\ client'[c].at = "done"
         /\ \A d \in Clients \ {c} : client'[d] = client[d] /\ txn'[d] = txn[d]
<1>1. txn'[c] = NoTxn /\ \A d \in Clients \ {c} : txn'[d] = txn[d]
  BY TxnPoint DEF Abort
<1>2. client'[c].at = "done" /\ \A d \in Clients \ {c} : client'[d] = client[d]
  BY ClientAnswers DEF Abort, Once
<1>3. QED
  BY <1>1, <1>2 DEF Abort, NoTxn

LEMMA Accepted ==
  ASSUME Once, NEW c \in Clients, Accept(c)
  PROVE  /\ MayAppend(c) /\ lock' = c
         /\ UNCHANGED <<evidenceVars, deliveries, effects>>
         /\ client[c].at = "accept" /\ client'[c].at = "commit"
         /\ client'[c].key = client[c].key
         /\ \A d \in Clients \ {c} : client'[d] = client[d] /\ txn'[d] = txn[d]
         /\ txn'[c].events = Appended(c, "accepted") /\ txn'[c].outbox = Outbox(c)
         /\ txn'[c].status = txn[c].status
<1> DEFINE events == Appended(c, "accepted")
           outbox == Outbox(c)
           t == [txn[c] EXCEPT !.events = events, !.outbox = outbox]
<1>1. txn' = [txn EXCEPT ![c] = t]
  <2>1. PICK F, P : txn \in [Clients -> TxnRow(F, P)]
    BY DEF Once, RequestTypes, TxnTypes
  <2>2. QED
    BY <2>1 DEF Accept
<1>2. t.events = events /\ t.outbox = outbox /\ t.status = txn[c].status
  <2> HIDE DEF events, outbox
  <2>1. QED
    BY TxnFields
<1> HIDE DEF t
<1>3. txn'[c] = t /\ \A d \in Clients \ {c} : txn'[d] = txn[d]
  BY <1>1, TxnPoint
<1>4. client' = [client EXCEPT ![c].at = "commit"]
  BY DEF Accept
<1>5. /\ client'[c].at = "commit" /\ client'[c].key = client[c].key
      /\ \A d \in Clients \ {c} : client'[d] = client[d]
  BY <1>4, ClientChanges DEF Once
<1>6. /\ MayAppend(c) /\ lock' = c /\ client[c].at = "accept"
      /\ UNCHANGED <<evidenceVars, deliveries, effects>>
  BY DEF Accept
<1>7. QED
  BY <1>2, <1>3, <1>5, <1>6

LEMMA Finishes ==
  ASSUME Once, NEW c \in Clients, Commit(c)
  PROVE  /\ chain' = View(c) /\ UNCHANGED <<checkpoints, order, altered>>
         /\ lock # c => lock' = lock
         /\ txn'[c].events = <<>> /\ txn'[c].outbox = {}
         /\ client[c].at = "commit" /\ client'[c].at = "done"
         /\ \A d \in Clients \ {c} : client'[d] = client[d] /\ txn'[d] = txn[d]
         /\ deliveries' = deliveries \cup txn[c].outbox
         /\ client[c].key \in Keys
         /\ \A k \in Keys :
              effects'[k] = effects[k] + IF txn[c].status = "ok" /\ k = client[c].key
                                           THEN 1 ELSE 0
<1>1. txn'[c] = NoTxn /\ \A d \in Clients \ {c} : txn'[d] = txn[d]
  BY TxnPoint DEF Commit
<1>2. client'[c].at = "done" /\ \A d \in Clients \ {c} : client'[d] = client[d]
  BY ClientAnswers DEF Commit, Once
<1>3. client[c].at = "commit" /\ client[c].key \in Keys
  BY DEF Commit, Once, RowIsAlone
<1>4. ASSUME NEW k \in Keys
      PROVE  effects'[k] = effects[k] + IF txn[c].status = "ok" /\ k = client[c].key
                                          THEN 1 ELSE 0
  <2> DEFINE more == IF txn[c].status = "ok" THEN 1 ELSE 0
             key == client[c].key
  <2>1. effects' = [effects EXCEPT ![key] = effects[key] + more]
    BY DEF Commit
  <2>2. effects \in [Keys -> Nat]
    BY DEF Once, RequestTypes
  <2> HIDE DEF more, key
  <2>3. effects'[k] = IF k = key THEN effects[k] + more ELSE effects[k]
    BY <2>1, <2>2
  <2>4. effects[k] \in Nat
    BY <2>2
  <2>5. QED
    BY <2>3, <2>4 DEF more, key
<1>5. /\ chain' = View(c) /\ UNCHANGED <<checkpoints, order, altered>>
      /\ lock # c => lock' = lock
      /\ deliveries' = deliveries \cup txn[c].outbox
  BY DEF Commit, View
<1>6. QED
  BY <1>1, <1>2, <1>3, <1>4, <1>5 DEF NoTxn

\* Steps of a request that is not in its transaction.
LEMMA Outside ==
  ASSUME Once, NEW c \in Clients,
         \/ \E k \in Keys, d \in Digests : Arrive(c, k, d)
         \/ Lookup(c) \/ Rest(c)
  PROVE  /\ UNCHANGED <<evidenceVars, txn, lock, deliveries, effects>>
         /\ client[c].at \notin InTxn /\ client'[c].at \notin InTxn
         /\ \A d \in Clients \ {c} : client'[d] = client[d]
<1>1. client \in [Clients -> ClientRow]
  BY DEF Once, RequestTypes
<1>2. ASSUME NEW k \in Keys, NEW d \in Digests, Arrive(c, k, d)
      PROVE  /\ UNCHANGED <<evidenceVars, txn, lock, deliveries, effects>>
             /\ client[c].at \notin InTxn /\ client'[c].at \notin InTxn
             /\ \A e \in Clients \ {c} : client'[e] = client[e]
  BY <1>1, <1>2 DEF Arrive, InTxn
<1>3. CASE Lookup(c)
  <2>1. /\ UNCHANGED <<evidenceVars, txn, lock, deliveries, effects>>
        /\ client[c].at = "lookup"
        /\ client' = [client EXCEPT ![c].at = "begin"] \/ Answer(c, Prior(c))
    BY <1>3 DEF Lookup
  <2>2. client'[c].at \in {"begin", "done"} /\ \A e \in Clients \ {c} : client'[e] = client[e]
    BY <2>1, ClientChanges, ClientAnswers DEF Once
  <2>3. QED
    BY <2>1, <2>2 DEF InTxn
<1>4. CASE Rest(c)
  BY <1>1, <1>4 DEF Rest, Resting, InTxn
<1>5. QED
  BY <1>2, <1>3, <1>4

\* The orders of ranges and the checkpoints, which only read the chain.
Reads ==
  \/ Checkpoint
  \/ RequestExport \/ ExportReads \/ ExportFinishes
  \/ \E s \in Subjects : RequestReplay(s)
  \/ ReplayVerifies \/ ReplayFinishes
  \/ OrderIsDone

LEMMA ReadsOnly == Reads => UNCHANGED <<chain, altered>>
  BY DEF Reads, Checkpoint, RequestExport, ExportReads, ExportFinishes, RequestReplay,
     ReplayVerifies, ReplayFinishes, OrderIsDone

ReadsAlone == Reads /\ UNCHANGED requestVars
AltersAlone == (\E i : Alter(i)) /\ UNCHANGED requestVars

Serves(c) ==
  \/ \E k \in Keys, d \in Digests : Arrive(c, k, d)
  \/ Lookup(c) \/ Dispatch(c) \/ InsertRecord(c) \/ Accept(c) \/ Commit(c)
  \/ Fail(c) \/ Rest(c)

LEMMA StepKinds ==
  ASSUME [Next]_vars
  PROVE  \/ UNCHANGED vars
         \/ ReadsAlone \/ AltersAlone
         \/ WindowEnds
         \/ \E k \in Keys : SweepRecord(k)
         \/ \E c \in Clients : Serves(c)
<1>1. CASE EvidenceNext /\ UNCHANGED requestVars
  BY <1>1 DEF EvidenceNext, Reads, ReadsAlone, AltersAlone
<1>2. CASE ~ EvidenceNext \/ ~ UNCHANGED requestVars
  BY <1>2 DEF Next, Serves
<1>3. QED
  BY <1>1, <1>2

LEMMA IntactStep == Once /\ Intact /\ [Next]_vars => Intact'
<1> SUFFICES ASSUME Once, Intact, [Next]_vars PROVE Intact'
  OBVIOUS
<1>1. ASSUME UNCHANGED <<chain, altered, txn, lock, client>>
      PROVE  Intact'
  <2>1. \A c \in Clients :
          /\ txn'[c].events \in {txn[c].events, <<>>}
          /\ txn'[c].events # <<>> => lock' = c /\ client'[c].at \in InTxn
    BY <1>1 DEF Intact
  <2>2. QED
    BY <1>1, <2>1, NothingAppended
<1>2. CASE UNCHANGED vars \/ ReadsAlone
  <2>1. UNCHANGED <<txn, lock, client>>
    BY <1>2 DEF vars, requestVars, ReadsAlone
  <2>2. UNCHANGED <<chain, altered>>
    BY <1>2, ReadsOnly DEF vars, evidenceVars, ReadsAlone
  <2>3. QED
    BY <1>1, <2>1, <2>2
<1>3. CASE AltersAlone
  BY <1>3, AlterKeepsIntact DEF AltersAlone, requestVars
<1>4. CASE WindowEnds \/ \E k \in Keys : SweepRecord(k)
  BY <1>1, <1>4 DEF WindowEnds, SweepRecord, evidenceVars
<1>5. ASSUME NEW c \in Clients,
             \/ \E k \in Keys, d \in Digests : Arrive(c, k, d)
             \/ Lookup(c) \/ Rest(c)
      PROVE  Intact'
  <2>1. UNCHANGED <<chain, altered>>
    BY <1>5, Outside DEF evidenceVars
  <2>2. \A d \in Clients :
          /\ txn'[d].events \in {txn[d].events, <<>>}
          /\ txn'[d].events # <<>> => lock' = d /\ client'[d].at \in InTxn
    BY <1>5, Outside DEF Intact
  <2>3. QED
    BY <2>1, <2>2, NothingAppended
<1>6. ASSUME NEW c \in Clients, Dispatch(c)
      PROVE  Intact'
  <2>1. UNCHANGED <<chain, altered>> /\ client'[c].at \in InTxn
    BY <1>6, Dispatched DEF evidenceVars, InTxn
  <2>2. CASE txn'[c].events = <<>> /\ lock' = lock
    <3>1. \A d \in Clients :
            /\ txn'[d].events \in {txn[d].events, <<>>}
            /\ txn'[d].events # <<>> => lock' = d /\ client'[d].at \in InTxn
      BY <1>6, <2>2, Dispatched DEF Intact
    <3>2. QED
      BY <2>1, <3>1, NothingAppended
  <2>3. CASE txn'[c].events = Appended(c, "route") /\ lock' = c /\ MayAppend(c)
    BY <1>6, <2>1, <2>3, Dispatched, AppendKeepsIntact
  <2>4. QED
    BY <1>6, <2>2, <2>3, Dispatched
<1>7. ASSUME NEW c \in Clients, UNCHANGED <<chain, altered>>, Abort(c)
      PROVE  Intact'
  <2>1. \A d \in Clients :
          /\ txn'[d].events \in {txn[d].events, <<>>}
          /\ txn'[d].events # <<>> => lock' = d /\ client'[d].at \in InTxn
    BY <1>7, Aborted DEF Intact
  <2>2. QED
    BY <1>7, <2>1, NothingAppended
<1>8. ASSUME NEW c \in Clients, InsertRecord(c)
      PROVE  Intact'
  <2>1. UNCHANGED <<chain, altered>>
    BY <1>8 DEF InsertRecord, evidenceVars
  <2>2. CASE ~ Abort(c)
    <3>1. client'[c].at \in InTxn
      BY <1>8, <2>2, Inserted DEF InTxn
    <3>2. \A d \in Clients :
            /\ txn'[d].events \in {txn[d].events, <<>>}
            /\ txn'[d].events # <<>> => lock' = d /\ client'[d].at \in InTxn
      BY <1>8, <2>2, <3>1, Inserted DEF Intact
    <3>3. QED
      BY <2>1, <3>2, NothingAppended
  <2>3. QED
    BY <1>7, <2>1, <2>2
<1>9. ASSUME NEW c \in Clients, Accept(c)
      PROVE  Intact'
  <2>1. UNCHANGED <<chain, altered>> /\ client'[c].at \in InTxn
    BY <1>9, Accepted DEF evidenceVars, InTxn
  <2>2. QED
    BY <1>9, <2>1, Accepted, AppendKeepsIntact
<1>10. ASSUME NEW c \in Clients, Commit(c)
       PROVE  Intact'
  <2>1. UNCHANGED altered
    BY <1>10, Finishes
  <2>2. QED
    BY <1>10, <2>1, Finishes, CommitKeepsIntact
<1>11. ASSUME NEW c \in Clients, Fail(c)
       PROVE  Intact'
  BY <1>7, <1>11 DEF Fail, evidenceVars
<1>12. ASSUME NEW c \in Clients, Serves(c)
       PROVE  Intact'
  BY <1>5, <1>6, <1>8, <1>9, <1>10, <1>11, <1>12 DEF Serves
<1>13. QED
  BY <1>2, <1>3, <1>4, <1>12, StepKinds

LEMMA IntactStart == Init => Intact
<1> SUFFICES ASSUME Init PROVE Intact
  OBVIOUS
<1>1. chain = <<>> /\ altered = {} /\ \A c \in Clients : txn[c].events = <<>>
  BY DEF Init, EvidenceInit, NoTxn
<1>2. Written
  BY <1>1, EmptySeq DEF Written
<1>3. DOMAIN <<>> = {} /\ <<>> \o <<>> = <<>>
  OBVIOUS
<1>4. Linked(<<>>, {})
  BY <1>3 DEF Linked
<1>5. Linked(chain, altered) /\ \A c \in Clients : Linked(View(c), altered)
  BY <1>1, <1>3, <1>4 DEF View
<1>6. QED
  BY <1>1, <1>2, <1>5 DEF Intact

(***************************************************************************)
(* Exports                                                                 *)
(***************************************************************************)

OrderRow(V) ==
  [kind : {"export", "replay"}, status : V, from : V, to : V, head : V,
   snapshot : V, read : V]

\* The snapshot of an export is what the chain was, and still is if nothing was
\* altered; so is what was read.
Frozen ==
  /\ order = NoOrder \/ \E V : order \in OrderRow(V)
  /\ order.kind = "export" =>
       /\ order.from = 1 \/ order.to = 0
       /\ order.to \in DOMAIN chain \cup {0}
       /\ order.to = Len(order.snapshot)
       /\ \E V : order.snapshot \in Seq(EventRow(V))
       /\ altered = {} => \A i \in 1..order.to : order.snapshot[i] = chain[i]
       /\ order.status = "read" /\ altered = {} => order.read = order.snapshot
       /\ order.status = "completed" => order.read = order.snapshot

\* The chain grows.
LEMMA FrozenIfLonger ==
  ASSUME Frozen, UNCHANGED <<order, altered>>, DOMAIN chain \subseteq DOMAIN chain',
         \A i \in DOMAIN chain : chain'[i] = chain[i],
         NEW V, chain \in Seq(EventRow(V))
  PROVE  Frozen'
<1>1. order.kind = "export" => 1..order.to \subseteq DOMAIN chain
  <2>1. DOMAIN chain = 1..Len(chain) /\ Len(chain) \in Nat
    BY LenProperties
  <2>2. QED
    BY <2>1 DEF Frozen
<1>2. QED
  BY <1>1 DEF Frozen

LEMMA FrozenIfAltered ==
  ASSUME Frozen, UNCHANGED order, altered' # {}, DOMAIN chain' = DOMAIN chain
  PROVE  Frozen'
  BY DEF Frozen

LEMMA Ended ==
  ASSUME NEW V, order \in OrderRow(V), NEW s, order' = [order EXCEPT !.status = s]
  PROVE  /\ \E W : order' \in OrderRow(W)
         /\ order'.kind = order.kind /\ order'.status = s /\ order'.from = order.from
         /\ order'.to = order.to /\ order'.snapshot = order.snapshot
         /\ order'.read = order.read
<1>1. order' \in OrderRow(V \cup {s})
  BY DEF OrderRow
<1>2. QED
  BY <1>1 DEF OrderRow

LEMMA EndKeepsFrozen ==
  ASSUME Frozen, UNCHANGED <<chain, altered>>, order.kind # "none", NEW s, End(s),
         s # "read",
         s = "completed" => order.kind # "export" \/ order.read = order.snapshot
  PROVE  Frozen'
<1>1. PICK V : order \in OrderRow(V)
  BY DEF Frozen, NoOrder
<1>2. /\ \E W : order' \in OrderRow(W)
      /\ order'.kind = order.kind /\ order'.status = s /\ order'.from = order.from
      /\ order'.to = order.to /\ order'.snapshot = order.snapshot
      /\ order'.read = order.read
  BY <1>1, Ended DEF End
<1>3. QED
  BY <1>2 DEF Frozen

LEMMA ReadsKeepFrozen ==
  ASSUME Intact, Frozen, Reads
  PROVE  Frozen'
<1>1. PICK V : chain \in Seq(EventRow(V))
  BY DEF Intact, Written
<1>2. DOMAIN chain = 1..Len(chain) /\ Len(chain) \in Nat
  BY <1>1, LenProperties
<1>3. UNCHANGED <<chain, altered>>
  BY ReadsOnly
<1>4. CASE Checkpoint
  BY <1>1, <1>3, <1>4, FrozenIfLonger DEF Checkpoint
<1>5. CASE RequestExport
  <2> DEFINE start == IF chain = <<>> THEN 0 ELSE 1
  <2>1. order' = [kind |-> "export", status |-> "queued", from |-> start,
                  to |-> Len(chain), head |-> HeadHash(chain), snapshot |-> chain,
                  read |-> <<>>]
    BY <1>5 DEF RequestExport
  <2>2. order' \in OrderRow({"queued", start, Len(chain), HeadHash(chain), chain, <<>>})
    BY <2>1 DEF OrderRow
  <2>3. /\ Len(chain) \in DOMAIN chain \cup {0}
        /\ start = 1 \/ Len(chain) = 0
    BY <1>1, <1>2, EmptySeq
  <2>4. QED
    BY <1>1, <1>3, <2>1, <2>2, <2>3 DEF Frozen
<1>6. CASE ExportReads
  <2>1. order.kind = "export"
    BY <1>6 DEF ExportReads
  <2>2. CASE End("failed")
    BY <1>3, <2>1, <2>2, EndKeepsFrozen
  <2>3. CASE /\ order.to \in DOMAIN chain
             /\ order' = [order EXCEPT !.status = "read",
                                       !.read = SubSeq(chain, order.from, order.to)]
    <3> DEFINE part == SubSeq(chain, order.from, order.to)
    <3>1. PICK W : order \in OrderRow(W)
      BY <2>1 DEF Frozen, NoOrder
    <3>2. /\ order' \in OrderRow(W \cup {"read", part})
          /\ order'.kind = order.kind /\ order'.status = "read" /\ order'.from = order.from
          /\ order'.to = order.to /\ order'.snapshot = order.snapshot
          /\ order'.read = part
      <4>1. order' = [order EXCEPT !.status = "read", !.read = part]
        BY <2>3
      <4> HIDE DEF part
      <4>2. QED
        BY <3>1, <4>1 DEF OrderRow
    <3>3. ASSUME altered = {}
          PROVE  part = order.snapshot
      <4>1. PICK U : order.snapshot \in Seq(EventRow(U))
        BY <2>1 DEF Frozen
      <4>2. /\ order.from = 1 /\ order.to \in DOMAIN chain
            /\ order.to = Len(order.snapshot)
            /\ \A i \in 1..order.to : order.snapshot[i] = chain[i]
        BY <1>2, <2>1, <2>3, <3>3 DEF Frozen
      <4> DEFINE S == EventRow(U) \cup EventRow(V)
                 n == order.to
      <4>3. n \in Int /\ 1 <= n /\ n - 1 + 1 = n
        BY <1>2, <4>2
      <4>4. \A i \in 1..n : chain[i] \in S
        BY <1>1, <1>2, <4>2, ElementOfSeq
      <4>5. order.snapshot \in Seq(S)
        BY <4>1, SeqMonotonic
      <4> HIDE DEF S, n
      <4>6. /\ SubSeq(chain, 1, n) \in Seq(S)
            /\ Len(SubSeq(chain, 1, n)) = IF 1 <= n THEN n - 1 + 1 ELSE 0
            /\ \A i \in 1..(n - 1 + 1) : SubSeq(chain, 1, n)[i] = chain[1 + i - 1]
        BY <4>3, <4>4, SubSeqProperties
      <4>7. /\ Len(SubSeq(chain, 1, n)) = n
            /\ \A i \in 1..n : SubSeq(chain, 1, n)[i] = chain[i]
        BY <4>3, <4>6
      <4>8. Len(order.snapshot) = n /\ \A i \in 1..n : order.snapshot[i] = chain[i]
        BY <4>2 DEF n
      <4>9. SubSeq(chain, 1, n) = order.snapshot
        BY <4>5, <4>6, <4>7, <4>8, SeqEqual
      <4>10. QED
        BY <4>2, <4>9 DEF n
    <3> HIDE DEF part
    <3>4. QED
      BY <1>3, <2>1, <3>2, <3>3 DEF Frozen
  <2>4. QED
    BY <1>6, <2>2, <2>3 DEF ExportReads
<1>7. CASE ExportFinishes
  <2>1. order.kind = "export" /\ order.status = "read"
        /\ End(IF Valid(chain) THEN "completed" ELSE "failed")
    BY <1>7 DEF ExportFinishes
  <2>2. Valid(chain) => order.read = order.snapshot
    BY <2>1, IntactIsExact DEF Frozen
  <2>3. QED
    BY <1>3, <2>1, <2>2, EndKeepsFrozen
<1>8. ASSUME NEW s \in Subjects, RequestReplay(s)
      PROVE  Frozen'
  <2>1. \E f, t, p : order' = [kind |-> "replay", status |-> "queued", from |-> f, to |-> t,
                               head |-> Genesis, snapshot |-> p, read |-> <<>>]
    BY <1>8 DEF RequestReplay
  <2>2. PICK f, t, p : order' = [kind |-> "replay", status |-> "queued", from |-> f, to |-> t,
                                 head |-> Genesis, snapshot |-> p, read |-> <<>>]
    BY <2>1
  <2>3. order' \in OrderRow({"queued", f, t, Genesis, p, <<>>}) /\ order'.kind = "replay"
    BY <2>2 DEF OrderRow
  <2>4. QED
    BY <2>3 DEF Frozen
<1>9. CASE ReplayVerifies \/ ReplayFinishes
  <2>1. PICK s \in {"verified", "failed", "reproduced", "diverged"} : End(s)
    BY <1>9 DEF ReplayVerifies, ReplayFinishes
  <2>2. order.kind # "none" /\ s # "read" /\ s # "completed"
    BY <1>9, <2>1 DEF ReplayVerifies, ReplayFinishes
  <2>3. QED
    BY <1>3, <2>1, <2>2, EndKeepsFrozen
<1>10. CASE OrderIsDone
  BY <1>10 DEF OrderIsDone, Frozen, NoOrder
<1>11. QED
  BY <1>4, <1>5, <1>6, <1>7, <1>8, <1>9, <1>10 DEF Reads

LEMMA FrozenStep == Once /\ Intact /\ Frozen /\ [Next]_vars => Frozen'
<1> SUFFICES ASSUME Once, Intact, Frozen, [Next]_vars PROVE Frozen'
  OBVIOUS
<1>1. PICK V : /\ chain \in Seq(EventRow(V))
               /\ \A c \in Clients : txn[c].events \in Seq(EventRow(V))
  BY DEF Intact, Written
<1>2. ASSUME UNCHANGED evidenceVars PROVE Frozen'
  BY <1>2 DEF evidenceVars, Frozen
<1>3. ASSUME NEW i, Alter(i)
      PROVE  Frozen'
  <2>1. altered' # {} /\ UNCHANGED order /\ DOMAIN chain' = DOMAIN chain
    BY <1>3 DEF Alter
  <2>2. QED
    BY <2>1, FrozenIfAltered
<1>4. ASSUME NEW c \in Clients, Commit(c)
      PROVE  Frozen'
  <2>1. chain' = View(c) /\ UNCHANGED <<order, altered>>
    BY <1>4, Finishes
  <2>2. /\ View(c) \in Seq(EventRow(V)) /\ Len(View(c)) = Len(chain) + Len(txn[c].events)
        /\ \A j \in 1..(Len(chain) + Len(txn[c].events)) :
             View(c)[j] = IF j <= Len(chain) THEN chain[j] ELSE txn[c].events[j - Len(chain)]
    BY <1>1, ConcatProperties DEF View
  <2>3. /\ DOMAIN chain = 1..Len(chain) /\ DOMAIN View(c) = 1..Len(View(c))
        /\ Len(chain) \in Nat /\ Len(txn[c].events) \in Nat
    BY <1>1, <2>2, LenProperties
  <2>4. DOMAIN chain \subseteq DOMAIN chain' /\ \A i \in DOMAIN chain : chain'[i] = chain[i]
    BY <2>1, <2>2, <2>3
  <2>5. QED
    BY <1>1, <2>1, <2>4, FrozenIfLonger
<1>5. ASSUME NEW c \in Clients, Serves(c)
      PROVE  Frozen'
  <2>1. CASE Commit(c)
    BY <1>4, <2>1
  <2>2. CASE ~ Commit(c)
    <3>1. UNCHANGED evidenceVars
      BY <1>5, <2>2 DEF Serves, Arrive, Lookup, Dispatch, InsertRecord, Accept, Fail, Rest
    <3>2. QED
      BY <1>2, <3>1
  <2>3. QED
    BY <2>1, <2>2
<1>6. CASE UNCHANGED vars \/ WindowEnds \/ \E k \in Keys : SweepRecord(k)
  BY <1>2, <1>6 DEF vars, WindowEnds, SweepRecord
<1>7. CASE ReadsAlone \/ AltersAlone
  BY <1>3, <1>7, ReadsKeepFrozen DEF ReadsAlone, AltersAlone
<1>8. QED
  BY <1>5, <1>6, <1>7, StepKinds

LEMMA FrozenStart == Init => Frozen
  BY DEF Init, EvidenceInit, Frozen, NoOrder

(***************************************************************************)
(* Effects                                                                 *)
(***************************************************************************)

\* The events of a transaction that say k was accepted: the last, and only it.
Claims(events, k) ==
  /\ events # <<>>
  /\ events[Len(events)].tag = "accepted" /\ events[Len(events)].subject = k
  /\ \A i \in 1..(Len(events) - 1) : events[i].tag # "accepted"

\* What a transaction has told so far, in its events and deliveries.
InHand(c) ==
  /\ txn[c].outbox # {} => client[c].at = "commit" /\ txn[c].status = "ok"
  /\ \A d \in txn[c].outbox : d.event = Len(View(c))
  /\ client[c].at \in InTxn /\ txn[c].status # "ok" => txn[c].events = <<>>
  /\ client[c].at \in {"record", "accept"} =>
       \A i \in DOMAIN txn[c].events : txn[c].events[i].tag # "accepted"
  /\ client[c].at = "accept" => txn[c].status = "ok"
  /\ client[c].at = "commit" /\ txn[c].status = "ok" =>
       Claims(txn[c].events, client[c].key)

Told == EffectsAreEvidenced /\ \A c \in Clients : InHand(c)

LEMMA InHandKept ==
  ASSUME NEW c \in Clients, InHand(c), client'[c] = client[c], txn'[c] = txn[c],
         View(c)' = View(c) \/ Len(View(c)') = Len(View(c)) \/ txn[c].outbox = {}
  PROVE  InHand(c)'
  BY DEF InHand

LEMMA NothingInHand ==
  ASSUME NEW c \in Clients, client'[c].at \notin InTxn, txn'[c].outbox = {}
  PROVE  InHand(c)'
  BY DEF InHand, InTxn

LEMMA EvidenceKept ==
  ASSUME EffectsAreEvidenced, UNCHANGED <<chain, altered, deliveries, effects>>
  PROVE  EffectsAreEvidenced'
  BY DEF EffectsAreEvidenced, AcceptedFor

\* Only the client c moves, and the chain stays.
LEMMA ToldByOne ==
  ASSUME Told, UNCHANGED <<chain, altered, deliveries, effects>>, NEW c \in Clients,
         \A d \in Clients \ {c} : client'[d] = client[d] /\ txn'[d] = txn[d],
         InHand(c)'
  PROVE  Told'
<1>1. EffectsAreEvidenced'
  BY EvidenceKept DEF Told
<1>2. ASSUME NEW d \in Clients \ {c}
      PROVE  InHand(d)'
  <2>1. View(d)' = View(d)
    BY DEF View
  <2>2. QED
    BY <2>1, InHandKept DEF Told
<1>3. QED
  BY <1>1, <1>2 DEF Told

LEMMA DispatchTells ==
  ASSUME Once, Intact, Told, NEW c \in Clients, Dispatch(c)
  PROVE  Told'
<1>1. txn[c].events = <<>>
  BY Dispatched DEF Intact, InTxn
<1>2. ASSUME NEW i \in DOMAIN txn'[c].events
      PROVE  txn'[c].events[i].tag # "accepted"
  <2>1. CASE txn'[c].events = <<>>
    BY <1>2, <2>1
  <2>2. CASE txn'[c].events = Appended(c, "route")
    <3> DEFINE e == NextEvent(View(c), "route", client[c].key)
    <3>1. e.tag = "route"
      BY DEF NextEvent
    <3>2. txn'[c].events = Append(<<>>, e)
      BY <1>1, <2>2 DEF Appended, View
    <3> HIDE DEF e
    <3>3. txn'[c].events = <<e>>
      BY <3>2
    <3>4. QED
      BY <1>2, <3>1, <3>3
  <2>3. QED
    BY <2>1, <2>2, Dispatched
<1>3. InHand(c)'
  BY <1>2, Dispatched DEF InHand
<1>4. QED
  BY <1>3, Dispatched, ToldByOne DEF evidenceVars

LEMMA InsertTells ==
  ASSUME Once, Intact, Told, NEW c \in Clients, InsertRecord(c)
  PROVE  Told'
<1>1. UNCHANGED <<chain, altered, deliveries, effects>>
  BY DEF InsertRecord, evidenceVars
<1>2. CASE Abort(c)
  <2>1. InHand(c)'
    BY <1>2, Aborted, NothingInHand DEF InTxn
  <2>2. QED
    BY <1>1, <1>2, <2>1, Aborted, ToldByOne
<1>3. CASE ~ Abort(c)
  <2>1. InHand(c)'
    BY <1>3, Inserted DEF InHand, Told, InTxn
  <2>2. QED
    BY <1>1, <1>3, <2>1, Inserted, ToldByOne
<1>4. QED
  BY <1>2, <1>3

LEMMA AcceptTells ==
  ASSUME Once, Intact, Told, NEW c \in Clients, Accept(c)
  PROVE  Told'
<1> DEFINE e == NextEvent(View(c), "accepted", client[c].key)
           t == txn[c].events
<1>1. PICK V : chain \in Seq(EventRow(V)) /\ t \in Seq(EventRow(V))
  BY DEF Intact, Written
<1>2. e.tag = "accepted" /\ e.subject = client[c].key
  BY DEF NextEvent
<1>3. txn'[c].events = Append(t, e) /\ UNCHANGED chain
  BY Accepted DEF Appended, View, evidenceVars
<1>4. txn[c].status = "ok" /\ \A i \in DOMAIN t : t[i].tag # "accepted"
  BY Accepted DEF Told, InHand
<1> HIDE DEF e, t
<1>5. Len(t) \in Nat /\ DOMAIN t = 1..Len(t) /\ Len(chain) \in Nat
  BY <1>1, LenProperties
<1>6. /\ Len(Append(t, e)) = Len(t) + 1 /\ Append(t, e) # <<>>
      /\ Append(t, e)[Len(t) + 1] = e
      /\ \A i \in 1..Len(t) : Append(t, e)[i] = t[i]
  BY <1>1, <1>5
<1>7. Claims(Append(t, e), client[c].key)
  <2>1. Len(t) + 1 - 1 = Len(t)
    BY <1>5
  <2>2. QED
    BY <1>2, <1>4, <1>5, <1>6, <2>1 DEF Claims
<1>8. Len(View(c)') = Len(chain) + Len(t) + 1
  <2> DEFINE u == Append(t, e)
             W == EventRow(V) \cup {e}
  <2>1. chain \in Seq(W) /\ t \in Seq(W) /\ e \in W
    BY <1>1, SeqMonotonic
  <2> HIDE DEF W
  <2>2. u \in Seq(W) /\ Len(u) = Len(t) + 1
    BY <1>6, <2>1
  <2> HIDE DEF u
  <2>3. Len(chain \o u) = Len(chain) + Len(u)
    BY <2>1, <2>2, ConcatProperties
  <2>4. View(c)' = chain \o u
    BY <1>3 DEF View, u
  <2>5. QED
    BY <1>5, <2>2, <2>3, <2>4
<1>9. \A d \in txn'[c].outbox : d.event = Len(View(c)')
  <2>1. txn'[c].outbox = Outbox(c)
    BY Accepted
  <2>2. \A d \in Outbox(c) : d.event = Len(chain) + Len(t) + 1
    BY DEF Outbox, t
  <2>3. QED
    BY <1>8, <2>1, <2>2
<1>10. InHand(c)'
  BY <1>3, <1>4, <1>7, <1>9, Accepted DEF InHand, InTxn
<1>11. QED
  BY <1>10, Accepted, ToldByOne DEF evidenceVars

(* The commit of c: its events, and no others, are added to the chain.     *)

LEMMA CommitGrows ==
  ASSUME Once, Intact, NEW c \in Clients, Commit(c)
  PROVE  LET t == txn[c].events IN
         /\ Len(chain) \in Nat /\ Len(t) \in Nat /\ Len(View(c)) = Len(chain) + Len(t)
         /\ DOMAIN chain = 1..Len(chain) /\ DOMAIN chain' = 1..(Len(chain) + Len(t))
         /\ DOMAIN t = 1..Len(t)
         /\ \A i \in DOMAIN chain : chain'[i] = chain[i]
         /\ \A i \in DOMAIN t : chain'[Len(chain) + i] = t[i]
         /\ t = <<>> => chain' = chain
         /\ t # <<>> => Len(t) > 0
<1> DEFINE t == txn[c].events
<1>1. PICK V : chain \in Seq(EventRow(V)) /\ t \in Seq(EventRow(V))
  BY DEF Intact, Written
<1>2. chain' = chain \o t /\ View(c) = chain \o t
  BY Finishes DEF View
<1> HIDE DEF t
<1>3. /\ chain \o t \in Seq(EventRow(V)) /\ Len(chain \o t) = Len(chain) + Len(t)
      /\ \A j \in 1..(Len(chain) + Len(t)) :
           (chain \o t)[j] = IF j <= Len(chain) THEN chain[j] ELSE t[j - Len(chain)]
  BY <1>1, ConcatProperties
<1>4. /\ DOMAIN chain = 1..Len(chain) /\ DOMAIN t = 1..Len(t)
      /\ DOMAIN (chain \o t) = 1..Len(chain \o t)
      /\ Len(chain) \in Nat /\ Len(t) \in Nat
  BY <1>1, <1>3, LenProperties
<1>5. \A i \in DOMAIN chain : (chain \o t)[i] = chain[i]
  BY <1>3, <1>4
<1>6. ASSUME NEW i \in DOMAIN t
      PROVE  (chain \o t)[Len(chain) + i] = t[i]
  <2>1. Len(chain) + i \in 1..(Len(chain) + Len(t)) /\ ~ (Len(chain) + i <= Len(chain))
        /\ Len(chain) + i - Len(chain) = i
    BY <1>4
  <2>2. QED
    BY <1>3, <2>1
<1>7. (t = <<>> => chain \o t = chain) /\ (t # <<>> => Len(t) > 0)
  BY <1>1, ConcatEmptySeq, EmptySeq
<1>8. QED
  BY <1>2, <1>3, <1>4, <1>5, <1>6, <1>7 DEF t

LEMMA FiniteAccepted ==
  ASSUME Intact, NEW k
  PROVE  IsFiniteSet(AcceptedFor(k)) /\ Cardinality(AcceptedFor(k)) \in Nat
<1>1. AcceptedFor(k) \in SUBSET (1..Len(chain)) /\ Len(chain) \in Nat
  BY LenProperties DEF Intact, Written, AcceptedFor
<1>2. IsFiniteSet(1..Len(chain))
  BY <1>1, FS_Interval
<1>3. QED
  BY <1>1, <1>2, FS_Subset, FS_CardinalityType

LEMMA CommitTells ==
  ASSUME Once, Intact, Told, NEW c \in Clients, Commit(c)
  PROVE  Told'
<1> DEFINE t == txn[c].events
           m == Len(chain) + Len(t)
           key == client[c].key
<1>1. InHand(c) /\ client[c].at = "commit"
  BY Finishes DEF Told
<1>2. /\ Len(chain) \in Nat /\ Len(t) \in Nat /\ Len(View(c)) = Len(chain) + Len(t)
      /\ DOMAIN chain = 1..Len(chain) /\ DOMAIN chain' = 1..(Len(chain) + Len(t))
      /\ DOMAIN t = 1..Len(t)
      /\ \A i \in DOMAIN chain : chain'[i] = chain[i]
      /\ \A i \in DOMAIN t : chain'[Len(chain) + i] = t[i]
      /\ t = <<>> => chain' = chain
      /\ t # <<>> => Len(t) > 0
  BY CommitGrows
<1>3. ASSUME txn[c].status = "ok"
      PROVE  /\ m \in DOMAIN chain' /\ m \notin DOMAIN chain
             /\ chain'[m].tag = "accepted" /\ chain'[m].subject = key
             /\ \A i \in DOMAIN chain' :
                  i \notin DOMAIN chain /\ i # m => chain'[i].tag # "accepted"
  <2>1. Claims(t, key)
    BY <1>1, <1>3 DEF InHand
  <2>2. t # <<>> /\ t[Len(t)].tag = "accepted" /\ t[Len(t)].subject = key
        /\ \A i \in 1..(Len(t) - 1) : t[i].tag # "accepted"
    BY <2>1 DEF Claims
  <2> HIDE DEF t, key
  <2>3. Len(t) \in DOMAIN t /\ chain'[m] = t[Len(t)]
    BY <1>2, <2>2
  <2>4. m \in DOMAIN chain' /\ m \notin DOMAIN chain
    BY <1>2, <2>2
  <2>5. ASSUME NEW i \in DOMAIN chain', i \notin DOMAIN chain, i # m
        PROVE  chain'[i].tag # "accepted"
    <3>1. i - Len(chain) \in 1..(Len(t) - 1) /\ Len(chain) + (i - Len(chain)) = i
      <4>1. i \in 1..(Len(chain) + Len(t)) /\ i \notin 1..Len(chain) /\ i # Len(chain) + Len(t)
        BY <1>2, <2>5
      <4>2. Len(chain) \in Nat /\ Len(t) \in Nat
        BY <1>2
      <4>3. QED
        BY <4>1, <4>2
    <3>2. i - Len(chain) \in DOMAIN t
      BY <1>2, <3>1
    <3>3. QED
      BY <1>2, <2>2, <3>1, <3>2
  <2>6. QED
    BY <2>2, <2>3, <2>4, <2>5
<1>4. txn[c].status # "ok" => chain' = chain
  BY <1>1, <1>2 DEF InHand, InTxn
<1>5. ASSUME altered' = {}, NEW k \in Keys
      PROVE  Cardinality(AcceptedFor(k)') = effects'[k]
  <2>1. Cardinality(AcceptedFor(k)) = effects[k]
    BY <1>5, Finishes DEF Told, EffectsAreEvidenced
  <2>2. IsFiniteSet(AcceptedFor(k)) /\ Cardinality(AcceptedFor(k)) \in Nat
    BY FiniteAccepted
  <2>3. effects'[k] = effects[k] + IF txn[c].status = "ok" /\ k = key THEN 1 ELSE 0
    BY Finishes
  <2>4. CASE txn[c].status # "ok"
    <3>1. AcceptedFor(k)' = AcceptedFor(k)
      BY <1>4, <2>4 DEF AcceptedFor
    <3>2. QED
      BY <2>1, <2>2, <2>3, <2>4, <3>1
  <2>5. CASE txn[c].status = "ok" /\ k # key
    <3>1. ASSUME NEW i \in DOMAIN chain'
          PROVE  i \in AcceptedFor(k)' <=> i \in AcceptedFor(k)
      <4>1. CASE i \in DOMAIN chain
        BY <1>2, <3>1, <4>1 DEF AcceptedFor
      <4>2. CASE i \notin DOMAIN chain
        BY <1>3, <2>5, <3>1, <4>2 DEF AcceptedFor
      <4>3. QED
        BY <4>1, <4>2
    <3>2. AcceptedFor(k) \subseteq DOMAIN chain' /\ AcceptedFor(k)' \subseteq DOMAIN chain'
      BY <1>2 DEF AcceptedFor
    <3>3. AcceptedFor(k)' = AcceptedFor(k)
      BY <3>1, <3>2
    <3>4. QED
      BY <2>1, <2>2, <2>3, <2>5, <3>3
  <2>6. CASE txn[c].status = "ok" /\ k = key
    <3>1. ASSUME NEW i \in DOMAIN chain'
          PROVE  i \in AcceptedFor(k)' <=> i \in AcceptedFor(k) \cup {m}
      <4>1. CASE i \in DOMAIN chain
        BY <1>2, <1>3, <2>6, <3>1, <4>1 DEF AcceptedFor
      <4>2. CASE i \notin DOMAIN chain
        BY <1>3, <2>6, <3>1, <4>2 DEF AcceptedFor
      <4>3. QED
        BY <4>1, <4>2
    <3>2. AcceptedFor(k) \cup {m} \subseteq DOMAIN chain' /\ AcceptedFor(k)' \subseteq DOMAIN chain'
      BY <1>2, <1>3, <2>6 DEF AcceptedFor
    <3>3. AcceptedFor(k)' = AcceptedFor(k) \cup {m}
      BY <3>1, <3>2
    <3>4. m \notin AcceptedFor(k)
      BY <1>3, <2>6 DEF AcceptedFor
    <3>5. Cardinality(AcceptedFor(k) \cup {m}) = Cardinality(AcceptedFor(k)) + 1
      BY <2>2, <3>4, FS_AddElement
    <3>6. QED
      BY <2>1, <2>2, <2>3, <2>6, <3>3, <3>5
  <2>7. QED
    BY <2>4, <2>5, <2>6
<1>6. ASSUME altered' = {}, NEW d \in deliveries'
      PROVE  d.event \in DOMAIN chain' /\ chain'[d.event].tag = "accepted"
  <2>1. CASE d \in deliveries
    <3>1. d.event \in DOMAIN chain /\ chain[d.event].tag = "accepted"
      BY <1>6, <2>1, Finishes DEF Told, EffectsAreEvidenced
    <3>2. QED
      BY <1>2, <3>1
  <2>2. CASE d \in txn[c].outbox
    <3>1. d.event = m /\ txn[c].status = "ok"
      BY <1>1, <1>2, <2>2 DEF InHand
    <3>2. QED
      BY <1>3, <3>1
  <2>3. QED
    BY <1>6, <2>1, <2>2, Finishes
<1>7. EffectsAreEvidenced'
  BY <1>5, <1>6 DEF EffectsAreEvidenced
<1>8. ASSUME NEW d \in Clients \ {c}
      PROVE  InHand(d)'
  <2>1. InHand(d) /\ client'[d] = client[d] /\ txn'[d] = txn[d]
    BY Finishes DEF Told
  <2>2. CASE txn[d].outbox = {}
    BY <2>1, <2>2, InHandKept
  <2>3. CASE txn[d].outbox # {}
    <3>1. Claims(txn[d].events, client[d].key)
      BY <2>1, <2>3 DEF InHand
    <3>2. lock = d
      BY <3>1 DEF Intact, Claims
    <3>3. txn[c].events = <<>>
      BY <3>2 DEF Intact
    <3>4. View(d)' = View(d)
      BY <1>2, <2>1, <3>3 DEF View
    <3>5. QED
      BY <2>1, <3>4, InHandKept
  <2>4. QED
    BY <2>2, <2>3
<1>9. InHand(c)'
  BY Finishes, NothingInHand DEF InTxn
<1>10. QED
  BY <1>7, <1>8, <1>9 DEF Told

LEMMA ToldStep == Once /\ Intact /\ Told /\ [Next]_vars => Told'
<1> SUFFICES ASSUME Once, Intact, Told, [Next]_vars PROVE Told'
  OBVIOUS
<1>1. ASSUME UNCHANGED <<chain, altered, deliveries, effects, client, txn>>
      PROVE  Told'
  <2>1. \A c \in Clients : InHand(c)'
    BY <1>1, InHandKept DEF Told, View
  <2>2. QED
    BY <1>1, <2>1, EvidenceKept DEF Told
<1>2. CASE UNCHANGED vars \/ ReadsAlone
  <2>1. UNCHANGED <<client, txn, deliveries, effects>>
    BY <1>2 DEF vars, requestVars, ReadsAlone
  <2>2. UNCHANGED <<chain, altered>>
    BY <1>2, ReadsOnly DEF vars, evidenceVars, ReadsAlone
  <2>3. QED
    BY <1>1, <2>1, <2>2
<1>3. ASSUME NEW i, Alter(i), UNCHANGED requestVars
      PROVE  Told'
  <2>1. UNCHANGED <<client, txn>> /\ altered' # {}
    BY <1>3 DEF Alter, requestVars
  <2>2. PICK V : /\ chain \in Seq(EventRow(V))
                 /\ \A c \in Clients : txn[c].events \in Seq(EventRow(V))
    BY DEF Intact, Written
  <2>3. PICK W : /\ chain' \in Seq(EventRow(W))
                 /\ \A c \in Clients : txn'[c].events \in Seq(EventRow(W))
    BY <1>3, AlterKeepsIntact DEF Intact, Written, requestVars
  <2>4. Len(chain') = Len(chain)
    <3>1. DOMAIN chain' = DOMAIN chain
      BY <1>3 DEF Alter
    <3>2. /\ DOMAIN chain' = 1..Len(chain') /\ DOMAIN chain = 1..Len(chain)
          /\ Len(chain) \in Nat /\ Len(chain') \in Nat
      BY <2>2, <2>3, LenProperties
    <3>3. CASE Len(chain) < Len(chain')
      <4>1. Len(chain') \in 1..Len(chain') /\ Len(chain') \notin 1..Len(chain)
        BY <3>2, <3>3
      <4>2. QED
        BY <3>1, <3>2, <4>1
    <3>4. CASE Len(chain') < Len(chain)
      <4>1. Len(chain) \in 1..Len(chain) /\ Len(chain) \notin 1..Len(chain')
        BY <3>2, <3>4
      <4>2. QED
        BY <3>1, <3>2, <4>1
    <3>5. ASSUME NEW x \in Nat, NEW y \in Nat, ~ (x < y), ~ (y < x)
          PROVE  x = y
      BY <3>5
    <3>6. ~ (Len(chain) < Len(chain')) /\ ~ (Len(chain') < Len(chain))
      BY <3>3, <3>4
    <3>7. QED
      BY <3>2, <3>5, <3>6
  <2>5. ASSUME NEW c \in Clients
        PROVE  Len(View(c)') = Len(View(c))
    <3>1. Len(View(c)) = Len(chain) + Len(txn[c].events)
      BY <2>2, ConcatProperties DEF View
    <3> DEFINE s == chain'
               t == txn'[c].events
    <3>2. s \in Seq(EventRow(W)) /\ t \in Seq(EventRow(W))
      BY <2>3
    <3>3. View(c)' = s \o t
      BY DEF View
    <3> HIDE DEF s, t
    <3>4. Len(s \o t) = Len(s) + Len(t)
      BY <3>2, ConcatProperties
    <3>5. QED
      BY <2>1, <2>4, <3>1, <3>3, <3>4 DEF s, t
  <2>6. \A c \in Clients : InHand(c)'
    BY <2>1, <2>5, InHandKept DEF Told
  <2>7. EffectsAreEvidenced'
    BY <2>1 DEF EffectsAreEvidenced
  <2>8. QED
    BY <2>6, <2>7 DEF Told
<1>4. CASE WindowEnds \/ \E k \in Keys : SweepRecord(k)
  BY <1>1, <1>4 DEF WindowEnds, SweepRecord, evidenceVars
<1>5. ASSUME NEW c \in Clients,
             \/ \E k \in Keys, d \in Digests : Arrive(c, k, d)
             \/ Lookup(c) \/ Rest(c)
      PROVE  Told'
  <2>1. /\ UNCHANGED <<evidenceVars, txn, deliveries, effects>>
        /\ client[c].at \notin InTxn /\ client'[c].at \notin InTxn
        /\ \A d \in Clients \ {c} : client'[d] = client[d]
    BY <1>5, Outside
  <2>2. txn'[c].outbox = {}
    BY <2>1 DEF Told, InHand, InTxn
  <2>3. InHand(c)'
    BY <2>1, <2>2, NothingInHand
  <2>4. UNCHANGED <<chain, altered, deliveries, effects>>
    BY <2>1 DEF evidenceVars
  <2>5. QED
    BY <2>1, <2>3, <2>4, ToldByOne
<1>6. ASSUME NEW c \in Clients, Fail(c)
      PROVE  Told'
  <2>1. UNCHANGED <<chain, altered, deliveries, effects>> /\ Abort(c)
    BY <1>6 DEF Fail, evidenceVars
  <2>2. InHand(c)'
    BY <2>1, Aborted, NothingInHand DEF InTxn
  <2>3. QED
    BY <2>1, <2>2, Aborted, ToldByOne
<1>7. ASSUME NEW c \in Clients, Serves(c)
      PROVE  Told'
  BY <1>5, <1>6, <1>7, DispatchTells, InsertTells, AcceptTells, CommitTells DEF Serves
<1>8. CASE AltersAlone
  BY <1>3, <1>8 DEF AltersAlone
<1>9. QED
  BY <1>2, <1>4, <1>7, <1>8, StepKinds

LEMMA ToldStart == Init => Told
<1> SUFFICES ASSUME Init PROVE Told
  OBVIOUS
<1>1. /\ chain = <<>> /\ deliveries = {} /\ effects = [k \in Keys |-> 0]
      /\ \A c \in Clients : client[c].at = "idle" /\ txn[c].outbox = {}
  BY DEF Init, EvidenceInit, Resting, NoTxn
<1>2. \A k \in Keys : AcceptedFor(k) = {}
  BY <1>1 DEF AcceptedFor
<1>3. EffectsAreEvidenced
  BY <1>1, <1>2, FS_EmptySet DEF EffectsAreEvidenced
<1>4. \A c \in Clients : InHand(c)
  BY <1>1 DEF InHand, InTxn
<1>5. QED
  BY <1>3, <1>4 DEF Told

\* VerificationIsExact (sqlite_storage.cpp:209-252, postgres_storage.cpp:288-340):
\* what transactions append under the lock links to what is committed, so only
\* altered events break the chain, and the first of them is found.
THEOREM VerificationFindsTheFirst == Spec => []VerificationIsExact
<1>1. Once /\ Intact /\ [Next]_vars => (Once /\ Intact)'
  BY OnceStep, IntactStep
<1>2. QED
  BY <1>1, OnceStart, IntactStart, IntactIsExact, PTL DEF Spec

\* ExportsAreFrozen (jobs.cpp:680-701): an export that is completed read the
\* chain before anything was altered, for verification found nothing after it.
THEOREM ExportsAreWhatWasAsked == Spec => []ExportsAreFrozen
<1>1. Once /\ Intact /\ Frozen /\ [Next]_vars => (Once /\ Intact /\ Frozen)'
  BY OnceStep, IntactStep, FrozenStep
<1>2. Frozen => ExportsAreFrozen
  BY DEF Frozen, ExportsAreFrozen
<1>3. QED
  BY <1>1, <1>2, OnceStart, IntactStart, FrozenStart, PTL DEF Spec

\* EffectsAreEvidenced (control_plane.cpp:725-741): each commit of an accepted
\* request adds one event that says so, and the deliveries of that event; what a
\* refused request leaves behind adds none.
THEOREM EffectsAreTold == Spec => []EffectsAreEvidenced
<1>1. Once /\ Intact /\ Told /\ [Next]_vars => (Once /\ Intact /\ Told)'
  BY OnceStep, IntactStep, ToldStep
<1>2. Told => EffectsAreEvidenced
  BY DEF Told
<1>3. QED
  BY <1>1, <1>2, OnceStart, IntactStart, ToldStart, PTL DEF Spec
=============================================================================
