--------------------------- MODULE HttpClientPool ---------------------------
(***************************************************************************)
(* The pool adapters call out through: so many permits, a condition that  *)
(* threads without one wait on, one client for each origin that serves    *)
(* one call at a time, and a close that sends the waiting threads away.   *)
(***************************************************************************)
EXTENDS Integers, FiniteSets

CONSTANTS
  Threads,
  Origin,   \* where each thread calls
  Capacity

ASSUME CapacityAssumption == Capacity \in Nat \ {0}
ASSUME ThreadsAssumption == IsFiniteSet(Threads)

VARIABLES
  thread,   \* where each is: away, waiting on the condition, woken, with a
            \* permit, or calling with the origin's client
  inFlight, \* permits given
  closed

poolVars == <<thread, inFlight, closed>>

At(place) == {t \in Threads : thread[t] = place}

PoolInit ==
  thread = [t \in Threads |-> "away"] /\ inFlight = 0 /\ closed = FALSE

\* Under the mutex: the predicate of the wait, and what follows it.
Enter(t) ==
  /\ UNCHANGED closed
  /\ IF closed
       THEN thread' = [thread EXCEPT ![t] = "away"] /\ UNCHANGED inFlight
     ELSE IF inFlight < Capacity
       THEN thread' = [thread EXCEPT ![t] = "permit"] /\ inFlight' = inFlight + 1
     ELSE thread' = [thread EXCEPT ![t] = "waiting"] /\ UNCHANGED inFlight

Request(t) == thread[t] = "away" /\ ~closed /\ Enter(t)

\* A woken thread has to have the mutex again, and others may come first.
Resume(t) == thread[t] = "woken" /\ Enter(t)

WakeUp(t) ==
  /\ thread[t] = "waiting" /\ thread' = [thread EXCEPT ![t] = "woken"]
  /\ UNCHANGED <<inFlight, closed>>

Call(t) ==
  /\ thread[t] = "permit" /\ ~\E other \in At("calling") : Origin[other] = Origin[t]
  /\ thread' = [thread EXCEPT ![t] = "calling"]
  /\ UNCHANGED <<inFlight, closed>>

\* Mutant of Release: only a pool that was full is waited for.
ReleaseIfFull(t) ==
  /\ inFlight' = inFlight - 1
  /\ LET gone == [thread EXCEPT ![t] = "away"] IN
     thread' \in IF At("waiting") = {} \/ inFlight < Capacity THEN {gone}
                 ELSE {[gone EXCEPT ![w] = "woken"] : w \in At("waiting")}

\* The permit's destructor wakes one of those that wait.
Release(t) ==
  /\ inFlight' = inFlight - 1
  /\ LET gone == [thread EXCEPT ![t] = "away"] IN
     thread' \in IF At("waiting") = {} THEN {gone}
                 ELSE {[gone EXCEPT ![w] = "woken"] : w \in At("waiting")}

\* The call has ended, or the request is refused before it.
Return(t) == thread[t] \in {"permit", "calling"} /\ Release(t) /\ UNCHANGED closed

Close ==
  /\ ~closed /\ closed' = TRUE
  /\ thread' = [t \in Threads |-> IF thread[t] = "waiting" THEN "woken" ELSE thread[t]]
  /\ UNCHANGED inFlight

PoolNext ==
  \/ \E t \in Threads : Request(t) \/ Resume(t) \/ WakeUp(t) \/ Call(t) \/ Return(t)
  \/ Close

PoolSpec == PoolInit /\ [][PoolNext]_poolVars

-----------------------------------------------------------------------------

\* No permit is lost or given twice, and no thread waits for one that is free
\* without another having been woken for it, in whatever order threads are
\* woken, come and leave (http_client_pool.cpp:72-106).
NoWakeUpIsLost ==
  /\ inFlight = Cardinality(At("permit") \cup At("calling")) /\ inFlight <= Capacity
  /\ At("waiting") # {} => ~closed /\ inFlight + Cardinality(At("woken")) >= Capacity
=============================================================================
