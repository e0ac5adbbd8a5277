--------------------------- MODULE OperatorAccess ---------------------------
(***************************************************************************)
(* Who acts for a tenant: operator keys, browser sessions opened with     *)
(* them, and the requests that were let in under either. A request is let *)
(* in first and takes effect later; keys are revoked, sessions end and    *)
(* time passes in between. An actor is named by its key.                  *)
(***************************************************************************)
EXTENDS Integers

CONSTANTS
  MaxKeys,     \* bound: keys beside the first one
  MaxSessions, \* bound: sessions opened
  Requesters   \* requests under way at once

ASSUME AccessBounds == MaxKeys \in Nat /\ MaxSessions \in Nat

\* The other roles may do with keys what a viewer may.
Roles == {"admin", "viewer"}

\* The key a tenant is set up with is a row of tenants: it is never revoked.
Bootstrap == 0
Keys == Bootstrap..MaxKeys
Sessions == 1..MaxSessions

VARIABLES
  operatorKey,  \* operator_credentials: [role, prefix, ended], or NoKey
  session,      \* browser_sessions: [actor, ended], or NoSession
  request       \* [actor, role, cookie] of requests that were let in, or NoRequest

accessVars == <<operatorKey, session, request>>

NoKey == [role |-> "none"]
NoSession == [actor |-> -1]
NoRequest == [actor |-> -1]
NoCookie == 0

Key(role, prefix) == [role |-> role, prefix |-> prefix, ended |-> FALSE]

AccessInit ==
  /\ operatorKey = [k \in Keys |-> IF k = Bootstrap THEN Key("admin", "edge_live_") ELSE NoKey]
  /\ session = [s \in Sessions |-> NoSession]
  /\ request = [r \in Requesters |-> NoRequest]

Issued(k) == operatorKey[k] # NoKey

\* findPrincipal; the prefix is looked at before.
Opens(k) == Issued(k) /\ operatorKey[k].prefix = "edge_live_" /\ ~operatorKey[k].ended

\* Mutant of Lasts: only the end of the eight hours counts, which a session
\* that was closed has not come to.
LastsUntilExpiry(s) == session[s] # NoSession

Lasts(s) == session[s] # NoSession /\ ~session[s].ended

-----------------------------------------------------------------------------
(* Being let in *)

LetIn(r, actor, cookie) ==
  /\ request[r] = NoRequest
  /\ request' = [request EXCEPT ![r] =
                   [actor |-> actor, role |-> operatorKey[actor].role, cookie |-> cookie]]
  /\ UNCHANGED <<operatorKey, session>>

\* The cookie of a session that was opened may come along.
PresentKey(r, k, cookie) == Opens(k) /\ LetIn(r, k, cookie)

\* A session has the role of its key, also after the key was revoked.
PresentCookie(r, s) == Lasts(s) /\ LetIn(r, session[s].actor, s)

\* requireRole of what only administrators may do.
In(r) == request[r] # NoRequest
IsAdmin(r) == In(r) /\ request[r].role = "admin"

Answered(r) == request' = [request EXCEPT ![r] = NoRequest]

\* What the request does leaves keys and sessions alone, or is refused.
AnswerOnly(r) == In(r) /\ Answered(r) /\ UNCHANGED <<operatorKey, session>>

-----------------------------------------------------------------------------
(* Sessions *)

\* A session opens another one as a key does.
OpenSession(r, s) ==
  /\ In(r) /\ session[s] = NoSession
  /\ session' = [session EXCEPT ![s] = [actor |-> request[r].actor, ended |-> FALSE]]
  /\ Answered(r) /\ UNCHANGED operatorKey

CloseSession(r) ==
  /\ In(r) /\ request[r].cookie # NoCookie
  /\ session' = [session EXCEPT ![request[r].cookie].ended = TRUE]
  /\ Answered(r) /\ UNCHANGED operatorKey

\* Eight hours have passed.
SessionExpires(s) ==
  /\ Lasts(s) /\ session' = [session EXCEPT ![s].ended = TRUE]
  /\ UNCHANGED <<operatorKey, request>>

-----------------------------------------------------------------------------
(* Keys *)

CreateKey(r, k, role) ==
  /\ IsAdmin(r) /\ ~Issued(k)
  /\ operatorKey' = [operatorKey EXCEPT ![k] = Key(role, "edge_live_")]
  /\ Answered(r) /\ UNCHANGED session

\* The key's sessions are left alone. The answer is the same where the key had
\* been revoked before.
Revoke(r, k) ==
  /\ IsAdmin(r) /\ k # Bootstrap /\ Issued(k)
  /\ operatorKey' = [operatorKey EXCEPT ![k].ended = TRUE]
  /\ Answered(r) /\ UNCHANGED session

\* A key of the same role, whose prefix is never let in; the one before stays.
RotateKey(r, old, k) ==
  /\ IsAdmin(r) /\ old # Bootstrap /\ Issued(old) /\ ~Issued(k)
  /\ operatorKey' = [operatorKey EXCEPT ![k] = Key(operatorKey[old].role, "operator-")]
  /\ Answered(r) /\ UNCHANGED session

KeyExpires(k) ==
  /\ k # Bootstrap /\ Issued(k) /\ ~operatorKey[k].ended
  /\ operatorKey' = [operatorKey EXCEPT ![k].ended = TRUE]
  /\ UNCHANGED <<session, request>>

AccessNext ==
  \/ \E r \in Requesters :
       \/ \E k \in Keys :
            \/ \E cookie \in {NoCookie} \cup {s \in Sessions : session[s] # NoSession} :
                 PresentKey(r, k, cookie)
            \/ Revoke(r, k)
            \/ \E role \in Roles : CreateKey(r, k, role)
            \/ \E old \in Keys : RotateKey(r, old, k)
       \/ \E s \in Sessions : PresentCookie(r, s) \/ OpenSession(r, s)
       \/ CloseSession(r) \/ AnswerOnly(r)
  \/ \E s \in Sessions : SessionExpires(s)
  \/ \E k \in Keys : KeyExpires(k)

AccessSpec == AccessInit /\ [][AccessNext]_accessVars

-----------------------------------------------------------------------------

\* An actor may still act: by its key, by a session, or by a request that was
\* let in before.
MayAct(k) ==
  \/ Opens(k)
  \/ \E s \in Sessions : session[s] # NoSession /\ session[s].actor = k /\ ~session[s].ended
  \/ \E r \in Requesters : In(r) /\ request[r].actor = k

\* An actor whose key has ended and who has neither a session nor a request
\* left never acts again, whatever becomes of its sessions, its key and their
\* successors (control_plane.cpp:479-523, 674-684, 818-848).
GoneForGood == [][\A k \in Keys : Issued(k) /\ ~MayAct(k) => ~MayAct(k)']_accessVars
=============================================================================
