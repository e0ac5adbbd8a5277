----------------------------- MODULE HttpServer -----------------------------
(***************************************************************************)
(* One HTTP server: the thread that runs start, a thread that calls stop, *)
(* and a thread for each connection, which reads a request, spools a body *)
(* that is large to a file of its own, runs the handler and answers.      *)
(***************************************************************************)
EXTENDS Integers, FiniteSets

CONSTANTS
  Clients,
  MaxErrors  \* bound: times accept fails for want of descriptors

VARIABLES
  listener,  \* where the thread in start is
  running,   \* running_
  published, \* listenSocket_ holds the listening socket
  shut,      \* the listening socket was shut down
  stopper,   \* where the thread in stop is
  heard,     \* history: stop found the server running
  conn,      \* where each connection's thread is
  large,     \* connections whose body is spooled
  spools,    \* connections whose spool file is there
  errors

serverVars == <<listener, running, published, shut, stopper, heard, conn, large, spools, errors>>
listening == <<listener, running, published, shut, stopper, heard, errors>>

ServerInit ==
  /\ listener = "new" /\ running = FALSE /\ published = FALSE /\ shut = FALSE
  /\ stopper = "calm" /\ heard = FALSE
  /\ conn = [c \in Clients |-> "away"] /\ large \in SUBSET Clients
  /\ spools = {} /\ errors = 0

-----------------------------------------------------------------------------
(* The thread in start *)

Goto(place) == listener' = place

\* The address may be in use. From here on the port is known to others.
Bind ==
  /\ listener = "new"
  /\ Goto("bound") \/ Goto("failed")
  /\ UNCHANGED <<running, published, shut, stopper, heard, conn, large, spools, errors>>

Run ==
  /\ listener = "bound" /\ Goto("loop") /\ published' = TRUE /\ running' = TRUE
  /\ UNCHANGED <<shut, stopper, heard, conn, large, spools, errors>>

Loop ==
  /\ listener = "loop"
  /\ Goto(IF running THEN "accept" ELSE "close")
  /\ UNCHANGED <<running, published, shut, stopper, heard, conn, large, spools, errors>>

\* External: a client connects, and waits in the socket's queue.
Connect(c) ==
  /\ conn[c] = "away" /\ listener \in {"bound", "loop", "accept"} /\ ~shut
  /\ conn' = [conn EXCEPT ![c] = "queued"]
  /\ UNCHANGED <<listening, large, spools>>

\* A client gets a thread.
AcceptClient(c) ==
  /\ listener = "accept" /\ conn[c] = "queued" /\ ~shut
  /\ Goto("loop") /\ conn' = [conn EXCEPT ![c] = "headers"]
  /\ UNCHANGED <<running, published, shut, stopper, heard, large, spools, errors>>

\* accept returns without a client: the socket was shut down, or descriptors
\* are short.
AcceptFails ==
  /\ listener = "accept" /\ (shut \/ errors < MaxErrors)
  /\ errors' = IF shut THEN errors ELSE errors + 1
  /\ Goto(IF running THEN "loop" ELSE "close")
  /\ UNCHANGED <<running, published, shut, stopper, heard, conn, large, spools>>

\* Clients that still wait in its queue are reset. Its number is forgotten only
\* afterwards.
CloseListener ==
  /\ listener = "close" /\ Goto("clear")
  /\ conn' = [c \in Clients |-> IF conn[c] = "queued" THEN "closed" ELSE conn[c]]
  /\ UNCHANGED <<running, published, shut, stopper, heard, large, spools, errors>>

ClearListener ==
  /\ listener = "clear" /\ Goto("join") /\ published' = FALSE
  /\ UNCHANGED <<running, shut, stopper, heard, conn, large, spools, errors>>

Serving == {c \in Clients : conn[c] \notin {"away", "queued", "closed"}}

Join ==
  /\ listener = "join" /\ Serving = {} /\ Goto("returned")
  /\ UNCHANGED <<running, published, shut, stopper, heard, conn, large, spools, errors>>

-----------------------------------------------------------------------------
(* The thread in stop *)

\* A server that does not run yet is not stopped.
Stop ==
  /\ stopper = "calm"
  /\ running' = FALSE /\ heard' = running
  /\ stopper' = IF running THEN "load" ELSE "done"
  /\ UNCHANGED <<listener, published, shut, conn, large, spools, errors>>

LoadSocket ==
  /\ stopper = "load"
  /\ stopper' = IF published THEN "shutdown" ELSE "done"
  /\ UNCHANGED <<listener, running, published, shut, heard, conn, large, spools, errors>>

\* Mutant of Shutdown: the loop is left to find out by itself.
ShutdownNever ==
  /\ stopper = "shutdown" /\ stopper' = "done" /\ UNCHANGED shut
  /\ UNCHANGED <<listener, running, published, heard, conn, large, spools, errors>>

\* The thread in start may have closed the socket since: the call then fails.
Shutdown ==
  /\ stopper = "shutdown" /\ stopper' = "done"
  /\ shut' = (listener \in {"loop", "accept", "close"})
  /\ UNCHANGED <<listener, running, published, heard, conn, large, spools, errors>>

-----------------------------------------------------------------------------
(* A connection's thread *)

MovesTo(c, place) == conn' = [conn EXCEPT ![c] = place] /\ UNCHANGED <<listening, large>>

\* The client goes away, its headers are refused, or they announce a body. One
\* that is large needs a file, which may not be had.
ReadHeaders(c) ==
  /\ conn[c] = "headers"
  /\ \/ MovesTo(c, "closed") /\ UNCHANGED spools
     \/ MovesTo(c, "body")
        /\ spools' = IF c \in large THEN spools \cup {c} ELSE spools

\* The client goes away, the disk is full, or the body is complete.
ReadBody(c) ==
  /\ conn[c] = "body"
  /\ \/ MovesTo(c, "closed") /\ spools' = spools \ {c}
     \/ MovesTo(c, "handler") /\ UNCHANGED spools

\* The handler answers, or throws, which is answered with 500.
Handle(c) ==
  /\ conn[c] = "handler" /\ MovesTo(c, "answer")
  /\ spools' = spools \ {c}

\* The answer, or a file whose range still fits it, as far as the client reads.
Answer(c) == conn[c] = "answer" /\ MovesTo(c, "closed") /\ UNCHANGED spools

ServerNext ==
  \/ Bind \/ Run \/ Loop \/ AcceptFails \/ CloseListener \/ ClearListener \/ Join
  \/ Stop \/ LoadSocket \/ Shutdown
  \/ \E c \in Clients :
       Connect(c) \/ AcceptClient(c) \/ ReadHeaders(c) \/ ReadBody(c) \/ Handle(c) \/ Answer(c)

ServerSpec == ServerInit /\ [][ServerNext]_serverVars

-----------------------------------------------------------------------------

\* A stop that found the server running is never slept through, wherever the
\* loop is between its test and accept, and when start has returned no thread
\* serves a client and no request body is left on the disk
\* (http_server.cpp:101-145, 192-236).
StopsCleanly ==
  /\ heard /\ stopper = "done" /\ listener = "accept" => shut
  /\ listener \in {"returned", "failed"} => Serving = {} /\ spools = {}
=============================================================================
