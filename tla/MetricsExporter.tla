-------------------------- MODULE MetricsExporter --------------------------
(***************************************************************************)
(* The manager's HTTP server: one thread that accepts a connection, reads  *)
(* once from it, answers, closes it, and only then looks for the next one. *)
(* The table it reads is HostManager's; here it is the number of updates   *)
(* applied to it, since GetAll copies it in one critical section.          *)
(*                                                                         *)
(* A client may send its request at any time after it has connected, or    *)
(* close the connection at any time.  A read blocks until there is data or *)
(* the client has closed.  A write to a connection that the client has     *)
(* closed is either thrown away or, if a reset has arrived, raises SIGPIPE,*)
(* which no code of the manager handles.  Requests are told apart by the   *)
(* branch of serve_loop they take.                                         *)
(***************************************************************************)
EXTENDS Integers, Sequences, SequencesExt, FiniteSets

CONSTANTS
    Clients,    \* connections made in a behaviour
    MaxUpdates  \* bound: updates of the table in a behaviour

VARIABLES
    mpc,        \* main: "serving", "joining" (in Stop), "done"
    running,    \* running_
    spc,        \* serve_loop: "open", "test" (of running_), "select", "read",
                \* "build", "write", "ended", or "killed" with the process
    fds,        \* descriptors serve_loop holds: server_fd and client_fd
    queue,      \* connections that wait to be accepted
    client,     \* the connection being served
    buf,        \* the request as read
    response,   \* the response as built
    updates,    \* updates applied to the table
    conn,       \* client -> "away", "queued", "open", "answered", "reset"
    request,    \* client -> what it has sent
    left,       \* clients that have closed their end
    answer,     \* client -> the response written to it
    \* History:
    seenBy      \* client -> updates when it connected

clientVars == <<conn, request, left, answer, seenBy>>
vars == <<mpc, running, spc, fds, queue, client, buf, response, updates, clientVars>>

Server == "server_fd"
None == "none"
\* A connection's descriptor is not that of the listening socket.
ASSUME ExporterAssumption == MaxUpdates \in Nat /\ {Server, None} \cap Clients = {}

Requests == {"healthz", "events", "flamegraph", "metrics", "incomplete"}
NoResponse == [route |-> None, status |-> 0, table |-> 0]

\* The branch of serve_loop for what was read: /metrics is the answer to all
\* other paths, and to a request that is empty or has no second space yet.
Route(r) == IF r \in {"healthz", "events", "flamegraph"} THEN r ELSE "metrics"

Init ==
    /\ mpc = "serving"
    /\ running = TRUE
    /\ spc = "open"
    /\ fds = {}
    /\ queue = <<>>
    /\ client = None
    /\ buf = None
    /\ response = NoResponse
    /\ updates = 0
    /\ conn = [c \in Clients |-> "away"]
    /\ request = [c \in Clients |-> None]
    /\ left = {}
    /\ answer = [c \in Clients |-> NoResponse]
    /\ seenBy = [c \in Clients |-> 0]

(***************************************************************************)
(* serve_loop.                                                             *)
(***************************************************************************)
OpenSocket ==
    /\ spc = "open"
    /\ spc' = "test"
    /\ fds' = {Server}
    /\ UNCHANGED <<mpc, running, queue, client, buf, response, updates, clientVars>>

\* socket, bind or listen fails: the thread ends, the manager goes on.
OpenFails ==
    /\ spc = "open"
    /\ spc' = "ended"
    /\ UNCHANGED <<mpc, running, fds, queue, client, buf, response, updates, clientVars>>

\* The condition of the while loop.  Mutant: the flag is not tested.
LoopForEver == FALSE
LoopDone == ~running

LoopTest ==
    /\ spc = "test"
    /\ ~LoopDone
    /\ spc' = "select"
    /\ UNCHANGED <<mpc, running, fds, queue, client, buf, response, updates, clientVars>>

\* select times out or is interrupted, or accept fails.
NoConnection ==
    /\ spc = "select"
    /\ spc' = "test"
    /\ UNCHANGED <<mpc, running, fds, queue, client, buf, response, updates, clientVars>>

\* A connection that select reports is served even if Stop has been called.
Accept ==
    /\ spc = "select"
    /\ queue # <<>>
    /\ client' = Head(queue)
    /\ queue' = Tail(queue)
    /\ conn' = [conn EXCEPT ![client'] = "open"]
    /\ fds' = fds \cup {client'}
    /\ spc' = "read"
    /\ UNCHANGED <<mpc, running, buf, response, updates, request, left, answer, seenBy>>

\* The read blocks until there is data or the client has closed.  Mutant: the
\* end of the connection does not end the wait.
DataArrived == request[client] # None
ReadReturns == request[client] # None \/ client \in left

\* buf is cleared for each connection, so a client that closes without a
\* request has an empty one.  Mutant: it is not cleared.
BufferReused == IF request[client] = None THEN buf ELSE request[client]
BufferRead == request[client]

ReadRequest ==
    /\ spc = "read"
    /\ ReadReturns
    /\ buf' = BufferRead
    /\ spc' = "build"
    /\ UNCHANGED <<mpc, running, fds, queue, client, response, updates, clientVars>>

\* GetAll copies the table.  Mutant: the copy of an earlier answer is used.
GetAllOnce == IF response.table = 0 THEN updates ELSE response.table
GetAll == updates

Response(route, status, table) == [route |-> route, status |-> status, table |-> table]

healthz == {Response("healthz", 200, 0)}
api_events == {Response("events", 200, GetAll)}
prometheus_metrics == {Response("metrics", 200, GetAll)}

\* The file may be missing or empty, its name refused, and the pipeline may
\* print nothing: all these are a 400.
api_flamegraph == {Response("flamegraph", status, 0) : status \in {200, 400}}

BuildResponse ==
    /\ spc = "build"
    /\ response' \in CASE Route(buf) = "healthz" -> healthz
                       [] Route(buf) = "events" -> api_events
                       [] Route(buf) = "flamegraph" -> api_flamegraph
                       [] OTHER -> prometheus_metrics
    /\ spc' = "write"
    /\ UNCHANGED <<mpc, running, fds, queue, client, buf, updates, clientVars>>

\* close(client_fd).  Mutant: it is left open.
LeftOpen == fds
ClientClosed == fds \ {client}

WriteResponse ==
    /\ spc = "write"
    /\ answer' = [answer EXCEPT ![client] = response]
    /\ conn' = [conn EXCEPT ![client] = "answered"]
    /\ fds' = ClientClosed
    /\ client' = None
    /\ spc' = "test"
    /\ UNCHANGED <<mpc, running, queue, buf, response, updates, request, left, seenBy>>

WriteRaisesSigpipe ==
    /\ spc = "write"
    /\ client \in left
    /\ spc' = "killed"
    /\ mpc' = "done"
    /\ fds' = {}
    /\ UNCHANGED <<running, queue, client, buf, response, updates, clientVars>>

\* close(server_fd) resets the connections that were never accepted.
LoopEnds ==
    /\ spc = "test"
    /\ LoopDone
    /\ fds' = fds \ {Server}
    /\ conn' = [c \in Clients |-> IF conn[c] = "queued" THEN "reset" ELSE conn[c]]
    /\ queue' = <<>>
    /\ spc' = "ended"
    /\ UNCHANGED <<mpc, running, client, buf, response, updates, request, left, answer, seenBy>>

(***************************************************************************)
(* MetricsExporter::Stop, called by main.                                  *)
(***************************************************************************)
StopBegins ==
    /\ mpc = "serving"
    /\ mpc' = "joining"
    /\ running' = FALSE
    /\ UNCHANGED <<spc, fds, queue, client, buf, response, updates, clientVars>>

StopReturns ==
    /\ mpc = "joining"
    /\ spc = "ended"
    /\ mpc' = "done"
    /\ UNCHANGED <<running, spc, fds, queue, client, buf, response, updates, clientVars>>

(***************************************************************************)
(* The clients, and the handlers that update the table.                    *)
(***************************************************************************)
Connect(c) ==
    /\ conn[c] = "away"
    /\ Server \in fds
    /\ conn' = [conn EXCEPT ![c] = "queued"]
    /\ queue' = Append(queue, c)
    /\ seenBy' = [seenBy EXCEPT ![c] = updates]
    /\ UNCHANGED <<mpc, running, spc, fds, client, buf, response, updates, request, left, answer>>

Send(c, r) ==
    /\ conn[c] \in {"queued", "open"}
    /\ c \notin left
    /\ request[c] = None
    /\ request' = [request EXCEPT ![c] = r]
    /\ UNCHANGED <<mpc, running, spc, fds, queue, client, buf, response, updates, conn, left,
                   answer, seenBy>>

Leave(c) ==
    /\ conn[c] \in {"queued", "open"}
    /\ c \notin left
    /\ left' = left \cup {c}
    /\ UNCHANGED <<mpc, running, spc, fds, queue, client, buf, response, updates, conn, request,
                   answer, seenBy>>

UpdateTable ==
    /\ mpc # "done"
    /\ updates < MaxUpdates
    /\ updates' = updates + 1
    /\ UNCHANGED <<mpc, running, spc, fds, queue, client, buf, response, clientVars>>

ServeLoop ==
    \/ OpenSocket \/ OpenFails \/ LoopTest \/ NoConnection \/ Accept \/ ReadRequest
    \/ BuildResponse \/ WriteResponse \/ WriteRaisesSigpipe \/ LoopEnds

Next ==
    \/ ServeLoop
    \/ StopBegins
    \/ StopReturns
    \/ \E c \in Clients : Connect(c) \/ Leave(c) \/ \E r \in Requests : Send(c, r)
    \/ UpdateTable

Spec == Init /\ [][Next]_vars

\* The thread is scheduled, accept does not fail for ever, the pipeline behind a
\* flame graph ends and Stop's join returns.  Nothing is assumed of a client: it
\* may never send, and it may never take its answer, which then blocks the write
\* unless it leaves.
FairSpec ==
    /\ Spec
    /\ WF_vars(spc # "write" /\ ServeLoop)
    /\ WF_vars(client \in left /\ ServeLoop)
    /\ SF_vars(Accept)
    /\ WF_vars(StopReturns)

(***************************************************************************)
(* Properties.                                                             *)
(***************************************************************************)
Responses == [route : {"healthz", "events", "flamegraph", "metrics"}, status : {200, 400},
              table : 0..MaxUpdates]

\* Type correctness; and serve_loop holds no descriptor but the listening one
\* between two connections, and none at all when it has ended, on any path.
TypeOK ==
    /\ mpc \in {"serving", "joining", "done"}
    /\ running \in BOOLEAN
    /\ spc \in {"open", "test", "select", "read", "build", "write", "ended", "killed"}
    /\ fds = CASE spc \in {"open", "ended", "killed"} -> {}
               [] spc \in {"test", "select"} -> {Server}
               [] OTHER -> {Server, client}
    /\ queue \in Seq(Clients) /\ IsInjective(queue)
    /\ client \in Clients \cup {None}
    /\ buf \in Requests \cup {None}
    /\ response \in Responses \cup {NoResponse}
    /\ updates \in 0..MaxUpdates
    /\ conn \in [Clients -> {"away", "queued", "open", "answered", "reset"}]
    /\ request \in [Clients -> Requests \cup {None}]
    /\ left \subseteq Clients
    /\ answer \in [Clients -> Responses \cup {NoResponse}]

\* A client gets the answer to its own request, and one that closed without a
\* request the answer to an empty one: nothing of the connection served before
\* it shows, whatever the order in which clients connect, send and leave.
OwnAnswer ==
    \A c \in Clients :
        answer[c] # NoResponse => answer[c].route = Route(request[c])

\* A scrape is current: it shows every update of the table that was applied
\* before the client connected, however long the client had to wait.
ScrapeIsCurrent ==
    \A c \in Clients :
        answer[c] # NoResponse /\ answer[c].route \in {"events", "metrics"}
            => answer[c].table >= seenBy[c]

\* The sockets have no timeout: from some time on the thread waits for one client,
\* which neither closes nor sends, or neither closes nor takes its answer.
HeldUp ==
    <>[](/\ client # None
         /\ client \notin left
         /\ spc = "write" \/ (spc = "read" /\ request[client] = None))

\* One thread serves all: every client that has connected is answered, or
\* reset by Stop, unless a write kills the process or one client holds the
\* thread up for ever.
EveryClientServed ==
    \/ HeldUp
    \/ \A c \in Clients :
          conn[c] = "queued" ~> (conn[c] \in {"answered", "reset"} \/ spc = "killed")

\* Stop returns, also if clients come and go meanwhile or the thread could not
\* open its socket, unless the client being served holds the thread up for ever.
StopJoins == HeldUp \/ (mpc = "joining" ~> mpc = "done")
=============================================================================
