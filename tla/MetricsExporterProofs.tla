----------------------- MODULE MetricsExporterProofs -----------------------
(***************************************************************************)
(* Proofs about MetricsExporter, for any number of clients and updates: a  *)
(* client gets the answer to its own request, and a scrape is current.     *)
(***************************************************************************)
EXTENDS MetricsExporter, SequenceLemmas

(***************************************************************************)
(* The inductive invariant.  What was read is still what the client has    *)
(* sent: a client that has closed sends nothing more, and none sends twice.*)
(* A client that was answered is out of the game, so neither its request   *)
(* nor the table it had seen changes under its answer.                     *)
(***************************************************************************)
ControlOK ==
    /\ mpc \in {"serving", "joining", "done"}
    /\ running \in BOOLEAN
    /\ spc \in {"open", "test", "select", "read", "build", "write", "ended", "killed"}

Serving == spc \in {"read", "build", "write"}

FdsOK ==
    /\ spc \in {"open", "ended", "killed"} => fds = {}
    /\ spc \in {"test", "select"} => fds = {Server}
    /\ Serving => fds = {Server, client}

DataOK ==
    /\ client \in Clients \cup {None}
    /\ buf \in Requests \cup {None}
    /\ response \in Responses \cup {NoResponse}
    /\ updates \in 0..MaxUpdates
    /\ request \in [Clients -> Requests \cup {None}]
    /\ left \subseteq Clients
    /\ answer \in [Clients -> Responses \cup {NoResponse}]

QueueOK ==
    /\ conn \in [Clients -> {"away", "queued", "open", "answered", "reset"}]
    /\ queue \in Seq(Clients) /\ IsInjective(queue)
    /\ \A c \in ToSet(queue) : conn[c] = "queued"
    /\ Serving => client \in Clients /\ conn[client] = "open"

SeenOK ==
    /\ seenBy \in [Clients -> Nat]
    /\ \A c \in Clients : seenBy[c] <= updates

ReadOK ==
    spc \in {"build", "write"} =>
        buf = request[client] /\ (buf # None \/ client \in left)

BuiltOK ==
    spc = "write" =>
        /\ response.route = Route(buf)
        /\ response.route \in {"events", "metrics"} => response.table >= seenBy[client]

AnsweredOK == \A c \in Clients : answer[c] # NoResponse => conn[c] = "answered"

TypeInv == ControlOK /\ FdsOK /\ DataOK /\ QueueOK /\ SeenOK
IndInv == TypeInv /\ ReadOK /\ BuiltOK /\ AnsweredOK /\ OwnAnswer /\ ScrapeIsCurrent

\* The invariant has the types that the model states.
LEMMA TypeFromInv == TypeInv => TypeOK
<1> SUFFICES ASSUME TypeInv PROVE TypeOK
  OBVIOUS
<1>1. ControlOK /\ FdsOK /\ DataOK /\ QueueOK
  BY DEF TypeInv
<1>2. fds = CASE spc \in {"open", "ended", "killed"} -> {}
              [] spc \in {"test", "select"} -> {Server}
              [] OTHER -> {Server, client}
  BY <1>1 DEF ControlOK, FdsOK, Serving
<1> QED BY <1>1, <1>2 DEF TypeOK, ControlOK, DataOK, QueueOK

\* At first no client has connected and the thread has no socket.
LEMMA InitInv == Init => IndInv
<1> SUFFICES ASSUME Init PROVE IndInv
  OBVIOUS
<1>1. ControlOK
  BY Zenon DEF Init, ControlOK
<1>2. FdsOK
  BY DEF Init, FdsOK, Serving
<1>3. DataOK
  BY ExporterAssumption DEF Init, DataOK
<1>4. QueueOK
  BY ToSetEmpty, EmptySeq DEF Init, QueueOK, Serving, IsInjective
<1>5. SeenOK
  BY DEF Init, SeenOK
<1>6. ReadOK /\ BuiltOK /\ AnsweredOK /\ OwnAnswer /\ ScrapeIsCurrent
  BY DEF Init, ReadOK, BuiltOK, AnsweredOK, OwnAnswer, ScrapeIsCurrent
<1> QED BY <1>1, <1>2, <1>3, <1>4, <1>5, <1>6 DEF IndInv, TypeInv

\* The program counters and flags.
LEMMA ControlStep == ASSUME TypeInv, [Next]_vars PROVE ControlOK'
<1>1. /\ mpc' \in {mpc, "joining", "done"} /\ running' \in {running, FALSE}
      /\ spc' \in {spc, "test", "select", "read", "build", "write", "ended", "killed"}
  BY DEF Next, ServeLoop, OpenSocket, OpenFails, LoopTest, NoConnection, Accept, ReadRequest,
         BuildResponse, WriteResponse, WriteRaisesSigpipe, LoopEnds, StopBegins, StopReturns,
         Connect, Leave, Send, UpdateTable, vars
<1> QED BY <1>1, Zenon DEF TypeInv, ControlOK

\* The descriptors, on every path through the loop.
LEMMA FdsStep == ASSUME TypeInv, [Next]_vars PROVE FdsOK'
<1>1. FdsOK /\ (Serving => client \in Clients)
  BY DEF TypeInv, QueueOK
<1>2. client \in Clients => client # Server
  BY ExporterAssumption
<1>3. CASE OpenSocket \/ OpenFails \/ LoopTest \/ NoConnection
  BY <1>1, <1>3 DEF OpenSocket, OpenFails, LoopTest, NoConnection, FdsOK, Serving
<1>4. CASE Accept \/ ReadRequest \/ BuildResponse
  BY <1>1, <1>4 DEF Accept, ReadRequest, BuildResponse, FdsOK, Serving
<1>5. CASE WriteResponse \/ WriteRaisesSigpipe \/ LoopEnds
  BY <1>1, <1>2, <1>5 DEF WriteResponse, ClientClosed, WriteRaisesSigpipe, LoopEnds, FdsOK, Serving
<1>6. ASSUME UNCHANGED <<spc, fds, client>> PROVE FdsOK'
  BY <1>1, <1>6 DEF FdsOK, Serving
<1>7. CASE \/ StopBegins \/ StopReturns \/ UpdateTable \/ UNCHANGED vars
           \/ \E c \in Clients : Connect(c) \/ Leave(c) \/ \E r \in Requests : Send(c, r)
  BY <1>6, <1>7 DEF StopBegins, StopReturns, UpdateTable, vars, Connect, Leave, Send
<1> QED BY <1>3, <1>4, <1>5, <1>7 DEF Next, ServeLoop

\* A request has a route, and GetAll is the table of now.
LEMMA BuildFacts ==
    ASSUME DataOK, BuildResponse
    PROVE  /\ response' \in Responses /\ response'.route = Route(buf)
           /\ response'.route \in {"events", "metrics"} => response'.table = updates
<1>1. updates \in 0..MaxUpdates /\ 0 \in 0..MaxUpdates
  BY ExporterAssumption DEF DataOK
<1>2. Route(buf) \in {"healthz", "events", "flamegraph", "metrics"}
  BY DEF Route
<1>3. \A s \in {200, 400} : \A t \in 0..MaxUpdates :
         \A o \in {"healthz", "events", "flamegraph", "metrics"} : Response(o, s, t) \in Responses
               /\ Response(o, s, t).route = o /\ Response(o, s, t).table = t
  BY DEF Response, Responses
<1>4. CASE Route(buf) = "healthz"
  BY <1>1, <1>3, <1>4 DEF BuildResponse, healthz
<1>5. CASE Route(buf) = "events"
  BY <1>1, <1>3, <1>5 DEF BuildResponse, api_events, GetAll
<1>6. CASE Route(buf) = "flamegraph"
  BY <1>1, <1>3, <1>6 DEF BuildResponse, api_flamegraph
<1>7. CASE Route(buf) = "metrics"
  BY <1>1, <1>3, <1>7 DEF BuildResponse, prometheus_metrics, GetAll
<1> QED BY <1>2, <1>4, <1>5, <1>6, <1>7

\* The data that passes through the loop.
LEMMA DataStep == ASSUME TypeInv, [Next]_vars PROVE DataOK'
<1>1. DataOK /\ QueueOK
  BY DEF TypeInv
<1>2. CASE Accept
  <2>1. client' \in Clients
    BY <1>1, <1>2, InjectiveTail DEF Accept, QueueOK
  <2> QED BY <1>1, <1>2, <2>1 DEF Accept, DataOK
<1>3. CASE ReadRequest
  <2>1. request[client] \in Requests \cup {None}
    BY <1>1, <1>3 DEF ReadRequest, DataOK, QueueOK, Serving
  <2> QED BY <1>1, <1>3, <2>1 DEF ReadRequest, BufferRead, DataOK, clientVars
<1>4. CASE BuildResponse
  BY <1>1, <1>4, BuildFacts DEF BuildResponse, DataOK, clientVars
<1>5. CASE WriteResponse
  BY <1>1, <1>5 DEF WriteResponse, DataOK
<1>6. CASE UpdateTable
  BY <1>1, <1>6, ExporterAssumption DEF UpdateTable, DataOK, clientVars
<1>7. ASSUME NEW c \in Clients, NEW r \in Requests, Send(c, r) PROVE DataOK'
  BY <1>1, <1>7 DEF Send, DataOK
<1>8. ASSUME NEW c \in Clients, Connect(c) \/ Leave(c) PROVE DataOK'
  BY <1>1, <1>8 DEF Connect, Leave, DataOK
<1>9. CASE \/ OpenSocket \/ OpenFails \/ LoopTest \/ NoConnection \/ WriteRaisesSigpipe
           \/ LoopEnds \/ StopBegins \/ StopReturns \/ UNCHANGED vars
  <2>1. UNCHANGED <<client, buf, response, updates, request, left, answer>>
    BY <1>9 DEF OpenSocket, OpenFails, LoopTest, NoConnection, WriteRaisesSigpipe, LoopEnds,
                StopBegins, StopReturns, vars, clientVars
  <2> QED BY <1>1, <2>1 DEF DataOK
<1> QED BY <1>2, <1>3, <1>4, <1>5, <1>6, <1>7, <1>8, <1>9 DEF Next, ServeLoop

\* Clients wait once each, and the one that is served has been taken out.
LEMMA QueueStep == ASSUME TypeInv, [Next]_vars PROVE QueueOK' /\ SeenOK'
<1>1. DataOK /\ QueueOK /\ SeenOK
  BY DEF TypeInv
<1>2. updates \in Nat
  BY <1>1, ExporterAssumption DEF DataOK
<1>3. CASE Accept
  <2>1. /\ Head(queue) \in ToSet(queue) /\ Head(queue) \in Clients /\ Tail(queue) \in Seq(Clients)
        /\ ToSet(Tail(queue)) = ToSet(queue) \ {Head(queue)} /\ IsInjective(Tail(queue))
    BY <1>1, <1>3, InjectiveTail DEF Accept, QueueOK
  <2>2. /\ client' = Head(queue) /\ queue' = Tail(queue) /\ conn' = [conn EXCEPT ![client'] = "open"]
        /\ UNCHANGED <<updates, seenBy>> /\ spc' = "read"
    BY <1>3 DEF Accept
  <2>3. ToSet(queue') \subseteq Clients
    BY <1>1, <2>1, <2>2, ToSetOfSeq
  <2>4. QueueOK'
    BY <1>1, <2>1, <2>2, <2>3 DEF QueueOK
  <2>5. SeenOK'
    BY <1>1, <2>2 DEF SeenOK
  <2> QED BY <2>4, <2>5
<1>4. CASE WriteResponse
  <2>1. /\ queue' = queue /\ UNCHANGED <<updates, seenBy>> /\ spc' = "test"
        /\ conn' = [conn EXCEPT ![client] = "answered"]
        /\ client \in Clients /\ conn[client] = "open"
    BY <1>1, <1>4 DEF WriteResponse, QueueOK, Serving
  <2>2. ToSet(queue) \subseteq Clients
    BY <1>1, ToSetOfSeq DEF QueueOK
  <2>3. QueueOK'
    BY <1>1, <2>1, <2>2 DEF QueueOK, Serving
  <2> QED BY <1>1, <2>1, <2>3 DEF SeenOK
<1>5. CASE LoopEnds
  <2>1. queue' = <<>> /\ spc' = "ended" /\ UNCHANGED <<updates, seenBy>>
    BY <1>5 DEF LoopEnds
  <2>2. conn' \in [Clients -> {"away", "queued", "open", "answered", "reset"}]
    BY <1>1, <1>5 DEF LoopEnds, QueueOK
  <2>3. QueueOK'
    BY <2>1, <2>2, ToSetEmpty, EmptySeq DEF QueueOK, Serving, IsInjective
  <2> QED BY <1>1, <2>1, <2>3 DEF SeenOK
<1>6. ASSUME NEW c \in Clients, Connect(c) PROVE QueueOK' /\ SeenOK'
  <2>1. /\ conn[c] = "away" /\ conn' = [conn EXCEPT ![c] = "queued"] /\ queue' = Append(queue, c)
        /\ seenBy' = [seenBy EXCEPT ![c] = updates] /\ UNCHANGED <<updates, spc, client>>
    BY <1>6 DEF Connect
  <2>2. /\ queue' \in Seq(Clients) /\ ToSet(queue') = ToSet(queue) \cup {c} /\ IsInjective(queue')
        /\ ToSet(queue) \subseteq Clients
    BY <1>1, <2>1, AppendProperties, ToSetAppend, InjectiveAppend, ToSetOfSeq DEF QueueOK
  <2>3. QueueOK'
    BY <1>1, <2>1, <2>2 DEF QueueOK, Serving
  <2>4. SeenOK'
    BY <1>1, <1>2, <2>1 DEF SeenOK
  <2> QED BY <2>3, <2>4
<1>7. CASE UpdateTable
  <2>1. updates' = updates + 1 /\ UNCHANGED <<conn, queue, client, spc, seenBy>>
    BY <1>7 DEF UpdateTable, clientVars
  <2>2. QueueOK'
    BY <1>1, <2>1 DEF QueueOK, Serving
  <2>3. SeenOK'
    BY <1>1, <1>2, <2>1 DEF SeenOK
  <2> QED BY <2>2, <2>3
<1>8. CASE \/ OpenSocket \/ OpenFails \/ LoopTest \/ NoConnection \/ ReadRequest \/ BuildResponse
           \/ WriteRaisesSigpipe \/ StopBegins \/ StopReturns \/ UNCHANGED vars
           \/ \E c \in Clients : Leave(c) \/ \E r \in Requests : Send(c, r)
  <2>1. UNCHANGED <<conn, queue, client, seenBy, updates>> /\ (Serving' => Serving)
    BY <1>8 DEF OpenSocket, OpenFails, LoopTest, NoConnection, ReadRequest, BuildResponse,
                WriteRaisesSigpipe, StopBegins, StopReturns, vars, clientVars, Leave, Send, Serving
  <2> QED BY <1>1, <2>1 DEF QueueOK, SeenOK
<1> QED BY <1>3, <1>4, <1>5, <1>6, <1>7, <1>8 DEF Next, ServeLoop

\* The buffer, the response and the answers belong to their client.
LEMMA AnswerStep ==
    ASSUME IndInv, [Next]_vars
    PROVE  /\ ReadOK' /\ BuiltOK' /\ AnsweredOK' /\ OwnAnswer' /\ ScrapeIsCurrent'
<1>1. /\ DataOK /\ QueueOK /\ SeenOK
      /\ ReadOK /\ BuiltOK /\ AnsweredOK /\ OwnAnswer /\ ScrapeIsCurrent
  BY DEF IndInv, TypeInv
<1>2. ASSUME UNCHANGED <<client, buf, response, request, left, conn, answer, seenBy>>,
             spc' \in {"build", "write"} => spc' = spc
      PROVE  /\ ReadOK' /\ BuiltOK' /\ AnsweredOK' /\ OwnAnswer' /\ ScrapeIsCurrent'
  BY <1>1, <1>2 DEF ReadOK, BuiltOK, AnsweredOK, OwnAnswer, ScrapeIsCurrent
<1>3. CASE \/ OpenSocket \/ OpenFails \/ LoopTest \/ NoConnection \/ WriteRaisesSigpipe
           \/ StopBegins \/ StopReturns \/ UpdateTable \/ UNCHANGED vars
  BY <1>2, <1>3 DEF OpenSocket, OpenFails, LoopTest, NoConnection, WriteRaisesSigpipe, StopBegins,
                    StopReturns, UpdateTable, vars, clientVars
<1>4. CASE Accept
  <2>1. /\ Head(queue) \in ToSet(queue) /\ Head(queue) \in Clients
    BY <1>1, <1>4, InjectiveTail DEF Accept, QueueOK
  <2>2. /\ conn' = [conn EXCEPT ![Head(queue)] = "open"] /\ conn[Head(queue)] = "queued"
        /\ UNCHANGED <<request, answer, seenBy>> /\ spc' = "read"
    BY <1>1, <1>4, <2>1 DEF Accept, QueueOK
  <2>3. AnsweredOK'
    BY <1>1, <2>1, <2>2 DEF AnsweredOK, QueueOK
  <2> QED BY <1>1, <2>2, <2>3 DEF ReadOK, BuiltOK, OwnAnswer, ScrapeIsCurrent
<1>5. CASE ReadRequest
  BY <1>1, <1>5 DEF ReadRequest, ReadReturns, BufferRead, clientVars, ReadOK, BuiltOK, AnsweredOK,
                    OwnAnswer, ScrapeIsCurrent
<1>6. CASE BuildResponse
  <2>1. /\ response'.route = Route(buf)
        /\ response'.route \in {"events", "metrics"} => response'.table = updates
    BY <1>1, <1>6, BuildFacts
  <2>2. /\ spc = "build" /\ spc' = "write" /\ client \in Clients
        /\ UNCHANGED <<client, buf, request, left, conn, answer, seenBy>>
    BY <1>1, <1>6 DEF BuildResponse, clientVars, QueueOK, Serving
  <2>3. seenBy[client] <= updates /\ seenBy[client] \in Nat /\ updates \in Int
    BY <1>1, <2>2 DEF SeenOK, DataOK
  <2>4. BuiltOK'
    BY <2>1, <2>2, <2>3 DEF BuiltOK
  <2> QED BY <1>1, <2>2, <2>4 DEF ReadOK, AnsweredOK, OwnAnswer, ScrapeIsCurrent
<1>7. CASE WriteResponse
  <2>1. /\ spc = "write" /\ spc' = "test" /\ client \in Clients
        /\ answer' = [answer EXCEPT ![client] = response]
        /\ conn' = [conn EXCEPT ![client] = "answered"] /\ UNCHANGED <<request, seenBy>>
    BY <1>1, <1>7 DEF WriteResponse, QueueOK, Serving
  <2>2. /\ response.route = Route(request[client])
        /\ response.route \in {"events", "metrics"} => response.table >= seenBy[client]
    BY <1>1, <2>1 DEF BuiltOK, ReadOK
  <2>3. /\ \A c \in Clients : c # client => answer'[c] = answer[c] /\ conn'[c] = conn[c]
        /\ answer'[client] = response /\ conn'[client] = "answered"
    BY <1>1, <2>1 DEF DataOK, QueueOK
  <2>4. AnsweredOK'
    BY <1>1, <2>3 DEF AnsweredOK
  <2>5. OwnAnswer' /\ ScrapeIsCurrent'
    BY <1>1, <2>1, <2>2, <2>3 DEF OwnAnswer, ScrapeIsCurrent
  <2> QED BY <2>1, <2>4, <2>5 DEF ReadOK, BuiltOK
<1>8. CASE LoopEnds
  <2>1. /\ spc' = "ended" /\ UNCHANGED <<request, answer, seenBy>>
        /\ \A c \in Clients : conn[c] = "answered" => conn'[c] = "answered"
    BY <1>8 DEF LoopEnds
  <2> QED BY <1>1, <2>1 DEF ReadOK, BuiltOK, AnsweredOK, OwnAnswer, ScrapeIsCurrent
<1>9. ASSUME NEW c \in Clients, Connect(c)
      PROVE  /\ ReadOK' /\ BuiltOK' /\ AnsweredOK' /\ OwnAnswer' /\ ScrapeIsCurrent'
  <2>1. /\ conn[c] = "away" /\ conn' = [conn EXCEPT ![c] = "queued"]
        /\ seenBy' = [seenBy EXCEPT ![c] = updates]
        /\ UNCHANGED <<spc, client, buf, response, request, left, answer>>
    BY <1>9 DEF Connect
  <2>2. answer[c] = NoResponse /\ (Serving => c # client)
    BY <1>1, <2>1 DEF AnsweredOK, QueueOK
  <2>3. \A d \in Clients : d # c => conn'[d] = conn[d] /\ seenBy'[d] = seenBy[d]
    BY <1>1, <2>1 DEF QueueOK, SeenOK
  <2>4. ReadOK' /\ OwnAnswer'
    BY <1>1, <2>1 DEF ReadOK, OwnAnswer
  <2>5. BuiltOK'
    BY <1>1, <2>1, <2>2, <2>3 DEF BuiltOK, QueueOK, Serving
  <2>6. AnsweredOK' /\ ScrapeIsCurrent'
    BY <1>1, <2>1, <2>2, <2>3 DEF AnsweredOK, ScrapeIsCurrent
  <2> QED BY <2>4, <2>5, <2>6
<1>10. ASSUME NEW c \in Clients, NEW r \in Requests, Send(c, r)
       PROVE  /\ ReadOK' /\ BuiltOK' /\ AnsweredOK' /\ OwnAnswer' /\ ScrapeIsCurrent'
  <2>1. /\ conn[c] \in {"queued", "open"} /\ c \notin left /\ request[c] = None
        /\ request' = [request EXCEPT ![c] = r]
        /\ UNCHANGED <<spc, client, buf, response, conn, left, answer, seenBy>>
    BY <1>10 DEF Send
  <2>2. answer[c] = NoResponse
    BY <1>1, <2>1 DEF AnsweredOK
  <2>3. \A d \in Clients : d # c => request'[d] = request[d]
    BY <1>1, <2>1 DEF DataOK
  <2>4. spc \in {"build", "write"} => client # c /\ client \in Clients
    BY <1>1, <2>1 DEF ReadOK, QueueOK, Serving
  <2>5. ReadOK'
    BY <1>1, <2>1, <2>3, <2>4 DEF ReadOK
  <2>6. OwnAnswer'
    BY <1>1, <2>1, <2>2, <2>3 DEF OwnAnswer
  <2> QED BY <1>1, <2>1, <2>5, <2>6 DEF BuiltOK, AnsweredOK, ScrapeIsCurrent
<1>11. ASSUME NEW c \in Clients, Leave(c)
       PROVE  /\ ReadOK' /\ BuiltOK' /\ AnsweredOK' /\ OwnAnswer' /\ ScrapeIsCurrent'
  BY <1>1, <1>11 DEF Leave, ReadOK, BuiltOK, AnsweredOK, OwnAnswer, ScrapeIsCurrent
<1> QED BY <1>3, <1>4, <1>5, <1>6, <1>7, <1>8, <1>9, <1>10, <1>11 DEF IndInv, Next, ServeLoop

\* IndInv is inductive, so it always holds.
LEMMA Invariance == Spec => []IndInv
<1>1. IndInv /\ [Next]_vars => IndInv'
  <2> SUFFICES ASSUME IndInv, [Next]_vars PROVE IndInv'
    OBVIOUS
  <2>1. TypeInv
    BY DEF IndInv
  <2>2. ControlOK' /\ FdsOK' /\ DataOK' /\ QueueOK' /\ SeenOK'
    BY <2>1, ControlStep, FdsStep, DataStep, QueueStep
  <2> QED BY <2>2, AnswerStep DEF IndInv, TypeInv
<1> QED BY <1>1, InitInv, PTL DEF Spec

\* Types, and on no path of serve_loop does a descriptor leak.
THEOREM TypeCorrect == Spec => []TypeOK
<1>1. IndInv => TypeOK
  BY TypeFromInv DEF IndInv
<1> QED BY <1>1, Invariance, PTL

\* Each client gets the answer to its own request, or to an empty one.
THEOREM OwnAnswers == Spec => []OwnAnswer
<1>1. IndInv => OwnAnswer
  BY DEF IndInv
<1> QED BY <1>1, Invariance, PTL

\* A scrape shows every update that was applied before the client connected.
THEOREM CurrentScrapes == Spec => []ScrapeIsCurrent
<1>1. IndInv => ScrapeIsCurrent
  BY DEF IndInv
<1> QED BY <1>1, Invariance, PTL
=============================================================================
