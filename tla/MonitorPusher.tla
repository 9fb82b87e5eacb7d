--------------------------- MODULE MonitorPusher ---------------------------
(***************************************************************************)
(* The worker's main thread and push loop, composed with ObserveCollector, *)
(* and the one RPC between worker and manager: what happens to a record    *)
(* from its output in the kernel until the manager applies it.             *)
(*                                                                         *)
(* do_push collects, copies and resets on one thread while the kernel goes *)
(* on tracing.  (The lists of the diagnosers, copied after these, are      *)
(* treated in BpfDiagnoser and PerfDiagnoser.)                             *)
(* SetMonitorInfo is a blocking unary call without deadline and without    *)
(* retry.  Its client and its handler are separate: the client's call may  *)
(* fail while the handler still runs.  The manager may go down and come    *)
(* back; the gRPC channel, once connected, reconnects by itself.           *)
(***************************************************************************)
EXTENDS ObserveCollector

VARIABLES
    mpc,       \* main: "connect", "init", "run", "poll", "join", "done"
    signalled, \* ~g_running
    running,   \* running_
    stub,      \* impl_->stub is not null
    lpc,       \* push_loop: "off", "test", "collect", "process", "flow", "copy",
               \* "call", "wait", "sleep", "ended"
    request,   \* records of the request being pushed
    mgrUp,     \* the manager accepts calls
    handlers,  \* requests inside SetMonitorInfo handlers of the manager
    \* History:
    applied,   \* records applied by the manager, in order
    acked      \* records of calls that returned OK, in order

mainVars == <<mpc, signalled, running, stub>>
mgrVars == <<mgrUp, handlers>>
vars == <<observeVars, mainVars, lpc, request, mgrVars, applied, acked>>

Init ==
    /\ ObserveInit
    /\ mpc = "connect"
    /\ signalled = FALSE
    /\ running = FALSE
    /\ stub = FALSE
    /\ lpc = "off"
    /\ request = <<>>
    /\ mgrUp \in BOOLEAN
    /\ handlers = {}
    /\ applied = <<>>
    /\ acked = <<>>

(***************************************************************************)
(* main and Run.                                                           *)
(***************************************************************************)
\* Impl::connect: the stub exists only if the channel connects within 3 s.
Connect ==
    /\ mpc = "connect"
    /\ mgrUp
    /\ stub' = TRUE
    /\ mpc' = "init"
    /\ UNCHANGED <<observeVars, signalled, running, lpc, request, mgrVars, applied, acked>>

ConnectTimesOut ==
    /\ mpc = "connect"
    /\ mpc' = "init"
    /\ UNCHANGED <<observeVars, signalled, running, stub, lpc, request, mgrVars, applied, acked>>

ObserverLoads ==
    /\ mpc = "init"
    /\ InitStage
    /\ UNCHANGED <<mainVars, lpc, request, mgrVars, applied, acked>>

\* observer_.Init() returns, true or false: Run does not look.
ObserverReady ==
    /\ mpc = "init"
    /\ mpc' = "run"
    /\ UNCHANGED <<observeVars, signalled, running, stub, lpc, request, mgrVars, applied, acked>>

\* The rest of Run: the diagnosers are initialised, the loop thread starts.
RunReturns ==
    /\ mpc = "run"
    /\ mpc' = "poll"
    /\ running' = TRUE
    /\ lpc' = "test"
    /\ UNCHANGED <<observeVars, signalled, stub, request, mgrVars, applied, acked>>

Signal ==
    /\ ~signalled
    /\ mpc # "done"
    /\ signalled' = TRUE
    /\ UNCHANGED <<observeVars, mpc, running, stub, lpc, request, mgrVars, applied, acked>>

\* The main loop sees ~g_running and calls Stop, which joins the loop thread.
StopBegins ==
    /\ mpc = "poll"
    /\ signalled
    /\ mpc' = "join"
    /\ running' = FALSE
    /\ UNCHANGED <<observeVars, signalled, stub, lpc, request, mgrVars, applied, acked>>

\* Then main returns, and the destructors release rings and programs.
StopReturns ==
    /\ mpc = "join"
    /\ lpc = "ended"
    /\ mpc' = "done"
    /\ Release
    /\ UNCHANGED <<signalled, running, stub, lpc, request, mgrVars, applied, acked>>

Trace == Kernel /\ UNCHANGED <<mainVars, lpc, request, mgrVars, applied, acked>>

(***************************************************************************)
(* push_loop and do_push.                                                  *)
(***************************************************************************)
\* while (running_).  Mutant: the flag is not looked at.
LoopForEver == TRUE
LoopGoesOn == running

LoopTest ==
    /\ lpc = "test"
    /\ lpc' = IF LoopGoesOn THEN "collect" ELSE "ended"
    /\ UNCHANGED <<observeVars, mainVars, request, mgrVars, applied, acked>>

\* observer_.Collect(): the process rings first, then the flow rings.
CollectProcess ==
    /\ lpc = "collect"
    /\ PollBegins("process") \/ PollFails
    /\ lpc' = "process"
    /\ UNCHANGED <<mainVars, request, mgrVars, applied, acked>>

CollectFlow ==
    /\ lpc = "process"
    /\ PollBegins("flow") \/ PollFails
    /\ lpc' = "flow"
    /\ UNCHANGED <<mainVars, request, mgrVars, applied, acked>>

Read ==
    /\ lpc \in Kinds
    /\ \E c \in Cpus : ReadRing(lpc, c)
    /\ UNCHANGED <<mainVars, lpc, request, mgrVars, applied, acked>>

Collected ==
    /\ lpc = "flow"
    /\ ready = {}
    /\ lpc' = "copy"
    /\ UNCHANGED <<observeVars, mainVars, request, mgrVars, applied, acked>>

\* The records of the request.  Mutant: Reset comes before the copy.
CopiedAfterReset == <<>>
CopiedEvents == events["process"] \o events["flow"]

\* Copy the lists into the request and Reset them; then make the call, or
\* nothing without a stub.
CopyAndReset ==
    /\ lpc = "copy"
    /\ events' = ListsCleared
    /\ IF stub
       THEN /\ request' = CopiedEvents
            /\ lpc' = "call"
            /\ lost' = lost
       ELSE /\ request' = request
            /\ lpc' = "sleep"
            /\ lost' = lost \cup ToSet(CopiedEvents)
    /\ UNCHANGED <<loaded, processes, rings, ready, origin, mainVars, mgrVars,
                   applied, acked>>

\* The request reaches a handler of the manager.
Deliver ==
    /\ lpc = "call"
    /\ mgrUp
    /\ handlers' = handlers \cup {request}
    /\ lpc' = "wait"
    /\ UNCHANGED <<observeVars, mainVars, request, mgrUp, applied, acked>>

\* The request ends with do_push, whose local it is.  Mutant: it outlives it.
RequestKept == request
RequestDone == <<>>

\* The call returns OK once its handler has run.
HandlerReturned == request \notin handlers /\ ToSet(request) \subseteq ToSet(applied)

CallReturns ==
    /\ lpc = "wait"
    /\ HandlerReturned
    /\ acked' = acked \o request
    /\ request' = RequestDone
    /\ lpc' = "sleep"
    /\ UNCHANGED <<observeVars, mainVars, mgrVars, applied>>

\* Mutant: a failed call is made again.
CallIsRepeated ==
    /\ lpc \in {"call", "wait"}
    /\ lpc' = "call"
    /\ UNCHANGED <<observeVars, mainVars, request, mgrVars, applied, acked>>

\* The call fails: the manager is down, or the connection broke, before or
\* after the handler ran.  The failure is logged, the request is dropped.
CallFails ==
    /\ lpc \in {"call", "wait"}
    /\ lost' = lost \cup ToSet(request)
    /\ request' = RequestDone
    /\ lpc' = "sleep"
    /\ UNCHANGED <<loaded, processes, rings, ready, events, origin, mainVars, mgrVars,
                   applied, acked>>

Wake ==
    /\ lpc = "sleep"
    /\ lpc' = "test"
    /\ UNCHANGED <<observeVars, mainVars, request, mgrVars, applied, acked>>

(***************************************************************************)
(* The manager, as the worker sees it (HostManager has its inside).        *)
(***************************************************************************)
Apply(r) ==
    /\ r \in handlers
    /\ handlers' = handlers \ {r}
    /\ applied' = applied \o r
    /\ UNCHANGED <<observeVars, mainVars, lpc, request, mgrUp, acked>>

\* The process ends; its running handlers end with it.
ManagerStops ==
    /\ mgrUp
    /\ mgrUp' = FALSE
    /\ handlers' = {}
    /\ UNCHANGED <<observeVars, mainVars, lpc, request, applied, acked>>

ManagerStarts ==
    /\ ~mgrUp
    /\ mgrUp' = TRUE
    /\ UNCHANGED <<observeVars, mainVars, lpc, request, handlers, applied, acked>>

Main ==
    \/ Connect \/ ConnectTimesOut \/ ObserverLoads \/ ObserverReady \/ RunReturns
    \/ StopBegins \/ StopReturns
PushLoop ==
    \/ LoopTest \/ CollectProcess \/ CollectFlow \/ Read \/ Collected \/ CopyAndReset \/ Wake
Call == Deliver \/ CallReturns \/ CallFails
Manager == \E r \in handlers : Apply(r)

Next ==
    \/ Main
    \/ Signal
    \/ Trace
    \/ PushLoop
    \/ Call
    \/ Manager
    \/ ManagerStops
    \/ ManagerStarts

Spec == Init /\ [][Next]_vars

\* Both threads are scheduled, and a poll does not fail for ever.  Nothing is
\* assumed of the call, of the manager, of signals or of the kernel's events.
FairSpec ==
    /\ Spec
    /\ WF_vars(Main)
    /\ WF_vars(PushLoop)
    /\ SF_vars(lpc = "collect" /\ PollBegins("process") /\ CollectProcess)
    /\ SF_vars(lpc = "process" /\ PollBegins("flow") /\ CollectFlow)

(***************************************************************************)
(* Properties.                                                             *)
(***************************************************************************)
\* Type correctness; do_push holds a request only around its call.
TypeOK ==
    /\ ObserveTypeOK
    /\ mpc \in {"connect", "init", "run", "poll", "join", "done"}
    /\ {signalled, running, stub, mgrUp} \subseteq BOOLEAN
    /\ lpc \in Kinds \cup {"off", "test", "collect", "copy", "call", "wait", "sleep", "ended"}
    /\ {request, applied, acked} \subseteq Seq(Records)
    /\ request # <<>> => lpc \in {"call", "wait"}
    /\ handlers \subseteq Seq(Records)

\* The manager applies a record at most once: a failed call is not repeated,
\* even if it failed after its handler ran.
AppliedAtMostOnce == IsInjective(applied)

\* The manager applied the acknowledged records of a program and CPU in the
\* order of their output, even though rings are read one by one while they
\* fill, and the handler of an earlier, failed call may run in between.
Sorted(s) ==
    \A i, j \in DOMAIN s : i < j /\ origin[s[i]] = origin[s[j]] => s[i] < s[j]
AppliedInOrder(s) ==
    \A i, j \in DOMAIN s : i < j =>
        \E a, b \in DOMAIN applied : a < b /\ applied[a] = s[i] /\ applied[b] = s[j]
AckedInOrder ==
    /\ ToSet(acked) \subseteq ToSet(applied)
    /\ AppliedInOrder(acked)
    /\ Sorted(acked)

\* Every step of worker, kernel and manager is one that EventFeed allows: a
\* record waits in a ring, a list or the request, and leaves only by being
\* acknowledged or by a failure that loses it.
Waiting == Unsent \cup ToSet(request)
Feed == INSTANCE EventFeed WITH made <- Len(origin), waiting <- Waiting
ImplementsFeed == Feed!Spec

\* The call without deadline may hang; then nothing more is promised.
Hangs == <>[](lpc \in {"call", "wait"})

\* Each record's fate is decided: it is acknowledged, or lost in the kernel,
\* with a failed call or with the worker.
FateDecided ==
    Hangs \/ \A e \in 1..MaxEvents : e \in Records ~> e \in ToSet(acked) \cup lost

\* Ctrl+C stops the worker, whatever state the push loop and the manager are
\* in: nothing but a hanging call holds up Stop.
SignalEndsWorker == Hangs \/ (signalled ~> mpc = "done")

\* The message printed when the first connection fails: "retrying...".  A
\* worker that runs beside a reachable manager does not stay unconnected.
ConnectionIsRetried ==
    (mpc = "poll" /\ ~stub) ~> (stub \/ ~mgrUp \/ signalled)
=============================================================================
