-------------------------- MODULE ObserveCollector --------------------------
(***************************************************************************)
(* The worker's Layer 2: the tracepoints of process_trace.bpf.c, the perf  *)
(* rings between kernel and worker, and ObserveCollector, which drains     *)
(* them on the push thread.  MonitorPusher composes it with the push loop; *)
(* TcpFlow has the inside of tcp_flow.bpf.c, of which only the output of a *)
(* record matters here.                                                    *)
(*                                                                         *)
(* A record is its number, in the order of output; origin says from which  *)
(* program and on which CPU.  Each program has one ring per CPU.  A record *)
(* that is put into a full ring, or is output before the worker has        *)
(* created the rings, is gone: the worker asks for no account of that.     *)
(***************************************************************************)
EXTENDS Integers, Sequences, SequencesExt, FiniteSets

CONSTANTS
    Cpus,
    Pids,       \* process ids that are traced
    RingSize,   \* records a ring holds
    MaxEvents   \* bound: records output in a behaviour

ASSUME ObserveAssumption == {RingSize, MaxEvents} \subseteq Nat

VARIABLES
    loaded,     \* stages of Init that have succeeded
    processes,  \* pids in the BPF map `processes`
    rings,      \* kind -> CPU -> records
    ready,      \* rings reported by epoll that are still to be read
    events,     \* process_events and flow_events
    \* History:
    origin,     \* record -> its program and CPU
    lost        \* records that will never be acknowledged

observeVars == <<loaded, processes, rings, ready, events, origin, lost>>

Kinds == {"process", "flow"}
Records == DOMAIN origin

ObserveInit ==
    /\ loaded = 0
    /\ processes = {}
    /\ rings = [k \in Kinds |-> [c \in Cpus |-> <<>>]]
    /\ ready = {}
    /\ events = [k \in Kinds |-> <<>>]
    /\ origin = <<>>
    /\ lost = {}

(***************************************************************************)
(* ObserveCollector::Init, in stages: attach process_trace, attach         *)
(* tcp_flow, create the rings of the one and those of the other.  A stage  *)
(* that fails ends it; what was attached stays attached.                   *)
(***************************************************************************)
Stages == 4
HasProgram(k) == loaded >= IF k = "process" THEN 1 ELSE 2
HasRings(k) == loaded >= IF k = "process" THEN 3 ELSE 4

InitStage ==
    /\ loaded < Stages
    /\ loaded' = loaded + 1
    /\ UNCHANGED <<processes, rings, ready, events, origin, lost>>

(***************************************************************************)
(* The programs.                                                           *)
(***************************************************************************)
\* bpf_perf_event_output on CPU c.
Output(k, c) ==
    LET e == Len(origin) + 1
    IN  /\ Len(origin) < MaxEvents
        /\ origin' = Append(origin, <<k, c>>)
        /\ IF HasRings(k) /\ Len(rings[k][c]) < RingSize
           THEN rings' = [rings EXCEPT ![k][c] = Append(@, e)] /\ lost' = lost
           ELSE lost' = lost \cup {e} /\ rings' = rings

OutputIfTraced(k, c) == IF HasProgram(k) THEN Output(k, c) ELSE UNCHANGED <<origin, rings, lost>>

\* A process calls exec.
trace_exec(p, c) ==
    /\ processes' = IF HasProgram("process") THEN processes \cup {p} ELSE processes
    /\ OutputIfTraced("process", c)
    /\ UNCHANGED <<loaded, ready, events>>

\* A thread exits: the tracepoint fires for each, and the entry that goes is that
\* of its process, which may live on, or may have been started before the worker.
trace_exit(p, c) ==
    /\ processes' = IF HasProgram("process") THEN processes \ {p} ELSE processes
    /\ OutputIfTraced("process", c)
    /\ UNCHANGED <<loaded, ready, events>>

\* tcp_done of a tracked flow: emit_flow.
FlowEnds(c) ==
    /\ HasProgram("flow")
    /\ Output("flow", c)
    /\ UNCHANGED <<loaded, processes, ready, events>>

Kernel ==
    \E c \in Cpus : FlowEnds(c) \/ \E p \in Pids : trace_exec(p, c) \/ trace_exit(p, c)

(***************************************************************************)
(* Collect polls the rings of one program, then those of the other; a ring *)
(* is read up to the records it holds when its turn comes.                 *)
(***************************************************************************)
\* epoll_wait without timeout reports the rings with records.
PollBegins(k) ==
    /\ ready = {}
    /\ ready' = IF HasRings(k) THEN {c \in Cpus : rings[k][c] # <<>>} ELSE {}
    /\ UNCHANGED <<loaded, processes, rings, events, origin, lost>>

\* It is interrupted or fails: logged, and left to the next Collect.
PollFails ==
    /\ ready = {}
    /\ UNCHANGED observeVars

\* The records in the order in which the ring hands them to the callback, which
\* is that of their output.  Mutant: the newest first.
RingReversed(k, c) == Reverse(rings[k][c])
RingContent(k, c) == rings[k][c]

\* on_process_event, on_flow_event for each record of the ring.
ReadRing(k, c) ==
    /\ c \in ready
    /\ ready' = ready \ {c}
    /\ events' = [events EXCEPT ![k] = @ \o RingContent(k, c)]
    /\ rings' = [rings EXCEPT ![k][c] = <<>>]
    /\ UNCHANGED <<loaded, processes, origin, lost>>

\* Reset.  Mutant: flow_events is not cleared.
OneListCleared == [events EXCEPT !["process"] = <<>>]
ListsCleared == [k \in Kinds |-> <<>>]

\* The destructors of the rings and the programs.
Unread == UNION {ToSet(rings[k][c]) : k \in Kinds, c \in Cpus}

Release ==
    /\ loaded' = 0
    /\ rings' = [k \in Kinds |-> [c \in Cpus |-> <<>>]]
    /\ lost' = lost \cup Unread
    /\ processes' = {}
    /\ UNCHANGED <<ready, events, origin>>

\* Records that the worker has got, or has yet to read.
Unsent == Unread \cup UNION {ToSet(events[k]) : k \in Kinds}

ObserveTypeOK ==
    /\ loaded \in 0..Stages
    /\ processes \subseteq Pids
    /\ rings \in [Kinds -> [Cpus -> Seq(Records)]]
    /\ \A k \in Kinds, c \in Cpus : Len(rings[k][c]) <= RingSize
    /\ ready \subseteq Cpus
    /\ events \in [Kinds -> Seq(Records)]
    /\ origin \in Seq(Kinds \X Cpus)
    /\ Len(origin) <= MaxEvents
    /\ lost \subseteq Records
=============================================================================
