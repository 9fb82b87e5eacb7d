------------------------------ MODULE TcpFlow ------------------------------
(***************************************************************************)
(* The kprobes of tcp_flow.bpf.c and their maps.  A probe runs to its end  *)
(* on its CPU, but those of other CPUs run beside it: each helper call,    *)
(* and the load and the store of an addition, is a step.                   *)
(*                                                                         *)
(* An entry of flow_map is an element of a preallocated array.  A deleted  *)
(* element is free at once, while a probe may still hold the address.      *)
(*                                                                         *)
(* A key is the process that is current when the probe runs, and the       *)
(* connection's addresses, here its local port.  The port is 0 until       *)
(* connect has chosen one, after SYN_SENT, and again once the connection   *)
(* has ended, unless the program had bound the socket.                     *)
(*                                                                         *)
(* Sizes are 1.  Timestamps other than that of connect, and the field      *)
(* `state`, are data that no property reads; probes of IPv6 sockets        *)
(* return at once.                                                         *)
(***************************************************************************)
EXTENDS Integers, FiniteSets

CONSTANTS
    Cpus,
    Pids,
    Ports,
    NoPort,     \* local port 0
    Elements,   \* of flow_map: its max_entries
    Free,       \* the key of a free element
    MaxConns,   \* bound: connections in a behaviour
    MaxProbes   \* bound: sends and receives in a behaviour

ASSUME TcpFlowAssumption ==
    /\ IsFiniteSet(Cpus)
    /\ {MaxConns, MaxProbes} \subseteq Nat
    /\ NoPort \notin Ports
    /\ Free \notin Pids \X (Ports \cup {NoPort})

VARIABLES
    conn,          \* port -> the connection there
    conns,         \* connections so far
    probes,        \* sends and receives so far
    flow_map,      \* element -> key, bytes_sent, bytes_recv
    connect_start, \* pid -> number of the connection that stamped it, or 0
    cpu,           \* CPU -> the probe it runs
    \* History:
    due,           \* key -> sends and receives since its last tcp_done
    serial,        \* no two probes of one key have overlapped
    full,          \* an insertion has failed
    counted,       \* keys through whose entry a send has been added
    excused        \* keys whose entry may outlive the connection

envVars == <<conn, conns, probes>>
history == <<due, serial, full, counted, excused>>
vars == <<envVars, flow_map, connect_start, cpu, history>>

Keys == Pids \X (Ports \cup {NoPort})
Fields == {"bytes_sent", "bytes_recv"}
Empty == [f \in Fields |-> 0]
NULL == "NULL"
Idle == [op |-> "idle", at |-> "idle", key |-> Free, port |-> NoPort, val |-> NULL, reg |-> 0]

NoConnection == [st |-> "none", num |-> 0, bound |-> FALSE]

Init ==
    /\ conn = [t \in Ports |-> NoConnection]
    /\ conns = 0
    /\ probes = 0
    /\ flow_map = [s \in Elements |-> [key |-> Free, bytes |-> Empty]]
    /\ connect_start = [p \in Pids |-> 0]
    /\ cpu = [c \in Cpus |-> Idle]
    /\ due = [k \in Keys |-> Empty]
    /\ serial = TRUE
    /\ full = FALSE
    /\ counted = {}
    /\ excused = {}

Entries(k) == {s \in Elements : flow_map[s].key = k}
Active(k) == {c \in Cpus : cpu[c].key = k}
\* The probes of state changes run under the lock of the socket.
Locked(t) == \E c \in Cpus : cpu[c].op \in {"syn", "done"} /\ cpu[c].port = t

(***************************************************************************)
(* The kernel's TCP, as far as it runs the probes.                         *)
(***************************************************************************)
\* fill_flow_key, and the lookup that every probe begins with comes next.
fill_flow_key(p, t) ==
    <<p, IF conn[t].st \in {"syn", "open"} \/ conn[t].bound THEN t ELSE NoPort>>

Enters(c, op, k, t) ==
    /\ cpu[c] = Idle
    /\ cpu' = [cpu EXCEPT ![c] = [op |-> op, at |-> "lookup", key |-> k, port |-> t,
                                  val |-> NULL, reg |-> 0]]
    /\ serial' = (serial /\ Active(k) = {})

\* connect: tcp_set_state(SYN_SENT), with port 0 unless the socket is bound.
Connect(c, p, t, bound) ==
    /\ conns < MaxConns
    /\ conn[t].st \in {"none", "ended"}
    /\ conns' = conns + 1
    /\ conn' = [conn EXCEPT ![t] = [st |-> "syn", num |-> conns', bound |-> bound]]
    /\ Enters(c, "syn", <<p, IF bound THEN t ELSE NoPort>>, t)
    /\ UNCHANGED <<probes, flow_map, connect_start, due, full, counted, excused>>

\* The connection is established; also, without SYN_SENT, an accepted one.
Establish(t) ==
    /\ conn[t].st = "syn"
    /\ ~Locked(t)
    /\ conn' = [conn EXCEPT ![t].st = "open"]
    /\ UNCHANGED <<conns, probes, flow_map, connect_start, cpu, history>>

Accept(t) ==
    /\ conns < MaxConns
    /\ conn[t].st \in {"none", "ended"}
    /\ conns' = conns + 1
    /\ conn' = [conn EXCEPT ![t] = [st |-> "open", num |-> conns', bound |-> FALSE]]
    /\ UNCHANGED <<probes, flow_map, connect_start, cpu, history>>

\* tcp_sendmsg and tcp_cleanup_rbuf run in any process that has the socket.  A
\* send is probed before the kernel looks whether the connection has ended.
Transfer(c, p, t, f) ==
    LET k == fill_flow_key(p, t)
    IN  /\ probes < MaxProbes
        /\ conn[t].st \in IF f = "bytes_sent" THEN {"open", "ended"} ELSE {"open"}
        /\ probes' = probes + 1
        /\ Enters(c, f, k, t)
        /\ due' = [due EXCEPT ![k][f] = @ + 1]
        /\ excused' = IF conn[t].st = "ended" THEN excused \cup {k} ELSE excused
        /\ UNCHANGED <<conn, conns, flow_map, connect_start, full, counted>>

\* tcp_done, in whatever process the last segment or the timer interrupts.
Done(c, p, t) ==
    /\ conn[t].st \in {"syn", "open"}
    /\ ~Locked(t)
    /\ Enters(c, "done", fill_flow_key(p, t), t)
    /\ UNCHANGED <<envVars, flow_map, connect_start, due, full, counted, excused>>

\* The last close, with unread data: a reset is sent, and there is no tcp_done.
\* (A process inside send holds the socket, and this comes after.)
SilentClose(t) ==
    /\ conn[t].st = "open"
    /\ \A c \in Cpus : cpu[c].port # t
    /\ conn' = [conn EXCEPT ![t].st = "none"]
    /\ excused' = excused \cup (Pids \X {t})
    /\ UNCHANGED <<conns, probes, flow_map, connect_start, cpu, due, serial, full, counted>>

(***************************************************************************)
(* The probes.                                                             *)
(***************************************************************************)
At(c, op, at) == cpu[c].op \in op /\ cpu[c].at = at
Goes(c, at) == cpu' = [cpu EXCEPT ![c].at = at]
Uses(c, s) == cpu' = [cpu EXCEPT ![c] = [@ EXCEPT !.at = "use", !.val = s]]
Returns(c) == cpu' = [cpu EXCEPT ![c] = Idle]

\* A tcp_done that has been probed ends the connection.  Entries of other
\* processes stay, and that of a send which began before.
Ends(c) ==
    LET t == cpu[c].port
        k == cpu[c].key
        stays == (Pids \X {t}) \ (IF Active(k) = {c} THEN {k} ELSE {})
    IN  /\ conn' = [conn EXCEPT ![t].st = "ended"]
        /\ due' = [due EXCEPT ![k] = Empty]
        /\ excused' = (excused \ {k}) \cup stays
        /\ Returns(c)

\* bpf_map_lookup_elem finds the entry, and the probe holds its address.
Found(c) ==
    /\ \/ At(c, Fields \cup {"syn", "done"}, "lookup")
       \/ At(c, {"bytes_sent"}, "again")
    /\ \E s \in Entries(cpu[c].key) : Uses(c, s)
    /\ UNCHANGED <<envVars, flow_map, connect_start, history>>

\* It finds none: tcp_sendmsg inserts one, the others return.
NotFound(c) ==
    /\ At(c, Fields \cup {"syn", "done"}, "lookup")
    /\ Entries(cpu[c].key) = {}
    /\ CASE cpu[c].op = "bytes_sent" -> Goes(c, "insert") /\ UNCHANGED <<conn, due, excused>>
         [] cpu[c].op = "done" -> Ends(c)
         [] OTHER -> Returns(c) /\ UNCHANGED <<conn, due, excused>>
    /\ UNCHANGED <<conns, probes, flow_map, connect_start, serial, full, counted>>

\* bpf_map_update_elem with BPF_NOEXIST fills a free element.  Mutant: with
\* BPF_ANY it also overwrites the one that another CPU has inserted meanwhile.
AnyElement(k) == IF Entries(k) # {} THEN Entries(k) ELSE Entries(Free)
NewElement(k) == IF Entries(k) # {} THEN {} ELSE Entries(Free)

SendInserts(c) ==
    /\ At(c, {"bytes_sent"}, "insert")
    /\ IF NewElement(cpu[c].key) = {}
       THEN flow_map' = flow_map
       ELSE \E s \in NewElement(cpu[c].key) :
               flow_map' = [flow_map EXCEPT ![s] = [key |-> cpu[c].key, bytes |-> Empty]]
    /\ full' = (full \/ Entries(cpu[c].key) \cup Entries(Free) = {})
    /\ Goes(c, "again")
    /\ UNCHANGED <<envVars, connect_start, due, serial, counted, excused>>

\* Still none: the map is full, or tcp_done was faster.
SendGivesUp(c) ==
    /\ At(c, {"bytes_sent"}, "again")
    /\ Entries(cpu[c].key) = {}
    /\ Returns(c)
    /\ UNCHANGED <<envVars, flow_map, connect_start, history>>

\* val->bytes_sent += size is a load and a store.  Mutants: = size; size is
\* added twice.
Assigned(x) == 1
AddedTwice(x) == x + 2
Added(x) == x + 1

Loads(c) ==
    /\ At(c, Fields, "use")
    /\ cpu' = [cpu EXCEPT ![c] = [@ EXCEPT !.at = "store",
                                           !.reg = flow_map[cpu[c].val].bytes[cpu[c].op]]]
    /\ UNCHANGED <<envVars, flow_map, connect_start, history>>

Stores(c) ==
    /\ At(c, Fields, "store")
    /\ flow_map' = [flow_map EXCEPT ![cpu[c].val].bytes[cpu[c].op] = Added(cpu[c].reg)]
    /\ counted' = IF cpu[c].op = "bytes_sent" THEN counted \cup {flow_map[cpu[c].val].key}
                                              ELSE counted
    /\ Returns(c)
    /\ UNCHANGED <<envVars, connect_start, due, serial, full, excused>>

\* tcp_set_state(SYN_SENT) of a connection that has an entry.
Stamps(c) ==
    /\ At(c, {"syn"}, "use")
    /\ connect_start' = [connect_start EXCEPT ![cpu[c].key[1]] = conn[cpu[c].port].num]
    /\ Returns(c)
    /\ UNCHANGED <<envVars, flow_map, history>>

\* emit_flow has read the element and connect_start: what it reports is what
\* they hold now.
Emits(c) ==
    /\ At(c, {"done"}, "use")
    /\ Goes(c, "delete")
    /\ UNCHANGED <<envVars, flow_map, connect_start, history>>

\* bpf_map_delete_elem, by key.  Mutant: the entry is kept.
NotDeleted(k) == flow_map
Deleted(k) == [s \in Elements |->
    IF flow_map[s].key = k THEN [key |-> Free, bytes |-> Empty] ELSE flow_map[s]]

Deletes(c) ==
    /\ At(c, {"done"}, "delete")
    /\ flow_map' = Deleted(cpu[c].key)
    /\ counted' = counted \ {cpu[c].key}
    /\ Ends(c)
    /\ UNCHANGED <<conns, probes, connect_start, serial, full>>

Kernel ==
    \E t \in Ports :
       \/ Establish(t) \/ Accept(t) \/ SilentClose(t)
       \/ \E c \in Cpus, p \in Pids :
             \/ \E bound \in BOOLEAN : Connect(c, p, t, bound)
             \/ \E f \in Fields : Transfer(c, p, t, f)
             \/ Done(c, p, t)

Probe(c) ==
    \/ Found(c) \/ NotFound(c) \/ SendInserts(c) \/ SendGivesUp(c)
    \/ Loads(c) \/ Stores(c) \/ Stamps(c) \/ Emits(c) \/ Deletes(c)

Next == Kernel \/ \E c \in Cpus : Probe(c)

Spec == Init /\ [][Next]_vars

(***************************************************************************)
(* Properties.                                                             *)
(***************************************************************************)
\* Type correctness; a key has at most one entry, whichever CPUs insert.
TypeOK ==
    /\ conn \in [Ports -> [st : {"none", "syn", "open", "ended"}, num : 0..MaxConns,
                           bound : BOOLEAN]]
    /\ conns \in 0..MaxConns /\ probes \in 0..MaxProbes
    /\ \A s \in Elements : /\ flow_map[s].key \in Keys \cup {Free}
                           /\ flow_map[s].bytes \in [Fields -> 0..MaxProbes]
    /\ \A k \in Keys : Cardinality(Entries(k)) <= 1
    /\ connect_start \in [Pids -> 0..MaxConns]
    /\ \A c \in Cpus : cpu[c] # Idle => cpu[c].key \in Keys /\ cpu[c].port \in Ports
    /\ due \in [Keys -> [Fields -> 0..MaxProbes]]
    /\ {serial, full} \subseteq BOOLEAN
    /\ counted \cup excused \subseteq Keys \cup {Free}

\* While no two probes of one key overlap, a report has the bytes sent since the
\* key was last reported, if the map was never full, and never more than that;
\* entries that outlive their connection, and elements that are reused, included.
SerialReportsExact ==
    \A c \in Cpus : serial /\ At(c, {"done"}, "use") =>
        LET has == flow_map[cpu[c].val].bytes
            owed == due[cpu[c].key]
        IN  /\ has["bytes_sent"] \in 1..owed["bytes_sent"]
            /\ ~full => has["bytes_sent"] = owed["bytes_sent"]
            /\ has["bytes_recv"] <= owed["bytes_recv"]

\* Bytes of a key through whose entry a send has been added are never back at 0:
\* of several CPUs that find no entry, none undoes what another has added.
CountedIsKept ==
    \A s \in Elements : flow_map[s].key \in counted \ {Free} => flow_map[s].bytes["bytes_sent"] > 0

\* An entry outlives its connection only if that ended in another process's
\* context or without tcp_done, or a send was not over, or began, after it ended.
LeakNeedsForeignEnd ==
    \A s \in Elements :
        LET k == flow_map[s].key
        IN  k # Free /\ (k[2] = NoPort \/ conn[k[2]].st \in {"none", "ended"})
            => k \in excused

\* "Track connect latency: SYN_SENT -> ESTABLISHED": the latency in a report is
\* measured from the SYN_SENT of the connection reported.
LatencyFromOwnConnect ==
    \A c \in Cpus : At(c, {"done"}, "use") =>
        connect_start[cpu[c].key[1]] \in {0, conn[cpu[c].port].num}
=============================================================================
