--------------------------- MODULE TcpFlowProofs ---------------------------
(***************************************************************************)
(* Proofs about TcpFlow, for any number of CPUs, processes, ports and      *)
(* elements of the map: reports of probes that do not overlap are exact,   *)
(* what was added is not undone by an insertion, and an entry outlives its *)
(* connection only in the cases that the model names.                      *)
(***************************************************************************)
EXTENDS TcpFlow, FiniteSetTheorems, TLAPS

(***************************************************************************)
(* The inductive invariant: types.                                         *)
(***************************************************************************)
Ops == Fields \cup {"syn", "done"}
ProbeRecord ==
    [op : Ops, at : {"lookup", "insert", "again", "use", "store", "delete"}, key : Keys,
     port : Ports, val : Elements \cup {NULL}, reg : Nat]

CpuOK ==
    /\ cpu \in [Cpus -> ProbeRecord \cup {Idle}]
    /\ \A c \in Cpus :
          /\ cpu[c].at \in {"use", "store", "delete"} => cpu[c].val \in Elements
          /\ cpu[c].at \in {"insert", "again"} => cpu[c].op = "bytes_sent"
          /\ cpu[c].at = "store" => cpu[c].op \in Fields
          /\ cpu[c].at = "delete" => cpu[c].op = "done"

MapOK ==
    /\ flow_map \in [Elements -> [key : Keys \cup {Free}, bytes : [Fields -> Nat]]]
    /\ \A s, u \in Elements : flow_map[s].key = flow_map[u].key /\ flow_map[s].key # Free => s = u

EnvOK ==
    /\ conn \in [Ports -> [st : {"none", "syn", "open", "ended"}, num : 0..MaxConns,
                           bound : BOOLEAN]]
    /\ conns \in 0..MaxConns /\ probes \in 0..MaxProbes
    /\ connect_start \in [Pids -> 0..MaxConns]
    /\ due \in [Keys -> [Fields -> Nat]]
    /\ serial \in BOOLEAN /\ full \in BOOLEAN
    /\ counted \subseteq Keys \cup {Free} /\ excused \subseteq Keys

(***************************************************************************)
(* Each probe that is still to store adds one at most, to what any CPU has *)
(* stored or loaded: so no count exceeds the number of probes.             *)
(***************************************************************************)
Users(f) == {c \in Cpus : cpu[c].op = f}
Bounded ==
    /\ \A s \in Elements, f \in Fields : flow_map[s].bytes[f] + Cardinality(Users(f)) <= probes
    /\ \A c \in Cpus, f \in Fields : cpu[c].at = "store" /\ cpu[c].op = f =>
          cpu[c].reg + Cardinality(Users(f)) <= probes
    /\ \A k \in Keys, f \in Fields : due[k][f] <= probes

(***************************************************************************)
(* Probes of state changes hold the lock: while one runs, the connection   *)
(* does not change state under it.                                         *)
(***************************************************************************)
LockOK ==
    /\ \A c \in Cpus : cpu[c].op = "done" =>
          conn[cpu[c].port].st \in {"syn", "open"} /\ cpu[c].key[2] = cpu[c].port
    /\ \A c \in Cpus : cpu[c].op = "syn" => conn[cpu[c].port].st = "syn"
    /\ \A c, d \in Cpus :
          {cpu[c].op, cpu[d].op} \subseteq {"syn", "done"} /\ cpu[c].port = cpu[d].port => c = d

\* Not only an entry is excused, but also the send that may yet insert one.
Sends(c, k) == cpu[c].key = k /\ cpu[c].op = "bytes_sent"
Gone(k) == k[2] = NoPort \/ conn[k[2]].st \in {"none", "ended"}
LeakOK ==
    \A k \in Keys :
        Gone(k) /\ (Entries(k) # {} \/ \E c \in Cpus : Sends(c, k)) => k \in excused

\* A key that is counted has its entry, so none is inserted for it.
CountedOK == CountedIsKept /\ \A k \in counted \ {Free} : Entries(k) # {}

(***************************************************************************)
(* While probes of a key do not overlap: what a probe holds is the entry   *)
(* of its key, and the books balance.                                      *)
(***************************************************************************)
Pending(k, f) == IF \E c \in Cpus : cpu[c].key = k /\ cpu[c].op = f THEN 1 ELSE 0

Alone == \A c, d \in Cpus : cpu[c].key = cpu[d].key /\ cpu[c].key # Free => c = d
Holds(c) ==
    /\ cpu[c].at \in {"use", "store", "delete"} => flow_map[cpu[c].val].key = cpu[c].key
    /\ cpu[c].at = "store" => cpu[c].reg = flow_map[cpu[c].val].bytes[cpu[c].op]
    /\ cpu[c].at = "again" /\ ~full => Entries(cpu[c].key) # {}
HoldsOwn == \A c \in Cpus : Holds(c)
\* What is owed of a key that has no entry, and of one that has.
Owes(k) ==
    /\ \A f \in Fields : Pending(k, f) <= due[k][f]
    /\ Entries(k) = {} /\ ~full => due[k]["bytes_sent"] = Pending(k, "bytes_sent")
    /\ \A s \in Elements : flow_map[s].key = k =>
          /\ \A f \in Fields : flow_map[s].bytes[f] + Pending(k, f) <= due[k][f]
          /\ ~full => flow_map[s].bytes["bytes_sent"] + Pending(k, "bytes_sent")
                         = due[k]["bytes_sent"]
          /\ flow_map[s].bytes["bytes_sent"] = 0 => Pending(k, "bytes_sent") = 1
Accounts == \A k \in Keys : Owes(k)
SerialOK == serial => Alone /\ HoldsOwn /\ Accounts

TypeInv == CpuOK /\ MapOK /\ EnvOK
IndInv == TypeInv /\ Bounded /\ LockOK /\ LeakOK /\ CountedOK /\ SerialOK

(***************************************************************************)
(* What the steps do to the probes.                                        *)
(***************************************************************************)
\* A CPU is idle, or runs a probe of some key and port.
LEMMA CpuFacts ==
    ASSUME CpuOK, NEW c \in Cpus
    PROVE  /\ cpu[c].op = "idle" => cpu[c] = Idle
           /\ cpu[c] = Idle => /\ cpu[c].op = "idle" /\ cpu[c].at = "idle" /\ cpu[c].key = Free
                               /\ cpu[c].port = NoPort
           /\ cpu[c] # Idle => /\ cpu[c] \in ProbeRecord /\ cpu[c].key # Free
                               /\ cpu[c].op \in Ops /\ cpu[c].op # "idle"
                               /\ cpu[c].key \in Keys /\ cpu[c].port \in Ports
<1>1. cpu[c] \in ProbeRecord \cup {Idle}
  BY DEF CpuOK
<1>2. Free \notin Keys
  BY TcpFlowAssumption DEF Keys
<1>3. \A r \in ProbeRecord : r.op \in Ops /\ r.key \in Keys /\ r.port \in Ports
  BY DEF ProbeRecord
<1>4. \A o \in Ops : o # "idle"
  BY DEF Ops, Fields
<1>5. Idle.op = "idle" /\ Idle.at = "idle" /\ Idle.key = Free /\ Idle.port = NoPort
  BY DEF Idle
<1> QED BY <1>1, <1>2, <1>3, <1>4, <1>5

\* The first step of a probe.
LEMMA EntersFacts ==
    ASSUME CpuOK, NEW c \in Cpus, NEW o \in Ops, NEW k \in Keys, NEW t \in Ports,
           Enters(c, o, k, t)
    PROVE  /\ cpu[c] = Idle /\ CpuOK'
           /\ cpu'[c].op = o /\ cpu'[c].at = "lookup" /\ cpu'[c].key = k /\ cpu'[c].port = t
           /\ \A d \in Cpus : d # c => cpu'[d] = cpu[d]
<1> DEFINE r == [op |-> o, at |-> "lookup", key |-> k, port |-> t, val |-> NULL, reg |-> 0]
<1>1. cpu[c] = Idle /\ cpu' = [cpu EXCEPT ![c] = r]
  BY DEF Enters
<1>2. r \in ProbeRecord
  BY DEF ProbeRecord
<1>3. r.op = o /\ r.at = "lookup" /\ r.key = k /\ r.port = t
  OBVIOUS
<1> HIDE DEF r
<1>4. /\ cpu'[c] = r /\ \A d \in Cpus : d # c => cpu'[d] = cpu[d]
      /\ cpu' \in [Cpus -> ProbeRecord \cup {Idle}]
  BY <1>1, <1>2 DEF CpuOK
<1>5. CpuOK'
  BY <1>3, <1>4 DEF CpuOK
<1> QED BY <1>1, <1>3, <1>4, <1>5

\* Its return.
LEMMA ReturnsFacts ==
    ASSUME CpuOK, NEW c \in Cpus, Returns(c)
    PROVE  /\ CpuOK' /\ cpu'[c] = Idle
           /\ \A d \in Cpus : d # c => cpu'[d] = cpu[d]
<1>1. /\ cpu'[c] = Idle /\ \A d \in Cpus : d # c => cpu'[d] = cpu[d]
      /\ cpu' \in [Cpus -> ProbeRecord \cup {Idle}]
  BY DEF CpuOK, Returns
<1>2. Idle.at = "idle"
  BY DEF Idle
<1>3. CpuOK'
  BY <1>1, <1>2 DEF CpuOK
<1> QED BY <1>1, <1>3

\* A step within it: to the next call, with the address found or the value loaded.
LEMMA MovesFacts ==
    ASSUME CpuOK, NEW c \in Cpus, cpu[c] # Idle, NEW r \in ProbeRecord,
           cpu' = [cpu EXCEPT ![c] = r],
           r.op = cpu[c].op, r.key = cpu[c].key, r.port = cpu[c].port,
           r.at \in {"use", "store", "delete"} => r.val \in Elements,
           r.at \in {"insert", "again"} => cpu[c].op = "bytes_sent",
           r.at = "store" => cpu[c].op \in Fields,
           r.at = "delete" => cpu[c].op = "done"
    PROVE  /\ CpuOK' /\ cpu'[c] = r
           /\ \A d \in Cpus : d # c => cpu'[d] = cpu[d]
<1>1. /\ cpu'[c] = r /\ \A d \in Cpus : d # c => cpu'[d] = cpu[d]
      /\ cpu' \in [Cpus -> ProbeRecord \cup {Idle}]
  BY DEF CpuOK
<1>2. CpuOK'
  BY <1>1 DEF CpuOK
<1> QED BY <1>1, <1>2

(***************************************************************************)
(* The steps, one by one, in terms of the parts of the state that the      *)
(* invariant speaks of.                                                    *)
(***************************************************************************)
Others(c) == \A d \in Cpus : d # c => cpu'[d] = cpu[d]
SameProbe(c) ==
    /\ cpu[c] # Idle /\ cpu'[c].op = cpu[c].op
    /\ cpu'[c].key = cpu[c].key /\ cpu'[c].port = cpu[c].port

\* A probe at one of its calls is running.
LEMMA AtRuns ==
    ASSUME CpuOK, NEW c \in Cpus, cpu[c].at # "idle"
    PROVE  cpu[c] # Idle /\ cpu[c] \in ProbeRecord /\ cpu[c].key \in Keys /\ cpu[c].port \in Ports
BY CpuFacts

\* bpf_map_lookup_elem that finds the entry.
LEMMA FoundFacts ==
    ASSUME TypeInv, NEW c \in Cpus, Found(c)
    PROVE  /\ CpuOK' /\ SameProbe(c) /\ Others(c)
           /\ cpu'[c].at = "use" /\ cpu'[c].val \in Elements
           /\ flow_map[cpu'[c].val].key = cpu[c].key
           /\ UNCHANGED <<envVars, flow_map, connect_start, history>>
<1>1. CpuOK /\ cpu[c].at \in {"lookup", "again"} /\ UNCHANGED <<envVars, flow_map, connect_start, history>>
  BY DEF TypeInv, Found, At
<1>2. PICK s \in Entries(cpu[c].key) : Uses(c, s)
  BY DEF Found
<1>3. s \in Elements /\ flow_map[s].key = cpu[c].key
  BY DEF Entries
<1>4. cpu[c] # Idle
  BY <1>1, AtRuns
<1> DEFINE r == [cpu[c] EXCEPT !.at = "use", !.val = s]
<1>5. cpu[c] \in ProbeRecord
  BY <1>1, <1>4, CpuFacts
<1>6. /\ r \in ProbeRecord /\ r.op = cpu[c].op /\ r.key = cpu[c].key /\ r.port = cpu[c].port
      /\ r.at = "use" /\ r.val = s
  BY <1>3, <1>5 DEF ProbeRecord
<1>7. cpu' = [cpu EXCEPT ![c] = r]
  BY <1>2 DEF Uses
<1> HIDE DEF r
<1>8. CpuOK' /\ cpu'[c] = r /\ \A d \in Cpus : d # c => cpu'[d] = cpu[d]
  BY <1>1, <1>3, <1>4, <1>6, <1>7, MovesFacts
<1> QED BY <1>1, <1>3, <1>4, <1>6, <1>8 DEF SameProbe, Others

\* A step to the next call that changes nothing else of the probe.
LEMMA GoesFacts ==
    ASSUME CpuOK, NEW c \in Cpus, cpu[c] # Idle, NEW a \in {"insert", "again", "delete"},
           Goes(c, a),
           a \in {"insert", "again"} => cpu[c].op = "bytes_sent",
           a = "delete" => cpu[c].op = "done" /\ cpu[c].val \in Elements
    PROVE  /\ CpuOK' /\ SameProbe(c) /\ Others(c)
           /\ cpu'[c].at = a /\ cpu'[c].val = cpu[c].val
<1> DEFINE r == [cpu[c] EXCEPT !.at = a]
<1>1. cpu[c] \in ProbeRecord
  BY CpuFacts
<1>2. /\ r \in ProbeRecord /\ r.op = cpu[c].op /\ r.key = cpu[c].key /\ r.port = cpu[c].port
      /\ r.at = a /\ r.val = cpu[c].val
  BY <1>1 DEF ProbeRecord
<1>3. cpu' = [cpu EXCEPT ![c] = r]
  BY DEF Goes
<1> HIDE DEF r
<1>4. CpuOK' /\ cpu'[c] = r /\ \A d \in Cpus : d # c => cpu'[d] = cpu[d]
  BY <1>2, <1>3, MovesFacts
<1> QED BY <1>2, <1>4 DEF SameProbe, Others

\* emit_flow.
LEMMA EmitsFacts ==
    ASSUME TypeInv, NEW c \in Cpus, Emits(c)
    PROVE  /\ CpuOK' /\ SameProbe(c) /\ Others(c)
           /\ cpu[c].op = "done" /\ cpu[c].at = "use" /\ cpu'[c].at = "delete"
           /\ cpu'[c].val = cpu[c].val
           /\ UNCHANGED <<envVars, flow_map, connect_start, history>>
<1>1. /\ CpuOK /\ cpu[c].op = "done" /\ cpu[c].at = "use" /\ Goes(c, "delete")
      /\ UNCHANGED <<envVars, flow_map, connect_start, history>>
  BY DEF TypeInv, Emits, At
<1>2. cpu[c].val \in Elements /\ cpu[c] # Idle
  BY <1>1, AtRuns DEF CpuOK
<1> DEFINE a == "delete"
<1>3. a \in {"insert", "again", "delete"} /\ Goes(c, a) /\ a = "delete"
  BY <1>1
<1> HIDE DEF a
<1> QED BY <1>1, <1>2, <1>3, GoesFacts

\* The load of an addition.
LEMMA LoadsFacts ==
    ASSUME TypeInv, NEW c \in Cpus, Loads(c)
    PROVE  /\ CpuOK' /\ SameProbe(c) /\ Others(c)
           /\ cpu[c].op \in Fields /\ cpu[c].at = "use" /\ cpu'[c].at = "store"
           /\ cpu'[c].val = cpu[c].val /\ cpu[c].val \in Elements
           /\ cpu'[c].reg = flow_map[cpu[c].val].bytes[cpu[c].op]
           /\ UNCHANGED <<envVars, flow_map, connect_start, history>>
<1>1. /\ CpuOK /\ MapOK /\ cpu[c].op \in Fields /\ cpu[c].at = "use"
      /\ UNCHANGED <<envVars, flow_map, connect_start, history>>
  BY DEF TypeInv, Loads, At
<1>2. cpu[c].val \in Elements /\ cpu[c] # Idle
  BY <1>1, AtRuns DEF CpuOK
<1> DEFINE x == flow_map[cpu[c].val].bytes[cpu[c].op]
           r == [cpu[c] EXCEPT !.at = "store", !.reg = x]
<1>3. x \in Nat
  BY <1>1, <1>2 DEF MapOK
<1>4. cpu' = [cpu EXCEPT ![c] = r]
  BY DEF Loads
<1> HIDE DEF x
<1>5. cpu[c] \in ProbeRecord
  BY <1>1, <1>2, CpuFacts
<1>6. /\ r \in ProbeRecord /\ r.op = cpu[c].op /\ r.key = cpu[c].key /\ r.port = cpu[c].port
      /\ r.at = "store" /\ r.val = cpu[c].val /\ r.reg = x
  BY <1>3, <1>5 DEF ProbeRecord
<1> HIDE DEF r
<1>7. CpuOK' /\ cpu'[c] = r /\ \A d \in Cpus : d # c => cpu'[d] = cpu[d]
  BY <1>1, <1>2, <1>4, <1>6, MovesFacts
<1> QED BY <1>1, <1>2, <1>6, <1>7 DEF SameProbe, Others, x

\* A lookup that finds nothing: a send goes on, all others return.
LEMMA NotFoundFacts ==
    ASSUME TypeInv, NEW c \in Cpus, NotFound(c)
    PROVE  /\ CpuOK' /\ Others(c) /\ cpu[c] # Idle /\ Entries(cpu[c].key) = {}
           /\ cpu[c].at = "lookup"
           /\ UNCHANGED <<conns, probes, flow_map, connect_start, serial, full, counted>>
           /\ \/ /\ cpu[c].op = "bytes_sent" /\ SameProbe(c) /\ cpu'[c].at = "insert"
                 /\ UNCHANGED <<conn, due, excused>>
              \/ cpu[c].op = "done" /\ Ends(c) /\ cpu'[c] = Idle
              \/ /\ cpu[c].op \in {"syn", "bytes_recv"} /\ cpu'[c] = Idle
                 /\ UNCHANGED <<conn, due, excused>>
<1>1. /\ CpuOK /\ cpu[c].op \in Fields \cup {"syn", "done"} /\ cpu[c].at = "lookup"
      /\ Entries(cpu[c].key) = {}
      /\ UNCHANGED <<conns, probes, flow_map, connect_start, serial, full, counted>>
  BY DEF TypeInv, NotFound, At
<1>2. cpu[c] # Idle
  BY <1>1, AtRuns
<1>3. CASE cpu[c].op = "bytes_sent"
  <2> DEFINE a == "insert"
  <2>1. a \in {"insert", "again", "delete"} /\ Goes(c, a) /\ a = "insert"
        /\ UNCHANGED <<conn, due, excused>>
    BY <1>3 DEF NotFound
  <2> HIDE DEF a
  <2> QED BY <1>1, <1>2, <1>3, <2>1, GoesFacts
<1>4. CASE cpu[c].op = "done"
  <2>1. Ends(c) /\ Returns(c)
    BY <1>4 DEF NotFound, Ends
  <2> QED BY <1>1, <1>2, <1>4, <2>1, ReturnsFacts DEF Others
<1>5. CASE cpu[c].op \in {"syn", "bytes_recv"}
  <2>1. Returns(c) /\ UNCHANGED <<conn, due, excused>>
    BY <1>5 DEF NotFound
  <2> QED BY <1>1, <1>2, <1>5, <2>1, ReturnsFacts DEF Others
<1> QED BY <1>1, <1>3, <1>4, <1>5 DEF Fields

\* bpf_map_update_elem with BPF_NOEXIST.
LEMMA InsertsFacts ==
    ASSUME TypeInv, NEW c \in Cpus, SendInserts(c)
    PROVE  /\ CpuOK' /\ SameProbe(c) /\ Others(c)
           /\ cpu[c].op = "bytes_sent" /\ cpu[c].at = "insert" /\ cpu'[c].at = "again"
           /\ cpu[c].key \in Keys /\ cpu[c].key # Free
           /\ UNCHANGED <<envVars, connect_start, due, serial, counted, excused>>
           /\ full' = (full \/ Entries(cpu[c].key) \cup Entries(Free) = {})
           /\ \/ flow_map' = flow_map /\ (Entries(cpu[c].key) # {} \/ Entries(Free) = {})
              \/ /\ Entries(cpu[c].key) = {}
                 /\ \E s \in Elements :
                       /\ flow_map[s].key = Free
                       /\ flow_map'[s] = [key |-> cpu[c].key, bytes |-> Empty]
                       /\ \A u \in Elements : u # s => flow_map'[u] = flow_map[u]
                       /\ flow_map' = [flow_map EXCEPT ![s] = [key |-> cpu[c].key, bytes |-> Empty]]
<1>1. /\ CpuOK /\ MapOK /\ cpu[c].op = "bytes_sent" /\ cpu[c].at = "insert"
      /\ full' = (full \/ Entries(cpu[c].key) \cup Entries(Free) = {})
      /\ UNCHANGED <<envVars, connect_start, due, serial, counted, excused>>
  BY DEF TypeInv, SendInserts, At
<1>2. cpu[c] # Idle /\ cpu[c].key \in Keys /\ cpu[c].key # Free
  BY <1>1, CpuFacts
<1> DEFINE a == "again"
<1>3. a \in {"insert", "again", "delete"} /\ Goes(c, a) /\ a = "again"
  BY DEF SendInserts
<1> HIDE DEF a
<1>4. CpuOK' /\ SameProbe(c) /\ Others(c) /\ cpu'[c].at = "again"
  BY <1>1, <1>2, <1>3, GoesFacts
<1>5. CASE NewElement(cpu[c].key) = {}
  BY <1>1, <1>2, <1>4, <1>5 DEF SendInserts, NewElement
<1>6. CASE NewElement(cpu[c].key) # {}
  <2>1. PICK s \in NewElement(cpu[c].key) :
           flow_map' = [flow_map EXCEPT ![s] = [key |-> cpu[c].key, bytes |-> Empty]]
    BY <1>6 DEF SendInserts
  <2>2. s \in Elements /\ flow_map[s].key = Free /\ Entries(cpu[c].key) = {}
    BY DEF NewElement, Entries
  <2>3. /\ flow_map'[s] = [key |-> cpu[c].key, bytes |-> Empty]
        /\ \A u \in Elements : u # s => flow_map'[u] = flow_map[u]
    BY <1>1, <2>1, <2>2 DEF MapOK
  <2> QED BY <1>1, <1>2, <1>4, <2>1, <2>2, <2>3
<1> QED BY <1>5, <1>6

\* The store of an addition: no key changes, and one count of one element.
LEMMA StoresFacts ==
    ASSUME TypeInv, NEW c \in Cpus, Stores(c)
    PROVE  /\ CpuOK' /\ Others(c) /\ cpu[c] # Idle /\ cpu'[c] = Idle
           /\ cpu[c].op \in Fields /\ cpu[c].at = "store" /\ cpu[c].val \in Elements
           /\ cpu[c].reg \in Nat
           /\ UNCHANGED <<envVars, connect_start, due, serial, full, excused>>
           /\ counted' = IF cpu[c].op = "bytes_sent" THEN counted \cup {flow_map[cpu[c].val].key}
                                                     ELSE counted
           /\ flow_map' \in [Elements -> [key : Keys \cup {Free}, bytes : [Fields -> Nat]]]
           /\ \A s \in Elements : flow_map'[s].key = flow_map[s].key
           /\ \A s \in Elements : s # cpu[c].val => flow_map'[s] = flow_map[s]
           /\ \A s \in Elements, f \in Fields :
                 flow_map'[s].bytes[f] = IF s = cpu[c].val /\ f = cpu[c].op
                                         THEN cpu[c].reg + 1 ELSE flow_map[s].bytes[f]
<1>1. /\ CpuOK /\ MapOK /\ cpu[c].op \in Fields /\ cpu[c].at = "store" /\ Returns(c)
      /\ UNCHANGED <<envVars, connect_start, due, serial, full, excused>>
      /\ counted' = IF cpu[c].op = "bytes_sent" THEN counted \cup {flow_map[cpu[c].val].key}
                                                ELSE counted
  BY DEF TypeInv, Stores, At
<1>2. cpu[c] # Idle /\ cpu[c].val \in Elements /\ cpu[c] \in ProbeRecord
  BY <1>1, AtRuns DEF CpuOK
<1>3. cpu[c].reg \in Nat
  BY <1>2 DEF ProbeRecord
<1> DEFINE v == cpu[c].val
           f == cpu[c].op
           x == cpu[c].reg + 1
           e == [flow_map[v] EXCEPT !.bytes = [flow_map[v].bytes EXCEPT ![f] = x]]
<1>4. flow_map' = [flow_map EXCEPT ![v] = e]
  BY DEF Stores, Added
<1>5. flow_map[v] \in [key : Keys \cup {Free}, bytes : [Fields -> Nat]] /\ x \in Nat
  BY <1>1, <1>2, <1>3 DEF MapOK
<1>6. /\ e \in [key : Keys \cup {Free}, bytes : [Fields -> Nat]] /\ e.key = flow_map[v].key
      /\ \A g \in Fields : e.bytes[g] = IF g = f THEN x ELSE flow_map[v].bytes[g]
  BY <1>1, <1>5
<1> HIDE DEF e, x
<1>7. /\ flow_map' \in [Elements -> [key : Keys \cup {Free}, bytes : [Fields -> Nat]]]
      /\ flow_map'[v] = e /\ \A s \in Elements : s # v => flow_map'[s] = flow_map[s]
  BY <1>1, <1>2, <1>4, <1>6 DEF MapOK
<1>8. /\ \A s \in Elements : flow_map'[s].key = flow_map[s].key
      /\ \A s \in Elements, g \in Fields :
            flow_map'[s].bytes[g] = IF s = v /\ g = f THEN x ELSE flow_map[s].bytes[g]
  BY <1>6, <1>7
<1> QED BY <1>1, <1>2, <1>3, <1>7, <1>8, ReturnsFacts DEF Others, x

\* bpf_map_delete_elem, and the end of the connection.
LEMMA DeletesFacts ==
    ASSUME TypeInv, NEW c \in Cpus, Deletes(c)
    PROVE  /\ CpuOK' /\ Others(c) /\ cpu[c] # Idle /\ cpu'[c] = Idle
           /\ cpu[c].op = "done" /\ cpu[c].at = "delete" /\ cpu[c].key \in Keys /\ cpu[c].key # Free
           /\ Ends(c) /\ UNCHANGED <<conns, probes, connect_start, serial, full>>
           /\ counted' = counted \ {cpu[c].key}
           /\ flow_map' = Deleted(cpu[c].key)
           /\ \A s \in Elements : flow_map'[s] = IF flow_map[s].key = cpu[c].key
                                                 THEN [key |-> Free, bytes |-> Empty]
                                                 ELSE flow_map[s]
<1>1. /\ CpuOK /\ cpu[c].op = "done" /\ cpu[c].at = "delete" /\ Ends(c) /\ Returns(c)
      /\ UNCHANGED <<conns, probes, connect_start, serial, full>>
      /\ counted' = counted \ {cpu[c].key} /\ flow_map' = Deleted(cpu[c].key)
  BY DEF TypeInv, Deletes, Ends, At
<1>2. cpu[c] # Idle /\ cpu[c].key \in Keys /\ cpu[c].key # Free
  BY <1>1, CpuFacts
<1> QED BY <1>1, <1>2, ReturnsFacts DEF Others, Deleted

\* Probes that return and change nothing that is counted.
LEMMA QuietReturns ==
    ASSUME TypeInv, NEW c \in Cpus, SendGivesUp(c) \/ Stamps(c)
    PROVE  /\ CpuOK' /\ Others(c) /\ cpu[c] # Idle /\ cpu'[c] = Idle
           /\ UNCHANGED <<envVars, flow_map, history>>
           /\ \/ /\ cpu[c].op = "bytes_sent" /\ cpu[c].at = "again" /\ Entries(cpu[c].key) = {}
                 /\ UNCHANGED connect_start
              \/ /\ cpu[c].op = "syn"
                 /\ connect_start' = [connect_start EXCEPT ![cpu[c].key[1]] = conn[cpu[c].port].num]
<1>1. CpuOK /\ Returns(c) /\ cpu[c].at \in {"again", "use"}
  BY DEF TypeInv, SendGivesUp, Stamps, At
<1>2. cpu[c] # Idle
  BY <1>1, AtRuns
<1> QED BY <1>1, <1>2, ReturnsFacts DEF SendGivesUp, Stamps, At, Others

\* The kernel's steps that begin a probe.
LEMMA KernelEnters ==
    ASSUME TypeInv, NEW c \in Cpus, NEW p \in Pids, NEW t \in Ports,
           \/ \E bound \in BOOLEAN : Connect(c, p, t, bound)
           \/ \E f \in Fields : Transfer(c, p, t, f)
           \/ Done(c, p, t)
    PROVE  /\ CpuOK' /\ Others(c) /\ cpu[c] = Idle
           /\ cpu'[c].at = "lookup" /\ cpu'[c].port = t /\ cpu'[c].key \in Keys
           /\ cpu'[c].op \in Ops
           /\ serial' = (serial /\ Active(cpu'[c].key) = {})
           /\ UNCHANGED <<flow_map, connect_start, full, counted>>
           /\ \/ /\ cpu'[c].op = "syn" /\ conns < MaxConns /\ conn[t].st \in {"none", "ended"}
                 /\ conns' = conns + 1 /\ UNCHANGED <<probes, due, excused>>
                 /\ conn'[t].st = "syn" /\ \A u \in Ports : u # t => conn'[u] = conn[u]
                 /\ \E b \in BOOLEAN :
                       conn' = [conn EXCEPT ![t] = [st |-> "syn", num |-> conns', bound |-> b]]
              \/ /\ cpu'[c].op \in Fields /\ probes < MaxProbes /\ probes' = probes + 1
                 /\ UNCHANGED <<conn, conns>>
                 /\ due' = [due EXCEPT ![cpu'[c].key][cpu'[c].op] = @ + 1]
                 /\ \/ /\ conn[t].st = "open" /\ excused' = excused /\ cpu'[c].key = <<p, t>>
                    \/ conn[t].st = "ended" /\ excused' = excused \cup {cpu'[c].key}
              \/ /\ cpu'[c].op = "done" /\ conn[t].st \in {"syn", "open"} /\ ~Locked(t)
                 /\ cpu'[c].key = <<p, t>> /\ UNCHANGED <<envVars, due, excused>>
<1>1. CpuOK
  BY DEF TypeInv
<1>2. <<p, t>> \in Keys /\ <<p, NoPort>> \in Keys
  BY DEF Keys
<1>3. ASSUME NEW b \in BOOLEAN, Connect(c, p, t, b)
      PROVE  /\ CpuOK' /\ Others(c) /\ cpu[c] = Idle
             /\ cpu'[c].at = "lookup" /\ cpu'[c].port = t /\ cpu'[c].key \in Keys
             /\ serial' = (serial /\ Active(cpu'[c].key) = {})
             /\ UNCHANGED <<flow_map, connect_start, full, counted>>
             /\ cpu'[c].op = "syn" /\ conns < MaxConns /\ conn[t].st \in {"none", "ended"}
             /\ conns' = conns + 1 /\ UNCHANGED <<probes, due, excused>>
             /\ conn' = [conn EXCEPT ![t] = [st |-> "syn", num |-> conns', bound |-> b]]
             /\ conn'[t].st = "syn" /\ \A u \in Ports : u # t => conn'[u] = conn[u]
  <2> DEFINE k == <<p, IF b THEN t ELSE NoPort>>
             o == "syn"
  <2>1. k \in Keys /\ o \in Ops /\ o = "syn"
    BY <1>2 DEF Ops
  <2>2. Enters(c, o, k, t) /\ serial' = (serial /\ Active(k) = {})
    BY <1>3 DEF Connect, Enters
  <2> HIDE DEF k, o
  <2>3. /\ cpu[c] = Idle /\ CpuOK' /\ cpu'[c].op = o /\ cpu'[c].at = "lookup" /\ cpu'[c].key = k
        /\ cpu'[c].port = t /\ Others(c)
    BY <1>1, <2>1, <2>2, EntersFacts DEF Others
  <2>4. /\ conns < MaxConns /\ conn[t].st \in {"none", "ended"} /\ conns' = conns + 1
        /\ UNCHANGED <<flow_map, connect_start, full, counted, probes, due, excused>>
        /\ conn' = [conn EXCEPT ![t] = [st |-> "syn", num |-> conns', bound |-> b]]
    BY <1>3 DEF Connect
  <2>5. conn'[t].st = "syn" /\ \A u \in Ports : u # t => conn'[u] = conn[u]
    BY <2>4 DEF TypeInv, EnvOK
  <2> QED BY <2>1, <2>2, <2>3, <2>4, <2>5
<1>4. ASSUME NEW f \in Fields, Transfer(c, p, t, f)
      PROVE  /\ CpuOK' /\ Others(c) /\ cpu[c] = Idle
             /\ cpu'[c].at = "lookup" /\ cpu'[c].port = t /\ cpu'[c].key \in Keys
             /\ serial' = (serial /\ Active(cpu'[c].key) = {})
             /\ UNCHANGED <<flow_map, connect_start, full, counted>>
             /\ cpu'[c].op \in Fields /\ probes < MaxProbes /\ probes' = probes + 1
             /\ UNCHANGED <<conn, conns>>
             /\ due' = [due EXCEPT ![cpu'[c].key][cpu'[c].op] = @ + 1]
             /\ \/ /\ conn[t].st = "open" /\ excused' = excused /\ cpu'[c].key = <<p, t>>
                \/ conn[t].st = "ended" /\ excused' = excused \cup {cpu'[c].key}
  <2> DEFINE k == fill_flow_key(p, t)
  <2>1. k \in Keys /\ f \in Ops /\ (conn[t].st = "open" => k = <<p, t>>)
    BY <1>2 DEF Ops, fill_flow_key
  <2>2. Enters(c, f, k, t) /\ serial' = (serial /\ Active(k) = {})
    BY <1>4 DEF Transfer, Enters
  <2>3. /\ probes < MaxProbes /\ probes' = probes + 1
        /\ conn[t].st \in {"open", "ended"}
        /\ due' = [due EXCEPT ![k][f] = @ + 1]
        /\ excused' = IF conn[t].st = "ended" THEN excused \cup {k} ELSE excused
        /\ UNCHANGED <<conn, conns, flow_map, connect_start, full, counted>>
    BY <1>4 DEF Transfer
  <2> HIDE DEF k
  <2>4. /\ cpu[c] = Idle /\ CpuOK' /\ cpu'[c].op = f /\ cpu'[c].at = "lookup" /\ cpu'[c].key = k
        /\ cpu'[c].port = t /\ Others(c)
    BY <1>1, <2>1, <2>2, EntersFacts DEF Others
  <2> QED BY <2>1, <2>2, <2>3, <2>4
<1>5. ASSUME Done(c, p, t)
      PROVE  /\ CpuOK' /\ Others(c) /\ cpu[c] = Idle
             /\ cpu'[c].at = "lookup" /\ cpu'[c].port = t /\ cpu'[c].key \in Keys
             /\ serial' = (serial /\ Active(cpu'[c].key) = {})
             /\ UNCHANGED <<flow_map, connect_start, full, counted>>
             /\ cpu'[c].op = "done" /\ conn[t].st \in {"syn", "open"} /\ ~Locked(t)
             /\ cpu'[c].key = <<p, t>> /\ UNCHANGED <<envVars, due, excused>>
  <2> DEFINE k == fill_flow_key(p, t)
             o == "done"
  <2>1. /\ conn[t].st \in {"syn", "open"} /\ ~Locked(t) /\ k = <<p, t>>
        /\ UNCHANGED <<flow_map, connect_start, full, counted, envVars, due, excused>>
    BY <1>5 DEF Done, fill_flow_key
  <2>2. Enters(c, o, k, t) /\ serial' = (serial /\ Active(k) = {}) /\ o \in Ops /\ o = "done"
    BY <1>5 DEF Done, Enters, Ops
  <2>3. k \in Keys
    BY <1>2, <2>1
  <2> HIDE DEF k, o
  <2>4. /\ cpu[c] = Idle /\ CpuOK' /\ cpu'[c].op = o /\ cpu'[c].at = "lookup" /\ cpu'[c].key = k
        /\ cpu'[c].port = t /\ Others(c)
    BY <1>1, <2>2, <2>3, EntersFacts DEF Others
  <2> QED BY <2>1, <2>2, <2>3, <2>4
<1>6. "syn" \in Ops /\ "done" \in Ops /\ \A f \in Fields : f \in Ops
  BY DEF Ops
<1>7. CASE \E bound \in BOOLEAN : Connect(c, p, t, bound)
  BY <1>3, <1>6, <1>7
<1>8. CASE \E f \in Fields : Transfer(c, p, t, f)
  BY <1>4, <1>6, <1>8
<1>9. CASE Done(c, p, t)
  BY <1>5, <1>6, <1>9
<1> QED BY <1>7, <1>8, <1>9

\* The kernel's steps without a probe: only a connection's state changes.
LEMMA KernelQuiet ==
    ASSUME TypeInv, NEW t \in Ports, Establish(t) \/ Accept(t) \/ SilentClose(t)
    PROVE  /\ UNCHANGED <<probes, flow_map, connect_start, cpu, due, serial, full, counted>>
           /\ \A u \in Ports : u # t => conn'[u] = conn[u]
           /\ \/ conn[t].st = "syn" /\ ~Locked(t) /\ conn'[t].st = "open" /\ excused' = excused
              \/ conn[t].st \in {"none", "ended"} /\ conn'[t].st = "open" /\ excused' = excused
              \/ /\ conn'[t].st = "none" /\ excused' = excused \cup (Pids \X {t})
                 /\ \A c \in Cpus : cpu[c].port # t
           /\ conns' \in 0..MaxConns
           /\ conn' \in [Ports -> [st : {"none", "syn", "open", "ended"}, num : 0..MaxConns,
                                   bound : BOOLEAN]]
<1>1. /\ conn \in [Ports -> [st : {"none", "syn", "open", "ended"}, num : 0..MaxConns,
                             bound : BOOLEAN]]
      /\ conns \in 0..MaxConns /\ MaxConns \in Nat
  BY TcpFlowAssumption DEF TypeInv, EnvOK
<1>2. CASE Establish(t)
  BY <1>1, <1>2 DEF Establish, history
<1>3. CASE Accept(t)
  BY <1>1, <1>3 DEF Accept, history
<1>4. CASE SilentClose(t)
  BY <1>1, <1>4 DEF SilentClose
<1> QED BY <1>2, <1>3, <1>4

\* tcp_done has been probed: the connection has ended, and the key is reported.
LEMMA EndsFacts ==
    ASSUME TypeInv, NEW c \in Cpus, cpu[c] # Idle, Ends(c)
    PROVE  /\ conn'[cpu[c].port].st = "ended"
           /\ \A u \in Ports : u # cpu[c].port => conn'[u] = conn[u]
           /\ conn' \in [Ports -> [st : {"none", "syn", "open", "ended"}, num : 0..MaxConns,
                                   bound : BOOLEAN]]
           /\ due' \in [Keys -> [Fields -> Nat]]
           /\ \A f \in Fields : due'[cpu[c].key][f] = 0
           /\ \A k \in Keys : k # cpu[c].key => due'[k] = due[k]
           /\ excused' \subseteq Keys
           /\ \A k \in Keys : k \notin excused' =>
                 \/ k \notin excused /\ k[2] # cpu[c].port
                 \/ k = cpu[c].key /\ (k[2] = cpu[c].port => Active(k) = {c})
<1> DEFINE t == cpu[c].port
           k == cpu[c].key
           stays == (Pids \X {t}) \ (IF Active(k) = {c} THEN {k} ELSE {})
<1>1. t \in Ports /\ k \in Keys
  BY CpuFacts DEF TypeInv
<1>2. /\ conn' = [conn EXCEPT ![t].st = "ended"] /\ due' = [due EXCEPT ![k] = Empty]
      /\ excused' = (excused \ {k}) \cup stays
  BY DEF Ends
<1> HIDE DEF t, k
<1>3. /\ conn \in [Ports -> [st : {"none", "syn", "open", "ended"}, num : 0..MaxConns,
                             bound : BOOLEAN]]
      /\ due \in [Keys -> [Fields -> Nat]] /\ excused \subseteq Keys
  BY DEF TypeInv, EnvOK
<1>4. /\ conn'[t].st = "ended" /\ \A u \in Ports : u # t => conn'[u] = conn[u]
      /\ conn' \in [Ports -> [st : {"none", "syn", "open", "ended"}, num : 0..MaxConns,
                              bound : BOOLEAN]]
  BY <1>1, <1>2, <1>3
<1>5. Empty \in [Fields -> Nat] /\ \A f \in Fields : Empty[f] = 0
  BY DEF Empty
<1>6. /\ due' \in [Keys -> [Fields -> Nat]] /\ \A f \in Fields : due'[k][f] = 0
      /\ \A j \in Keys : j # k => due'[j] = due[j]
  <2>1. due'[k] = Empty /\ due' \in [Keys -> [Fields -> Nat]] /\ \A j \in Keys : j # k => due'[j] = due[j]
    BY <1>1, <1>2, <1>3, <1>5
  <2> QED BY <1>5, <2>1
<1>7. \A j \in Keys : j[2] = t => j \in Pids \X {t}
  BY DEF Keys
<1>8. stays \subseteq Keys
  BY <1>1 DEF Keys
<1>9. \A j \in Keys : j \notin excused' =>
         \/ j \notin excused /\ j[2] # t
         \/ j = k /\ (j[2] = t => Active(j) = {c})
  BY <1>2, <1>7
<1> QED BY <1>2, <1>3, <1>4, <1>6, <1>8, <1>9 DEF t, k

\* A send or receive is owed a place in the next report of its key.
LEMMA DueAdds ==
    ASSUME EnvOK, NEW k \in Keys, NEW f \in Fields, due' = [due EXCEPT ![k][f] = @ + 1]
    PROVE  /\ due' \in [Keys -> [Fields -> Nat]]
           /\ \A j \in Keys, g \in Fields :
                 due'[j][g] = IF j = k /\ g = f THEN due[k][f] + 1 ELSE due[j][g]
<1>1. due \in [Keys -> [Fields -> Nat]]
  BY DEF EnvOK
<1> DEFINE d == [due[k] EXCEPT ![f] = due[k][f] + 1]
<1>2. due' = [due EXCEPT ![k] = d]
  OBVIOUS
<1>3. d \in [Fields -> Nat] /\ \A g \in Fields : d[g] = IF g = f THEN due[k][f] + 1 ELSE due[k][g]
  BY <1>1
<1> HIDE DEF d
<1>4. due'[k] = d /\ \A j \in Keys : j # k => due'[j] = due[j]
  BY <1>1, <1>2
<1>5. due' \in [Keys -> [Fields -> Nat]]
  BY <1>1, <1>2, <1>3
<1> QED BY <1>3, <1>4, <1>5

(***************************************************************************)
(* Types.                                                                  *)
(***************************************************************************)
\* At first there are no connections, no entries and no probes.
LEMMA InitType == Init => TypeInv
<1> SUFFICES ASSUME Init PROVE TypeInv
  OBVIOUS
<1>1. Empty \in [Fields -> Nat]
  BY DEF Empty
<1>2. CpuOK
  <2>1. \A c \in Cpus : cpu[c] = Idle
    BY DEF Init
  <2>2. Idle.at = "idle"
    BY DEF Idle
  <2> QED BY <2>1, <2>2 DEF Init, CpuOK
<1>3. MapOK
  BY <1>1 DEF Init, MapOK
<1>4. EnvOK
  <2>1. MaxConns \in Nat /\ MaxProbes \in Nat
    BY TcpFlowAssumption
  <2>2. NoConnection \in [st : {"none", "syn", "open", "ended"}, num : 0..MaxConns,
                          bound : BOOLEAN]
    BY <2>1 DEF NoConnection
  <2>3. /\ conn \in [Ports -> [st : {"none", "syn", "open", "ended"}, num : 0..MaxConns,
                               bound : BOOLEAN]]
        /\ due \in [Keys -> [Fields -> Nat]] /\ connect_start \in [Pids -> 0..MaxConns]
    BY <1>1, <2>1, <2>2 DEF Init
  <2>4. serial \in BOOLEAN /\ full \in BOOLEAN
    BY Zenon DEF Init
  <2>5. conns \in 0..MaxConns /\ probes \in 0..MaxProbes /\ counted = {} /\ excused = {}
    BY <2>1 DEF Init
  <2> QED BY <2>3, <2>4, <2>5 DEF EnvOK
<1> QED BY <1>2, <1>3, <1>4 DEF TypeInv

\* Each step keeps the types, and one entry per key.
LEMMA TypeStep == ASSUME TypeInv, [Next]_vars PROVE TypeInv'
<1>1. CpuOK /\ MapOK /\ EnvOK /\ MaxConns \in Nat /\ MaxProbes \in Nat
  BY TcpFlowAssumption DEF TypeInv
<1>2. ASSUME NEW t \in Ports, Establish(t) \/ Accept(t) \/ SilentClose(t) PROVE TypeInv'
  <2>1. /\ UNCHANGED <<probes, flow_map, connect_start, cpu, due, serial, full, counted>>
        /\ conns' \in 0..MaxConns
        /\ excused' = excused \/ excused' = excused \cup (Pids \X {t})
        /\ conn' \in [Ports -> [st : {"none", "syn", "open", "ended"}, num : 0..MaxConns,
                                bound : BOOLEAN]]
    BY <1>2, KernelQuiet
  <2>2. excused' \subseteq Keys
    BY <1>1, <2>1 DEF EnvOK, Keys
  <2>3. EnvOK'
    BY <1>1, <2>1, <2>2 DEF EnvOK
  <2> QED BY <1>1, <2>1, <2>3 DEF TypeInv, CpuOK, MapOK
<1>3. ASSUME NEW c \in Cpus, NEW p \in Pids, NEW t \in Ports,
             \/ \E bound \in BOOLEAN : Connect(c, p, t, bound)
             \/ \E f \in Fields : Transfer(c, p, t, f)
             \/ Done(c, p, t)
      PROVE  TypeInv'
  <2> DEFINE k == cpu'[c].key
             f == cpu'[c].op
  <2>1. /\ CpuOK' /\ k \in Keys /\ UNCHANGED <<flow_map, connect_start, full, counted>>
        /\ serial' = (serial /\ Active(k) = {})
        /\ excused' = excused \/ excused' = excused \cup {k}
        /\ \/ UNCHANGED <<conn, conns>>
           \/ /\ conns < MaxConns /\ conns' = conns + 1
              /\ \E b \in BOOLEAN :
                    conn' = [conn EXCEPT ![t] = [st |-> "syn", num |-> conns', bound |-> b]]
        /\ \/ UNCHANGED <<probes, due>>
           \/ /\ f \in Fields /\ probes < MaxProbes /\ probes' = probes + 1
              /\ due' = [due EXCEPT ![k][f] = @ + 1]
    BY <1>3, KernelEnters DEF envVars
  <2> HIDE DEF k, f
  <2>2. MapOK'
    BY <1>1, <2>1 DEF MapOK
  <2>3. /\ conns' \in 0..MaxConns
        /\ conn' \in [Ports -> [st : {"none", "syn", "open", "ended"}, num : 0..MaxConns,
                                bound : BOOLEAN]]
    <3>1. CASE UNCHANGED <<conn, conns>>
      BY <1>1, <3>1 DEF EnvOK
    <3>2. ASSUME NEW b \in BOOLEAN, conns < MaxConns, conns' = conns + 1,
                 conn' = [conn EXCEPT ![t] = [st |-> "syn", num |-> conns', bound |-> b]]
          PROVE  /\ conns' \in 0..MaxConns
                 /\ conn' \in [Ports -> [st : {"none", "syn", "open", "ended"}, num : 0..MaxConns,
                                         bound : BOOLEAN]]
      <4> DEFINE e == [st |-> "syn", num |-> conns', bound |-> b]
      <4>1. conns' \in 0..MaxConns
        BY <1>1, <3>2 DEF EnvOK
      <4>2. e \in [st : {"none", "syn", "open", "ended"}, num : 0..MaxConns, bound : BOOLEAN]
        BY <4>1
      <4> HIDE DEF e
      <4>3. conn' = [conn EXCEPT ![t] = e]
        BY <3>2 DEF e
      <4> QED BY <1>1, <4>1, <4>2, <4>3 DEF EnvOK
    <3> QED BY <2>1, <3>1, <3>2
  <2>4. probes' \in 0..MaxProbes /\ due' \in [Keys -> [Fields -> Nat]]
    <3>1. CASE UNCHANGED <<probes, due>>
      BY <1>1, <3>1 DEF EnvOK
    <3>2. CASE /\ f \in Fields /\ probes < MaxProbes /\ probes' = probes + 1
               /\ due' = [due EXCEPT ![k][f] = @ + 1]
      BY <1>1, <2>1, <3>2, DueAdds DEF EnvOK
    <3> QED BY <2>1, <3>1, <3>2
  <2>5. serial' \in BOOLEAN
    BY <2>1, Zenon
  <2>6. EnvOK'
    BY <1>1, <2>1, <2>3, <2>4, <2>5 DEF EnvOK
  <2> QED BY <2>1, <2>2, <2>6 DEF TypeInv
<1>4. ASSUME NEW c \in Cpus, Found(c) \/ Loads(c) \/ Emits(c) PROVE TypeInv'
  <2>1. CpuOK' /\ UNCHANGED <<envVars, flow_map, connect_start, history>>
    BY <1>4, FoundFacts, LoadsFacts, EmitsFacts
  <2> QED BY <1>1, <2>1 DEF TypeInv, MapOK, EnvOK, envVars, history
<1>5. ASSUME NEW c \in Cpus, NotFound(c) PROVE TypeInv'
  <2>1. /\ CpuOK' /\ UNCHANGED <<conns, probes, flow_map, connect_start, serial, full, counted>>
        /\ (Ends(c) /\ cpu[c] # Idle) \/ UNCHANGED <<conn, due, excused>>
    BY <1>5, NotFoundFacts
  <2> QED BY <1>1, <2>1, EndsFacts DEF TypeInv, MapOK, EnvOK
<1>6. ASSUME NEW c \in Cpus, SendInserts(c) PROVE TypeInv'
  <2>1. /\ CpuOK' /\ cpu[c].key \in Keys /\ cpu[c].key # Free
        /\ UNCHANGED <<envVars, connect_start, due, serial, counted, excused>>
        /\ full' = (full \/ Entries(cpu[c].key) \cup Entries(Free) = {})
    BY <1>6, InsertsFacts
  <2>2. full' \in BOOLEAN
    BY <2>1, Zenon
  <2>3. EnvOK'
    BY <1>1, <2>1, <2>2 DEF EnvOK, envVars
  <2>4. MapOK'
    <3>1. CASE flow_map' = flow_map
      BY <1>1, <3>1 DEF MapOK
    <3>2. CASE flow_map' # flow_map
      <4> DEFINE e == [key |-> cpu[c].key, bytes |-> Empty]
      <4>1. PICK s \in Elements :
               /\ Entries(cpu[c].key) = {} /\ flow_map'[s] = e
               /\ \A u \in Elements : u # s => flow_map'[u] = flow_map[u]
               /\ flow_map' = [flow_map EXCEPT ![s] = e]
        BY <1>6, <3>2, InsertsFacts
      <4>2. e \in [key : Keys \cup {Free}, bytes : [Fields -> Nat]] /\ e.key = cpu[c].key
        BY <2>1 DEF Empty
      <4>3. \A u \in Elements : flow_map[u].key # cpu[c].key
        BY <4>1 DEF Entries
      <4> HIDE DEF e
      <4>4. flow_map' \in [Elements -> [key : Keys \cup {Free}, bytes : [Fields -> Nat]]]
        BY <1>1, <4>1, <4>2 DEF MapOK
      <4> QED BY <1>1, <4>1, <4>2, <4>3, <4>4 DEF MapOK
    <3> QED BY <3>1, <3>2
  <2> QED BY <2>1, <2>3, <2>4 DEF TypeInv
<1>7. ASSUME NEW c \in Cpus, Stores(c) PROVE TypeInv'
  <2>1. /\ CpuOK' /\ cpu[c].val \in Elements
        /\ UNCHANGED <<envVars, connect_start, due, serial, full, excused>>
        /\ counted' = IF cpu[c].op = "bytes_sent" THEN counted \cup {flow_map[cpu[c].val].key}
                                                  ELSE counted
        /\ flow_map' \in [Elements -> [key : Keys \cup {Free}, bytes : [Fields -> Nat]]]
        /\ \A s \in Elements : flow_map'[s].key = flow_map[s].key
    BY <1>7, StoresFacts
  <2>2. MapOK'
    BY <1>1, <2>1 DEF MapOK
  <2>3. flow_map[cpu[c].val].key \in Keys \cup {Free}
    BY <1>1, <2>1 DEF MapOK
  <2>4. EnvOK'
    BY <1>1, <2>1, <2>3 DEF EnvOK, envVars
  <2> QED BY <2>1, <2>2, <2>4 DEF TypeInv
<1>8. ASSUME NEW c \in Cpus, SendGivesUp(c) \/ Stamps(c) PROVE TypeInv'
  <2>1. CpuOK' /\ UNCHANGED <<envVars, flow_map, history>> /\ cpu[c] # Idle
        /\ \/ UNCHANGED connect_start
           \/ connect_start' = [connect_start EXCEPT ![cpu[c].key[1]] = conn[cpu[c].port].num]
    BY <1>8, QuietReturns
  <2>2. conn[cpu[c].port].num \in 0..MaxConns
    BY <1>1, <2>1, CpuFacts DEF EnvOK
  <2>3. connect_start' \in [Pids -> 0..MaxConns]
    BY <1>1, <2>1, <2>2 DEF EnvOK
  <2> QED BY <1>1, <2>1, <2>3 DEF TypeInv, MapOK, EnvOK, envVars, history
<1>9. ASSUME NEW c \in Cpus, Deletes(c) PROVE TypeInv'
  <2>1. /\ CpuOK' /\ cpu[c] # Idle /\ Ends(c)
        /\ UNCHANGED <<conns, probes, connect_start, serial, full>>
        /\ counted' = counted \ {cpu[c].key} /\ flow_map' = Deleted(cpu[c].key)
        /\ \A s \in Elements : flow_map'[s] = IF flow_map[s].key = cpu[c].key
                                              THEN [key |-> Free, bytes |-> Empty]
                                              ELSE flow_map[s]
    BY <1>9, DeletesFacts
  <2> DEFINE e == [key |-> Free, bytes |-> Empty]
  <2>2. e \in [key : Keys \cup {Free}, bytes : [Fields -> Nat]] /\ e.key = Free
    BY DEF Empty
  <2>3. \A s \in Elements : flow_map'[s] = IF flow_map[s].key = cpu[c].key THEN e ELSE flow_map[s]
    BY <2>1
  <2>4. flow_map' = [s \in Elements |-> IF flow_map[s].key = cpu[c].key THEN e ELSE flow_map[s]]
    BY <2>1 DEF Deleted
  <2> HIDE DEF e
  <2>5. flow_map' \in [Elements -> [key : Keys \cup {Free}, bytes : [Fields -> Nat]]]
    BY <1>1, <2>2, <2>4 DEF MapOK
  <2>6. MapOK'
    BY <1>1, <2>2, <2>3, <2>5 DEF MapOK
  <2>7. EnvOK'
    BY <1>1, <2>1, EndsFacts DEF EnvOK
  <2> QED BY <2>1, <2>6, <2>7 DEF TypeInv
<1>10. CASE UNCHANGED vars
  BY <1>1, <1>10 DEF vars, envVars, history, TypeInv, CpuOK, MapOK, EnvOK
<1> QED BY <1>2, <1>3, <1>4, <1>5, <1>6, <1>7, <1>8, <1>9, <1>10 DEF Next, Kernel, Probe

(***************************************************************************)
(* No count exceeds the number of probes.                                  *)
(***************************************************************************)
\* The probes that add to a count: finitely many.
LEMMA UsersFinite ==
    ASSUME NEW f
    PROVE  IsFiniteSet(Users(f)) /\ Cardinality(Users(f)) \in Nat
BY FS_Subset, FS_CardinalityType, TcpFlowAssumption DEF Users

\* They stay the same while a probe runs,
LEMMA UsersSame ==
    ASSUME NEW c \in Cpus, SameProbe(c), Others(c), NEW f
    PROVE  Users(f)' = Users(f)
BY DEF SameProbe, Others, Users

\* are one more when it begins,
LEMMA UsersEnter ==
    ASSUME CpuOK, NEW c \in Cpus, cpu[c] = Idle, Others(c), NEW f \in Fields
    PROVE  /\ cpu'[c].op # f => Users(f)' = Users(f)
           /\ cpu'[c].op = f => Cardinality(Users(f)') = Cardinality(Users(f)) + 1
<1>1. c \notin Users(f)
  BY CpuFacts DEF Users, Fields
<1>2. cpu'[c].op # f => Users(f)' = Users(f)
  BY <1>1 DEF Others, Users
<1>3. cpu'[c].op = f => Users(f)' = Users(f) \cup {c}
  BY DEF Others, Users
<1> QED BY <1>1, <1>2, <1>3, UsersFinite, FS_AddElement

\* and one less when it returns.
LEMMA UsersReturn ==
    ASSUME CpuOK, NEW c \in Cpus, cpu'[c] = Idle, Others(c), NEW f \in Fields
    PROVE  /\ Cardinality(Users(f)') \in Nat
           /\ Cardinality(Users(f)') <= Cardinality(Users(f))
           /\ cpu[c].op = f => Cardinality(Users(f)') = Cardinality(Users(f)) - 1
<1>1. Idle.op # f
  BY DEF Idle, Fields
<1>2. Users(f)' = Users(f) \ {c}
  BY <1>1 DEF Others, Users
<1>3. IsFiniteSet(Users(f)) /\ Cardinality(Users(f)) \in Nat
  BY UsersFinite
<1>4. cpu[c].op = f <=> c \in Users(f)
  BY DEF Users
<1> DEFINE S == Users(f)
           T == Users(f)'
<1>5. T = S \ {c} /\ IsFiniteSet(S) /\ Cardinality(S) \in Nat
  BY <1>2, <1>3
<1>6. cpu[c].op = f <=> c \in S
  BY <1>4
<1> HIDE DEF S, T
<1>7. CASE c \in S
  <2>1. Cardinality(T) = Cardinality(S) - 1
    BY <1>5, <1>7, FS_RemoveElement
  <2>2. Cardinality(T) \in Nat
    BY <1>5, FS_RemoveElement, FS_CardinalityType
  <2> QED BY <1>5, <2>1, <2>2 DEF S, T
<1>8. CASE c \notin S
  <2>1. T = S
    BY <1>5, <1>8
  <2> QED BY <1>5, <1>6, <1>8, <2>1 DEF S, T
<1> QED BY <1>7, <1>8

\* Adding one for each probe keeps the bound.
LEMMA BoundedStep == ASSUME TypeInv, Bounded, [Next]_vars PROVE Bounded'
<1>1. CpuOK /\ MapOK /\ EnvOK /\ TypeInv'
  BY TypeStep DEF TypeInv
<1>2. /\ \A s \in Elements, f \in Fields :
            /\ flow_map[s].bytes[f] + Cardinality(Users(f)) <= probes
            /\ flow_map[s].bytes[f] \in Nat
      /\ \A c \in Cpus, f \in Fields : cpu[c].at = "store" /\ cpu[c].op = f =>
            cpu[c].reg + Cardinality(Users(f)) <= probes
      /\ \A k \in Keys, f \in Fields : due[k][f] <= probes /\ due[k][f] \in Nat
      /\ probes \in Nat
      /\ \A f \in Fields : Cardinality(Users(f)) \in Nat
  BY <1>1, UsersFinite DEF Bounded, MapOK, EnvOK
<1>3. \A c \in Cpus : cpu[c].at = "store" => cpu[c].op \in Fields /\ cpu[c].reg \in Nat
  BY <1>1, AtRuns DEF CpuOK, ProbeRecord
<1>4. ASSUME UNCHANGED <<flow_map, cpu, probes, due>> PROVE Bounded'
  BY <1>2, <1>4 DEF Bounded, Users
<1>5. ASSUME NEW t \in Ports, Establish(t) \/ Accept(t) \/ SilentClose(t) PROVE Bounded'
  BY <1>4, <1>5, KernelQuiet
<1>6. ASSUME NEW c \in Cpus, NEW p \in Pids, NEW t \in Ports,
             \/ \E bound \in BOOLEAN : Connect(c, p, t, bound)
             \/ \E f \in Fields : Transfer(c, p, t, f)
             \/ Done(c, p, t)
      PROVE  Bounded'
  <2>1. /\ cpu[c] = Idle /\ Others(c) /\ flow_map' = flow_map /\ cpu'[c].at = "lookup"
        /\ cpu'[c].key \in Keys
        /\ \/ UNCHANGED <<probes, due>> /\ cpu'[c].op \notin Fields
           \/ /\ cpu'[c].op \in Fields /\ probes' = probes + 1
              /\ due' = [due EXCEPT ![cpu'[c].key][cpu'[c].op] = @ + 1]
    <3>1. "syn" \notin Fields /\ "done" \notin Fields
      BY DEF Fields
    <3> QED BY <1>6, <3>1, KernelEnters DEF envVars
  <2>2. CASE UNCHANGED <<probes, due>> /\ cpu'[c].op \notin Fields
    <3>1. \A f \in Fields : Users(f)' = Users(f)
      BY <1>1, <2>1, <2>2, UsersEnter
    <3>2. \A d \in Cpus : cpu'[d].at = "store" => cpu'[d] = cpu[d]
      BY <2>1 DEF Others
    <3> QED BY <1>2, <1>3, <2>1, <2>2, <3>1, <3>2 DEF Bounded
  <2>3. CASE /\ cpu'[c].op \in Fields /\ probes' = probes + 1
             /\ due' = [due EXCEPT ![cpu'[c].key][cpu'[c].op] = @ + 1]
    <3>1. \A f \in Fields : Cardinality(Users(f)') <= Cardinality(Users(f)) + 1
                            /\ Cardinality(Users(f)') \in Nat
      BY <1>1, <1>2, <2>1, UsersEnter
    <3>2. \A d \in Cpus : cpu'[d].at = "store" => cpu'[d] = cpu[d]
      BY <2>1 DEF Others
    <3>3. \A k \in Keys, f \in Fields : due'[k][f] <= due[k][f] + 1 /\ due'[k][f] \in Nat
      BY <1>1, <1>2, <2>1, <2>3, DueAdds
    <3>4. \A s \in Elements, f \in Fields :
             flow_map'[s].bytes[f] + Cardinality(Users(f)') <= probes'
      BY <1>2, <2>1, <2>3, <3>1
    <3>5. \A d \in Cpus, f \in Fields : cpu'[d].at = "store" /\ cpu'[d].op = f =>
             cpu'[d].reg + Cardinality(Users(f)') <= probes'
      BY <1>2, <1>3, <2>3, <3>1, <3>2
    <3>6. \A k \in Keys, f \in Fields : due'[k][f] <= probes'
      BY <1>2, <2>3, <3>3
    <3> QED BY <3>4, <3>5, <3>6 DEF Bounded, Users
  <2> QED BY <2>1, <2>2, <2>3
<1>7. ASSUME NEW c \in Cpus, SameProbe(c), Others(c), UNCHANGED <<probes, due>>,
             \A s \in Elements, f \in Fields :
                flow_map'[s].bytes[f] = flow_map[s].bytes[f] \/ flow_map'[s].bytes[f] = 0,
             cpu'[c].at = "store" =>
                /\ cpu[c].val \in Elements /\ cpu[c].op \in Fields
                /\ cpu'[c].reg = flow_map[cpu[c].val].bytes[cpu[c].op]
      PROVE  Bounded'
  <2>1. \A f : Users(f)' = Users(f)
    BY <1>7, UsersSame
  <2>2. \A s \in Elements, f \in Fields :
           flow_map'[s].bytes[f] + Cardinality(Users(f)') <= probes'
    BY <1>2, <1>7, <2>1
  <2>3. \A d \in Cpus, f \in Fields : cpu'[d].at = "store" /\ cpu'[d].op = f =>
           cpu'[d].reg + Cardinality(Users(f)') <= probes'
    <3> SUFFICES ASSUME NEW d \in Cpus, NEW f \in Fields, cpu'[d].at = "store", cpu'[d].op = f
                 PROVE  cpu'[d].reg + Cardinality(Users(f)') <= probes'
      OBVIOUS
    <3>1. CASE d = c
      BY <1>2, <1>7, <2>1, <3>1 DEF SameProbe
    <3>2. CASE d # c
      BY <1>2, <1>7, <2>1, <3>2 DEF Others
    <3> QED BY <3>1, <3>2
  <2> QED BY <1>2, <1>7, <2>2, <2>3 DEF Bounded, Users
<1>8. ASSUME NEW c \in Cpus, cpu'[c] = Idle, Others(c), UNCHANGED probes,
             \A k \in Keys, f \in Fields : due'[k][f] = due[k][f] \/ due'[k][f] = 0,
             \A s \in Elements, f \in Fields :
                \/ flow_map'[s].bytes[f] = flow_map[s].bytes[f]
                \/ flow_map'[s].bytes[f] = 0
                \/ /\ cpu[c].at = "store" /\ f = cpu[c].op
                   /\ flow_map'[s].bytes[f] = cpu[c].reg + 1
      PROVE  Bounded'
  <2>1. \A f \in Fields : /\ Cardinality(Users(f)') \in Nat
                          /\ Cardinality(Users(f)') <= Cardinality(Users(f))
                          /\ cpu[c].op = f => Cardinality(Users(f)') = Cardinality(Users(f)) - 1
    BY <1>1, <1>8, UsersReturn
  <2>2. \A s \in Elements, f \in Fields :
           flow_map'[s].bytes[f] + Cardinality(Users(f)') <= probes'
    <3> SUFFICES ASSUME NEW s \in Elements, NEW f \in Fields
                 PROVE  flow_map'[s].bytes[f] + Cardinality(Users(f)') <= probes
      BY <1>8
    <3>1. CASE flow_map'[s].bytes[f] = flow_map[s].bytes[f] \/ flow_map'[s].bytes[f] = 0
      BY <1>2, <2>1, <3>1
    <3>2. CASE /\ cpu[c].at = "store" /\ f = cpu[c].op
               /\ flow_map'[s].bytes[f] = cpu[c].reg + 1
      <4>1. cpu[c].reg + Cardinality(Users(f)) <= probes /\ cpu[c].reg \in Nat
        BY <1>2, <1>3, <3>2
      <4> QED BY <1>2, <2>1, <3>2, <4>1
    <3> QED BY <1>8, <3>1, <3>2
  <2>3. \A d \in Cpus, f \in Fields : cpu'[d].at = "store" /\ cpu'[d].op = f =>
           cpu'[d].reg + Cardinality(Users(f)') <= probes'
    <3> SUFFICES ASSUME NEW d \in Cpus, NEW f \in Fields, cpu'[d].at = "store", cpu'[d].op = f
                 PROVE  cpu'[d].reg + Cardinality(Users(f)') <= probes
      BY <1>8
    <3>1. d # c /\ cpu'[d] = cpu[d]
      BY <1>8 DEF Others, Idle
    <3>2. cpu[d].op \in Fields /\ cpu[d].reg \in Nat
      BY <1>3, <3>1
    <3> QED BY <1>2, <2>1, <3>1, <3>2
  <2>4. \A k \in Keys, f \in Fields : due'[k][f] <= probes'
    BY <1>2, <1>8
  <2> QED BY <2>2, <2>3, <2>4 DEF Bounded, Users
<1>9. ASSUME NEW c \in Cpus, Found(c) \/ Loads(c) \/ Emits(c) PROVE Bounded'
  <2>1. /\ SameProbe(c) /\ Others(c) /\ UNCHANGED <<flow_map, probes, due>>
        /\ cpu'[c].at = "store" =>
              /\ cpu[c].val \in Elements /\ cpu[c].op \in Fields
              /\ cpu'[c].reg = flow_map[cpu[c].val].bytes[cpu[c].op]
    BY <1>9, FoundFacts, LoadsFacts, EmitsFacts DEF envVars, history
  <2> QED BY <1>7, <2>1
<1>10. ASSUME NEW c \in Cpus, NotFound(c) PROVE Bounded'
  <2>1. /\ Others(c) /\ UNCHANGED <<flow_map, probes>> /\ cpu[c] # Idle
        /\ \/ SameProbe(c) /\ UNCHANGED due /\ cpu'[c].at = "insert"
           \/ cpu'[c] = Idle /\ (Ends(c) \/ UNCHANGED due)
    BY <1>10, NotFoundFacts
  <2>2. Ends(c) => \A k \in Keys, f \in Fields : due'[k][f] = due[k][f] \/ due'[k][f] = 0
    BY <2>1, EndsFacts
  <2>3. CASE SameProbe(c) /\ UNCHANGED due /\ cpu'[c].at = "insert"
    BY <1>7, <2>1, <2>3
  <2>4. CASE cpu'[c] = Idle /\ (Ends(c) \/ UNCHANGED due)
    BY <1>8, <2>1, <2>2, <2>4
  <2> QED BY <2>1, <2>3, <2>4
<1>11. ASSUME NEW c \in Cpus, SendInserts(c) PROVE Bounded'
  <2>1. SameProbe(c) /\ Others(c) /\ UNCHANGED <<probes, due>> /\ cpu'[c].at = "again"
    BY <1>11, InsertsFacts DEF envVars
  <2>2. \A s \in Elements, f \in Fields :
           flow_map'[s].bytes[f] = flow_map[s].bytes[f] \/ flow_map'[s].bytes[f] = 0
    <3>1. \A s \in Elements : \/ flow_map'[s] = flow_map[s]
                              \/ flow_map'[s] = [key |-> cpu[c].key, bytes |-> Empty]
      BY <1>11, InsertsFacts
    <3> QED BY <3>1 DEF Empty
  <2> QED BY <1>7, <2>1, <2>2
<1>12. ASSUME NEW c \in Cpus, Stores(c) PROVE Bounded'
  <2>1. /\ cpu'[c] = Idle /\ Others(c) /\ UNCHANGED <<probes, due>> /\ cpu[c].at = "store"
        /\ \A s \in Elements, f \in Fields :
              flow_map'[s].bytes[f] = IF s = cpu[c].val /\ f = cpu[c].op
                                      THEN cpu[c].reg + 1 ELSE flow_map[s].bytes[f]
    BY <1>12, StoresFacts DEF envVars
  <2> QED BY <1>8, <2>1
<1>13. ASSUME NEW c \in Cpus, SendGivesUp(c) \/ Stamps(c) PROVE Bounded'
  <2>1. cpu'[c] = Idle /\ Others(c) /\ UNCHANGED <<flow_map, probes, due>>
    BY <1>13, QuietReturns DEF envVars, history
  <2> QED BY <1>8, <2>1
<1>14. ASSUME NEW c \in Cpus, Deletes(c) PROVE Bounded'
  <2>1. /\ cpu[c] # Idle /\ cpu'[c] = Idle /\ Others(c) /\ UNCHANGED probes /\ Ends(c)
        /\ \A s \in Elements : \/ flow_map'[s] = [key |-> Free, bytes |-> Empty]
                               \/ flow_map'[s] = flow_map[s]
    BY <1>14, DeletesFacts
  <2>2. \A k \in Keys, f \in Fields : due'[k][f] = due[k][f] \/ due'[k][f] = 0
    BY <2>1, EndsFacts
  <2>3. \A s \in Elements, f \in Fields :
           flow_map'[s].bytes[f] = flow_map[s].bytes[f] \/ flow_map'[s].bytes[f] = 0
    BY <2>1 DEF Empty
  <2> QED BY <1>8, <2>1, <2>2, <2>3
<1>15. CASE UNCHANGED vars
  BY <1>4, <1>15 DEF vars, envVars, history
<1> QED BY <1>5, <1>6, <1>9, <1>10, <1>11, <1>12, <1>13, <1>14, <1>15 DEF Next, Kernel, Probe

(***************************************************************************)
(* The lock.                                                               *)
(***************************************************************************)
\* No probe of c changes its process, connection or kind, it only may return.
Continues(c) == Others(c) /\ (SameProbe(c) \/ cpu'[c] = Idle)

\* Steps of a probe: it goes on or returns; only a tcp_done that returns changes a connection.
LEMMA ProbeFacts ==
    ASSUME TypeInv, NEW c \in Cpus, Probe(c)
    PROVE  /\ Continues(c) /\ cpu[c] # Idle /\ cpu[c] \in ProbeRecord
           /\ \/ UNCHANGED <<conn, due, excused>>
              \/ Ends(c) /\ cpu[c].op = "done" /\ cpu'[c] = Idle
<1>1. CASE Found(c) \/ Loads(c) \/ Emits(c)
  BY <1>1, FoundFacts, LoadsFacts, EmitsFacts, CpuFacts
     DEF Continues, SameProbe, TypeInv, envVars, history
<1>2. CASE NotFound(c)
  BY <1>2, NotFoundFacts, CpuFacts DEF Continues, TypeInv
<1>3. CASE SendInserts(c)
  BY <1>3, InsertsFacts, CpuFacts DEF Continues, SameProbe, TypeInv, envVars
<1>4. CASE Stores(c)
  BY <1>4, StoresFacts, CpuFacts DEF Continues, TypeInv, envVars
<1>5. CASE SendGivesUp(c) \/ Stamps(c)
  BY <1>5, QuietReturns, CpuFacts DEF Continues, TypeInv, envVars, history
<1>6. CASE Deletes(c)
  BY <1>6, DeletesFacts, CpuFacts DEF Continues, TypeInv
<1> QED BY <1>1, <1>2, <1>3, <1>4, <1>5, <1>6 DEF Probe

\* Nobody else changes the connection of a state change that is being probed.
LEMMA LockStep == ASSUME TypeInv, LockOK, [Next]_vars PROVE LockOK'
<1>1. CpuOK /\ EnvOK /\ CpuOK'
  BY TypeStep DEF TypeInv
<1>2. Idle.op \notin {"syn", "done"}
  BY DEF Idle
<1>3. /\ \A d \in Cpus : cpu[d].op = "done" => conn[cpu[d].port].st \in {"syn", "open"} /\ cpu[d].key[2] = cpu[d].port
      /\ \A d \in Cpus : cpu[d].op = "syn" => conn[cpu[d].port].st = "syn"
      /\ \A d, e \in Cpus : cpu[d].op \in {"syn", "done"} /\ cpu[e].op \in {"syn", "done"}
                            /\ cpu[d].port = cpu[e].port => d = e
      /\ \A d \in Cpus : cpu[d].op \in {"syn", "done"} => cpu[d].port \in Ports
  BY <1>1, <1>2, CpuFacts DEF LockOK
<1>4. ASSUME /\ \A d \in Cpus : cpu'[d].op = "done" =>
                   conn'[cpu'[d].port].st \in {"syn", "open"} /\ cpu'[d].key[2] = cpu'[d].port
             /\ \A d \in Cpus : cpu'[d].op = "syn" => conn'[cpu'[d].port].st = "syn"
             /\ \A d, e \in Cpus : cpu'[d].op \in {"syn", "done"} /\ cpu'[e].op \in {"syn", "done"}
                                   /\ cpu'[d].port = cpu'[e].port => d = e
      PROVE  LockOK'
  BY <1>4 DEF LockOK
<1>5. ASSUME NEW t \in Ports, Establish(t) \/ Accept(t) \/ SilentClose(t) PROVE LockOK'
  <2>1. /\ cpu' = cpu /\ \A u \in Ports : u # t => conn'[u] = conn[u]
        /\ ~Locked(t) \/ conn[t].st \in {"none", "ended"} \/ \A c \in Cpus : cpu[c].port # t
    BY <1>5, KernelQuiet
  <2>2. \A d \in Cpus : cpu[d].op \in {"syn", "done"} => cpu[d].port # t
    BY <1>3, <2>1 DEF Locked
  <2> QED BY <1>3, <1>4, <2>1, <2>2
<1>6. ASSUME NEW c \in Cpus, NEW p \in Pids, NEW t \in Ports,
             \/ \E bound \in BOOLEAN : Connect(c, p, t, bound)
             \/ \E f \in Fields : Transfer(c, p, t, f)
             \/ Done(c, p, t)
      PROVE  LockOK'
  <2>1. /\ Others(c) /\ cpu'[c].port = t
        /\ \/ /\ cpu'[c].op = "syn" /\ conn[t].st \in {"none", "ended"}
              /\ conn'[t].st = "syn" /\ \A u \in Ports : u # t => conn'[u] = conn[u]
           \/ cpu'[c].op \notin {"syn", "done"} /\ conn' = conn
           \/ /\ cpu'[c].op = "done" /\ conn[t].st \in {"syn", "open"} /\ ~Locked(t)
              /\ cpu'[c].key = <<p, t>> /\ conn' = conn
    <3>1. \A f \in Fields : f \notin {"syn", "done"}
      BY DEF Fields
    <3>2. /\ Others(c) /\ cpu'[c].port = t
          /\ \/ /\ cpu'[c].op = "syn" /\ conn[t].st \in {"none", "ended"}
                /\ conn'[t].st = "syn" /\ \A u \in Ports : u # t => conn'[u] = conn[u]
             \/ cpu'[c].op \in Fields /\ UNCHANGED <<conn, conns>>
             \/ /\ cpu'[c].op = "done" /\ conn[t].st \in {"syn", "open"} /\ ~Locked(t)
                /\ cpu'[c].key = <<p, t>> /\ UNCHANGED <<envVars, due, excused>>
      <4>1. Others(c) /\ cpu'[c].port = t
        BY <1>6, KernelEnters
      <4>2. cpu'[c].op = "syn" => conn[t].st \in {"none", "ended"} /\ conn'[t].st = "syn"
        BY <1>6, <3>1, KernelEnters, ZenonT(30)
      <4>8. cpu'[c].op = "syn" => \A u \in Ports : u # t => conn'[u] = conn[u]
        BY <1>6, <3>1, KernelEnters, ZenonT(30)
      <4>3. cpu'[c].op = "done" => conn[t].st \in {"syn", "open"} /\ UNCHANGED <<envVars, due, excused>>
        BY <1>6, <3>1, KernelEnters, ZenonT(30)
      <4>4. cpu'[c].op = "done" => ~Locked(t)
        BY <1>6, <3>1, KernelEnters, ZenonT(30)
      <4>5. cpu'[c].op = "done" => cpu'[c].key = <<p, t>>
        BY <1>6, <3>1, KernelEnters, ZenonT(30)
      <4>6. cpu'[c].op \in Fields => UNCHANGED <<conn, conns>>
        BY <1>6, <3>1, KernelEnters, ZenonT(30)
      <4>7. cpu'[c].op \in Ops
        BY <1>6, KernelEnters
      <4> QED BY <4>1, <4>2, <4>3, <4>4, <4>5, <4>6, <4>7, <4>8 DEF Ops
    <3> QED BY <3>1, <3>2 DEF envVars
  <2>2. CASE cpu'[c].op = "syn" /\ conn[t].st \in {"none", "ended"}
             /\ conn'[t].st = "syn" /\ \A u \in Ports : u # t => conn'[u] = conn[u]
    <3>1. \A d \in Cpus : cpu[d].op \in {"syn", "done"} => cpu[d].port # t
      BY <1>3, <2>2
    <3> QED BY <1>3, <1>4, <2>1, <2>2, <3>1 DEF Others
  <2>3. CASE cpu'[c].op \notin {"syn", "done"} /\ conn' = conn
    BY <1>3, <1>4, <2>1, <2>3 DEF Others
  <2>4. CASE /\ cpu'[c].op = "done" /\ conn[t].st \in {"syn", "open"} /\ ~Locked(t)
             /\ cpu'[c].key = <<p, t>> /\ conn' = conn
    <3>1. \A d \in Cpus : cpu[d].op \in {"syn", "done"} => cpu[d].port # t
      BY <2>4 DEF Locked
    <3>2. cpu'[c].key[2] = t
      BY <2>4
    <3> QED BY <1>3, <1>4, <2>1, <2>4, <3>1, <3>2 DEF Others
  <2> QED BY <2>1, <2>2, <2>3, <2>4
<1>7. ASSUME NEW c \in Cpus, Probe(c) PROVE LockOK'
  <2>1. /\ Continues(c) /\ cpu[c] # Idle
        /\ \/ conn' = conn
           \/ Ends(c) /\ cpu[c].op = "done" /\ cpu'[c] = Idle
    BY <1>7, ProbeFacts
  <2>2. \A d \in Cpus : cpu'[d].op \in {"syn", "done"} =>
           /\ cpu'[d].op = cpu[d].op /\ cpu'[d].key = cpu[d].key /\ cpu'[d].port = cpu[d].port
           /\ cpu'[c] = Idle => d # c
    BY <1>2, <2>1 DEF Continues, Others, SameProbe
  <2>3. \A d \in Cpus : cpu'[d].op \in {"syn", "done"} => conn'[cpu[d].port] = conn[cpu[d].port]
    <3>1. CASE conn' = conn
      BY <3>1
    <3>2. CASE Ends(c) /\ cpu[c].op = "done" /\ cpu'[c] = Idle
      BY <1>3, <2>1, <2>2, <3>2, EndsFacts
    <3> QED BY <2>1, <3>1, <3>2
  <2> QED BY <1>3, <1>4, <2>2, <2>3
<1>8. CASE UNCHANGED vars
  BY <1>3, <1>4, <1>8 DEF vars, envVars
<1> QED BY <1>5, <1>6, <1>7, <1>8 DEF Next, Kernel

(***************************************************************************)
(* Entries that outlive their connection.                                  *)
(***************************************************************************)
\* Only a send, of its own key, makes an entry; a tcp_done that returns leaves none.
LEMMA EntriesFacts ==
    ASSUME TypeInv, NEW c \in Cpus, Probe(c), NEW k \in Keys
    PROVE  /\ Entries(k)' # {} => Entries(k) # {} \/ Sends(c, k)
           /\ Ends(c) /\ cpu[c].op = "done" /\ k = cpu[c].key => Entries(k)' = {}
<1>1. CpuOK /\ MapOK /\ k # Free
  BY TcpFlowAssumption DEF TypeInv, Keys
<1>2. CASE /\ UNCHANGED flow_map
           /\ cpu[c].op # "done" \/ Entries(cpu[c].key) = {} \/ ~Ends(c)
  BY <1>2 DEF Entries
<1>3. CASE Found(c) \/ Loads(c) \/ Emits(c)
  <2>1. /\ UNCHANGED <<flow_map, connect_start>> /\ cpu'[c] # Idle
    <3>1. CpuOK' /\ cpu'[c].at \in {"use", "store", "delete"} /\ UNCHANGED <<flow_map, connect_start>>
      BY <1>3, FoundFacts, LoadsFacts, EmitsFacts
    <3>2. Idle.at = "idle"
      BY DEF Idle
    <3> QED BY <3>1, <3>2
  <2>2. Ends(c) => cpu'[c] = Idle
    BY <1>1, ReturnsFacts DEF Ends
  <2> QED BY <1>2, <2>1, <2>2
<1>4. CASE NotFound(c)
  BY <1>2, <1>4, NotFoundFacts
<1>5. CASE SendInserts(c)
  <2>1. /\ cpu[c].op = "bytes_sent"
        /\ \/ flow_map' = flow_map
           \/ \E s \in Elements : /\ flow_map'[s] = [key |-> cpu[c].key, bytes |-> Empty]
                                  /\ \A u \in Elements : u # s => flow_map'[u] = flow_map[u]
    BY <1>5, InsertsFacts
  <2>2. CASE flow_map' = flow_map
    BY <1>2, <2>1, <2>2
  <2>3. ASSUME NEW s \in Elements, flow_map'[s] = [key |-> cpu[c].key, bytes |-> Empty],
               \A u \in Elements : u # s => flow_map'[u] = flow_map[u]
        PROVE  Entries(k)' # {} => Entries(k) # {} \/ Sends(c, k)
    <3>1. flow_map'[s].key = cpu[c].key
      BY <2>3
    <3> QED BY <2>1, <2>3, <3>1 DEF Entries, Sends
  <2> QED BY <2>1, <2>2, <2>3
<1>6. CASE Stores(c)
  <2>1. cpu[c].op \in Fields /\ \A s \in Elements : flow_map'[s].key = flow_map[s].key
    BY <1>6, StoresFacts
  <2>2. Entries(k)' = Entries(k)
    BY <2>1 DEF Entries
  <2> QED BY <2>1, <2>2 DEF Fields
<1>7. CASE SendGivesUp(c) \/ Stamps(c)
  <2>1. cpu[c].op \in {"bytes_sent", "syn"} /\ flow_map' = flow_map
    BY <1>7, QuietReturns
  <2> QED BY <1>2, <2>1
<1>8. CASE Deletes(c)
  <2>1. \A s \in Elements : flow_map'[s] = IF flow_map[s].key = cpu[c].key
                                           THEN [key |-> Free, bytes |-> Empty] ELSE flow_map[s]
    BY <1>8, DeletesFacts
  <2>2. \A s \in Elements : flow_map'[s].key = IF flow_map[s].key = cpu[c].key
                                               THEN Free ELSE flow_map[s].key
    BY <2>1
  <2> QED BY <1>1, <2>2 DEF Entries
<1> QED BY <1>3, <1>4, <1>5, <1>6, <1>7, <1>8 DEF Probe

\* An entry of a connection that has gone, and a send that may make one, is excused.
LEMMA LeakStep == ASSUME TypeInv, LockOK, LeakOK, [Next]_vars PROVE LeakOK'
<1>1. CpuOK /\ EnvOK
  BY DEF TypeInv
<1>2. \A k \in Keys : k[2] = NoPort \/ k[2] \in Ports
  BY DEF Keys
<1>3. Idle.op # "bytes_sent"
  BY DEF Idle
<1>4. ASSUME NEW k \in Keys, Gone(k), Entries(k) # {} \/ \E d \in Cpus : Sends(d, k)
      PROVE  k \in excused
  BY <1>4 DEF LeakOK
<1>5. SUFFICES ASSUME NEW k \in Keys, Gone(k)',
                      Entries(k)' # {} \/ \E d \in Cpus : Sends(d, k)'
               PROVE  k \in excused'
  BY DEF LeakOK
<1>6. ASSUME NEW t \in Ports, Establish(t) \/ Accept(t) \/ SilentClose(t) PROVE k \in excused'
  <2>1. /\ UNCHANGED <<flow_map, cpu>> /\ \A u \in Ports : u # t => conn'[u] = conn[u]
        /\ \/ conn'[t].st = "open" /\ excused' = excused
           \/ excused' = excused \cup (Pids \X {t})
    BY <1>6, KernelQuiet
  <2>2. Entries(k) # {} \/ \E d \in Cpus : Sends(d, k)
    BY <1>5, <2>1 DEF Entries, Sends
  <2>3. CASE k[2] = t
    <3>1. t # NoPort /\ k \in Pids \X {t}
      BY <2>3, TcpFlowAssumption DEF Keys
    <3> QED BY <1>5, <2>1, <2>3, <3>1 DEF Gone
  <2>4. CASE k[2] # t
    <3>1. Gone(k)
      BY <1>2, <1>5, <2>1, <2>4 DEF Gone
    <3> QED BY <1>4, <2>1, <2>2, <3>1
  <2> QED BY <2>3, <2>4
<1>7. ASSUME NEW c \in Cpus, NEW p \in Pids, NEW t \in Ports,
             \/ \E bound \in BOOLEAN : Connect(c, p, t, bound)
             \/ \E f \in Fields : Transfer(c, p, t, f)
             \/ Done(c, p, t)
      PROVE  k \in excused'
  <2>1. Others(c) /\ flow_map' = flow_map /\ cpu'[c].op \in Ops
    BY <1>7, KernelEnters
  <2>2. Entries(k)' = Entries(k)
    BY <2>1 DEF Entries
  <2>3. \A f \in Fields : f \notin {"syn", "done"}
    BY DEF Fields
  <2>4. CASE cpu'[c].op = "syn"
    <3>1. conn'[t].st = "syn" /\ excused' = excused /\ \A u \in Ports : u # t => conn'[u] = conn[u]
      BY <1>7, <2>3, <2>4, KernelEnters, ZenonT(40)
    <3>2. t # NoPort
      BY TcpFlowAssumption
    <3>3. Gone(k)
      BY <1>2, <1>5, <3>1, <3>2 DEF Gone
    <3>4. \A d \in Cpus : Sends(d, k)' => Sends(d, k)
      BY <2>1, <2>4 DEF Sends, Others
    <3> QED BY <1>4, <1>5, <2>2, <3>1, <3>3, <3>4
  <2>5. CASE cpu'[c].op \in Fields
    <3>1. /\ conn' = conn
          /\ \/ conn[t].st = "open" /\ excused' = excused /\ cpu'[c].key = <<p, t>>
             \/ excused' = excused \cup {cpu'[c].key}
      <4>1. cpu'[c].op # "syn" /\ cpu'[c].op # "done"
        BY <2>3, <2>5
      <4>2. /\ UNCHANGED <<conn, conns>>
            /\ \/ /\ conn[t].st = "open" /\ excused' = excused /\ cpu'[c].key = <<p, t>>
               \/ conn[t].st = "ended" /\ excused' = excused \cup {cpu'[c].key}
        BY <1>7, <4>1, KernelEnters
      <4> QED BY <4>2
    <3>2. Gone(k)
      BY <1>5, <3>1 DEF Gone
    <3>3. CASE Entries(k) # {} \/ \E d \in Cpus : Sends(d, k)
      BY <1>4, <3>1, <3>2, <3>3
    <3>4. CASE cpu'[c].key = k
      <4>1. cpu'[c].key = <<p, t>> => k[2] = t
        BY <3>4
      <4>2. t # NoPort
        BY TcpFlowAssumption
      <4>3. ~(conn[t].st = "open" /\ k[2] = t)
        BY <3>2, <4>2 DEF Gone
      <4> QED BY <3>1, <3>4, <4>1, <4>3
    <3> QED BY <1>5, <2>1, <2>2, <3>3, <3>4 DEF Sends, Others
  <2>6. CASE cpu'[c].op = "done"
    <3>1. UNCHANGED <<envVars, due, excused>>
      BY <1>7, <2>3, <2>6, KernelEnters
    <3>2. \A d \in Cpus : Sends(d, k)' => Sends(d, k)
      BY <2>1, <2>6 DEF Sends, Others
    <3>3. Gone(k)
      BY <1>5, <3>1 DEF Gone, envVars
    <3> QED BY <1>4, <1>5, <2>2, <3>1, <3>2, <3>3
  <2> QED BY <2>1, <2>4, <2>5, <2>6 DEF Ops
<1>8. ASSUME NEW c \in Cpus, Probe(c) PROVE k \in excused'
  <2>1. /\ Continues(c) /\ cpu[c] # Idle
        /\ \/ UNCHANGED <<conn, due, excused>>
           \/ Ends(c) /\ cpu[c].op = "done" /\ cpu'[c] = Idle
    BY <1>8, ProbeFacts
  <2>2. \A d \in Cpus : Sends(d, k)' => Sends(d, k) /\ (cpu'[c] = Idle => d # c)
    BY <1>3, <2>1 DEF Continues, Others, SameProbe, Sends
  <2>3. Entries(k) # {} \/ \E d \in Cpus : Sends(d, k)
    BY <1>5, <1>8, <2>2, EntriesFacts
  <2>4. CASE UNCHANGED <<conn, due, excused>>
    <3>1. Gone(k)
      BY <1>5, <2>4 DEF Gone
    <3> QED BY <1>4, <2>3, <2>4, <3>1
  <2>5. CASE Ends(c) /\ cpu[c].op = "done" /\ cpu'[c] = Idle
    <3>1. SUFFICES ASSUME k \notin excused' PROVE FALSE
      OBVIOUS
    <3>2. \/ k \notin excused /\ k[2] # cpu[c].port
          \/ k = cpu[c].key /\ (k[2] = cpu[c].port => Active(k) = {c})
      BY <2>1, <2>5, <3>1, EndsFacts
    <3>3. CASE k \notin excused /\ k[2] # cpu[c].port
      <4>1. Gone(k)
        BY <1>2, <1>5, <2>1, <2>5, <3>3, EndsFacts DEF Gone
      <4> QED BY <1>4, <2>3, <3>3, <4>1
    <3>4. CASE k = cpu[c].key /\ (k[2] = cpu[c].port => Active(k) = {c})
      <4>1. Active(k) = {c}
        BY <2>5, <3>4 DEF LockOK
      <4>2. Entries(k)' = {}
        BY <1>8, <2>5, <3>4, EntriesFacts
      <4>3. \A d \in Cpus : ~Sends(d, k)'
        BY <2>2, <2>5, <4>1 DEF Active, Sends
      <4> QED BY <1>5, <4>2, <4>3
    <3> QED BY <3>2, <3>3, <3>4
  <2> QED BY <2>1, <2>4, <2>5
<1>9. CASE UNCHANGED vars
  <2>1. Gone(k) /\ (Entries(k) # {} \/ \E d \in Cpus : Sends(d, k)) /\ excused' = excused
    BY <1>5, <1>9 DEF vars, envVars, history, Gone, Entries, Sends
  <2> QED BY <1>4, <2>1
<1> QED BY <1>6, <1>7, <1>8, <1>9 DEF Next, Kernel

(***************************************************************************)
(* What has been added is not undone.                                      *)
(***************************************************************************)
\* A counted key keeps its entry until it is reported, so no insertion resets it.
LEMMA CountedStep == ASSUME TypeInv, CountedOK, [Next]_vars PROVE CountedOK'
<1>1. CpuOK /\ MapOK /\ "bytes_sent" \in Fields
  BY DEF TypeInv, Fields
<1>2. /\ \A s \in Elements : flow_map[s].key \in counted /\ flow_map[s].key # Free =>
            flow_map[s].bytes["bytes_sent"] > 0
      /\ \A k \in counted : k # Free => \E s \in Elements : flow_map[s].key = k
  BY DEF CountedOK, CountedIsKept, Entries
<1>3. ASSUME /\ \A s \in Elements : flow_map'[s].key \in counted' /\ flow_map'[s].key # Free =>
                   flow_map'[s].bytes["bytes_sent"] > 0
             /\ \A k \in counted' : k # Free => \E s \in Elements : flow_map'[s].key = k
      PROVE  CountedOK'
  <2>1. \A k \in counted' \ {Free} : Entries(k)' # {}
    BY <1>3 DEF Entries
  <2> QED BY <1>3, <2>1 DEF CountedOK, CountedIsKept
<1>4. ASSUME UNCHANGED <<flow_map, counted>> PROVE CountedOK'
  BY <1>2, <1>3, <1>4
<1>5. ASSUME NEW t \in Ports, Establish(t) \/ Accept(t) \/ SilentClose(t) PROVE CountedOK'
  BY <1>4, <1>5, KernelQuiet
<1>6. ASSUME NEW c \in Cpus, NEW p \in Pids, NEW t \in Ports,
             \/ \E bound \in BOOLEAN : Connect(c, p, t, bound)
             \/ \E f \in Fields : Transfer(c, p, t, f)
             \/ Done(c, p, t)
      PROVE  CountedOK'
  BY <1>4, <1>6, KernelEnters
<1>7. ASSUME NEW c \in Cpus, Found(c) \/ Loads(c) \/ Emits(c) PROVE CountedOK'
  BY <1>4, <1>7, FoundFacts, LoadsFacts, EmitsFacts DEF history
<1>8. ASSUME NEW c \in Cpus, NotFound(c) PROVE CountedOK'
  BY <1>4, <1>8, NotFoundFacts
<1>9. ASSUME NEW c \in Cpus, SendInserts(c) PROVE CountedOK'
  <2>1. CASE flow_map' = flow_map
    BY <1>4, <1>9, <2>1, InsertsFacts
  <2>2. CASE flow_map' # flow_map
    <3> DEFINE e == [key |-> cpu[c].key, bytes |-> Empty]
    <3>1. PICK s \in Elements :
             /\ Entries(cpu[c].key) = {} /\ flow_map[s].key = Free /\ flow_map'[s] = e
             /\ \A u \in Elements : u # s => flow_map'[u] = flow_map[u]
      BY <1>9, <2>2, InsertsFacts
    <3>2. e.key = cpu[c].key /\ counted' = counted
      BY <1>9, InsertsFacts
    <3> HIDE DEF e
    <3>3. \A u \in Elements : flow_map[u].key # cpu[c].key
      BY <3>1 DEF Entries
    <3>4. cpu[c].key \in counted => cpu[c].key = Free
      BY <1>2, <3>3
    <3> QED BY <1>2, <1>3, <3>1, <3>2, <3>4
  <2> QED BY <2>1, <2>2
<1>10. ASSUME NEW c \in Cpus, Stores(c) PROVE CountedOK'
  <2> DEFINE v == cpu[c].val
  <2>1. /\ v \in Elements /\ cpu[c].reg \in Nat
        /\ counted' = counted \/ counted' = counted \cup {flow_map[v].key}
        /\ counted' # counted => cpu[c].op = "bytes_sent"
        /\ \A s \in Elements : flow_map'[s].key = flow_map[s].key
        /\ \A s \in Elements :
              flow_map'[s].bytes["bytes_sent"] = IF s = v /\ cpu[c].op = "bytes_sent"
                                                 THEN cpu[c].reg + 1
                                                 ELSE flow_map[s].bytes["bytes_sent"]
    BY <1>1, <1>10, StoresFacts
  <2> HIDE DEF v
  <2>2. \A s \in Elements : flow_map[s].key = flow_map[v].key /\ flow_map[s].key # Free => s = v
    BY <1>1, <2>1 DEF MapOK
  <2>3. \A s \in Elements : flow_map'[s].key \in counted' /\ flow_map'[s].key # Free =>
           flow_map'[s].bytes["bytes_sent"] > 0
    BY <1>2, <2>1, <2>2
  <2>4. \A k \in counted' : k # Free => \E s \in Elements : flow_map'[s].key = k
    BY <1>2, <2>1
  <2> QED BY <1>3, <2>3, <2>4
<1>11. ASSUME NEW c \in Cpus, SendGivesUp(c) \/ Stamps(c) PROVE CountedOK'
  BY <1>4, <1>11, QuietReturns DEF history
<1>12. ASSUME NEW c \in Cpus, Deletes(c) PROVE CountedOK'
  <2> DEFINE e == [key |-> Free, bytes |-> Empty]
  <2>1. /\ counted' = counted \ {cpu[c].key}
        /\ \A s \in Elements : flow_map'[s] = IF flow_map[s].key = cpu[c].key THEN e ELSE flow_map[s]
    BY <1>12, DeletesFacts
  <2>2. e.key = Free
    OBVIOUS
  <2> HIDE DEF e
  <2> QED BY <1>2, <1>3, <2>1, <2>2
<1>13. CASE UNCHANGED vars
  BY <1>4, <1>13 DEF vars, history
<1> QED BY <1>5, <1>6, <1>7, <1>8, <1>9, <1>10, <1>11, <1>12, <1>13 DEF Next, Kernel, Probe

(***************************************************************************)
(* Probes of one key that do not overlap.                                  *)
(***************************************************************************)
\* Once probes of a key have overlapped, this is not forgotten.
LEMMA SerialKept == ASSUME TypeInv, [Next]_vars, serial' PROVE serial
<1>1. ASSUME NEW t \in Ports, Establish(t) \/ Accept(t) \/ SilentClose(t) PROVE serial' = serial
  BY <1>1, KernelQuiet
<1>2. ASSUME NEW c \in Cpus, NEW p \in Pids, NEW t \in Ports,
             \/ \E bound \in BOOLEAN : Connect(c, p, t, bound)
             \/ \E f \in Fields : Transfer(c, p, t, f)
             \/ Done(c, p, t)
      PROVE  serial
  <2>1. serial' = (serial /\ Active(cpu'[c].key) = {})
    BY <1>2, KernelEnters
  <2> QED BY <2>1, Zenon
<1>3. ASSUME NEW c \in Cpus, Probe(c) PROVE serial' = serial
  <2>1. CASE Found(c) \/ Loads(c) \/ Emits(c)
    BY <2>1, FoundFacts, LoadsFacts, EmitsFacts DEF history
  <2>2. CASE NotFound(c) \/ SendInserts(c) \/ Stores(c) \/ Deletes(c)
    BY <2>2, NotFoundFacts, InsertsFacts, StoresFacts, DeletesFacts
  <2>3. CASE SendGivesUp(c) \/ Stamps(c)
    BY <2>3, QuietReturns DEF history
  <2> QED BY <1>3, <2>1, <2>2, <2>3 DEF Probe
<1>4. CASE UNCHANGED vars
  BY <1>4 DEF vars, history
<1> QED BY <1>1, <1>2, <1>3, <1>4 DEF Next, Kernel

\* A probe that begins is alone with its key, as long as the history is serial.
LEMMA EntersAlone ==
    ASSUME TypeInv, serial', NEW c \in Cpus, NEW p \in Pids, NEW t \in Ports,
           \/ \E bound \in BOOLEAN : Connect(c, p, t, bound)
           \/ \E f \in Fields : Transfer(c, p, t, f)
           \/ Done(c, p, t)
    PROVE  \A d \in Cpus : cpu[d].key # cpu'[c].key
<1>1. serial' = (serial /\ Active(cpu'[c].key) = {})
  BY KernelEnters
<1>2. Active(cpu'[c].key) = {}
  BY <1>1, Zenon
<1> QED BY <1>2 DEF Active

\* A step leaves each probe that runs alone with its key.
LEMMA AloneStep == ASSUME TypeInv, Alone, [Next]_vars, serial' PROVE Alone'
<1>1. \A d, e \in Cpus : cpu[d].key = cpu[e].key /\ cpu[d].key # Free => d = e
  BY DEF Alone
<1>2. ASSUME NEW t \in Ports, Establish(t) \/ Accept(t) \/ SilentClose(t) PROVE Alone'
  <2>1. cpu' = cpu
    BY <1>2, KernelQuiet
  <2> QED BY <1>1, <2>1 DEF Alone
<1>3. ASSUME NEW c \in Cpus, NEW p \in Pids, NEW t \in Ports,
             \/ \E bound \in BOOLEAN : Connect(c, p, t, bound)
             \/ \E f \in Fields : Transfer(c, p, t, f)
             \/ Done(c, p, t)
      PROVE  Alone'
  <2>1. Others(c) /\ \A d \in Cpus : cpu[d].key # cpu'[c].key
    BY <1>3, KernelEnters, EntersAlone
  <2>2. \A d, e \in Cpus : cpu'[d].key = cpu'[e].key /\ cpu'[d].key # Free => d = e
    BY <1>1, <2>1 DEF Others
  <2> QED BY <2>2 DEF Alone
<1>4. ASSUME NEW c \in Cpus, Probe(c) PROVE Alone'
  <2>1. Continues(c)
    BY <1>4, ProbeFacts
  <2>2. Idle.key = Free
    BY DEF Idle
  <2>3. \A d \in Cpus : cpu'[d].key = cpu[d].key \/ cpu'[d].key = Free
    BY <2>1, <2>2 DEF Continues, Others, SameProbe
  <2>4. \A d, e \in Cpus : cpu'[d].key = cpu'[e].key /\ cpu'[d].key # Free => d = e
    BY <1>1, <2>3
  <2> QED BY <2>4 DEF Alone
<1>5. CASE UNCHANGED vars
  BY <1>1, <1>5 DEF Alone, vars
<1> QED BY <1>2, <1>3, <1>4, <1>5 DEF Next, Kernel

\* The elements of other keys change neither their key nor their bytes.
LEMMA HoldsOthers ==
    ASSUME TypeInv, Alone, NEW c \in Cpus, cpu[c] # Idle, NEW d \in Cpus, d # c, Others(c),
           Holds(d), full => full',
           \A s \in Elements : flow_map[s].key \notin {Free, cpu[c].key} => flow_map'[s] = flow_map[s]
    PROVE  Holds(d)'
<1>1. CpuOK /\ MapOK /\ cpu'[d] = cpu[d]
  BY DEF TypeInv, Others
<1>2. CASE cpu[d] = Idle
  <2>1. cpu'[d].at = "idle"
    BY <1>1, <1>2 DEF Idle
  <2> QED BY <2>1 DEF Holds
<1>3. CASE cpu[d] # Idle
  <2>1. cpu[d].key \notin {Free, cpu[c].key} /\ cpu[d].key \in Keys
    BY <1>1, <1>3, CpuFacts DEF Alone
  <2>2. \A s \in Elements : flow_map[s].key = cpu[d].key => flow_map'[s] = flow_map[s]
    BY <2>1
  <2>3. cpu[d].at \in {"use", "store", "delete"} =>
           /\ cpu[d].val \in Elements /\ flow_map[cpu[d].val].key = cpu[d].key
           /\ flow_map'[cpu[d].val] = flow_map[cpu[d].val]
    BY <1>1, <2>2 DEF CpuOK, Holds
  <2>4. cpu[d].at = "again" /\ ~full' => Entries(cpu[d].key)' # {}
    <3> SUFFICES ASSUME cpu[d].at = "again", ~full'
                 PROVE  \E s \in Elements : flow_map'[s].key = cpu'[d].key
      BY DEF Entries
    <3>1. PICK s \in Elements : flow_map[s].key = cpu[d].key
      BY DEF Holds, Entries
    <3> QED BY <1>1, <2>2, <3>1
  <2> QED BY <1>1, <2>3, <2>4 DEF Holds
<1> QED BY <1>2, <1>3

\* A step leaves each probe with the entry of its own key.
LEMMA HoldsStep ==
    ASSUME TypeInv, Alone, HoldsOwn, [Next]_vars
    PROVE  HoldsOwn'
<1>1. CpuOK /\ MapOK /\ EnvOK
  BY DEF TypeInv
<1>2. SUFFICES ASSUME NEW d \in Cpus, Holds(d) PROVE Holds(d)'
  BY DEF HoldsOwn
<1>3. Idle.at = "idle"
  BY DEF Idle
<1>4. ASSUME cpu'[d] = cpu[d], UNCHANGED <<flow_map, full>> PROVE Holds(d)'
  BY <1>2, <1>4 DEF Holds, Entries
<1>5. ASSUME cpu'[d].at \in {"idle", "lookup", "insert"} PROVE Holds(d)'
  BY <1>5 DEF Holds
<1>6. ASSUME NEW t \in Ports, Establish(t) \/ Accept(t) \/ SilentClose(t) PROVE Holds(d)'
  BY <1>4, <1>6, KernelQuiet
<1>7. ASSUME NEW c \in Cpus, NEW p \in Pids, NEW t \in Ports,
             \/ \E bound \in BOOLEAN : Connect(c, p, t, bound)
             \/ \E f \in Fields : Transfer(c, p, t, f)
             \/ Done(c, p, t)
      PROVE  Holds(d)'
  <2>1. Others(c) /\ cpu'[c].at = "lookup" /\ UNCHANGED <<flow_map, full>>
    BY <1>7, KernelEnters
  <2> QED BY <1>4, <1>5, <2>1 DEF Others
<1>8. ASSUME NEW c \in Cpus, Found(c) PROVE Holds(d)'
  <2>1. /\ Others(c) /\ SameProbe(c) /\ cpu'[c].at = "use" /\ flow_map[cpu'[c].val].key = cpu[c].key
        /\ UNCHANGED <<flow_map, full>>
    BY <1>8, FoundFacts DEF history
  <2>2. CASE d = c
    BY <2>1, <2>2 DEF Holds, SameProbe
  <2>3. CASE d # c
    BY <1>4, <2>1, <2>3 DEF Others
  <2> QED BY <2>2, <2>3
<1>9. ASSUME NEW c \in Cpus, Loads(c) PROVE Holds(d)'
  <2>1. /\ Others(c) /\ SameProbe(c) /\ cpu[c].at = "use" /\ cpu'[c].at = "store"
        /\ cpu'[c].val = cpu[c].val /\ cpu'[c].reg = flow_map[cpu[c].val].bytes[cpu[c].op]
        /\ UNCHANGED <<flow_map, full>>
    BY <1>9, LoadsFacts DEF history
  <2>2. CASE d = c
    BY <1>2, <2>1, <2>2 DEF Holds, SameProbe
  <2>3. CASE d # c
    BY <1>4, <2>1, <2>3 DEF Others
  <2> QED BY <2>2, <2>3
<1>10. ASSUME NEW c \in Cpus, Emits(c) PROVE Holds(d)'
  <2>1. /\ Others(c) /\ SameProbe(c) /\ cpu[c].at = "use" /\ cpu'[c].at = "delete"
        /\ cpu'[c].val = cpu[c].val /\ UNCHANGED <<flow_map, full>>
    BY <1>10, EmitsFacts DEF history
  <2>2. CASE d = c
    BY <1>2, <2>1, <2>2 DEF Holds, SameProbe
  <2>3. CASE d # c
    BY <1>4, <2>1, <2>3 DEF Others
  <2> QED BY <2>2, <2>3
<1>11. ASSUME NEW c \in Cpus, NotFound(c) PROVE Holds(d)'
  <2>1. Others(c) /\ UNCHANGED <<flow_map, full>> /\ (cpu'[c].at = "insert" \/ cpu'[c] = Idle)
    BY <1>11, NotFoundFacts
  <2> QED BY <1>3, <1>4, <1>5, <2>1 DEF Others
<1>12. ASSUME NEW c \in Cpus, SendInserts(c) PROVE Holds(d)'
  <2>1. /\ Others(c) /\ SameProbe(c) /\ cpu[c] # Idle /\ cpu'[c].at = "again"
        /\ full' = (full \/ Entries(cpu[c].key) \cup Entries(Free) = {})
    BY <1>12, InsertsFacts DEF SameProbe
  <2>2. full => full'
    BY <2>1, Zenon
  <2>3. ~full' => Entries(cpu[c].key) \cup Entries(Free) # {}
    BY <2>1, Zenon
  <2>4. CASE flow_map' = flow_map /\ (Entries(cpu[c].key) # {} \/ Entries(Free) = {})
    <3>1. CASE d = c
      BY <2>1, <2>3, <2>4, <3>1 DEF Holds, Entries, SameProbe
    <3>2. CASE d # c
      BY <1>2, <2>1, <2>2, <2>4, <3>2, HoldsOthers
    <3> QED BY <3>1, <3>2
  <2>5. ASSUME NEW s \in Elements, flow_map[s].key = Free,
               flow_map'[s] = [key |-> cpu[c].key, bytes |-> Empty],
               \A u \in Elements : u # s => flow_map'[u] = flow_map[u]
        PROVE  Holds(d)'
    <3>1. CASE d = c
      <4>1. flow_map'[s].key = cpu'[c].key
        BY <2>1, <2>5 DEF SameProbe
      <4> QED BY <2>1, <3>1, <4>1 DEF Holds, Entries
    <3>2. CASE d # c
      <4>1. \A u \in Elements : flow_map[u].key \notin {Free, cpu[c].key} =>
               flow_map'[u] = flow_map[u]
        BY <2>5
      <4> QED BY <1>2, <2>1, <2>2, <3>2, <4>1, HoldsOthers
    <3> QED BY <3>1, <3>2
  <2>6. \/ flow_map' = flow_map /\ (Entries(cpu[c].key) # {} \/ Entries(Free) = {})
        \/ \E s \in Elements :
              /\ flow_map[s].key = Free /\ flow_map'[s] = [key |-> cpu[c].key, bytes |-> Empty]
              /\ \A u \in Elements : u # s => flow_map'[u] = flow_map[u]
    BY <1>12, InsertsFacts
  <2> QED BY <2>4, <2>5, <2>6
<1>13. ASSUME NEW c \in Cpus, Stores(c) PROVE Holds(d)'
  <2>1. /\ Others(c) /\ cpu[c] # Idle /\ cpu'[c] = Idle /\ cpu[c].at = "store" /\ full' = full
        /\ cpu[c].val \in Elements
        /\ \A s \in Elements : s # cpu[c].val => flow_map'[s] = flow_map[s]
    BY <1>13, StoresFacts
  <2>2. flow_map[cpu[c].val].key = cpu[c].key
    BY <2>1 DEF HoldsOwn, Holds
  <2>3. CASE d = c
    BY <1>3, <1>5, <2>1, <2>3
  <2>4. CASE d # c
    BY <1>2, <2>1, <2>2, <2>4, HoldsOthers
  <2> QED BY <2>3, <2>4
<1>14. ASSUME NEW c \in Cpus, SendGivesUp(c) \/ Stamps(c) PROVE Holds(d)'
  <2>1. Others(c) /\ cpu'[c] = Idle /\ UNCHANGED <<flow_map, full>>
    BY <1>14, QuietReturns DEF history
  <2> QED BY <1>3, <1>4, <1>5, <2>1 DEF Others
<1>15. ASSUME NEW c \in Cpus, Deletes(c) PROVE Holds(d)'
  <2>1. /\ Others(c) /\ cpu[c] # Idle /\ cpu'[c] = Idle /\ full' = full
        /\ \A s \in Elements : flow_map[s].key \notin {Free, cpu[c].key} =>
              flow_map'[s] = flow_map[s]
    BY <1>15, DeletesFacts
  <2>2. CASE d = c
    BY <1>3, <1>5, <2>1, <2>2
  <2>3. CASE d # c
    BY <1>2, <2>1, <2>3, HoldsOthers
  <2> QED BY <2>2, <2>3
<1>16. CASE UNCHANGED vars
  BY <1>4, <1>16 DEF vars, history
<1> QED BY <1>6, <1>7, <1>8, <1>9, <1>10, <1>11, <1>12, <1>13, <1>14, <1>15, <1>16
        DEF Next, Kernel, Probe

(***************************************************************************)
(* The books.                                                              *)
(***************************************************************************)
\* A send or receive that runs is pending, and at most one of a key and kind.
LEMMA PendingType ==
    ASSUME NEW k, NEW f
    PROVE  /\ Pending(k, f) \in {0, 1}
           /\ \A c \in Cpus : cpu[c].key = k /\ cpu[c].op = f => Pending(k, f) = 1
           /\ (\A c \in Cpus : ~(cpu[c].key = k /\ cpu[c].op = f)) => Pending(k, f) = 0
BY DEF Pending

\* It stays pending while the probe runs,
LEMMA PendingSame ==
    ASSUME NEW c \in Cpus, SameProbe(c), Others(c), NEW k, NEW f
    PROVE  Pending(k, f)' = Pending(k, f)
<1>1. \A d \in Cpus : cpu'[d].key = cpu[d].key /\ cpu'[d].op = cpu[d].op
  BY DEF SameProbe, Others
<1> QED BY <1>1 DEF Pending

\* becomes so when a probe of no other key begins,
LEMMA PendingEnter ==
    ASSUME CpuOK, NEW c \in Cpus, cpu[c] = Idle, Others(c), NEW k \in Keys, NEW f \in Fields
    PROVE  Pending(k, f)' = IF cpu'[c].key = k /\ cpu'[c].op = f THEN 1 ELSE Pending(k, f)
<1>1. cpu[c].op # f
  BY CpuFacts DEF Fields
<1>2. \A d \in Cpus : d # c => cpu'[d].key = cpu[d].key /\ cpu'[d].op = cpu[d].op
  BY DEF Others
<1> QED BY <1>1, <1>2 DEF Pending

\* and is no longer when it returns.
LEMMA PendingReturn ==
    ASSUME CpuOK, Alone, NEW c \in Cpus, cpu[c] # Idle, cpu'[c] = Idle, Others(c),
           NEW k \in Keys, NEW f \in Fields
    PROVE  Pending(k, f)' = IF cpu[c].key = k THEN 0 ELSE Pending(k, f)
<1>1. Idle.key # k
  BY TcpFlowAssumption DEF Idle, Keys
<1>2. \A d \in Cpus : d # c => cpu'[d].key = cpu[d].key /\ cpu'[d].op = cpu[d].op
  BY DEF Others
<1>3. \A d \in Cpus : cpu[c].key = k /\ cpu[d].key = k => d = c
  BY <1>1, CpuFacts DEF Alone
<1> QED BY <1>1, <1>2, <1>3 DEF Pending

\* A key for whose entry, dues and pending probes nothing changes.
LEMMA OwesSame ==
    ASSUME TypeInv, NEW k \in Keys, Owes(k), full => full',
           \A f \in Fields : due'[k][f] = due[k][f],
           \A f \in Fields : Pending(k, f)' = Pending(k, f),
           \A s \in Elements : flow_map[s].key = k => flow_map'[s] = flow_map[s],
           \A s \in Elements : flow_map'[s].key = k => flow_map[s].key = k
    PROVE  Owes(k)'
<1>1. "bytes_sent" \in Fields
  BY DEF Fields
<1>2. Entries(k)' = {} => Entries(k) = {}
  BY DEF Entries
<1>3. \A f \in Fields : Pending(k, f)' <= due'[k][f]
  BY DEF Owes
<1>4. Entries(k)' = {} /\ ~full' => due'[k]["bytes_sent"] = Pending(k, "bytes_sent")'
  BY <1>1, <1>2 DEF Owes
<1>5. ASSUME NEW s \in Elements, flow_map'[s].key = k
      PROVE  /\ \A f \in Fields : flow_map'[s].bytes[f] + Pending(k, f)' <= due'[k][f]
             /\ ~full' => flow_map'[s].bytes["bytes_sent"] + Pending(k, "bytes_sent")'
                            = due'[k]["bytes_sent"]
             /\ flow_map'[s].bytes["bytes_sent"] = 0 => Pending(k, "bytes_sent")' = 1
  <2>1. flow_map[s].key = k /\ flow_map'[s] = flow_map[s]
    BY <1>5
  <2> QED BY <1>1, <2>1 DEF Owes
<1> QED BY <1>3, <1>4, <1>5 DEF Owes

\* A probe that is alone with its key is all that is pending of it.
LEMMA PendingOwn ==
    ASSUME CpuOK, Alone, NEW c \in Cpus, cpu[c] # Idle, NEW f
    PROVE  Pending(cpu[c].key, f) = IF cpu[c].op = f THEN 1 ELSE 0
<1>1. \A d \in Cpus : cpu[d].key = cpu[c].key => d = c
  BY CpuFacts DEF Alone
<1> QED BY <1>1 DEF Pending

\* A send or receive begins: one more is owed, and one more is pending.
LEMMA OwesEnter ==
    ASSUME TypeInv, serial', NEW k \in Keys, Owes(k), NEW c \in Cpus, NEW p \in Pids, NEW t \in Ports,
           \/ \E bound \in BOOLEAN : Connect(c, p, t, bound)
           \/ \E f \in Fields : Transfer(c, p, t, f)
           \/ Done(c, p, t)
    PROVE  Owes(k)'
<1>1. CpuOK /\ MapOK /\ EnvOK /\ "bytes_sent" \in Fields
  BY DEF TypeInv, Fields
<1>2. /\ Others(c) /\ cpu[c] = Idle /\ cpu'[c].key \in Keys /\ UNCHANGED <<flow_map, full>>
      /\ \A d \in Cpus : cpu[d].key # cpu'[c].key
  BY KernelEnters, EntersAlone
<1>3. /\ full => full'
      /\ \A s \in Elements : flow_map'[s] = flow_map[s]
      /\ Entries(k)' = Entries(k)
  BY <1>2 DEF Entries
<1>4. \A f \in Fields :
         Pending(k, f)' = IF cpu'[c].key = k /\ cpu'[c].op = f THEN 1 ELSE Pending(k, f)
  BY <1>1, <1>2, PendingEnter
<1>5. CASE UNCHANGED <<probes, due>> /\ cpu'[c].op \notin Fields
  <2>1. \A f \in Fields : Pending(k, f)' = Pending(k, f) /\ due'[k][f] = due[k][f]
    BY <1>4, <1>5
  <2> QED BY <1>3, <2>1, OwesSame
<1>6. CASE cpu'[c].op \in Fields /\ due' = [due EXCEPT ![cpu'[c].key][cpu'[c].op] = @ + 1]
  <2> DEFINE g == cpu'[c].op
             j == cpu'[c].key
  <2>1. \A f \in Fields : due'[k][f] = IF k = j /\ f = g THEN due[j][g] + 1 ELSE due[k][f]
    BY <1>1, <1>2, <1>6, DueAdds
  <2>2. \A f \in Fields : Pending(k, f)' = IF k = j /\ f = g THEN 1 ELSE Pending(k, f)
    BY <1>4
  <2>3. CASE k # j
    BY <1>3, <2>1, <2>2, <2>3, OwesSame
  <2>4. CASE k = j
    <3>1. \A f \in Fields : Pending(k, f) = 0
      BY <1>2, <2>4, PendingType
    <3>2. \A f \in Fields : /\ due'[k][f] = due[k][f] + Pending(k, f)'
                            /\ Pending(k, f)' \in {0, 1}
                            /\ due[k][f] \in Nat
      BY <1>1, <2>1, <2>2, <2>4, <3>1 DEF EnvOK
    <3> HIDE DEF g, j
    <3>3. \A f \in Fields : Pending(k, f)' <= due'[k][f]
      BY <3>2
    <3>4. Entries(k)' = {} /\ ~full' => due'[k]["bytes_sent"] = Pending(k, "bytes_sent")'
      BY <1>1, <1>2, <1>3, <3>1, <3>2 DEF Owes
    <3>5. ASSUME NEW s \in Elements, flow_map'[s].key = k
          PROVE  /\ \A f \in Fields : flow_map'[s].bytes[f] + Pending(k, f)' <= due'[k][f]
                 /\ ~full' => flow_map'[s].bytes["bytes_sent"] + Pending(k, "bytes_sent")'
                                = due'[k]["bytes_sent"]
                 /\ flow_map'[s].bytes["bytes_sent"] = 0 => Pending(k, "bytes_sent")' = 1
      <4>1. /\ flow_map'[s] = flow_map[s] /\ flow_map[s].key = k
            /\ \A f \in Fields : flow_map[s].bytes[f] \in Nat
        BY <1>1, <1>3, <3>5 DEF MapOK
      <4>2. /\ \A f \in Fields : flow_map[s].bytes[f] + 0 <= due[k][f]
            /\ ~full => flow_map[s].bytes["bytes_sent"] + 0 = due[k]["bytes_sent"]
            /\ flow_map[s].bytes["bytes_sent"] # 0
        BY <1>1, <3>1, <4>1 DEF Owes
      <4>3. \A f \in Fields : flow_map'[s].bytes[f] + Pending(k, f)' <= due'[k][f]
        BY <3>2, <4>1, <4>2
      <4>4. ~full' => flow_map'[s].bytes["bytes_sent"] + Pending(k, "bytes_sent")'
                        = due'[k]["bytes_sent"]
        BY <1>1, <1>2, <3>2, <4>1, <4>2
      <4> QED BY <4>1, <4>2, <4>3, <4>4
    <3> QED BY <3>3, <3>4, <3>5 DEF Owes
  <2> QED BY <2>3, <2>4
<1>7. \/ UNCHANGED <<probes, due>> /\ cpu'[c].op \notin Fields
      \/ cpu'[c].op \in Fields /\ due' = [due EXCEPT ![cpu'[c].key][cpu'[c].op] = @ + 1]
  <2>1. "syn" \notin Fields /\ "done" \notin Fields
    BY DEF Fields
  <2> QED BY <2>1, KernelEnters DEF envVars
<1> QED BY <1>5, <1>6, <1>7

\* The probe of a key returns without an entry: what it owed is lost only if the map was full.
LEMMA OwesNone ==
    ASSUME TypeInv, NEW k \in Keys, Entries(k)' = {},
           \A f \in Fields : Pending(k, f)' = 0 /\ due'[k][f] \in Nat,
           ~full' => due'[k]["bytes_sent"] = 0
    PROVE  Owes(k)'
<1>1. "bytes_sent" \in Fields
  BY DEF Fields
<1>2. \A s \in Elements : flow_map'[s].key # k
  BY DEF Entries
<1> QED BY <1>1, <1>2 DEF Owes

\* An insertion of the send of k itself: the entry is empty, and the send is pending.
LEMMA OwesInserts ==
    ASSUME TypeInv, Alone, NEW k \in Keys, Owes(k), NEW c \in Cpus, SendInserts(c)
    PROVE  Owes(k)'
<1>1. CpuOK /\ MapOK /\ EnvOK /\ "bytes_sent" \in Fields /\ k # Free
  BY TcpFlowAssumption DEF TypeInv, Fields, Keys
<1>2. /\ Others(c) /\ SameProbe(c) /\ cpu[c] # Idle /\ cpu[c].op = "bytes_sent" /\ due' = due
      /\ full' = (full \/ Entries(cpu[c].key) \cup Entries(Free) = {})
  BY InsertsFacts DEF SameProbe
<1>3. full => full'
  BY <1>2, Zenon
<1>4. \A f \in Fields : Pending(k, f)' = Pending(k, f) /\ due'[k][f] = due[k][f]
  BY <1>2, PendingSame
<1>5. CASE flow_map' = flow_map
  BY <1>3, <1>4, <1>5, OwesSame
<1>6. CASE flow_map' # flow_map
  <2> DEFINE e == [key |-> cpu[c].key, bytes |-> Empty]
  <2>1. PICK s \in Elements : /\ Entries(cpu[c].key) = {} /\ flow_map[s].key = Free
                              /\ flow_map'[s] = e
                              /\ \A u \in Elements : u # s => flow_map'[u] = flow_map[u]
    BY <1>6, InsertsFacts
  <2>2. e.key = cpu[c].key /\ \A f \in Fields : e.bytes[f] = 0
    BY DEF Empty
  <2> HIDE DEF e
  <2>3. CASE k # cpu[c].key
    BY <1>1, <1>3, <1>4, <2>1, <2>2, <2>3, OwesSame
  <2>4. CASE k = cpu[c].key
    <3>1. Entries(k)' # {}
      BY <2>1, <2>2, <2>4 DEF Entries
    <3>2. \A u \in Elements : flow_map'[u].key = k => u = s
      BY <2>1, <2>4 DEF Entries
    <3>3. Pending(k, "bytes_sent")' = 1
      BY <1>1, <1>2, <1>4, <2>4, PendingOwn
    <3>4. /\ \A f \in Fields : Pending(k, f)' <= due'[k][f]
          /\ ~full' => due'[k]["bytes_sent"] = Pending(k, "bytes_sent")'
      BY <1>1, <1>3, <1>4, <2>1, <2>4 DEF Owes
    <3>5. \A f \in Fields : flow_map'[s].bytes[f] = 0 /\ Pending(k, f)' \in {0, 1}
      BY <1>4, <2>1, <2>2, PendingType
    <3>6. \A u \in Elements : flow_map'[u].key = k =>
             /\ \A f \in Fields : flow_map'[u].bytes[f] + Pending(k, f)' <= due'[k][f]
             /\ ~full' => flow_map'[u].bytes["bytes_sent"] + Pending(k, "bytes_sent")'
                            = due'[k]["bytes_sent"]
             /\ flow_map'[u].bytes["bytes_sent"] = 0 => Pending(k, "bytes_sent")' = 1
      BY <1>1, <3>2, <3>3, <3>4, <3>5
    <3> QED BY <3>1, <3>4, <3>6 DEF Owes
  <2> QED BY <2>3, <2>4
<1> QED BY <1>5, <1>6

\* A store: what was pending is now in the entry.
LEMMA OwesStores ==
    ASSUME TypeInv, Alone, HoldsOwn, NEW k \in Keys, Owes(k), NEW c \in Cpus, Stores(c)
    PROVE  Owes(k)'
<1>1. CpuOK /\ MapOK /\ EnvOK /\ "bytes_sent" \in Fields /\ k # Free
  BY TcpFlowAssumption DEF TypeInv, Fields, Keys
<1> DEFINE v == cpu[c].val
           g == cpu[c].op
<1>2. /\ Others(c) /\ cpu[c] # Idle /\ cpu'[c] = Idle /\ g \in Fields /\ cpu[c].at = "store"
      /\ v \in Elements /\ UNCHANGED <<due, full>>
      /\ \A s \in Elements : flow_map'[s].key = flow_map[s].key
      /\ \A s \in Elements : s # v => flow_map'[s] = flow_map[s]
      /\ \A f \in Fields :
            flow_map'[v].bytes[f] = IF f = g THEN cpu[c].reg + 1 ELSE flow_map[v].bytes[f]
  BY StoresFacts
<1>3. flow_map[v].key = cpu[c].key /\ cpu[c].reg = flow_map[v].bytes[g]
  BY <1>2 DEF HoldsOwn, Holds
<1>4. \A f \in Fields : Pending(k, f)' = IF cpu[c].key = k THEN 0 ELSE Pending(k, f)
  BY <1>1, <1>2, PendingReturn
<1>5. Entries(k)' = Entries(k)
  BY <1>2 DEF Entries
<1>6. CASE k # cpu[c].key
  BY <1>2, <1>3, <1>4, <1>6, OwesSame
<1>7. CASE k = cpu[c].key
  <2>1. \A f \in Fields : Pending(k, f) = IF f = g THEN 1 ELSE 0
    BY <1>1, <1>2, <1>7, PendingOwn
  <2>2. \A f \in Fields : /\ flow_map[v].bytes[f] \in Nat /\ due[k][f] \in Nat
                          /\ flow_map'[v].bytes[f] = flow_map[v].bytes[f] + Pending(k, f)
    BY <1>1, <1>2, <1>3, <2>1 DEF MapOK, EnvOK
  <2>3. \A s \in Elements : flow_map'[s].key = k => s = v
    BY <1>1, <1>2, <1>3, <1>7 DEF MapOK
  <2>4. /\ \A f \in Fields : flow_map[v].bytes[f] + Pending(k, f) <= due[k][f]
        /\ ~full => flow_map[v].bytes["bytes_sent"] + Pending(k, "bytes_sent")
                       = due[k]["bytes_sent"]
        /\ flow_map[v].bytes["bytes_sent"] = 0 => Pending(k, "bytes_sent") = 1
    BY <1>2, <1>3, <1>7 DEF Owes
  <2>5. \A f \in Fields : Pending(k, f)' = 0 /\ due'[k][f] = due[k][f] /\ Pending(k, f) \in {0, 1}
    BY <1>2, <1>4, <1>7, <2>1
  <2>6. Entries(k)' # {}
    BY <1>2, <1>3, <1>5, <1>7 DEF Entries
  <2> HIDE DEF v, g
  <2>7. \A s \in Elements : flow_map'[s].key = k =>
           /\ \A f \in Fields : flow_map'[s].bytes[f] + Pending(k, f)' <= due'[k][f]
           /\ ~full' => flow_map'[s].bytes["bytes_sent"] + Pending(k, "bytes_sent")'
                          = due'[k]["bytes_sent"]
           /\ flow_map'[s].bytes["bytes_sent"] = 0 => Pending(k, "bytes_sent")' = 1
    BY <1>1, <1>2, <2>2, <2>3, <2>4, <2>5
  <2>8. \A f \in Fields : Pending(k, f)' <= due'[k][f]
    BY <2>2, <2>5
  <2> QED BY <2>6, <2>7, <2>8 DEF Owes
<1> QED BY <1>6, <1>7

\* A step keeps the accounts: a report takes what it owes, and a send that finds no
\* entry a second time has found the map full.
LEMMA AccountsStep ==
    ASSUME TypeInv, Alone, HoldsOwn, Accounts, [Next]_vars, serial'
    PROVE  Accounts'
<1>1. CpuOK /\ MapOK /\ EnvOK /\ "bytes_sent" \in Fields /\ TypeInv'
  BY TypeStep DEF TypeInv, Fields
<1>2. SUFFICES ASSUME NEW k \in Keys, Owes(k) PROVE Owes(k)'
  BY DEF Accounts
<1>3. ASSUME NEW t \in Ports, Establish(t) \/ Accept(t) \/ SilentClose(t) PROVE Owes(k)'
  <2>1. UNCHANGED <<flow_map, cpu, due, full>>
    BY <1>3, KernelQuiet
  <2> QED BY <1>2, <2>1 DEF Owes, Entries, Pending
<1>4. ASSUME NEW c \in Cpus, NEW p \in Pids, NEW t \in Ports,
             \/ \E bound \in BOOLEAN : Connect(c, p, t, bound)
             \/ \E f \in Fields : Transfer(c, p, t, f)
             \/ Done(c, p, t)
      PROVE  Owes(k)'
  BY <1>2, <1>4, OwesEnter
<1>5. ASSUME NEW c \in Cpus, SameProbe(c), Others(c), UNCHANGED <<flow_map, due, full>>
      PROVE  Owes(k)'
  <2>1. \A f \in Fields : Pending(k, f)' = Pending(k, f) /\ due'[k][f] = due[k][f]
    BY <1>5, PendingSame
  <2> QED BY <1>2, <1>5, <2>1, OwesSame
<1>6. ASSUME NEW c \in Cpus, cpu[c] # Idle, cpu'[c] = Idle, Others(c), UNCHANGED full,
             \A s \in Elements : flow_map[s].key = k /\ k # cpu[c].key => flow_map'[s] = flow_map[s],
             \A s \in Elements : flow_map'[s].key = k => flow_map[s].key = k,
             k # cpu[c].key => \A f \in Fields : due'[k][f] = due[k][f],
             k = cpu[c].key /\ ~full' => due'[k]["bytes_sent"] = 0,
             k = cpu[c].key => Entries(k)' = {}
      PROVE  Owes(k)'
  <2>1. \A f \in Fields : Pending(k, f)' = IF cpu[c].key = k THEN 0 ELSE Pending(k, f)
    BY <1>1, <1>6, PendingReturn
  <2>2. CASE k # cpu[c].key
    BY <1>2, <1>6, <2>1, <2>2, OwesSame
  <2>3. CASE k = cpu[c].key
    <3>1. \A f \in Fields : Pending(k, f)' = 0 /\ due'[k][f] \in Nat
      BY <1>1, <2>1, <2>3 DEF TypeInv, EnvOK
    <3> QED BY <1>6, <2>3, <3>1, OwesNone
  <2> QED BY <2>2, <2>3
<1>7. ASSUME NEW c \in Cpus, Found(c) \/ Loads(c) \/ Emits(c) PROVE Owes(k)'
  BY <1>5, <1>7, FoundFacts, LoadsFacts, EmitsFacts DEF history
<1>8. ASSUME NEW c \in Cpus, NotFound(c) PROVE Owes(k)'
  <2>1. /\ Others(c) /\ cpu[c] # Idle /\ Entries(cpu[c].key) = {} /\ UNCHANGED <<flow_map, full>>
    BY <1>8, NotFoundFacts
  <2>2. k = cpu[c].key => Entries(k)' = {} /\ Entries(k) = {}
    BY <2>1 DEF Entries
  <2>3. CASE cpu[c].op = "bytes_sent"
    <3>1. SameProbe(c) /\ UNCHANGED due
      BY <1>8, <2>3, NotFoundFacts
    <3> QED BY <1>5, <2>1, <3>1
  <2>4. CASE cpu[c].op = "done"
    <3>1. Ends(c) /\ cpu'[c] = Idle
      BY <1>8, <2>4, NotFoundFacts
    <3>2. /\ k # cpu[c].key => \A f \in Fields : due'[k][f] = due[k][f]
          /\ k = cpu[c].key => due'[k]["bytes_sent"] = 0
      BY <1>1, <2>1, <3>1, EndsFacts
    <3> QED BY <1>6, <2>1, <2>2, <3>1, <3>2
  <2>5. CASE cpu[c].op \in {"syn", "bytes_recv"}
    <3>1. cpu'[c] = Idle /\ UNCHANGED due
      BY <1>8, <2>5, NotFoundFacts
    <3>2. k = cpu[c].key /\ ~full' => due'[k]["bytes_sent"] = 0
      <4>1. cpu[c].op # "bytes_sent"
        BY <2>5
      <4>2. k = cpu[c].key => Pending(k, "bytes_sent") = 0
        BY <1>1, <2>1, <4>1, PendingOwn
      <4> QED BY <1>2, <2>1, <2>2, <3>1, <4>2 DEF Owes
    <3> QED BY <1>6, <2>1, <2>2, <3>1, <3>2
  <2>6. cpu[c].op \in {"bytes_sent", "done", "syn", "bytes_recv"}
    BY <1>1, <2>1, CpuFacts DEF Ops, Fields
  <2> QED BY <2>3, <2>4, <2>5, <2>6
<1>9. ASSUME NEW c \in Cpus, SendInserts(c) PROVE Owes(k)'
  BY <1>2, <1>9, OwesInserts
<1>10. ASSUME NEW c \in Cpus, Stores(c) PROVE Owes(k)'
  BY <1>2, <1>10, OwesStores
<1>11. ASSUME NEW c \in Cpus, SendGivesUp(c) PROVE Owes(k)'
  <2>1. /\ Others(c) /\ cpu[c] # Idle /\ cpu'[c] = Idle /\ UNCHANGED <<flow_map, due, full>>
        /\ cpu[c].at = "again" /\ Entries(cpu[c].key) = {}
    BY <1>11, QuietReturns DEF history, SendGivesUp, At
  <2>2. full'
    BY <2>1 DEF HoldsOwn, Holds
  <2>3. k = cpu[c].key => Entries(k)' = {}
    BY <2>1 DEF Entries
  <2> QED BY <1>6, <2>1, <2>2, <2>3
<1>12. ASSUME NEW c \in Cpus, Stamps(c) PROVE Owes(k)'
  <2>1. /\ Others(c) /\ cpu[c] # Idle /\ cpu'[c] = Idle /\ UNCHANGED <<flow_map, due, full>>
        /\ cpu[c].op = "syn"
    BY <1>12, QuietReturns DEF history, Stamps, At
  <2>2. \A f \in Fields : Pending(k, f)' = IF cpu[c].key = k THEN 0 ELSE Pending(k, f)
    BY <1>1, <2>1, PendingReturn
  <2>3. \A f \in Fields : f # "syn"
    BY DEF Fields
  <2>4. \A f \in Fields : cpu[c].key = k => Pending(k, f) = 0
    BY <1>1, <2>1, <2>3, PendingOwn
  <2>5. \A f \in Fields : Pending(k, f)' = Pending(k, f) /\ due'[k][f] = due[k][f]
    BY <2>1, <2>2, <2>4
  <2> QED BY <1>2, <2>1, <2>5, OwesSame
<1>13. ASSUME NEW c \in Cpus, Deletes(c) PROVE Owes(k)'
  <2> DEFINE e == [key |-> Free, bytes |-> Empty]
  <2>1. /\ Others(c) /\ cpu[c] # Idle /\ cpu'[c] = Idle /\ UNCHANGED full /\ Ends(c)
        /\ \A s \in Elements : flow_map'[s] = IF flow_map[s].key = cpu[c].key THEN e ELSE flow_map[s]
    BY <1>13, DeletesFacts
  <2>2. e.key # k
    BY TcpFlowAssumption DEF Keys
  <2> HIDE DEF e
  <2>3. /\ k # cpu[c].key => \A f \in Fields : due'[k][f] = due[k][f]
        /\ k = cpu[c].key => due'[k]["bytes_sent"] = 0
    BY <1>1, <2>1, EndsFacts
  <2>4. k = cpu[c].key => Entries(k)' = {}
    BY <2>1, <2>2 DEF Entries
  <2> QED BY <1>6, <2>1, <2>2, <2>3, <2>4
<1>14. CASE UNCHANGED vars
  BY <1>2, <1>14 DEF vars, history, Owes, Entries, Pending
<1> QED BY <1>3, <1>4, <1>7, <1>8, <1>9, <1>10, <1>11, <1>12, <1>13, <1>14
        DEF Next, Kernel, Probe

(***************************************************************************)
(* The theorems.                                                           *)
(***************************************************************************)
\* At first nothing runs, nothing is stored and nothing is owed.
LEMMA InitInv == Init => IndInv
<1> SUFFICES ASSUME Init PROVE IndInv
  OBVIOUS
<1>1. TypeInv
  BY InitType
<1>2. /\ \A c \in Cpus : cpu[c].op = "idle" /\ cpu[c].at = "idle" /\ cpu[c].key = Free
      /\ \A s \in Elements : flow_map[s].key = Free /\ \A f \in Fields : flow_map[s].bytes[f] = 0
      /\ \A k \in Keys, f \in Fields : due[k][f] = 0
      /\ counted = {} /\ probes = 0 /\ Free \notin Keys /\ "bytes_sent" \in Fields
  BY TcpFlowAssumption DEF Init, Idle, Empty, Keys, Fields
<1>3. \A f \in Fields : Users(f) = {} /\ \A k \in Keys : Pending(k, f) = 0
  BY <1>2 DEF Users, Pending, Fields
<1>4. Bounded
  <2>1. Cardinality({}) = 0
    BY FS_EmptySet
  <2>2. \A f \in Fields : Cardinality(Users(f)) = 0
    BY <1>3, <2>1
  <2> QED BY <1>2, <2>2 DEF Bounded
<1>5. LockOK
  BY <1>2 DEF LockOK
<1>6. LeakOK
  BY <1>2 DEF LeakOK, Entries, Sends
<1>7. CountedOK
  BY <1>2 DEF CountedOK, CountedIsKept
<1>8. Alone /\ HoldsOwn
  BY <1>2 DEF Alone, HoldsOwn, Holds
<1>9. Accounts
  BY <1>2, <1>3 DEF Accounts, Owes
<1> QED BY <1>1, <1>4, <1>5, <1>6, <1>7, <1>8, <1>9 DEF IndInv, SerialOK

\* The invariant holds throughout.
LEMMA Invariance == Spec => []IndInv
<1>1. Init => IndInv
  BY InitInv
<1>2. IndInv /\ [Next]_vars => IndInv'
  <2> SUFFICES ASSUME IndInv, [Next]_vars PROVE IndInv'
    OBVIOUS
  <2>1. TypeInv /\ Bounded /\ LockOK /\ LeakOK /\ CountedOK /\ SerialOK
    BY DEF IndInv
  <2>2. TypeInv' /\ Bounded' /\ LockOK' /\ LeakOK' /\ CountedOK'
    BY <2>1, TypeStep, BoundedStep, LockStep, LeakStep, CountedStep
  <2>3. ASSUME serial' PROVE Alone' /\ HoldsOwn' /\ Accounts'
    <3>1. Alone /\ HoldsOwn /\ Accounts
      BY <2>1, <2>3, SerialKept DEF SerialOK
    <3> QED BY <2>1, <2>3, <3>1, AloneStep, HoldsStep, AccountsStep
  <2> QED BY <2>2, <2>3 DEF IndInv, SerialOK
<1> QED BY <1>1, <1>2, PTL DEF Spec

\* TypeOK: counters stay within the number of probes, whatever updates are lost
\* between CPUs, and flow_map never has two entries of one key.
THEOREM TypeCorrect == Spec => []TypeOK
<1>1. IndInv => TypeOK
  <2> SUFFICES ASSUME IndInv PROVE TypeOK
    OBVIOUS
  <2>1. CpuOK /\ MapOK /\ EnvOK /\ Bounded /\ MaxProbes \in Nat
    BY TcpFlowAssumption DEF IndInv, TypeInv
  <2>2. \A s \in Elements : flow_map[s].key \in Keys \cup {Free}
                            /\ flow_map[s].bytes \in [Fields -> 0..MaxProbes]
    <3>1. \A s \in Elements, f \in Fields : flow_map[s].bytes[f] \in 0..MaxProbes
      BY <2>1, UsersFinite DEF Bounded, MapOK, EnvOK
    <3> QED BY <2>1, <3>1 DEF MapOK
  <2>3. due \in [Keys -> [Fields -> 0..MaxProbes]]
    BY <2>1 DEF Bounded, EnvOK
  <2>4. \A k \in Keys : Cardinality(Entries(k)) <= 1
    <3> SUFFICES ASSUME NEW k \in Keys PROVE Cardinality(Entries(k)) <= 1
      OBVIOUS
    <3>1. k # Free
      BY TcpFlowAssumption DEF Keys
    <3>2. CASE Entries(k) = {}
      BY <3>2, FS_EmptySet
    <3>3. ASSUME NEW s \in Entries(k) PROVE Cardinality(Entries(k)) <= 1
      <4>1. Entries(k) = {s}
        BY <2>1, <3>1, <3>3 DEF Entries, MapOK
      <4> QED BY <4>1, FS_Singleton
    <3> QED BY <3>2, <3>3
  <2>5. \A c \in Cpus : cpu[c] # Idle => cpu[c].key \in Keys /\ cpu[c].port \in Ports
    BY <2>1, CpuFacts
  <2>6. {serial, full} \subseteq BOOLEAN
    BY <2>1, Zenon DEF EnvOK
  <2>7. counted \cup excused \subseteq Keys \cup {Free}
    BY <2>1 DEF EnvOK
  <2> QED BY <2>1, <2>2, <2>3, <2>4, <2>5, <2>6, <2>7 DEF TypeOK, EnvOK
<1> QED BY <1>1, Invariance, PTL

\* SerialReportsExact: as long as no two probes of one key have overlapped, emit_flow
\* reports the bytes of its own key, never too many, and all that were sent unless an
\* insertion into flow_map has failed.
THEOREM SerialReports == Spec => []SerialReportsExact
<1>1. IndInv => SerialReportsExact
  <2> SUFFICES ASSUME IndInv, NEW c \in Cpus, serial, cpu[c].op = "done", cpu[c].at = "use"
               PROVE  LET has == flow_map[cpu[c].val].bytes
                          owed == due[cpu[c].key]
                      IN  /\ has["bytes_sent"] \in 1..owed["bytes_sent"]
                          /\ ~full => has["bytes_sent"] = owed["bytes_sent"]
                          /\ has["bytes_recv"] <= owed["bytes_recv"]
    BY DEF SerialReportsExact, At
  <2>1. /\ CpuOK /\ MapOK /\ EnvOK /\ Alone /\ HoldsOwn /\ Accounts
        /\ "bytes_sent" \in Fields /\ "bytes_recv" \in Fields
    BY DEF IndInv, TypeInv, SerialOK, Fields
  <2> DEFINE k == cpu[c].key
             v == cpu[c].val
  <2>2. cpu[c] # Idle /\ k \in Keys /\ v \in Elements /\ flow_map[v].key = k
    BY <2>1, AtRuns DEF CpuOK, HoldsOwn, Holds
  <2>3. Pending(k, "bytes_sent") = 0 /\ Pending(k, "bytes_recv") = 0
    BY <2>1, <2>2, PendingOwn
  <2>4. \A f \in Fields : flow_map[v].bytes[f] \in Nat /\ due[k][f] \in Nat
    BY <2>1, <2>2 DEF MapOK, EnvOK
  <2> HIDE DEF k, v
  <2>5. /\ \A f \in Fields : flow_map[v].bytes[f] + Pending(k, f) <= due[k][f]
        /\ ~full => flow_map[v].bytes["bytes_sent"] + Pending(k, "bytes_sent")
                       = due[k]["bytes_sent"]
        /\ flow_map[v].bytes["bytes_sent"] = 0 => Pending(k, "bytes_sent") = 1
    BY <2>1, <2>2 DEF Accounts, Owes
  <2>6. /\ flow_map[v].bytes["bytes_sent"] \in 1..due[k]["bytes_sent"]
        /\ ~full => flow_map[v].bytes["bytes_sent"] = due[k]["bytes_sent"]
        /\ flow_map[v].bytes["bytes_recv"] <= due[k]["bytes_recv"]
    BY <2>1, <2>3, <2>4, <2>5
  <2> QED BY <2>6 DEF k, v
<1> QED BY <1>1, Invariance, PTL

\* CountedIsKept: of several CPUs that find no entry for a key, none resets what another
\* has added, since the insertion has BPF_NOEXIST.
THEOREM CountedKept == Spec => []CountedIsKept
<1>1. IndInv => CountedIsKept
  BY DEF IndInv, CountedOK
<1> QED BY <1>1, Invariance, PTL

\* LeakNeedsForeignEnd: an entry that outlives its connection was left by an end in
\* another process's context, by one without tcp_done, or by a send that was not over
\* then or began later.
THEOREM LeaksExplained == Spec => []LeakNeedsForeignEnd
<1>1. IndInv => LeakNeedsForeignEnd
  <2> SUFFICES ASSUME IndInv, NEW s \in Elements, flow_map[s].key # Free,
                      LET k == flow_map[s].key
                      IN  k[2] = NoPort \/ conn[k[2]].st \in {"none", "ended"}
               PROVE  flow_map[s].key \in excused
    BY DEF LeakNeedsForeignEnd
  <2> DEFINE k == flow_map[s].key
  <2>1. LeakOK /\ k \in Keys
    BY DEF IndInv, TypeInv, MapOK
  <2>2. Gone(k) /\ Entries(k) # {}
    BY DEF Gone, Entries
  <2> QED BY <2>1, <2>2 DEF LeakOK
<1> QED BY <1>1, Invariance, PTL
=============================================================================
