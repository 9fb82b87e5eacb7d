------------------------ MODULE MonitorPusherProofs ------------------------
(***************************************************************************)
(* Proofs about MonitorPusher, for any CPUs, ring sizes and numbers of     *)
(* records: each record is applied at most once, records of a program and  *)
(* CPU are acknowledged in their order, and the composition of collector,  *)
(* push loop and manager implements EventFeed.                             *)
(***************************************************************************)
EXTENDS MonitorPusher, SequenceLemmas

(***************************************************************************)
(* The inductive invariant.  A record passes through ring, list, request   *)
(* and acked.  All records of one origin that are further along are older, *)
(* which also says that no record is in two places.                        *)
(***************************************************************************)
Older(A, B) == \A e \in A, f \in B : origin[e] = origin[f] => e < f

RingSet(k, c) == ToSet(rings[k][c])
ListSet(k) == ToSet(events[k])

InItsPlace ==
    \A k \in Kinds :
        /\ \A e \in ListSet(k) : origin[e][1] = k
        /\ \A c \in Cpus : \A e \in RingSet(k, c) : origin[e] = <<k, c>>

EachSorted ==
    /\ Sorted(acked)
    /\ Sorted(request)
    /\ \A k \in Kinds : Sorted(events[k]) /\ \A c \in Cpus : Sorted(rings[k][c])

Pipeline ==
    /\ Older(ToSet(acked), ToSet(request))
    /\ \A k \in Kinds :
          /\ Older(ToSet(acked), ListSet(k))
          /\ Older(ToSet(request), ListSet(k))
          /\ \A c \in Cpus :
                /\ Older(ToSet(acked), RingSet(k, c))
                /\ Older(ToSet(request), RingSet(k, c))
                /\ \A l \in Kinds : Older(ListSet(l), RingSet(k, c))

LostApart ==
    /\ lost \cap Waiting = {}
    /\ lost \cap ToSet(acked) = {}

\* Handlers have the request of the call that waits, or one that was given up.
HandlersApart ==
    \A r \in handlers :
        /\ IsInjective(r)
        /\ ToSet(r) \cap ToSet(applied) = {}
        /\ ToSet(r) \subseteq lost \/ (lpc = "wait" /\ r = request)
        /\ \A s \in handlers : s # r => ToSet(s) \cap ToSet(r) = {}

AppliedKnown ==
    /\ ToSet(applied) \subseteq ToSet(acked) \cup ToSet(request) \cup lost
    /\ lpc = "call" => ToSet(applied) \cap ToSet(request) = {}

OrderKept ==
    lpc = "wait" /\ ToSet(request) \subseteq ToSet(applied) =>
        AppliedInOrder(acked \o request)

\* Types; and push_loop runs only once Run has started it.
ControlOK ==
    /\ mpc \in {"connect", "init", "run", "poll", "join", "done"}
    /\ {signalled, running, stub, mgrUp} \subseteq BOOLEAN
    /\ lpc \in Kinds \cup {"off", "test", "collect", "copy", "call", "wait", "sleep", "ended"}
    /\ mpc \in {"connect", "init", "run"} => lpc = "off"

DataOK ==
    /\ request \in Seq(Records) /\ applied \in Seq(Records) /\ acked \in Seq(Records)
    /\ request # <<>> => lpc \in {"call", "wait"}
    /\ handlers \subseteq Seq(Records)

TypeInv == ObserveTypeOK /\ ControlOK /\ DataOK

PlaceInv == InItsPlace /\ EachSorted /\ Pipeline /\ LostApart
ManagerInv ==
    /\ AppliedAtMostOnce /\ HandlersApart /\ AppliedKnown
    /\ ToSet(acked) \subseteq ToSet(applied) /\ AppliedInOrder(acked) /\ OrderKept
IndInv == TypeInv /\ PlaceInv /\ ManagerInv

(***************************************************************************)
(* Types.                                                                  *)
(***************************************************************************)
\* The invariant has the types that the model states.
LEMMA TypeFromInv == TypeInv => TypeOK
BY DEF TypeInv, TypeOK, ControlOK, DataOK

\* The worker starts with nothing loaded and nothing collected.
LEMMA InitType == Init => TypeInv
<1> SUFFICES ASSUME Init PROVE TypeInv
  OBVIOUS
<1>1. Records = {} /\ Len(origin) = 0 /\ origin \in Seq(Kinds \X Cpus) /\ <<>> \in Seq(Records)
  BY EmptySeq, LenProperties DEF Init, ObserveInit, Records
<1>2. ObserveTypeOK
  BY <1>1, ObserveAssumption, EmptySeq DEF Init, ObserveInit, ObserveTypeOK, Stages
<1>3. ControlOK
  BY Zenon DEF Init, ControlOK
<1>4. DataOK
  BY <1>1 DEF Init, DataOK
<1> QED BY <1>2, <1>3, <1>4 DEF TypeInv

\* bpf_perf_event_output, in terms of the sets that the invariant speaks of.
LEMMA OutputFacts ==
    ASSUME ObserveTypeOK, NEW k \in Kinds, NEW c \in Cpus, Output(k, c)
    PROVE  LET e == Len(origin) + 1
           IN  /\ origin' \in Seq(Kinds \X Cpus) /\ Len(origin') = e
               /\ Records' = Records \cup {e} /\ e \notin Records
               /\ \A x \in Records : x \in Int /\ x < e /\ origin'[x] = origin[x]
               /\ origin'[e] = <<k, c>>
<1>1. origin \in Seq(Kinds \X Cpus) /\ <<k, c>> \in Kinds \X Cpus
  BY DEF ObserveTypeOK
<1>2. Len(origin) \in Nat /\ DOMAIN origin = 1..Len(origin)
  BY <1>1, LenProperties
<1>3. /\ origin' \in Seq(Kinds \X Cpus) /\ Len(origin') = Len(origin) + 1
      /\ \A i \in 1..Len(origin) : origin'[i] = origin[i]
      /\ origin'[Len(origin) + 1] = <<k, c>>
  <2>1. origin' = Append(origin, <<k, c>>)
    BY DEF Output
  <2> QED BY <1>1, <2>1, AppendProperties
<1>4. DOMAIN origin' = 1..(Len(origin) + 1)
  BY <1>3, LenProperties
<1> QED BY <1>2, <1>3, <1>4 DEF Records

\* Sequences of records stay such while records are added.
LEMMA SeqGrows == ASSUME NEW S, NEW T, S \subseteq T PROVE Seq(S) \subseteq Seq(T)
BY SeqMonotonic

\* A record that is output, in a ring or lost, keeps the collector's types.
LEMMA OutputType ==
    ASSUME ObserveTypeOK, NEW k \in Kinds, NEW c \in Cpus, Output(k, c),
           UNCHANGED <<loaded, ready, events>>, processes' \subseteq Pids
    PROVE  ObserveTypeOK'
<1> DEFINE e == Len(origin) + 1
<1>1. /\ origin' \in Seq(Kinds \X Cpus) /\ Len(origin') = e
      /\ Records' = Records \cup {e}
  BY OutputFacts
<1>2. Seq(Records) \subseteq Seq(Records') /\ e \in Records'
  BY <1>1, SeqGrows
<1>3. Len(origin') <= MaxEvents
  BY <1>1, LenProperties, ObserveAssumption DEF Output, ObserveTypeOK
<1>4. rings \in [Kinds -> [Cpus -> Seq(Records')]]
  BY <1>2 DEF ObserveTypeOK
<1>5. /\ rings' \in [Kinds -> [Cpus -> Seq(Records')]]
      /\ \A l \in Kinds, d \in Cpus : Len(rings'[l][d]) <= RingSize
      /\ lost' \subseteq Records'
  <2>1. CASE rings' = rings /\ lost' = lost \cup {e}
    BY <1>1, <1>4, <2>1 DEF ObserveTypeOK
  <2>2. CASE /\ Len(rings[k][c]) < RingSize /\ lost' = lost
             /\ rings' = [rings EXCEPT ![k][c] = Append(@, e)]
    <3>1. rings[k][c] \in Seq(Records')
      BY <1>4
    <3>2. /\ Append(rings[k][c], e) \in Seq(Records')
          /\ Len(Append(rings[k][c], e)) = Len(rings[k][c]) + 1
      BY <1>2, <3>1, AppendProperties
    <3>3. rings' = [rings EXCEPT ![k] = [rings[k] EXCEPT ![c] = Append(rings[k][c], e)]]
      BY <2>2
    <3>4. Len(Append(rings[k][c], e)) <= RingSize
      BY <2>2, <3>1, <3>2, LenProperties, ObserveAssumption
    <3> DEFINE a == Append(rings[k][c], e)
    <3> HIDE DEF a, e
    <3>5. rings' = [rings EXCEPT ![k] = [rings[k] EXCEPT ![c] = a]]
      BY <3>3 DEF a
    <3>6. rings' \in [Kinds -> [Cpus -> Seq(Records')]]
      BY <1>4, <3>2, <3>5 DEF a
    <3>7. \A l \in Kinds, d \in Cpus : Len(rings'[l][d]) <= RingSize
      BY <1>4, <3>4, <3>5 DEF a, ObserveTypeOK
    <3> QED BY <1>1, <2>2, <3>6, <3>7 DEF ObserveTypeOK
  <2> QED BY <2>1, <2>2 DEF Output
<1> QED BY <1>1, <1>2, <1>3, <1>5 DEF ObserveTypeOK

\* Every tracepoint and probe.
LEMMA KernelType ==
    ASSUME TypeInv, Trace
    PROVE  TypeInv'
<1>1. ObserveTypeOK /\ ControlOK /\ DataOK
  BY DEF TypeInv
<1>2. Kernel /\ UNCHANGED <<mainVars, lpc, request, mgrVars, applied, acked>>
  BY DEF Trace
<1>3. ObserveTypeOK' /\ Records \subseteq Records'
  <2>1. ASSUME NEW k \in Kinds, NEW c \in Cpus, Output(k, c),
               UNCHANGED <<loaded, ready, events>>, processes' \subseteq Pids
        PROVE  ObserveTypeOK' /\ Records \subseteq Records'
    BY <1>1, <2>1, OutputType, OutputFacts
  <2>2. ASSUME UNCHANGED <<origin, rings, lost, loaded, ready, events>>,
               processes' \subseteq Pids
        PROVE  ObserveTypeOK' /\ Records \subseteq Records'
    BY <1>1, <2>2 DEF ObserveTypeOK, Records
  <2>3. ASSUME NEW c \in Cpus, FlowEnds(c) PROVE ObserveTypeOK' /\ Records \subseteq Records'
    BY <1>1, <2>1, <2>3 DEF FlowEnds, Kinds, ObserveTypeOK
  <2>4. ASSUME NEW c \in Cpus, NEW p \in Pids, trace_exec(p, c) \/ trace_exit(p, c)
        PROVE  ObserveTypeOK' /\ Records \subseteq Records'
    <3>1. processes' \subseteq Pids /\ UNCHANGED <<loaded, ready, events>>
      BY <1>1, <2>4 DEF trace_exec, trace_exit, ObserveTypeOK
    <3>2. Output("process", c) \/ UNCHANGED <<origin, rings, lost>>
      BY <2>4 DEF trace_exec, trace_exit, OutputIfTraced
    <3> QED BY <2>1, <2>2, <3>1, <3>2 DEF Kinds
  <2> QED BY <1>2, <2>3, <2>4 DEF Kernel
<1>4. ControlOK'
  BY <1>1, <1>2, Zenon DEF ControlOK, mainVars, mgrVars
<1>5. DataOK'
  <2>1. Seq(Records) \subseteq Seq(Records')
    BY <1>3, SeqGrows
  <2> QED BY <1>1, <1>2, <2>1 DEF DataOK, mgrVars
<1> QED BY <1>3, <1>4, <1>5 DEF TypeInv

\* on_process_event and on_flow_event, for the records of a ring.
LEMMA ReadType ==
    ASSUME ObserveTypeOK, NEW k \in Kinds, NEW c \in Cpus, ReadRing(k, c)
    PROVE  ObserveTypeOK'
<1>1. Records' = Records
  BY DEF ReadRing, RingContent, Records
<1>2. events[k] \in Seq(Records) /\ rings[k][c] \in Seq(Records)
  BY DEF ObserveTypeOK
<1>3. events[k] \o rings[k][c] \in Seq(Records) /\ <<>> \in Seq(Records) /\ Len(<<>>) = 0
  BY <1>2, ConcatProperties, EmptySeq
<1>4. events' = [events EXCEPT ![k] = events[k] \o rings[k][c]]
  BY DEF ReadRing, RingContent
<1>5. rings' = [rings EXCEPT ![k] = [rings[k] EXCEPT ![c] = <<>>]]
  BY DEF ReadRing, RingContent
<1>6. events' \in [Kinds -> Seq(Records)]
  BY <1>3, <1>4 DEF ObserveTypeOK
<1>7. /\ rings' \in [Kinds -> [Cpus -> Seq(Records)]]
      /\ \A l \in Kinds, d \in Cpus : Len(rings'[l][d]) <= RingSize
  BY <1>3, <1>5, ObserveAssumption DEF ObserveTypeOK
<1> QED BY <1>1, <1>6, <1>7 DEF ReadRing, ObserveTypeOK

\* The steps of the push loop that move records.
LEMMA CopyType == ASSUME TypeInv, CopyAndReset PROVE TypeInv'
<1>1. ObserveTypeOK /\ ControlOK /\ DataOK
  BY DEF TypeInv
<1>2. Records' = Records
  BY DEF CopyAndReset, Records
<1>3. events["process"] \in Seq(Records) /\ events["flow"] \in Seq(Records)
  BY <1>1 DEF ObserveTypeOK, Kinds
<1>4. CopiedEvents \in Seq(Records) /\ <<>> \in Seq(Records)
  BY <1>3, ConcatProperties, EmptySeq DEF CopiedEvents
<1>5. ToSet(CopiedEvents) \subseteq Records
  BY <1>4, ToSetOfSeq
<1>6. events' \in [Kinds -> Seq(Records)]
  BY <1>4 DEF CopyAndReset, ListsCleared
<1>7. ObserveTypeOK'
  BY <1>1, <1>2, <1>5, <1>6 DEF CopyAndReset, ObserveTypeOK
<1>8. ControlOK'
  <2>1. lpc = "copy" /\ lpc' \in {"call", "sleep"} /\ UNCHANGED <<mainVars, mgrVars>>
    BY DEF CopyAndReset
  <2> QED BY <1>1, <2>1, Zenon DEF ControlOK, mainVars, mgrVars
<1>9. DataOK'
  BY <1>1, <1>2, <1>4 DEF CopyAndReset, DataOK, mgrVars
<1> QED BY <1>7, <1>8, <1>9 DEF TypeInv

\* The call, its handler, and the manager's end and start.
LEMMA CallType == ASSUME TypeInv, Call \/ Manager \/ ManagerStops \/ ManagerStarts PROVE TypeInv'
<1>1. ObserveTypeOK /\ ControlOK /\ DataOK
  BY DEF TypeInv
<1>2. Records' = Records /\ UNCHANGED <<loaded, processes, rings, ready, events, origin, mainVars>>
  BY DEF Call, Deliver, CallReturns, CallFails, Manager, Apply, ManagerStops, ManagerStarts,
         observeVars, Records
<1>3. ToSet(request) \subseteq Records
  BY <1>1, ToSetOfSeq DEF DataOK
<1>4. ObserveTypeOK'
  <2>1. lost' = lost \/ lost' = lost \cup ToSet(request)
    BY DEF Call, Deliver, CallReturns, CallFails, Manager, Apply, ManagerStops, ManagerStarts,
           observeVars
  <2> QED BY <1>1, <1>2, <1>3, <2>1 DEF ObserveTypeOK
<1>5. ControlOK'
  <2>1. /\ lpc' \in {lpc, "wait", "sleep"} /\ mgrUp' \in {mgrUp, TRUE, FALSE}
        /\ lpc = "off" => lpc' = "off"
    BY DEF Call, Deliver, CallReturns, CallFails, Manager, Apply, ManagerStops, ManagerStarts,
           mgrVars
  <2> QED BY <1>1, <1>2, <2>1, Zenon DEF ControlOK, mainVars
<1>6. DataOK'
  <2>1. <<>> \in Seq(Records) /\ acked \o request \in Seq(Records)
    BY <1>1, EmptySeq, ConcatProperties DEF DataOK
  <2>2. CASE Call
    BY <1>1, <1>2, <2>1, <2>2
    DEF Call, Deliver, CallReturns, CallFails, RequestDone, DataOK, mgrVars
  <2>3. ASSUME NEW r \in handlers, Apply(r) PROVE DataOK'
    <3>1. applied \o r \in Seq(Records)
      BY <1>1, ConcatProperties DEF DataOK
    <3> QED BY <1>1, <1>2, <2>3, <3>1 DEF Apply, DataOK
  <2>4. CASE ManagerStops \/ ManagerStarts
    BY <1>1, <1>2, <2>4 DEF ManagerStops, ManagerStarts, DataOK
  <2> QED BY <2>2, <2>3, <2>4 DEF Manager
<1> QED BY <1>4, <1>5, <1>6 DEF TypeInv

\* The other steps of the push loop, and those of main.
LEMMA LoopType == ASSUME TypeInv, PushLoop PROVE TypeInv'
<1>1. ObserveTypeOK /\ ControlOK /\ DataOK
  BY DEF TypeInv
<1>2. CASE CopyAndReset
  BY <1>2, CopyType
<1>3. CASE LoopTest \/ CollectProcess \/ CollectFlow \/ Read \/ Collected \/ Wake
  <2>1. ObserveTypeOK' /\ Records' = Records
    <3>1. CASE Read
      BY <1>1, <3>1, ReadType DEF Read, ReadRing, Records, ObserveTypeOK
    <3>2. CASE LoopTest \/ Collected \/ Wake
      BY <1>1, <3>2 DEF LoopTest, Collected, Wake, observeVars, ObserveTypeOK, Records
    <3>3. CASE CollectProcess \/ CollectFlow
      BY <1>1, <3>3 DEF CollectProcess, CollectFlow, PollBegins, PollFails, observeVars,
                        ObserveTypeOK, Records
    <3> QED BY <1>3, <3>1, <3>2, <3>3
  <2>2. /\ lpc' \in Kinds \cup {"test", "collect", "copy", "ended"}
        /\ UNCHANGED <<mainVars, request, mgrVars, applied, acked>>
        /\ lpc \notin {"off", "call", "wait"}
    BY <1>3 DEF LoopTest, CollectProcess, CollectFlow, Read, Collected, Wake, Kinds
  <2>3. ControlOK'
    BY <1>1, <2>2, Zenon DEF ControlOK, mainVars, mgrVars
  <2>4. DataOK'
    BY <1>1, <2>1, <2>2 DEF DataOK, mgrVars
  <2> QED BY <2>1, <2>3, <2>4 DEF TypeInv
<1> QED BY <1>2, <1>3 DEF PushLoop

\* main's steps, and the signal.
LEMMA MainType == ASSUME TypeInv, Main \/ Signal PROVE TypeInv'
<1>1. ObserveTypeOK /\ ControlOK /\ DataOK
  BY DEF TypeInv
<1>2. ObserveTypeOK' /\ Records' = Records
  <2>1. CASE ObserverLoads
    BY <1>1, <2>1 DEF ObserverLoads, InitStage, Stages, ObserveTypeOK, Records
  <2>2. CASE StopReturns
    <3>1. ToSet(<<>>) = {} /\ <<>> \in Seq(Records) /\ Len(<<>>) = 0
      BY EmptySeq, ToSetEmpty
    <3>2. Unread \subseteq Records
      <4>1. \A k \in Kinds, c \in Cpus : ToSet(rings[k][c]) \subseteq Records
        BY <1>1, ToSetOfSeq DEF ObserveTypeOK
      <4> QED BY <4>1 DEF Unread
    <3> QED BY <1>1, <2>2, <3>1, <3>2, ObserveAssumption
            DEF StopReturns, Release, Stages, ObserveTypeOK, Records
  <2>3. CASE Connect \/ ConnectTimesOut \/ ObserverReady \/ RunReturns \/ StopBegins \/ Signal
    BY <1>1, <2>3 DEF Connect, ConnectTimesOut, ObserverReady, RunReturns, StopBegins, Signal,
                      observeVars, ObserveTypeOK, Records
  <2> QED BY <2>1, <2>2, <2>3 DEF Main
<1>3. /\ lpc' \in {lpc, "test"} /\ UNCHANGED <<request, mgrVars, applied, acked>>
      /\ mpc' \in {mpc, "init", "run", "poll", "join", "done"}
      /\ mpc' \in {"init", "run"} => mpc \in {"connect", "init", "run"} /\ lpc' = lpc
      /\ mpc' = "connect" => mpc = "connect" /\ lpc' = lpc
      /\ signalled' \in {signalled, TRUE} /\ running' \in {running, TRUE, FALSE}
      /\ stub' \in {stub, TRUE}
  BY DEF Main, Signal, Connect, ConnectTimesOut, ObserverLoads, ObserverReady, RunReturns,
         StopBegins, StopReturns, mainVars
<1>4. ControlOK'
  BY <1>1, <1>3, Zenon DEF ControlOK, mgrVars
<1>5. DataOK'
  <2>1. lpc \in {"call", "wait"} => lpc' = lpc
    BY <1>1 DEF Main, Signal, Connect, ConnectTimesOut, ObserverLoads, ObserverReady, RunReturns,
           StopBegins, StopReturns, ControlOK
  <2> QED BY <1>1, <1>2, <1>3, <2>1 DEF DataOK, mgrVars
<1> QED BY <1>2, <1>4, <1>5 DEF TypeInv

\* So each step keeps the types.
LEMMA TypeStep == ASSUME TypeInv, [Next]_vars PROVE TypeInv'
<1>1. CASE UNCHANGED vars
  BY <1>1, Zenon DEF vars, observeVars, mainVars, mgrVars, TypeInv, ObserveTypeOK, ControlOK, DataOK,
                     Records
<1> QED BY <1>1, KernelType, LoopType, CallType, MainType DEF Next

(***************************************************************************)
(* The place of records.                                                   *)
(***************************************************************************)
\* The elements of the sequences that the invariant speaks of.
LEMMA Places ==
    ASSUME TypeInv
    PROVE  /\ ToSet(acked) \subseteq Records /\ ToSet(request) \subseteq Records
           /\ ToSet(applied) \subseteq Records /\ lost \subseteq Records
           /\ \A k \in Kinds : ListSet(k) \subseteq Records
           /\ \A k \in Kinds, c \in Cpus : RingSet(k, c) \subseteq Records
           /\ \A x \in Records : x \in Int
<1>1. ObserveTypeOK /\ DataOK
  BY DEF TypeInv
<1>2. Records = 1..Len(origin) /\ Len(origin) \in Nat
  BY <1>1, LenProperties DEF ObserveTypeOK, Records
<1>3. /\ \A k \in Kinds : ListSet(k) \subseteq Records
      /\ \A k \in Kinds, c \in Cpus : RingSet(k, c) \subseteq Records
  BY <1>1, ToSetOfSeq DEF ObserveTypeOK, ListSet, RingSet
<1>4. ToSet(acked) \subseteq Records /\ ToSet(request) \subseteq Records
      /\ ToSet(applied) \subseteq Records
  BY <1>1, ToSetOfSeq DEF DataOK
<1>5. lost \subseteq Records /\ \A x \in Records : x \in Int
  BY <1>1, <1>2 DEF ObserveTypeOK
<1> QED BY <1>3, <1>4, <1>5

\* Where a record that waits is.
LEMMA InWaiting ==
    \A e : e \in Waiting <=> \/ e \in ToSet(request)
                             \/ \E k \in Kinds : e \in ListSet(k)
                             \/ \E k \in Kinds, c \in Cpus : e \in RingSet(k, c)
BY DEF Waiting, Unsent, Unread, ListSet, RingSet

\* The same, after a step.
LEMMA InWaitingNext ==
    \A e : e \in Waiting' <=> \/ e \in ToSet(request')
                              \/ \E k \in Kinds : e \in ListSet(k)'
                              \/ \E k \in Kinds, c \in Cpus : e \in RingSet(k, c)'
BY DEF Waiting, Unsent, Unread, ListSet, RingSet

\* Older records before younger ones: the concatenation is sorted.
LEMMA SortedConcat ==
    ASSUME NEW S, NEW s \in Seq(S), NEW t \in Seq(S), Sorted(s), Sorted(t),
           Older(ToSet(s), ToSet(t))
    PROVE  Sorted(s \o t)
<1>1. /\ s \o t \in Seq(S) /\ Len(s \o t) = Len(s) + Len(t)
      /\ \A i \in 1..(Len(s) + Len(t)) :
            (s \o t)[i] = IF i <= Len(s) THEN s[i] ELSE t[i - Len(s)]
  BY ConcatProperties
<1>2. /\ Len(s) \in Nat /\ Len(t) \in Nat
      /\ DOMAIN s = 1..Len(s) /\ DOMAIN t = 1..Len(t)
      /\ DOMAIN (s \o t) = 1..(Len(s) + Len(t))
  BY <1>1, LenProperties
<1> SUFFICES ASSUME NEW i \in DOMAIN (s \o t), NEW j \in DOMAIN (s \o t), i < j,
                    origin[(s \o t)[i]] = origin[(s \o t)[j]]
             PROVE  (s \o t)[i] < (s \o t)[j]
  BY DEF Sorted
<1>3. CASE j <= Len(s)
  <2>1. i \in DOMAIN s /\ j \in DOMAIN s /\ (s \o t)[i] = s[i] /\ (s \o t)[j] = s[j]
    BY <1>1, <1>2, <1>3
  <2> QED BY <2>1 DEF Sorted
<1>4. CASE i <= Len(s) /\ ~(j <= Len(s))
  <2>1. i \in DOMAIN s /\ j - Len(s) \in DOMAIN t /\ (s \o t)[i] = s[i]
        /\ (s \o t)[j] = t[j - Len(s)]
    BY <1>1, <1>2, <1>4
  <2>2. s[i] \in ToSet(s) /\ t[j - Len(s)] \in ToSet(t)
    BY <2>1 DEF ToSet
  <2> QED BY <2>1, <2>2 DEF Older
<1>5. CASE ~(i <= Len(s)) /\ ~(j <= Len(s))
  <2>1. i - Len(s) \in DOMAIN t /\ j - Len(s) \in DOMAIN t /\ (s \o t)[i] = t[i - Len(s)]
        /\ (s \o t)[j] = t[j - Len(s)] /\ i - Len(s) < j - Len(s)
    BY <1>1, <1>2, <1>5
  <2> QED BY <2>1 DEF Sorted
<1> QED BY <1>2, <1>3, <1>4, <1>5

\* Steps that leave the records where they are.
LEMMA SilentPlace ==
    ASSUME PlaceInv, UNCHANGED <<rings, events, origin, lost, request, acked>>
    PROVE  PlaceInv'
<1>1. InItsPlace'
  BY DEF PlaceInv, InItsPlace, ListSet, RingSet
<1>2. EachSorted'
  BY DEF PlaceInv, EachSorted, Sorted
<1>3. Pipeline'
  BY DEF PlaceInv, Pipeline, Older, ListSet, RingSet
<1>4. LostApart'
  BY DEF PlaceInv, LostApart, Waiting, Unsent, Unread
<1> QED BY <1>1, <1>2, <1>3, <1>4 DEF PlaceInv

\* A new record is younger than all others, and last in its ring, or lost.
LEMMA OutputPlace ==
    ASSUME TypeInv, PlaceInv, NEW k \in Kinds, NEW c \in Cpus, Output(k, c),
           UNCHANGED <<events, request, acked>>
    PROVE  PlaceInv'
<1> DEFINE e == Len(origin) + 1
<1>1. /\ e \notin Records /\ origin'[e] = <<k, c>>
      /\ \A x \in Records : x < e /\ origin'[x] = origin[x]
  BY OutputFacts DEF TypeInv
<1>2. /\ ToSet(acked) \subseteq Records /\ ToSet(request) \subseteq Records
      /\ lost \subseteq Records
      /\ \A l \in Kinds : ListSet(l) \subseteq Records
      /\ \A l \in Kinds, d \in Cpus : RingSet(l, d) \subseteq Records
  BY Places
<1>3. InItsPlace /\ EachSorted /\ Pipeline /\ LostApart
  BY DEF PlaceInv
<1>4. /\ \A l \in Kinds : ListSet(l)' = ListSet(l)
      /\ ToSet(acked') = ToSet(acked) /\ ToSet(request') = ToSet(request)
  BY DEF ListSet
<1>5. /\ acked \in Seq(Records) /\ request \in Seq(Records)
      /\ events \in [Kinds -> Seq(Records)] /\ rings \in [Kinds -> [Cpus -> Seq(Records)]]
  BY DEF TypeInv, ObserveTypeOK, DataOK
<1> HIDE DEF e
<1>6. ASSUME NEW s \in Seq(Records), Sorted(s)
      PROVE  \A i, j \in DOMAIN s : i < j /\ origin'[s[i]] = origin'[s[j]] => s[i] < s[j]
  <2>1. \A i \in DOMAIN s : s[i] \in Records
    BY LenProperties
  <2> QED BY <1>1, <1>6, <2>1 DEF Sorted
<1>7. Sorted(acked)' /\ Sorted(request)' /\ \A l \in Kinds : Sorted(events[l])'
  <2>1. Sorted(acked) /\ Sorted(request) /\ \A l \in Kinds : Sorted(events[l])
    BY <1>3 DEF EachSorted
  <2> QED BY <1>5, <1>6, <2>1 DEF Sorted
<1>8. ASSUME NEW l \in Kinds, NEW d \in Cpus, rings'[l][d] = rings[l][d]
      PROVE  Sorted(rings[l][d])'
  <2>1. rings[l][d] \in Seq(Records) /\ Sorted(rings[l][d])
    BY <1>3, <1>5 DEF EachSorted
  <2>2. \A i, j \in DOMAIN rings[l][d] :
           i < j /\ origin'[rings[l][d][i]] = origin'[rings[l][d][j]]
             => rings[l][d][i] < rings[l][d][j]
    BY <1>6, <2>1
  <2> QED BY <1>8, <2>2 DEF Sorted
<1>9. CASE rings' = rings /\ lost' = lost \cup {e}
  <2>1. \A l \in Kinds, d \in Cpus : RingSet(l, d)' = RingSet(l, d)
    BY <1>9 DEF RingSet
  <2>2. InItsPlace'
    BY <1>1, <1>2, <1>3, <1>4, <2>1 DEF InItsPlace
  <2>3. \A l \in Kinds, d \in Cpus : Sorted(rings[l][d])'
    BY <1>8, <1>9
  <2>4. Pipeline'
    BY <1>1, <1>2, <1>3, <1>4, <2>1 DEF Pipeline, Older
  <2>5. LostApart'
    <3>1. \A x : x \in Waiting' => x \in Waiting /\ x \in Records
      BY <1>2, <1>4, <2>1, InWaiting, InWaitingNext
    <3> QED BY <1>1, <1>2, <1>3, <1>4, <1>9, <3>1 DEF LostApart
  <2> QED BY <1>7, <2>2, <2>3, <2>4, <2>5 DEF PlaceInv, EachSorted
<1>10. CASE rings' = [rings EXCEPT ![k][c] = Append(@, e)] /\ lost' = lost
  <2> DEFINE s == rings[k][c]
             a == Append(s, e)
  <2>1. e \in Records \cup {e} /\ s \in Seq(Records) /\ s \in Seq(Records \cup {e})
    BY <1>5, SeqMonotonic
  <2>2. ToSet(a) = RingSet(k, c) \cup {e}
    BY <2>1, ToSetAppend DEF RingSet
  <2>3. rings'[k][c] = a /\ \A l \in Kinds, d \in Cpus : <<l, d>> # <<k, c>> => rings'[l][d] = rings[l][d]
    BY <1>5, <1>10
  <2> HIDE DEF a
  <2>4. /\ RingSet(k, c)' = RingSet(k, c) \cup {e}
        /\ \A l \in Kinds, d \in Cpus : <<l, d>> # <<k, c>> => RingSet(l, d)' = RingSet(l, d)
    BY <2>2, <2>3 DEF RingSet
  <2>5. \A l \in Kinds, d \in Cpus : \A x \in RingSet(l, d)' :
           x \in RingSet(l, d) \/ (x = e /\ l = k /\ d = c)
    BY <2>4
  <2>6. InItsPlace'
    BY <1>1, <1>2, <1>3, <1>4, <2>5 DEF InItsPlace
  <2>7. \A l \in Kinds, d \in Cpus : Sorted(rings[l][d])'
    <3>1. \A l \in Kinds, d \in Cpus : Sorted(rings[l][d])
      BY <1>3 DEF EachSorted
    <3>2. \A l \in Kinds, d \in Cpus : <<l, d>> # <<k, c>> => Sorted(rings[l][d])'
      BY <1>8, <2>3
    <3>3. Sorted(rings[k][c])'
      <4>1. /\ DOMAIN a = 1..(Len(s) + 1) /\ Len(s) \in Nat /\ DOMAIN s = 1..Len(s)
            /\ \A i \in 1..Len(s) : a[i] = s[i]
            /\ a[Len(s) + 1] = e
        BY <2>1, AppendProperties, LenProperties DEF a
      <4>2. \A i \in 1..Len(s) : s[i] \in Records
        BY <2>1, LenProperties
      <4>3. \A i, j \in DOMAIN s : i < j /\ origin'[s[i]] = origin'[s[j]] => s[i] < s[j]
        BY <1>6, <2>1, <3>1
      <4> SUFFICES ASSUME NEW i \in DOMAIN a, NEW j \in DOMAIN a, i < j,
                          origin'[a[i]] = origin'[a[j]]
                   PROVE  a[i] < a[j]
        BY <2>3 DEF Sorted
      <4>4. CASE j = Len(s) + 1
        <5>1. i \in 1..Len(s)
          BY <4>1, <4>4
        <5> QED BY <1>1, <4>1, <4>2, <4>4, <5>1
      <4>5. CASE j # Len(s) + 1
        <5>1. i \in DOMAIN s /\ j \in DOMAIN s
          BY <4>1, <4>5
        <5> QED BY <4>1, <4>3, <5>1
      <4> QED BY <4>4, <4>5
    <3> QED BY <3>2, <3>3
  <2>8. Pipeline'
    BY <1>1, <1>2, <1>3, <1>4, <2>5 DEF Pipeline, Older
  <2>9. LostApart'
    <3>1. \A x : x \in Waiting' => x \in Waiting \/ x = e
      BY <1>4, <2>5, InWaiting, InWaitingNext
    <3> QED BY <1>1, <1>2, <1>3, <1>4, <1>10, <3>1 DEF LostApart
  <2> QED BY <1>7, <2>6, <2>7, <2>8, <2>9 DEF PlaceInv, EachSorted
<1> QED BY <1>9, <1>10 DEF Output, e

\* What PlaceInv says of two places: no record is in both.
LEMMA OlderApart ==
    ASSUME TypeInv, NEW A \in SUBSET Records, NEW B, Older(A, B)
    PROVE  A \cap B = {}
<1> SUFFICES ASSUME NEW x \in A, x \in B PROVE FALSE
  OBVIOUS
<1>1. x < x /\ x \in Int
  BY Places DEF Older
<1> QED BY <1>1

\* The records of a ring go to the end of their list.
LEMMA ReadPlace ==
    ASSUME TypeInv, PlaceInv, NEW k \in Kinds, NEW c \in Cpus, ReadRing(k, c),
           UNCHANGED <<request, acked>>
    PROVE  PlaceInv'
<1> DEFINE s == events[k]
           t == rings[k][c]
<1>1. InItsPlace /\ EachSorted /\ Pipeline /\ LostApart
  BY DEF PlaceInv
<1>2. /\ events \in [Kinds -> Seq(Records)] /\ rings \in [Kinds -> [Cpus -> Seq(Records)]]
      /\ s \in Seq(Records) /\ t \in Seq(Records)
  BY DEF TypeInv, ObserveTypeOK
<1>3. /\ events'[k] = s \o t /\ rings'[k][c] = <<>> /\ origin' = origin /\ lost' = lost
      /\ \A l \in Kinds : l # k => events'[l] = events[l]
      /\ \A l \in Kinds, d \in Cpus : <<l, d>> # <<k, c>> => rings'[l][d] = rings[l][d]
  BY <1>2 DEF ReadRing, RingContent
<1> HIDE DEF s, t
<1>4. ToSet(s \o t) = ListSet(k) \cup RingSet(k, c) /\ ToSet(<<>>) = {}
  BY <1>2, ToSetConcat, ToSetEmpty DEF ListSet, RingSet, s, t
<1>5. /\ \A l \in Kinds : \A x \in ListSet(l)' :
            x \in ListSet(l) \/ (l = k /\ x \in RingSet(k, c))
      /\ \A l \in Kinds, d \in Cpus : \A x \in RingSet(l, d)' :
            x \in RingSet(l, d) /\ <<l, d>> # <<k, c>>
  BY <1>3, <1>4 DEF ListSet, RingSet
<1>6. InItsPlace'
  BY <1>1, <1>3, <1>5 DEF InItsPlace
<1>7. EachSorted'
  <2>1. /\ Sorted(acked) /\ Sorted(request)
        /\ \A l \in Kinds : Sorted(events[l]) /\ \A d \in Cpus : Sorted(rings[l][d])
    BY <1>1 DEF EachSorted
  <2>2. Sorted(s \o t)
    BY <1>1, <1>2, <2>1, SortedConcat DEF Pipeline, ListSet, RingSet, s, t
  <2>3. Sorted(<<>>)
    BY DEF Sorted
  <2>4. \A l \in Kinds : Sorted(events[l])'
    BY <1>3, <2>1, <2>2, ZenonT(40) DEF Sorted
  <2>5. \A l \in Kinds, d \in Cpus : Sorted(rings[l][d])'
    BY <1>3, <2>1, <2>3 DEF Sorted
  <2>6. Sorted(acked)' /\ Sorted(request)'
    BY <1>3, <2>1 DEF Sorted
  <2> QED BY <2>4, <2>5, <2>6 DEF EachSorted
<1>8. Pipeline'
  BY <1>1, <1>3, <1>5 DEF Pipeline, Older, InItsPlace
<1>9. LostApart'
  <2>1. \A x : x \in Waiting' => x \in Waiting
    BY <1>5, InWaiting, InWaitingNext
  <2> QED BY <1>1, <1>3, <2>1 DEF LostApart
<1> QED BY <1>6, <1>7, <1>8, <1>9 DEF PlaceInv

\* The records of the lists become the request, or are lost without a stub.
LEMMA CopyPlace ==
    ASSUME TypeInv, PlaceInv, CopyAndReset
    PROVE  PlaceInv'
<1> DEFINE s == events["process"]
           t == events["flow"]
<1>1. InItsPlace /\ EachSorted /\ Pipeline /\ LostApart
  BY DEF PlaceInv
<1>2. s \in Seq(Records) /\ t \in Seq(Records)
  BY DEF TypeInv, ObserveTypeOK, Kinds
<1>3. /\ \A l \in Kinds : events'[l] = <<>>
      /\ rings' = rings /\ origin' = origin /\ acked' = acked
      /\ \/ request' = s \o t /\ lost' = lost
         \/ request' = request /\ lost' = lost \cup ToSet(s \o t)
  BY DEF CopyAndReset, ListsCleared, CopiedEvents
<1> HIDE DEF s, t
<1>4. /\ ToSet(s \o t) = ListSet("process") \cup ListSet("flow") /\ ToSet(<<>>) = {}
      /\ "process" \in Kinds /\ "flow" \in Kinds
  BY <1>2, ToSetConcat, ToSetEmpty DEF ListSet, s, t, Kinds
<1>5. /\ \A l \in Kinds : ListSet(l)' = {}
      /\ \A l \in Kinds, d \in Cpus : RingSet(l, d)' = RingSet(l, d)
      /\ \A x \in ToSet(s \o t) : \E l \in Kinds : x \in ListSet(l)
  BY <1>3, <1>4 DEF ListSet, RingSet
<1>6. InItsPlace'
  BY <1>1, <1>3, <1>5 DEF InItsPlace
<1>7. EachSorted'
  <2>1. /\ Sorted(acked) /\ Sorted(request) /\ Sorted(s) /\ Sorted(t)
        /\ \A l \in Kinds, d \in Cpus : Sorted(rings[l][d])
    BY <1>1, <1>4 DEF EachSorted, s, t
  <2>2. Sorted(s \o t)
    <3>1. Older(ToSet(s), ToSet(t))
      BY <1>1, <1>4 DEF Older, InItsPlace, ListSet, s, t
    <3> QED BY <1>2, <2>1, <3>1, SortedConcat
  <2>3. Sorted(<<>>)
    BY DEF Sorted
  <2>4. \A l \in Kinds : Sorted(events[l])'
    BY <1>3, <2>3 DEF Sorted
  <2>5. \A l \in Kinds, d \in Cpus : Sorted(rings[l][d])'
    BY <1>3, <2>1 DEF Sorted
  <2>6. Sorted(acked)' /\ Sorted(request)'
    BY <1>3, <2>1, <2>2 DEF Sorted
  <2> QED BY <2>4, <2>5, <2>6 DEF EachSorted
<1>8. Pipeline'
  <2>1. \A x \in ToSet(request') : x \in ToSet(request) \/ \E l \in Kinds : x \in ListSet(l)
    BY <1>3, <1>5
  <2>2. /\ \A a \in ToSet(acked) : \A l \in Kinds : \A x \in ListSet(l) :
                origin[a] = origin[x] => a < x
        /\ \A a \in ToSet(acked), x \in ToSet(request) : origin[a] = origin[x] => a < x
    BY <1>1 DEF Pipeline, Older
  <2>3. Older(ToSet(acked), ToSet(request))'
    BY <1>3, <2>1, <2>2 DEF Older
  <2>4. \A l \in Kinds : Older(ToSet(acked), ListSet(l))' /\ Older(ToSet(request), ListSet(l))'
    BY <1>5 DEF Older
  <2>5. \A m \in Kinds, d \in Cpus :
           /\ \A l \in Kinds : \A x \in ListSet(l), y \in RingSet(m, d) :
                 origin[x] = origin[y] => x < y
           /\ \A x \in ToSet(request), y \in RingSet(m, d) : origin[x] = origin[y] => x < y
           /\ \A x \in ToSet(acked), y \in RingSet(m, d) : origin[x] = origin[y] => x < y
    BY <1>1 DEF Pipeline, Older
  <2>6. \A m \in Kinds, d \in Cpus :
           /\ Older(ToSet(acked), RingSet(m, d))' /\ Older(ToSet(request), RingSet(m, d))'
           /\ \A l \in Kinds : Older(ListSet(l), RingSet(m, d))'
    BY <1>3, <1>5, <2>1, <2>5 DEF Older
  <2> QED BY <2>3, <2>4, <2>6 DEF Pipeline
<1>9. LostApart'
  <2>1. \A l \in Kinds : /\ ListSet(l) \cap ToSet(acked) = {} /\ ListSet(l) \cap ToSet(request) = {}
                         /\ \A m \in Kinds, d \in Cpus : ListSet(l) \cap RingSet(m, d) = {}
    BY <1>1, OlderApart, Places DEF Pipeline
  <2>2. CASE request' = s \o t /\ lost' = lost
    <3>1. \A x : x \in Waiting' => x \in Waiting
      BY <1>5, <2>2, InWaiting, InWaitingNext
    <3> QED BY <1>1, <1>3, <2>2, <3>1 DEF LostApart
  <2>3. CASE request' = request /\ lost' = lost \cup ToSet(s \o t)
    <3>1. \A x : x \in Waiting' => x \in Waiting /\ \A l \in Kinds : x \notin ListSet(l)
      BY <1>5, <2>1, <2>3, InWaiting, InWaitingNext
    <3>2. \A x \in ToSet(s \o t) : x \notin ToSet(acked) /\ x \notin Waiting'
      BY <1>5, <2>1, <3>1
    <3> QED BY <1>1, <1>3, <2>3, <3>1, <3>2 DEF LostApart
  <2> QED BY <1>3, <2>2, <2>3
<1> QED BY <1>6, <1>7, <1>8, <1>9 DEF PlaceInv

\* The call returns: the request is acknowledged.
LEMMA ReturnPlace ==
    ASSUME TypeInv, PlaceInv, CallReturns
    PROVE  PlaceInv'
<1>1. InItsPlace /\ EachSorted /\ Pipeline /\ LostApart
  BY DEF PlaceInv
<1>2. acked \in Seq(Records) /\ request \in Seq(Records)
  BY DEF TypeInv, DataOK
<1>3. /\ acked' = acked \o request /\ request' = <<>>
      /\ rings' = rings /\ events' = events /\ origin' = origin /\ lost' = lost
  BY DEF CallReturns, RequestDone, observeVars
<1>4. ToSet(acked') = ToSet(acked) \cup ToSet(request) /\ ToSet(request') = {}
  BY <1>2, <1>3, ToSetConcat, ToSetEmpty
<1>5. /\ \A l \in Kinds : ListSet(l)' = ListSet(l)
      /\ \A l \in Kinds, d \in Cpus : RingSet(l, d)' = RingSet(l, d)
  BY <1>3 DEF ListSet, RingSet
<1>6. InItsPlace'
  BY <1>1, <1>3, <1>5 DEF InItsPlace
<1>7. EachSorted'
  <2>1. /\ Sorted(acked) /\ Sorted(request)
        /\ \A l \in Kinds : Sorted(events[l]) /\ \A d \in Cpus : Sorted(rings[l][d])
    BY <1>1 DEF EachSorted
  <2>2. Sorted(acked \o request) /\ Sorted(<<>>)
    BY <1>1, <1>2, <2>1, SortedConcat DEF Pipeline, Sorted
  <2>3. Sorted(acked)' /\ Sorted(request)'
    BY <1>3, <2>2 DEF Sorted
  <2>4. \A l \in Kinds : Sorted(events[l])' /\ \A d \in Cpus : Sorted(rings[l][d])'
    BY <1>3, <2>1 DEF Sorted
  <2> QED BY <2>3, <2>4 DEF EachSorted
<1>8. Pipeline'
  BY <1>1, <1>3, <1>4, <1>5 DEF Pipeline, Older
<1>9. LostApart'
  <2>1. \A x : x \in Waiting' => x \in Waiting
    BY <1>4, <1>5, InWaiting, InWaitingNext
  <2>2. ToSet(request) \subseteq Waiting
    BY DEF Waiting
  <2> QED BY <1>1, <1>3, <1>4, <2>1, <2>2 DEF LostApart
<1> QED BY <1>6, <1>7, <1>8, <1>9 DEF PlaceInv

\* The call fails: the request is lost.
LEMMA FailPlace ==
    ASSUME TypeInv, PlaceInv, CallFails
    PROVE  PlaceInv'
<1>1. InItsPlace /\ EachSorted /\ Pipeline /\ LostApart
  BY DEF PlaceInv
<1>2. /\ acked' = acked /\ request' = <<>> /\ lost' = lost \cup ToSet(request)
      /\ rings' = rings /\ events' = events /\ origin' = origin
  BY DEF CallFails, RequestDone
<1>3. ToSet(request') = {}
  BY <1>2, ToSetEmpty
<1>4. /\ \A l \in Kinds : ListSet(l)' = ListSet(l)
      /\ \A l \in Kinds, d \in Cpus : RingSet(l, d)' = RingSet(l, d)
  BY <1>2 DEF ListSet, RingSet
<1>5. InItsPlace'
  BY <1>1, <1>2, <1>4 DEF InItsPlace
<1>6. EachSorted'
  <2>1. Sorted(<<>>)
    BY DEF Sorted
  <2> QED BY <1>1, <1>2, <2>1 DEF EachSorted, Sorted
<1>7. Pipeline'
  BY <1>1, <1>2, <1>3, <1>4 DEF Pipeline, Older
<1>8. LostApart'
  <2>1. /\ ToSet(acked) \cap ToSet(request) = {}
        /\ \A l \in Kinds : /\ ToSet(request) \cap ListSet(l) = {}
                            /\ \A d \in Cpus : ToSet(request) \cap RingSet(l, d) = {}
    BY <1>1, OlderApart, Places DEF Pipeline
  <2>2. \A x : x \in Waiting' => x \in Waiting /\ x \notin ToSet(request)
    BY <1>3, <1>4, <2>1, InWaiting, InWaitingNext
  <2> QED BY <1>1, <1>2, <2>1, <2>2 DEF LostApart
<1> QED BY <1>5, <1>6, <1>7, <1>8 DEF PlaceInv

\* The worker ends: what is unread is lost.
LEMMA ReleasePlace ==
    ASSUME TypeInv, PlaceInv, StopReturns
    PROVE  PlaceInv'
<1>1. InItsPlace /\ EachSorted /\ Pipeline /\ LostApart
  BY DEF PlaceInv
<1>2. /\ acked' = acked /\ request' = request /\ lost' = lost \cup Unread
      /\ \A l \in Kinds, d \in Cpus : rings'[l][d] = <<>>
      /\ events' = events /\ origin' = origin
  BY DEF StopReturns, Release
<1>3. /\ \A l \in Kinds : ListSet(l)' = ListSet(l)
      /\ \A l \in Kinds, d \in Cpus : RingSet(l, d)' = {}
  BY <1>2, ToSetEmpty DEF ListSet, RingSet
<1>4. InItsPlace'
  BY <1>1, <1>2, <1>3 DEF InItsPlace
<1>5. EachSorted'
  <2>1. Sorted(<<>>)
    BY DEF Sorted
  <2>2. \A l \in Kinds, d \in Cpus : Sorted(rings[l][d])'
    BY <1>2, <2>1 DEF Sorted
  <2>3. Sorted(acked)' /\ Sorted(request)' /\ \A l \in Kinds : Sorted(events[l])'
    BY <1>1, <1>2 DEF EachSorted, Sorted
  <2> QED BY <2>2, <2>3 DEF EachSorted
<1>6. Pipeline'
  BY <1>1, <1>2, <1>3 DEF Pipeline, Older
<1>7. LostApart'
  <2>1. \A l \in Kinds, d \in Cpus :
           /\ ToSet(acked) \cap RingSet(l, d) = {} /\ ToSet(request) \cap RingSet(l, d) = {}
           /\ \A m \in Kinds : ListSet(m) \cap RingSet(l, d) = {}
    BY <1>1, OlderApart, Places DEF Pipeline
  <2>2. \A x \in Unread : \E l \in Kinds, d \in Cpus : x \in RingSet(l, d)
    BY DEF Unread, RingSet
  <2>3. \A x : x \in Waiting' => x \in Waiting /\ x \notin Unread
    BY <1>2, <1>3, <2>1, <2>2, InWaiting, InWaitingNext
  <2>4. ToSet(acked) \cap Unread = {}
    BY <2>1, <2>2
  <2> QED BY <1>1, <1>2, <2>3, <2>4 DEF LostApart
<1> QED BY <1>4, <1>5, <1>6, <1>7 DEF PlaceInv

\* A step of the kernel is an output, or leaves the records where they are.
LEMMA TraceCases ==
    ASSUME Trace
    PROVE  /\ UNCHANGED <<events, mainVars, lpc, request, mgrVars, applied, acked>>
           /\ \/ \E k \in Kinds, c \in Cpus : Output(k, c)
              \/ UNCHANGED <<rings, origin, lost>>
<1>1. Kernel /\ UNCHANGED <<mainVars, lpc, request, mgrVars, applied, acked>>
  BY DEF Trace
<1>2. ASSUME NEW c \in Cpus, FlowEnds(c)
      PROVE  events' = events /\ Output("flow", c)
  BY <1>2 DEF FlowEnds
<1>3. ASSUME NEW c \in Cpus, NEW p \in Pids, trace_exec(p, c) \/ trace_exit(p, c)
      PROVE  events' = events /\ (Output("process", c) \/ UNCHANGED <<rings, origin, lost>>)
  BY <1>3 DEF trace_exec, trace_exit, OutputIfTraced
<1> QED BY <1>1, <1>2, <1>3 DEF Kernel, Kinds

\* So each step keeps every record in its place.
LEMMA PlaceStep ==
    ASSUME TypeInv, PlaceInv, [Next]_vars
    PROVE  PlaceInv'
<1>1. CASE Trace
  BY <1>1, TraceCases, OutputPlace, SilentPlace
<1>2. CASE CopyAndReset \/ CallReturns \/ CallFails \/ StopReturns
  BY <1>2, CopyPlace, ReturnPlace, FailPlace, ReleasePlace
<1>3. CASE Read
  <2>1. PICK c \in Cpus : ReadRing(lpc, c)
    BY <1>3 DEF Read
  <2> QED BY <1>3, <2>1, ReadPlace DEF Read
<1>4. CASE \/ Connect \/ ConnectTimesOut \/ ObserverLoads \/ ObserverReady \/ RunReturns
           \/ StopBegins \/ Signal \/ LoopTest \/ CollectProcess \/ CollectFlow \/ Collected
           \/ Wake \/ Deliver \/ Manager \/ ManagerStops \/ ManagerStarts \/ UNCHANGED vars
  <2>1. UNCHANGED <<rings, events, origin, lost, request, acked>>
    BY <1>4 DEF Connect, ConnectTimesOut, ObserverLoads, InitStage, ObserverReady, RunReturns,
                StopBegins, Signal, LoopTest, CollectProcess, CollectFlow, PollBegins, PollFails,
                Collected, Wake, Deliver, Manager, Apply, ManagerStops, ManagerStarts,
                vars, observeVars
  <2> QED BY <2>1, SilentPlace
<1> QED BY <1>1, <1>2, <1>3, <1>4 DEF Next, Main, PushLoop, Call

(***************************************************************************)
(* The manager.                                                            *)
(***************************************************************************)
\* A sorted sequence of records has no duplicates: a record is not older than
\* itself.
LEMMA SortedInjective ==
    ASSUME TypeInv, NEW s \in Seq(Records), Sorted(s)
    PROVE  IsInjective(s)
<1> SUFFICES ASSUME NEW i \in DOMAIN s, NEW j \in DOMAIN s, s[i] = s[j]
             PROVE  i = j
  BY DEF IsInjective
<1>1. i \in Int /\ j \in Int /\ s[i] \in Records
  BY LenProperties
<1>2. s[i] \in Int
  BY <1>1, Places
<1>3. ~(i < j) /\ ~(j < i)
  BY <1>2 DEF Sorted
<1> QED BY <1>1, <1>3

\* The elements of s are elements of a, in the same order.
InOrder(s, a) ==
    \A i, j \in DOMAIN s : i < j =>
        \E x, y \in DOMAIN a : x < y /\ a[x] = s[i] /\ a[y] = s[j]

\* AppliedInOrder, before and after a step, as InOrder.
LEMMA AppliedInOrderDef ==
    /\ \A s : AppliedInOrder(s) <=> InOrder(s, applied)
    /\ AppliedInOrder(acked)' <=> InOrder(acked', applied')
    /\ AppliedInOrder(acked \o request)' <=> InOrder(acked' \o request', applied')
BY DEF AppliedInOrder, InOrder

\* Records applied in order stay so while the manager applies more.
LEMMA InOrderGrows ==
    ASSUME NEW S, NEW a \in Seq(S), NEW r \in Seq(S), NEW s, InOrder(s, a)
    PROVE  InOrder(s, a \o r)
<1>1. \A x \in DOMAIN a : x \in DOMAIN (a \o r) /\ (a \o r)[x] = a[x]
  BY ConcatProperties, LenProperties
<1> QED BY <1>1 DEF InOrder

\* What the handler appends comes after what was acknowledged before it.
LEMMA InOrderAppends ==
    ASSUME NEW S, NEW q \in Seq(S), NEW r \in Seq(S), NEW s \in Seq(S),
           InOrder(s, q), ToSet(s) \subseteq ToSet(q)
    PROVE  InOrder(s \o r, q \o r)
<1> DEFINE t == s \o r
           p == q \o r
           n == Len(q)
<1>1. /\ DOMAIN s = 1..Len(s) /\ Len(s) \in Nat /\ DOMAIN r = 1..Len(r) /\ Len(r) \in Nat
      /\ DOMAIN q = 1..n /\ n \in Nat
  BY LenProperties
<1>2. /\ DOMAIN t = 1..(Len(s) + Len(r))
      /\ \A i \in DOMAIN t : t[i] = IF i <= Len(s) THEN s[i] ELSE r[i - Len(s)]
  BY ConcatProperties, LenProperties
<1>3. /\ DOMAIN p = 1..(n + Len(r))
      /\ \A i \in DOMAIN p : p[i] = IF i <= n THEN q[i] ELSE r[i - n]
  BY ConcatProperties, LenProperties
<1>4. InOrder(s, p)
  BY InOrderGrows
<1> SUFFICES ASSUME NEW i \in DOMAIN t, NEW j \in DOMAIN t, i < j
             PROVE  \E x, y \in DOMAIN p : x < y /\ p[x] = t[i] /\ p[y] = t[j]
  BY DEF InOrder
<1> HIDE DEF t, n, p
<1>5. CASE j <= Len(s)
  <2>1. i \in DOMAIN s /\ j \in DOMAIN s /\ t[i] = s[i] /\ t[j] = s[j]
    BY <1>1, <1>2, <1>5
  <2> QED BY <1>4, <2>1 DEF InOrder
<1>6. CASE ~(j <= Len(s))
  <2>1. j - Len(s) \in DOMAIN r /\ t[j] = r[j - Len(s)]
    BY <1>1, <1>2, <1>6
  <2> DEFINE y == n + (j - Len(s))
  <2>2. y \in DOMAIN p /\ p[y] = t[j]
    BY <1>1, <1>3, <2>1
  <2>3. CASE i <= Len(s)
    <3>1. i \in DOMAIN s /\ t[i] = s[i]
      BY <1>1, <1>2, <2>3
    <3>2. PICK x \in DOMAIN q : q[x] = s[i]
      BY <3>1 DEF ToSet
    <3>3. x \in DOMAIN p /\ p[x] = t[i] /\ x < y
      BY <1>1, <1>3, <2>1, <3>1, <3>2
    <3> QED BY <2>2, <3>3
  <2>4. CASE ~(i <= Len(s))
    <3>1. i - Len(s) \in DOMAIN r /\ t[i] = r[i - Len(s)]
      BY <1>1, <1>2, <2>4
    <3> DEFINE x == n + (i - Len(s))
    <3>2. x \in DOMAIN p /\ p[x] = t[i] /\ x < y
      BY <1>1, <1>2, <1>3, <3>1
    <3> QED BY <2>2, <3>2
  <2> QED BY <2>3, <2>4
<1> QED BY <1>5, <1>6

\* Steps in which nothing is pushed, applied or acknowledged.
LEMMA SilentManager ==
    ASSUME ManagerInv, lost \subseteq lost', handlers' \subseteq handlers,
           UNCHANGED <<request, applied, acked>>,
           lpc' = lpc \/ {lpc, lpc'} \cap {"call", "wait"} = {}
    PROVE  ManagerInv'
<1>1. AppliedAtMostOnce'
  BY DEF ManagerInv, AppliedAtMostOnce, IsInjective
<1>2. HandlersApart'
  BY DEF ManagerInv, HandlersApart
<1>3. AppliedKnown' /\ (ToSet(acked) \subseteq ToSet(applied))'
  BY DEF ManagerInv, AppliedKnown
<1>4. AppliedInOrder(acked)'
  BY DEF ManagerInv, AppliedInOrder
<1>5. OrderKept'
  BY DEF ManagerInv, OrderKept, AppliedInOrder
<1> QED BY <1>1, <1>2, <1>3, <1>4, <1>5 DEF ManagerInv

\* The request is new to the manager: its records were in the lists.
LEMMA CopyManager ==
    ASSUME TypeInv, PlaceInv, ManagerInv, CopyAndReset
    PROVE  ManagerInv'
<1> DEFINE s == events["process"]
           t == events["flow"]
<1>1. /\ lpc = "copy" /\ UNCHANGED <<handlers, applied, acked>>
      /\ \/ request' = s \o t /\ lost' = lost /\ lpc' = "call"
         \/ request' = request /\ lost' = lost \cup ToSet(s \o t) /\ lpc' = "sleep"
  BY DEF CopyAndReset, CopiedEvents, mgrVars
<1>2. request = <<>> /\ ToSet(request) = {}
  BY <1>1, ToSetEmpty DEF TypeInv, DataOK
<1>3. \A r \in handlers : ToSet(r) \subseteq lost
  BY <1>1 DEF ManagerInv, HandlersApart
<1>4. ToSet(applied) \subseteq ToSet(acked) \cup lost
  BY <1>2 DEF ManagerInv, AppliedKnown
<1>5. ToSet(s \o t) \cap (ToSet(acked) \cup lost) = {}
  <2>1. s \in Seq(Records) /\ t \in Seq(Records) /\ "process" \in Kinds /\ "flow" \in Kinds
    BY DEF TypeInv, ObserveTypeOK, Kinds
  <2>2. ToSet(s \o t) = ListSet("process") \cup ListSet("flow")
    BY <2>1, ToSetConcat DEF ListSet
  <2>3. \A k \in Kinds : ToSet(acked) \cap ListSet(k) = {}
    BY OlderApart, Places DEF PlaceInv, Pipeline
  <2>4. \A k \in Kinds : ListSet(k) \subseteq Waiting
    BY InWaiting
  <2> QED BY <2>1, <2>2, <2>3, <2>4 DEF PlaceInv, LostApart
<1>6. AppliedAtMostOnce'
  BY <1>1 DEF ManagerInv, AppliedAtMostOnce, IsInjective
<1>7. HandlersApart'
  BY <1>1, <1>3 DEF ManagerInv, HandlersApart
<1>8. AppliedKnown' /\ (ToSet(acked) \subseteq ToSet(applied))'
  BY <1>1, <1>4, <1>5 DEF ManagerInv, AppliedKnown
<1>9. AppliedInOrder(acked)'
  BY <1>1 DEF ManagerInv, AppliedInOrder
<1>10. OrderKept'
  BY <1>1 DEF OrderKept
<1> QED BY <1>6, <1>7, <1>8, <1>9, <1>10 DEF ManagerInv

\* Deliver, CallReturns and CallFails.
LEMMA CallManager ==
    ASSUME TypeInv, PlaceInv, ManagerInv, Call
    PROVE  ManagerInv'
<1>1. /\ AppliedAtMostOnce /\ HandlersApart /\ AppliedKnown
      /\ ToSet(acked) \subseteq ToSet(applied) /\ AppliedInOrder(acked) /\ OrderKept
  BY DEF ManagerInv
<1>2. request \in Seq(Records) /\ acked \in Seq(Records) /\ applied \in Seq(Records)
  BY DEF TypeInv, DataOK
<1>3. applied' = applied /\ AppliedAtMostOnce'
  BY <1>1 DEF Call, Deliver, CallReturns, CallFails, AppliedAtMostOnce, IsInjective
<1>4. ToSet(request) \cap lost = {}
  BY InWaiting DEF PlaceInv, LostApart
<1>5. CASE Deliver
  <2>1. /\ lpc = "call" /\ lpc' = "wait" /\ handlers' = handlers \cup {request}
        /\ UNCHANGED <<lost, request, applied, acked>>
    BY <1>5 DEF Deliver, observeVars
  <2>2. IsInjective(request)
    BY <1>2, SortedInjective DEF PlaceInv, EachSorted
  <2>3. ToSet(request) \cap ToSet(applied) = {}
    BY <1>1, <2>1 DEF AppliedKnown
  <2>4. \A r \in handlers : ToSet(r) \subseteq lost
    BY <1>1, <2>1 DEF HandlersApart
  <2>5. HandlersApart'
    BY <1>1, <1>4, <2>1, <2>2, <2>3, <2>4 DEF HandlersApart
  <2>6. AppliedKnown' /\ (ToSet(acked) \subseteq ToSet(applied))'
    BY <1>1, <2>1 DEF AppliedKnown
  <2>7. AppliedInOrder(acked)'
    BY <1>1, <2>1 DEF AppliedInOrder
  <2>8. OrderKept'
    <3> SUFFICES ASSUME ToSet(request) \subseteq ToSet(applied) PROVE AppliedInOrder(acked \o request)'
      BY <2>1 DEF OrderKept
    <3>1. request = <<>>
      BY <1>2, <2>3, EmptyOfToSet
    <3>2. acked \o request = acked
      BY <1>2, <3>1, ConcatEmptySeq
    <3> QED BY <1>1, <2>1, <3>2 DEF AppliedInOrder
  <2> QED BY <1>3, <2>5, <2>6, <2>7, <2>8 DEF ManagerInv
<1>6. CASE CallReturns
  <2>1. /\ lpc = "wait" /\ lpc' = "sleep" /\ acked' = acked \o request /\ request' = <<>>
        /\ UNCHANGED <<lost, handlers, applied>>
        /\ request \notin handlers /\ ToSet(request) \subseteq ToSet(applied)
    BY <1>6 DEF CallReturns, RequestDone, HandlerReturned, observeVars, mgrVars
  <2>2. ToSet(acked') = ToSet(acked) \cup ToSet(request)
    BY <1>2, <2>1, ToSetConcat
  <2>3. \A r \in handlers : ToSet(r) \subseteq lost
    BY <1>1, <2>1 DEF HandlersApart
  <2>4. HandlersApart'
    BY <1>1, <2>1, <2>3 DEF HandlersApart
  <2>5. AppliedKnown' /\ (ToSet(acked) \subseteq ToSet(applied))'
    BY <1>1, <2>1, <2>2 DEF AppliedKnown
  <2>6. AppliedInOrder(acked)'
    BY <1>1, <2>1 DEF OrderKept, AppliedInOrder
  <2>7. OrderKept'
    BY <2>1 DEF OrderKept
  <2> QED BY <1>3, <2>4, <2>5, <2>6, <2>7 DEF ManagerInv
<1>7. CASE CallFails
  <2>1. /\ lpc' = "sleep" /\ request' = <<>> /\ lost' = lost \cup ToSet(request)
        /\ UNCHANGED <<handlers, applied, acked>>
    BY <1>7 DEF CallFails, RequestDone, mgrVars
  <2>2. HandlersApart'
    BY <1>1, <2>1 DEF HandlersApart
  <2>3. AppliedKnown' /\ (ToSet(acked) \subseteq ToSet(applied))'
    BY <1>1, <2>1 DEF AppliedKnown
  <2>4. AppliedInOrder(acked)'
    BY <1>1, <2>1 DEF AppliedInOrder
  <2>5. OrderKept'
    BY <2>1 DEF OrderKept
  <2> QED BY <1>3, <2>2, <2>3, <2>4, <2>5 DEF ManagerInv
<1> QED BY <1>5, <1>6, <1>7 DEF Call

\* A handler runs, of the call that waits or of one that was given up.
LEMMA ApplyManager ==
    ASSUME TypeInv, PlaceInv, ManagerInv, NEW r \in handlers, Apply(r)
    PROVE  ManagerInv'
<1>1. /\ AppliedAtMostOnce /\ HandlersApart /\ AppliedKnown
      /\ ToSet(acked) \subseteq ToSet(applied) /\ AppliedInOrder(acked) /\ OrderKept
  BY DEF ManagerInv
<1>2. /\ request \in Seq(Records) /\ acked \in Seq(Records) /\ applied \in Seq(Records)
      /\ r \in Seq(Records)
  BY DEF TypeInv, DataOK
<1>3. /\ handlers' = handlers \ {r} /\ applied' = applied \o r
      /\ UNCHANGED <<lost, lpc, request, acked>>
  BY DEF Apply, observeVars
<1>4. /\ IsInjective(r) /\ ToSet(r) \cap ToSet(applied) = {}
      /\ ToSet(r) \subseteq lost \/ (lpc = "wait" /\ r = request)
  BY <1>1 DEF HandlersApart
<1>5. ToSet(applied') = ToSet(applied) \cup ToSet(r)
  BY <1>2, <1>3, ToSetConcat
<1>6. ToSet(request) \cap lost = {}
  BY InWaiting DEF PlaceInv, LostApart
<1>7. AppliedAtMostOnce'
  <2>1. IsInjective(applied \o r)
    BY <1>1, <1>2, <1>4, InjectiveConcat DEF AppliedAtMostOnce
  <2> QED BY <1>3, <2>1 DEF AppliedAtMostOnce, IsInjective
<1>8. HandlersApart'
  BY <1>1, <1>3, <1>5 DEF HandlersApart
<1>9. AppliedKnown' /\ (ToSet(acked) \subseteq ToSet(applied))'
  BY <1>1, <1>3, <1>4, <1>5, <1>6 DEF AppliedKnown
<1>10. AppliedInOrder(acked)'
  BY <1>1, <1>2, <1>3, InOrderGrows, AppliedInOrderDef
<1>11. OrderKept'
  <2> SUFFICES ASSUME lpc = "wait", ToSet(request) \subseteq ToSet(applied')
               PROVE  InOrder(acked \o request, applied \o r)
    BY <1>3, AppliedInOrderDef DEF OrderKept
  <2>1. CASE r = request
    BY <1>1, <1>2, <2>1, InOrderAppends, AppliedInOrderDef
  <2>2. CASE ToSet(r) \subseteq lost
    <3>1. ToSet(request) \subseteq ToSet(applied)
      BY <1>5, <1>6, <2>2
    <3>2. InOrder(acked \o request, applied)
      BY <1>1, <3>1, AppliedInOrderDef DEF OrderKept
    <3> QED BY <1>2, <3>2, InOrderGrows
  <2> QED BY <1>4, <2>1, <2>2
<1> QED BY <1>7, <1>8, <1>9, <1>10, <1>11 DEF ManagerInv

\* So each step keeps what is said of the manager.
LEMMA ManagerStep ==
    ASSUME TypeInv, PlaceInv, ManagerInv, [Next]_vars
    PROVE  ManagerInv'
<1>1. CASE CopyAndReset \/ Call \/ Manager
  BY <1>1, CopyManager, CallManager, ApplyManager DEF Manager
<1>2. CASE Trace
  <2>1. UNCHANGED <<lpc, request, handlers, applied, acked>>
    BY <1>2 DEF Trace, mgrVars
  <2>2. lost \subseteq lost'
    BY <1>2, TraceCases DEF Output
  <2> QED BY <2>1, <2>2, SilentManager
<1>3. CASE StopReturns
  <2>1. UNCHANGED <<lpc, request, handlers, applied, acked>> /\ lost \subseteq lost'
    BY <1>3 DEF StopReturns, Release, mgrVars
  <2> QED BY <2>1, SilentManager
<1>4. CASE LoopTest \/ CollectProcess \/ CollectFlow \/ Read \/ Collected \/ Wake \/ RunReturns
  <2>1. UNCHANGED <<lost, request, handlers, applied, acked>>
    BY <1>4 DEF LoopTest, CollectProcess, CollectFlow, PollBegins, PollFails, Read, ReadRing,
                Collected, Wake, RunReturns, mgrVars, observeVars
  <2>2. {lpc, lpc'} \cap {"call", "wait"} = {}
    BY <1>4 DEF LoopTest, CollectProcess, CollectFlow, Read, Collected, Wake, RunReturns, Kinds,
                TypeInv, ControlOK
  <2> QED BY <2>1, <2>2, SilentManager
<1>5. CASE \/ Connect \/ ConnectTimesOut \/ ObserverLoads \/ ObserverReady \/ StopBegins \/ Signal
           \/ ManagerStops \/ ManagerStarts \/ UNCHANGED vars
  <2>1. UNCHANGED <<lost, lpc, request, applied, acked>> /\ handlers' \subseteq handlers
    BY <1>5 DEF Connect, ConnectTimesOut, ObserverLoads, InitStage, ObserverReady, StopBegins,
                Signal, ManagerStops, ManagerStarts, vars, observeVars, mgrVars
  <2> QED BY <2>1, SilentManager
<1> QED BY <1>1, <1>2, <1>3, <1>4, <1>5 DEF Next, Main, PushLoop

(***************************************************************************)
(* The theorems.                                                           *)
(***************************************************************************)
\* At first there are no records.
LEMMA InitPlace == Init => PlaceInv /\ ManagerInv
<1> SUFFICES ASSUME Init PROVE PlaceInv /\ ManagerInv
  OBVIOUS
<1>1. /\ request = <<>> /\ acked = <<>> /\ applied = <<>> /\ handlers = {} /\ lost = {}
      /\ lpc = "off"
      /\ \A k \in Kinds : events[k] = <<>> /\ \A c \in Cpus : rings[k][c] = <<>>
  BY DEF Init, ObserveInit
<1>2. ToSet(<<>>) = {} /\ Sorted(<<>>) /\ IsInjective(<<>>) /\ AppliedInOrder(<<>>)
  BY ToSetEmpty DEF Sorted, IsInjective, AppliedInOrder
<1>3. /\ \A k \in Kinds : ListSet(k) = {}
      /\ \A k \in Kinds, c \in Cpus : RingSet(k, c) = {}
  BY <1>1, <1>2 DEF ListSet, RingSet
<1>4. InItsPlace /\ Pipeline /\ LostApart
  BY <1>1, <1>2, <1>3 DEF InItsPlace, Pipeline, LostApart, Older
<1>5. EachSorted
  BY <1>1, <1>2 DEF EachSorted
<1>6. ManagerInv
  BY <1>1, <1>2 DEF ManagerInv, AppliedAtMostOnce, HandlersApart, AppliedKnown, OrderKept
<1> QED BY <1>4, <1>5, <1>6 DEF PlaceInv

\* IndInv is inductive, so it always holds.
LEMMA Invariance == Spec => []IndInv
<1>1. Init => IndInv
  BY InitType, InitPlace DEF IndInv
<1>2. IndInv /\ [Next]_vars => IndInv'
  BY TypeStep, PlaceStep, ManagerStep DEF IndInv
<1> QED BY <1>1, <1>2, PTL DEF Spec

\* The variables of main, push loop, collector and manager keep their types,
\* and do_push holds a request only around its call.
THEOREM TypeCorrect == Spec => []TypeOK
<1>1. IndInv => TypeOK
  BY TypeFromInv DEF IndInv
<1> QED BY <1>1, Invariance, PTL

\* The manager applies no record twice, whatever calls fail and whenever.
THEOREM AtMostOnce == Spec => []AppliedAtMostOnce
<1>1. IndInv => AppliedAtMostOnce
  BY DEF IndInv, ManagerInv
<1> QED BY <1>1, Invariance, PTL

\* Acknowledged records were applied, in an order that for each program and
\* CPU is the order of their output.
THEOREM InOrderOfOutput == Spec => []AckedInOrder
<1>1. IndInv => AckedInOrder
  BY DEF IndInv, ManagerInv, PlaceInv, EachSorted, AckedInOrder
<1> QED BY <1>1, Invariance, PTL

\* Steps that EventFeed does not see.
LEMMA FeedStutters ==
    ASSUME UNCHANGED <<origin, applied, acked, lost>>, Waiting' = Waiting
    PROVE  UNCHANGED Feed!vars
BY DEF Feed!vars

\* bpf_perf_event_output makes an event.
LEMMA OutputFeeds ==
    ASSUME TypeInv, PlaceInv, NEW k \in Kinds, NEW c \in Cpus, Output(k, c),
           UNCHANGED <<events, request, applied, acked>>
    PROVE  Feed!Make
<1> DEFINE e == Len(origin) + 1
<1>1. Len(origin') = e
  BY OutputFacts DEF TypeInv
<1>2. \A l \in Kinds : ListSet(l)' = ListSet(l)
  BY DEF ListSet
<1>3. rings \in [Kinds -> [Cpus -> Seq(Records)]]
  BY DEF TypeInv, ObserveTypeOK
<1> HIDE DEF e
<1>4. CASE rings' = rings /\ lost' = lost \cup {e}
  <2>1. Waiting' = Waiting
    BY <1>4 DEF Waiting, Unsent, Unread
  <2> QED BY <1>1, <1>4, <2>1 DEF Feed!Make, e
<1>5. CASE rings' = [rings EXCEPT ![k][c] = Append(@, e)] /\ lost' = lost
  <2>1. rings[k][c] \in Seq(Records \cup {e})
    BY <1>3, SeqMonotonic
  <2>2. ToSet(Append(rings[k][c], e)) = RingSet(k, c) \cup {e}
    BY <2>1, ToSetAppend DEF RingSet
  <2>3. /\ rings'[k][c] = Append(rings[k][c], e)
        /\ \A l \in Kinds, d \in Cpus : <<l, d>> # <<k, c>> => rings'[l][d] = rings[l][d]
    BY <1>3, <1>5
  <2>4. \A l \in Kinds, d \in Cpus : \A x : x \in RingSet(l, d)' <=>
           x \in RingSet(l, d) \/ (x = e /\ l = k /\ d = c)
    BY <2>2, <2>3 DEF RingSet
  <2>5. \A x : x \in Waiting' <=> x \in Waiting \/ x = e
    BY <1>2, <2>4, InWaiting, InWaitingNext
  <2>6. Waiting' = Waiting \cup {e}
    BY <2>5
  <2> QED BY <1>1, <1>5, <2>6 DEF Feed!Make, e
<1> QED BY <1>4, <1>5 DEF Output, e

\* A record that is read still waits.
LEMMA ReadFeeds ==
    ASSUME TypeInv, NEW k \in Kinds, NEW c \in Cpus, ReadRing(k, c),
           UNCHANGED <<request, applied, acked>>
    PROVE  UNCHANGED Feed!vars
<1>1. /\ events \in [Kinds -> Seq(Records)] /\ rings \in [Kinds -> [Cpus -> Seq(Records)]]
  BY DEF TypeInv, ObserveTypeOK
<1>2. /\ events'[k] = events[k] \o rings[k][c] /\ rings'[k][c] = <<>>
      /\ \A l \in Kinds : l # k => events'[l] = events[l]
      /\ \A l \in Kinds, d \in Cpus : <<l, d>> # <<k, c>> => rings'[l][d] = rings[l][d]
  BY <1>1 DEF ReadRing, RingContent
<1>3. ToSet(events[k] \o rings[k][c]) = ListSet(k) \cup RingSet(k, c) /\ ToSet(<<>>) = {}
  BY <1>1, ToSetConcat, ToSetEmpty DEF ListSet, RingSet
<1>4. /\ \A l \in Kinds : \A x : x \in ListSet(l)' <=>
            x \in ListSet(l) \/ (l = k /\ x \in RingSet(k, c))
      /\ \A l \in Kinds, d \in Cpus : \A x : x \in RingSet(l, d)' <=>
            x \in RingSet(l, d) /\ <<l, d>> # <<k, c>>
  BY <1>2, <1>3 DEF ListSet, RingSet
<1>5. \A x : x \in Waiting' <=> x \in Waiting
  BY <1>4, InWaiting, InWaitingNext
<1>6. Waiting' = Waiting
  BY <1>5
<1> QED BY <1>6, FeedStutters DEF ReadRing, RingContent

\* Copied records still wait, in the request, or are lost.
LEMMA CopyFeeds ==
    ASSUME TypeInv, PlaceInv, CopyAndReset
    PROVE  Feed!Lose
<1> DEFINE s == events["process"]
           t == events["flow"]
<1>1. /\ lpc = "copy" /\ UNCHANGED <<rings, origin, applied, acked>>
      /\ \A l \in Kinds : events'[l] = <<>>
      /\ \/ request' = s \o t /\ lost' = lost
         \/ request' = request /\ lost' = lost \cup ToSet(s \o t)
  BY DEF CopyAndReset, CopiedEvents, ListsCleared
<1>2. ToSet(<<>>) = {} /\ ToSet(request) = {}
  BY <1>1, ToSetEmpty DEF TypeInv, DataOK
<1>3. ToSet(s \o t) = ListSet("process") \cup ListSet("flow")
  <2>1. s \in Seq(Records) /\ t \in Seq(Records)
    BY DEF TypeInv, ObserveTypeOK, Kinds
  <2> QED BY <2>1, ToSetConcat DEF ListSet
<1> HIDE DEF s, t
<1>4. /\ \A l \in Kinds : ListSet(l)' = {}
      /\ \A l \in Kinds, d \in Cpus : RingSet(l, d)' = RingSet(l, d)
      /\ \A x : x \in ToSet(s \o t) <=> \E l \in Kinds : x \in ListSet(l)
  BY <1>1, <1>2, <1>3 DEF ListSet, RingSet, Kinds
<1>5. CASE request' = s \o t /\ lost' = lost
  <2>1. \A x : x \in Waiting' <=> x \in Waiting
    BY <1>2, <1>4, <1>5, InWaiting, InWaitingNext
  <2>2. Waiting' = Waiting
    BY <2>1
  <2> QED BY <1>1, <1>5, <2>2 DEF Feed!Lose
<1>6. CASE request' = request /\ lost' = lost \cup ToSet(s \o t)
  <2>1. \A l \in Kinds : \A m \in Kinds, d \in Cpus : ListSet(l) \cap RingSet(m, d) = {}
    BY OlderApart, Places DEF PlaceInv, Pipeline
  <2>2. \A x : x \in Waiting' <=> x \in Waiting /\ x \notin ToSet(s \o t)
    BY <1>2, <1>4, <1>6, <2>1, InWaiting, InWaitingNext
  <2>3. ToSet(s \o t) \subseteq Waiting
    BY <1>4, InWaiting
  <2>4. Waiting' = Waiting \ ToSet(s \o t)
    BY <2>2
  <2> QED BY <1>1, <1>6, <2>3, <2>4 DEF Feed!Lose
<1> QED BY <1>1, <1>5, <1>6

\* The request leaves Waiting when the call ends, either way.
LEMMA RequestLeaves ==
    ASSUME TypeInv, PlaceInv, CallReturns \/ CallFails
    PROVE  Waiting' = Waiting \ ToSet(request) /\ ToSet(request) \subseteq Waiting
<1>1. request' = <<>> /\ rings' = rings /\ events' = events
  BY DEF CallReturns, CallFails, RequestDone, observeVars
<1>2. /\ ToSet(request') = {} /\ \A l \in Kinds : ListSet(l)' = ListSet(l)
      /\ \A l \in Kinds, d \in Cpus : RingSet(l, d)' = RingSet(l, d)
  BY <1>1, ToSetEmpty DEF ListSet, RingSet
<1>3. \A l \in Kinds : /\ ToSet(request) \cap ListSet(l) = {}
                       /\ \A d \in Cpus : ToSet(request) \cap RingSet(l, d) = {}
  BY OlderApart, Places DEF PlaceInv, Pipeline
<1>4. \A x : x \in Waiting' <=> x \in Waiting /\ x \notin ToSet(request)
  BY <1>2, <1>3, InWaiting, InWaitingNext
<1>5. ToSet(request) \subseteq Waiting
  BY InWaiting
<1> QED BY <1>4, <1>5

\* The call that returns acknowledges the request.
LEMMA ReturnFeeds ==
    ASSUME TypeInv, PlaceInv, ManagerInv, CallReturns
    PROVE  Feed!Acknowledge
<1>1. acked \in Seq(Records) /\ request \in Seq(Records)
  BY DEF TypeInv, DataOK
<1>2. /\ acked' = acked \o request /\ UNCHANGED <<origin, applied, lost>>
      /\ ToSet(request) \subseteq ToSet(applied)
  BY DEF CallReturns, HandlerReturned, observeVars
<1>3. ToSet(acked') = ToSet(acked) \cup ToSet(request) /\ IsPrefix(acked, acked')
  BY <1>1, <1>2, ToSetConcat, PrefixOfConcat
<1>4. ToSet(acked) \cap ToSet(request) = {}
  BY OlderApart, Places DEF PlaceInv, Pipeline
<1>5. Waiting' = Waiting \ ToSet(request) /\ ToSet(request) \subseteq Waiting
  BY RequestLeaves
<1>6. ToSet(acked) \subseteq ToSet(applied)
  BY DEF ManagerInv
<1>7. Feed!IsPrefix(acked, acked')
  BY <1>3 DEF IsPrefix, Feed!IsPrefix
<1>8. ToSet(acked') \ ToSet(acked) = Waiting \ Waiting'
  BY <1>3, <1>4, <1>5
<1> QED BY <1>2, <1>3, <1>5, <1>6, <1>7, <1>8 DEF Feed!Acknowledge, Feed!ToSet, ToSet

\* The worker's end loses what is unread.
LEMMA ReleaseFeeds ==
    ASSUME TypeInv, PlaceInv, StopReturns
    PROVE  Feed!Lose
<1>1. /\ UNCHANGED <<origin, applied, acked>> /\ request' = request /\ lost' = lost \cup Unread
      /\ \A l \in Kinds, d \in Cpus : rings'[l][d] = <<>>
      /\ events' = events
  BY DEF StopReturns, Release
<1>2. /\ \A l \in Kinds : ListSet(l)' = ListSet(l)
      /\ \A l \in Kinds, d \in Cpus : RingSet(l, d)' = {}
  BY <1>1, ToSetEmpty DEF ListSet, RingSet
<1>3. \A l \in Kinds, d \in Cpus :
         /\ ToSet(request) \cap RingSet(l, d) = {}
         /\ \A m \in Kinds : ListSet(m) \cap RingSet(l, d) = {}
  BY OlderApart, Places DEF PlaceInv, Pipeline
<1>4. \A x : x \in Unread <=> \E l \in Kinds, d \in Cpus : x \in RingSet(l, d)
  BY DEF Unread, RingSet
<1>5. \A x : x \in Waiting' <=> x \in Waiting /\ x \notin Unread
  BY <1>1, <1>2, <1>3, <1>4, InWaiting, InWaitingNext
<1>6. Waiting' = Waiting \ Unread /\ Unread \subseteq Waiting
  BY <1>4, <1>5, InWaiting
<1> QED BY <1>1, <1>6 DEF Feed!Lose

\* A handler applies events that wait or were given up, and no other.
LEMMA ApplyFeeds ==
    ASSUME TypeInv, ManagerInv, ManagerInv', NEW r \in handlers, Apply(r)
    PROVE  Feed!Apply
<1>1. applied \in Seq(Records) /\ r \in Seq(Records)
  BY DEF TypeInv, DataOK
<1>2. /\ applied' = applied \o r
      /\ UNCHANGED <<rings, events, origin, lost, request, acked>>
  BY DEF Apply, observeVars
<1>3. ToSet(applied') = ToSet(applied) \cup ToSet(r) /\ IsPrefix(applied, applied')
  BY <1>1, <1>2, ToSetConcat, PrefixOfConcat
<1>4. Feed!IsPrefix(applied, applied')
  BY <1>3 DEF IsPrefix, Feed!IsPrefix
<1>5. Feed!IsInjective(applied')
  BY DEF ManagerInv, AppliedAtMostOnce, IsInjective, Feed!IsInjective
<1>6. ToSet(r) \subseteq lost \/ r = request
  BY DEF ManagerInv, HandlersApart
<1>7. ToSet(applied') \ ToSet(applied) \subseteq Waiting \cup lost
  BY <1>3, <1>6, InWaiting
<1>8. Waiting' = Waiting
  BY <1>2 DEF Waiting, Unsent, Unread
<1> QED BY <1>2, <1>4, <1>5, <1>7, <1>8 DEF Feed!Apply, Feed!ToSet, ToSet

\* Collector, push loop, call and manager together keep what EventFeed
\* promises of a record: it waits, is acknowledged after it was applied, or is
\* lost, and it is applied at most once.
THEOREM FeedRefinement == Spec => ImplementsFeed
<1>1. Init => Feed!Init
  <2> SUFFICES ASSUME Init PROVE Feed!Init
    OBVIOUS
  <2>1. /\ origin = <<>> /\ request = <<>> /\ lost = {} /\ applied = <<>> /\ acked = <<>>
        /\ \A k \in Kinds : events[k] = <<>> /\ \A c \in Cpus : rings[k][c] = <<>>
    BY DEF Init, ObserveInit
  <2>2. \A x : x \notin Waiting
    BY <2>1, ToSetEmpty, InWaiting DEF ListSet, RingSet
  <2>3. Len(origin) = 0 /\ Waiting = {}
    BY <2>1, <2>2, EmptySeq
  <2> QED BY <2>1, <2>3 DEF Feed!Init
<1>2. ASSUME IndInv, IndInv', [Next]_vars PROVE [Feed!Next]_(Feed!vars)
  <2>1. TypeInv /\ PlaceInv /\ ManagerInv /\ ManagerInv'
    BY <1>2 DEF IndInv
  <2>2. CASE Trace
    <3>1. UNCHANGED <<events, request, applied, acked>>
      BY <2>2, TraceCases
    <3>2. ASSUME NEW k \in Kinds, NEW c \in Cpus, Output(k, c) PROVE Feed!Make
      BY <2>1, <3>1, <3>2, OutputFeeds
    <3>3. CASE UNCHANGED <<rings, origin, lost>>
      BY <3>1, <3>3, FeedStutters DEF Waiting, Unsent, Unread
    <3> QED BY <2>2, <3>2, <3>3, TraceCases DEF Feed!Next
  <2>3. CASE CopyAndReset \/ StopReturns
    BY <2>1, <2>3, CopyFeeds, ReleaseFeeds DEF Feed!Next
  <2>4. CASE CallReturns
    BY <2>1, <2>4, ReturnFeeds DEF Feed!Next
  <2>5. CASE CallFails
    <3>1. /\ Waiting' = Waiting \ ToSet(request) /\ ToSet(request) \subseteq Waiting
      BY <2>1, <2>5, RequestLeaves
    <3>2. UNCHANGED <<origin, applied, acked>> /\ lost' = lost \cup ToSet(request)
      BY <2>5 DEF CallFails
    <3> QED BY <3>1, <3>2 DEF Feed!Next, Feed!Lose
  <2>6. CASE Manager
    BY <2>1, <2>6, ApplyFeeds DEF Manager, Feed!Next
  <2>7. CASE Read
    <3>1. PICK c \in Cpus : ReadRing(lpc, c)
      BY <2>7 DEF Read
    <3> QED BY <2>1, <2>7, <3>1, ReadFeeds DEF Read
  <2>8. CASE \/ Connect \/ ConnectTimesOut \/ ObserverLoads \/ ObserverReady \/ RunReturns
             \/ StopBegins \/ Signal \/ LoopTest \/ CollectProcess \/ CollectFlow \/ Collected
             \/ Wake \/ Deliver \/ ManagerStops \/ ManagerStarts \/ UNCHANGED vars
    <3>1. UNCHANGED <<rings, events, origin, lost, request, applied, acked>>
      BY <2>8 DEF Connect, ConnectTimesOut, ObserverLoads, InitStage, ObserverReady, RunReturns,
                  StopBegins, Signal, LoopTest, CollectProcess, CollectFlow, PollBegins, PollFails,
                  Collected, Wake, Deliver, ManagerStops, ManagerStarts, vars, observeVars
    <3>2. Waiting' = Waiting
      BY <3>1 DEF Waiting, Unsent, Unread
    <3> QED BY <3>1, <3>2, FeedStutters
  <2> QED BY <1>2, <2>2, <2>3, <2>4, <2>5, <2>6, <2>7, <2>8 DEF Next, Main, PushLoop, Call
<1> QED BY <1>1, <1>2, Invariance, PTL DEF Spec, ImplementsFeed, Feed!Spec
=============================================================================
