------------------------- MODULE HostManagerProofs -------------------------
(***************************************************************************)
(* Proofs about HostManager, for every set of hosts and slots, every       *)
(* number of retained events and every clock bound.                        *)
(***************************************************************************)
EXTENDS HostManager, SequenceTheorems, TLAPS

(***************************************************************************)
(* The inductive invariant.  The time part relates the stamp of a snapshot *)
(* to the moment it was applied and to the last sweep, wake - SweepPeriod. *)
(***************************************************************************)
CallTimes ==
    \A s \in DOMAIN calls :
        /\ 1 <= calls[s].snap.last_update
        /\ calls[s].snap.last_update <= now
        /\ now <= calls[s].snap.last_update + MaxStall

HostTimes ==
    \A h \in DOMAIN hosts :
        /\ 1 <= hosts[h].last_update
        /\ hosts[h].last_update <= now
        /\ lastHeard[h] <= hosts[h].last_update + MaxStall

SweepTimes ==
    status = "serving" =>
        /\ now <= wake + SweepLag
        /\ wake <= now + SweepPeriod
        /\ \A h \in DOMAIN hosts : wake <= hosts[h].last_update + MaxAge + SweepPeriod

UnknownHasNoHistory == \A h \in Hosts \ DOMAIN hosts : applied[h] = <<>>

EventInv == KeepsLastEvents /\ UnknownHasNoHistory
TimeInv == CallTimes /\ HostTimes /\ SweepTimes /\ RecentReporterKnown
IndInv == TypeOK /\ EventInv /\ TimeInv

(***************************************************************************)
(* Lemmas about the operators.                                             *)
(***************************************************************************)

\* ComputeHealth stays within 0..100 for every reading, however extreme.
LEMMA HealthRange == ASSUME NEW m \in Readings PROVE ComputeHealth(m) \in 0..100
<1> DEFINE a == Excess(m.load, 8)
           b == Excess(100 - m.idle, 90)
           c == Excess(m.mem, 85)
<1>1. m.load \in Int /\ m.idle \in Int /\ m.mem \in Int /\ m.dropped \in Int
  BY DEF Readings
<1>2. a \in Nat /\ b \in Nat /\ c \in Nat
  BY <1>1 DEF Excess
<1> HIDE DEF a, b, c
<1>3. \A d \in {0, 10} : 100 - a * 5 - b * 2 - c * 2 - d <= 100
                      /\ 100 - a * 5 - b * 2 - c * 2 - d \in Int
  BY <1>2
<1> QED BY <1>3, <1>1 DEF ComputeHealth, a, b, c

\* The part of a sequence after its first m elements.
LEMMA DropFirst ==
    ASSUME NEW s \in Seq(Nat), NEW m \in 0..Len(s)
    PROVE  /\ SubSeq(s, m + 1, Len(s)) \in Seq(Nat)
           /\ Len(SubSeq(s, m + 1, Len(s))) = Len(s) - m
           /\ \A i \in 1..(Len(s) - m) : SubSeq(s, m + 1, Len(s))[i] = s[m + i]
<1>1. Len(s) \in Nat /\ \A i \in 1..Len(s) : s[i] \in Nat
  BY LenProperties
<1>2. m \in Nat /\ m <= Len(s)
  BY <1>1
<1>3. \A i \in (m + 1)..Len(s) : s[i] \in Nat
  BY <1>1, <1>2
<1> DEFINE q == SubSeq(s, m + 1, Len(s))
<1>4. /\ q \in Seq(Nat)
      /\ Len(q) = IF m + 1 <= Len(s) THEN Len(s) - (m + 1) + 1 ELSE 0
      /\ \A i \in 1..(Len(s) - (m + 1) + 1) : q[i] = s[m + 1 + i - 1]
  BY <1>1, <1>2, <1>3, SubSeqProperties
<1> HIDE DEF q
<1>5. Len(q) = Len(s) - m
  BY <1>1, <1>2, <1>4
<1>6. \A i \in 1..(Len(s) - m) : q[i] = s[m + i]
  <2> TAKE i \in 1..(Len(s) - m)
  <2>1. i \in 1..(Len(s) - (m + 1) + 1) /\ m + 1 + i - 1 = m + i
    BY <1>1, <1>2
  <2> QED BY <2>1, <1>4
<1> QED BY <1>4, <1>5, <1>6 DEF q

\* Keeping the last MaxEvents elements of a sequence yields a sequence.
LEMMA KeepLastType == ASSUME NEW s \in Seq(Nat) PROVE KeepLast(s) \in Seq(Nat)
<1>1. Len(s) \in Nat /\ MaxEvents \in Nat
  BY LenProperties, HostManagerAssumption
<1>2. CASE Len(s) > MaxEvents
  <2>1. Len(s) - MaxEvents \in 0..Len(s)
    BY <1>1, <1>2
  <2> QED BY <1>1, <1>2, <2>1, DropFirst DEF KeepLast
<1>3. CASE ~(Len(s) > MaxEvents)
  BY <1>3 DEF KeepLast
<1> QED BY <1>2, <1>3

\* Truncating before appending changes nothing: what Update computes from the
\* truncated list is what it would compute from the whole history.
LEMMA KeepLastAppend ==
    ASSUME NEW s \in Seq(Nat), NEW t \in Seq(Nat)
    PROVE  KeepLast(KeepLast(s) \o t) = KeepLast(s \o t)
<1>1. Len(s) \in Nat /\ Len(t) \in Nat /\ MaxEvents \in Nat
  BY LenProperties, HostManagerAssumption
<1>2. CASE ~(Len(s) > MaxEvents)
  BY <1>2 DEF KeepLast
<1>3. CASE Len(s) > MaxEvents
  <2> DEFINE m == Len(s) - MaxEvents
             k == SubSeq(s, m + 1, Len(s))
             u == k \o t
             w == s \o t
             l == Len(t)
  <2>1. m \in 0..Len(s) /\ m \in Nat /\ l \in Nat /\ Len(s) = m + MaxEvents
    BY <1>1, <1>3
  <2>2. k \in Seq(Nat) /\ Len(k) = Len(s) - m
        /\ \A i \in 1..(Len(s) - m) : k[i] = s[m + i]
    BY <2>1, DropFirst
  <2>3. Len(k) = MaxEvents /\ KeepLast(s) = k
    BY <1>1, <1>3, <2>1, <2>2 DEF KeepLast
  <2> HIDE DEF k, m
  <2>4. /\ u \in Seq(Nat) /\ Len(u) = MaxEvents + l
        /\ \A i \in 1..(MaxEvents + l) :
              u[i] = IF i <= MaxEvents THEN k[i] ELSE t[i - MaxEvents]
    <3>1. /\ u \in Seq(Nat) /\ Len(u) = Len(k) + Len(t)
          /\ \A i \in 1..(Len(k) + Len(t)) :
                u[i] = IF i <= Len(k) THEN k[i] ELSE t[i - Len(k)]
      BY <2>2, ConcatProperties
    <3> QED BY <2>3, <3>1
  <2>5. /\ w \in Seq(Nat) /\ Len(w) = Len(s) + l
        /\ \A i \in 1..(Len(s) + l) : w[i] = IF i <= Len(s) THEN s[i] ELSE t[i - Len(s)]
    BY ConcatProperties
  <2> HIDE DEF u, w, l
  <2>6. \A i \in 1..(MaxEvents + l) : u[i] = w[m + i]
    <3> TAKE i \in 1..(MaxEvents + l)
    <3>1. m + i \in 1..(Len(s) + l)
      BY <1>1, <2>1
    <3>2. CASE i <= MaxEvents
      <4>1. i \in 1..(Len(s) - m) /\ m + i <= Len(s)
        BY <1>1, <2>1, <3>2
      <4> QED BY <4>1, <2>2, <2>4, <2>5, <3>1, <3>2
    <3>3. CASE ~(i <= MaxEvents)
      <4>1. ~(m + i <= Len(s)) /\ (m + i) - Len(s) = i - MaxEvents
        BY <1>1, <2>1, <3>3
      <4>2. u[i] = t[i - MaxEvents]
        BY <2>4, <3>3
      <4>3. w[m + i] = t[(m + i) - Len(s)]
        BY <2>5, <3>1, <4>1
      <4> QED BY <4>1, <4>2, <4>3
    <3> QED BY <3>2, <3>3
  <2> DEFINE x == KeepLast(u)
             y == KeepLast(w)
  <2>7. /\ y \in Seq(Nat) /\ Len(y) = MaxEvents
        /\ \A i \in 1..MaxEvents : y[i] = w[m + l + i]
    <3>1. Len(w) > MaxEvents /\ Len(w) - MaxEvents = m + l /\ m + l \in 0..Len(w)
          /\ Len(w) - (m + l) = MaxEvents
      BY <1>1, <1>3, <2>1, <2>5
    <3>2. y = SubSeq(w, m + l + 1, Len(w))
      BY <3>1 DEF KeepLast
    <3>3. /\ SubSeq(w, m + l + 1, Len(w)) \in Seq(Nat)
          /\ Len(SubSeq(w, m + l + 1, Len(w))) = Len(w) - (m + l)
          /\ \A i \in 1..(Len(w) - (m + l)) : SubSeq(w, m + l + 1, Len(w))[i] = w[m + l + i]
      <4> HIDE DEF y
      <4>1. w \in Seq(Nat)
        BY <2>5
      <4>2. m + l \in 0..Len(w)
        BY <3>1
      <4> DEFINE d == m + l
      <4> HIDE DEF d
      <4> QED BY <4>1, <4>2, DropFirst DEF d
    <3> HIDE DEF y
    <3> QED BY <3>1, <3>2, <3>3
  <2>8. /\ x \in Seq(Nat) /\ Len(x) = MaxEvents
        /\ \A i \in 1..MaxEvents : x[i] = u[l + i]
    <3>1. CASE l = 0
      <4>1. x = u
        BY <1>1, <2>4, <3>1 DEF KeepLast
      <4>2. Len(u) = MaxEvents /\ \A i \in 1..MaxEvents : l + i = i
        BY <1>1, <2>4, <3>1
      <4> QED BY <2>4, <4>1, <4>2
    <3>2. CASE l > 0
      <4>1. Len(u) > MaxEvents /\ Len(u) - MaxEvents = l /\ l \in 0..Len(u)
            /\ Len(u) - l = MaxEvents
        BY <1>1, <2>1, <2>4, <3>2
      <4>2. x = SubSeq(u, l + 1, Len(u))
        BY <4>1 DEF KeepLast
      <4>3. /\ SubSeq(u, l + 1, Len(u)) \in Seq(Nat)
            /\ Len(SubSeq(u, l + 1, Len(u))) = Len(u) - l
            /\ \A i \in 1..(Len(u) - l) : SubSeq(u, l + 1, Len(u))[i] = u[l + i]
        BY <2>4, <4>1, DropFirst
      <4> HIDE DEF x
      <4> QED BY <4>1, <4>2, <4>3
    <3> QED BY <2>1, <3>1, <3>2
  <2>9. \A i \in 1..MaxEvents : x[i] = y[i]
    <3> TAKE i \in 1..MaxEvents
    <3>1. l + i \in 1..(MaxEvents + l) /\ m + (l + i) = m + l + i
      BY <1>1, <2>1
    <3>2. u[l + i] = w[m + (l + i)]
      BY <2>6, <3>1
    <3> QED BY <2>7, <2>8, <3>1, <3>2
  <2>10. x = y
    <3> HIDE DEF x, y
    <3> QED BY <2>7, <2>8, <2>9, SeqEqual
  <2> QED BY <2>3, <2>10 DEF u, w
<1> QED BY <1>2, <1>3

(***************************************************************************)
(* Initial states and steps.                                               *)
(***************************************************************************)
LEMMA InitInd == Init => IndInv
<1> SUFFICES ASSUME Init PROVE IndInv
  OBVIOUS
<1> USE HostManagerAssumption DEF Init
<1>1. TypeOK
  <2>1. DOMAIN hosts \subseteq Hosts /\ hosts \in [DOMAIN hosts -> HostSnapshot]
    OBVIOUS
  <2>2. /\ DOMAIN calls \subseteq Slots
        /\ calls \in [DOMAIN calls -> [host : Hosts, snap : HostSnapshot]]
    OBVIOUS
  <2>3. now \in Nat \ {0} /\ wake \in Nat /\ status \in {"serving", "stopping", "exited"}
    OBVIOUS
  <2>6. signalled \in BOOLEAN
    BY Zenon
  <2>4. applied \in [Hosts -> Seq(Nat)]
    OBVIOUS
  <2>5. sent \in [Hosts -> Nat] /\ lastHeard \in [Hosts -> Nat]
    BY DEF Never
  <2> QED BY <2>1, <2>2, <2>3, <2>4, <2>5, <2>6 DEF TypeOK
<1>2. EventInv
  BY DEF EventInv, KeepsLastEvents, UnknownHasNoHistory
<1>3. TimeInv
  BY DEF TimeInv, CallTimes, HostTimes, SweepTimes, RecentReporterKnown, Never
<1> QED BY <1>1, <1>2, <1>3 DEF IndInv

\* The requests of SetMonitorInfo are well-typed calls.
LEMMA SetMonitorInfoType ==
    ASSUME TypeOK, NEW s \in Slots, NEW h \in Hosts, NEW m \in Metrics,
           NEW k \in 0..MaxBatch,
           SetMonitorInfo(s, h, m, k)
    PROVE  TypeOK'
<1> USE HostManagerAssumption
<1> DEFINE snap == [last_update |-> now, metrics |-> m, health_score |-> 100,
                    diagnose_events |-> NewEvents(h, k)]
<1>1. NewEvents(h, k) \in Seq(Nat)
  <2>1. k \in Nat /\ sent[h] \in Nat
    BY DEF TypeOK
  <2>2. NewEvents(h, k) \in [1..k -> Nat]
    BY <2>1 DEF NewEvents
  <2> QED BY <2>1, <2>2, SeqDef
<1>2. snap \in HostSnapshot
  BY <1>1 DEF HostSnapshot, TypeOK
<1>3. [host |-> h, snap |-> snap] \in [host : Hosts, snap : HostSnapshot]
  BY <1>2
<1> HIDE DEF snap
<1>4. calls' = [t \in DOMAIN calls \cup {s} |->
                  IF t = s THEN [host |-> h, snap |-> snap] ELSE calls[t]]
  BY DEF SetMonitorInfo, Stamp, snap
<1>5. /\ DOMAIN calls' \subseteq Slots
      /\ calls' \in [DOMAIN calls' -> [host : Hosts, snap : HostSnapshot]]
  <2> DEFINE D == DOMAIN calls \cup {s}
             c == [host |-> h, snap |-> snap]
             C == [host : Hosts, snap : HostSnapshot]
  <2>1. c \in C /\ D \subseteq Slots /\ \A t \in DOMAIN calls : calls[t] \in C
    BY <1>3 DEF TypeOK
  <2>2. calls' = [t \in D |-> IF t = s THEN c ELSE calls[t]]
    BY <1>4
  <2> HIDE DEF c, C, D
  <2>3. \A t \in D : (IF t = s THEN c ELSE calls[t]) \in C
    BY <2>1 DEF D
  <2>4. DOMAIN calls' = D /\ calls' \in [D -> C]
    BY <2>2, <2>3
  <2> QED BY <2>1, <2>4 DEF C
<1>6. sent' \in [Hosts -> Nat]
  <2>1. sent' = [sent EXCEPT ![h] = @ + k]
    BY DEF SetMonitorInfo
  <2>2. sent \in [Hosts -> Nat] /\ k \in Nat
    BY DEF TypeOK
  <2> QED BY <2>1, <2>2
<1> QED BY <1>5, <1>6 DEF SetMonitorInfo, TypeOK, history

\* The snapshot that Update stores, and the rest of the state after it.
LEMMA MergeType ==
    ASSUME TypeOK, NEW h \in Hosts, NEW snap \in HostSnapshot
    PROVE  Merge(h, snap) \in HostSnapshot
<1>1. EventsKept(h) \in Seq(Nat)
  BY DEF EventsKept, TypeOK, HostSnapshot
<1>2. snap.diagnose_events \in Seq(Nat) /\ snap.metrics \in Readings
  BY DEF HostSnapshot
<1>3. EventsKept(h) \o snap.diagnose_events \in Seq(Nat)
  BY <1>1, <1>2, ConcatProperties
<1>4. KeepLast(EventsKept(h) \o snap.diagnose_events) \in Seq(Nat)
  BY <1>3, KeepLastType
<1>5. ComputeHealth(snap.metrics) \in 0..100
  BY <1>2, HealthRange
<1> QED BY <1>4, <1>5 DEF Merge, HostSnapshot

\* HostManager::Update stores a well-typed snapshot and drops the call.
LEMMA UpdateType ==
    ASSUME TypeOK, NEW s \in Slots, Update(s)
    PROVE  TypeOK'
<1> DEFINE h == calls[s].host
           snap == calls[s].snap
<1>1. s \in DOMAIN calls
  BY DEF Update
<1>2. h \in Hosts /\ snap \in HostSnapshot
  BY <1>1 DEF TypeOK
<1>3. snap.diagnose_events \in Seq(Nat)
  BY <1>2 DEF HostSnapshot
<1>4. Merge(h, snap) \in HostSnapshot
  BY <1>2, MergeType
<1>5. applied[h] \o snap.diagnose_events \in Seq(Nat)
  BY <1>2, <1>3, ConcatProperties DEF TypeOK
<1> HIDE DEF h, snap
<1>6. /\ hosts' = [g \in DOMAIN hosts \cup {h} |->
                     IF g = h THEN Merge(h, snap) ELSE hosts[g]]
      /\ calls' = [t \in DOMAIN calls \ {s} |-> calls[t]]
      /\ applied' = [applied EXCEPT ![h] = applied[h] \o snap.diagnose_events]
      /\ lastHeard' = [lastHeard EXCEPT ![h] = now]
      /\ UNCHANGED <<now, wake, signalled, status, sent>>
  BY DEF Update, h, snap
<1>7. DOMAIN hosts' \subseteq Hosts /\ hosts' \in [DOMAIN hosts' -> HostSnapshot]
  BY <1>2, <1>4, <1>6 DEF TypeOK
<1>8. /\ DOMAIN calls' \subseteq Slots
      /\ calls' \in [DOMAIN calls' -> [host : Hosts, snap : HostSnapshot]]
  BY <1>6 DEF TypeOK
<1>9. applied' \in [Hosts -> Seq(Nat)]
  BY <1>5, <1>6 DEF TypeOK
<1>10. lastHeard' \in [Hosts -> Nat]
  BY <1>2, <1>3, <1>6 DEF TypeOK
<1> QED BY <1>6, <1>7, <1>8, <1>9, <1>10 DEF TypeOK

\* One turn of the main loop, RemoveExpired included, keeps the types.
LEMMA MainLoopType == ASSUME TypeOK, MainLoop PROVE TypeOK'
<1> DEFINE kept == {h \in DOMAIN hosts : ~Expired(h)}
<1>1. /\ hosts' = [h \in kept |-> hosts[h]]
      /\ applied' = [h \in Hosts |-> IF h \in kept THEN applied[h] ELSE <<>>]
      /\ UNCHANGED <<now, calls, signalled, sent, lastHeard>>
  BY DEF MainLoop, RemoveExpired
<1>2. kept \subseteq DOMAIN hosts
  OBVIOUS
<1> HIDE DEF kept
<1>3. DOMAIN hosts' \subseteq Hosts /\ hosts' \in [DOMAIN hosts' -> HostSnapshot]
  BY <1>1, <1>2 DEF TypeOK
<1>4. applied' \in [Hosts -> Seq(Nat)]
  BY <1>1 DEF TypeOK
<1>5. status' \in {"serving", "stopping", "exited"} /\ wake' \in Nat
  BY HostManagerAssumption DEF MainLoop, TypeOK
<1> QED BY <1>1, <1>3, <1>4, <1>5 DEF TypeOK

\* Type correctness is preserved by every step.
LEMMA TypeStep == TypeOK /\ [Next]_vars => TypeOK'
<1> SUFFICES ASSUME TypeOK, [Next]_vars PROVE TypeOK'
  OBVIOUS
<1>1. ASSUME NEW s \in Slots, NEW h \in Hosts, NEW m \in Metrics,
             NEW k \in 0..MaxBatch,
             SetMonitorInfo(s, h, m, k)
      PROVE  TypeOK'
  BY <1>1, SetMonitorInfoType
<1>2. ASSUME NEW s \in Slots, Update(s) PROVE TypeOK'
  BY <1>2, UpdateType
<1>3. CASE MainLoop
  BY <1>3, MainLoopType
<1>4. CASE Signal
  BY <1>4 DEF Signal, TypeOK, history
<1>5. CASE Exit
  BY <1>5 DEF Exit, TypeOK, history
<1>6. CASE Tick
  BY <1>6 DEF Tick, TypeOK, history
<1>7. CASE UNCHANGED vars
  BY <1>7 DEF vars, TypeOK
<1> QED BY <1>1, <1>2, <1>3, <1>4, <1>5, <1>6, <1>7 DEF Next

\* HostManager's state is well-typed; in particular every stored health
\* score is within 0..100.
THEOREM TypeCorrect == Spec => []TypeOK
<1>1. Init => TypeOK
  BY InitInd DEF IndInv
<1> QED BY <1>1, TypeStep, PTL DEF Spec

(***************************************************************************)
(* Retention.  Update works on the truncated list; KeepLastAppend makes    *)
(* its result the truncation of the whole history.                         *)
(***************************************************************************)
\* The facts of an Update(s) step that the proofs below use.
LEMMA UpdateFacts ==
    ASSUME TypeOK, NEW s \in Slots, Update(s)
    PROVE  LET h    == calls[s].host
               snap == calls[s].snap
           IN  /\ s \in DOMAIN calls /\ h \in Hosts /\ snap \in HostSnapshot
               /\ DOMAIN hosts' = DOMAIN hosts \cup {h}
               /\ hosts'[h] = Merge(h, snap)
               /\ \A g \in DOMAIN hosts : g # h => hosts'[g] = hosts[g]
               /\ calls' = [t \in DOMAIN calls \ {s} |-> calls[t]]
               /\ applied'[h] = applied[h] \o snap.diagnose_events
               /\ \A g \in Hosts : g # h => applied'[g] = applied[g]
               /\ lastHeard'[h] = now
               /\ \A g \in Hosts : g # h => lastHeard'[g] = lastHeard[g]
               /\ UNCHANGED <<now, wake, signalled, status, sent>>
<1> DEFINE h == calls[s].host
           snap == calls[s].snap
<1>1. s \in DOMAIN calls
  BY DEF Update
<1>2. h \in Hosts /\ snap \in HostSnapshot
  BY <1>1 DEF TypeOK
<1>3. hosts' = [g \in DOMAIN hosts \cup {h} |-> IF g = h THEN Merge(h, snap) ELSE hosts[g]]
  BY DEF Update
<1>4. DOMAIN hosts' = DOMAIN hosts \cup {h} /\ hosts'[h] = Merge(h, snap)
      /\ \A g \in DOMAIN hosts : g # h => hosts'[g] = hosts[g]
  BY <1>3
<1>5. calls' = [t \in DOMAIN calls \ {s} |-> calls[t]]
      /\ UNCHANGED <<now, wake, signalled, status, sent>>
  BY DEF Update
<1>6. applied' = [applied EXCEPT ![h] = applied[h] \o snap.diagnose_events]
      /\ lastHeard' = [lastHeard EXCEPT ![h] = now]
  BY DEF Update
<1> HIDE DEF h, snap
<1>7. DOMAIN applied = Hosts /\ DOMAIN lastHeard = Hosts
  BY DEF TypeOK
<1>8. applied'[h] = applied[h] \o snap.diagnose_events
      /\ \A g \in Hosts : g # h => applied'[g] = applied[g]
  BY <1>2, <1>6, <1>7
<1>9. lastHeard'[h] = now /\ \A g \in Hosts : g # h => lastHeard'[g] = lastHeard[g]
  BY <1>2, <1>6, <1>7
<1> QED BY <1>1, <1>2, <1>4, <1>5, <1>8, <1>9 DEF h, snap

\* The facts of a MainLoop step that the proofs below use.
LEMMA SweepFacts ==
    ASSUME TypeOK, MainLoop
    PROVE  /\ DOMAIN hosts' = {h \in DOMAIN hosts : ~Expired(h)}
           /\ \A h \in DOMAIN hosts' : hosts'[h] = hosts[h] /\ applied'[h] = applied[h]
           /\ \A h \in Hosts \ DOMAIN hosts' : applied'[h] = <<>>
           /\ UNCHANGED <<now, calls, lastHeard>>
<1>1. hosts' = [h \in {g \in DOMAIN hosts : ~Expired(g)} |-> hosts[h]]
  BY DEF MainLoop, RemoveExpired
<1>2. DOMAIN hosts' = {h \in DOMAIN hosts : ~Expired(h)}
      /\ \A h \in DOMAIN hosts' : hosts'[h] = hosts[h]
  BY <1>1
<1>3. DOMAIN hosts' \subseteq Hosts
  BY <1>2 DEF TypeOK
<1>4. applied' = [h \in Hosts |-> IF h \in DOMAIN hosts' THEN applied[h] ELSE <<>>]
  BY <1>2 DEF MainLoop, RemoveExpired
<1> QED BY <1>2, <1>3, <1>4 DEF MainLoop

\* Update's append-and-erase keeps the list equal to the last events applied.
LEMMA UpdateKeepsEvents ==
    ASSUME IndInv, NEW s \in Slots, Update(s)
    PROVE  EventInv'
<1> DEFINE h == calls[s].host
           snap == calls[s].snap
           e == snap.diagnose_events
<1>1. TypeOK /\ KeepsLastEvents /\ UnknownHasNoHistory
  BY DEF IndInv, EventInv
<1>2. /\ s \in DOMAIN calls /\ h \in Hosts /\ snap \in HostSnapshot
      /\ DOMAIN hosts' = DOMAIN hosts \cup {h}
      /\ hosts'[h] = Merge(h, snap)
      /\ \A g \in DOMAIN hosts : g # h => hosts'[g] = hosts[g]
      /\ applied'[h] = applied[h] \o e
      /\ \A g \in Hosts : g # h => applied'[g] = applied[g]
  BY <1>1, UpdateFacts
<1> HIDE DEF h, snap
<1>3. applied[h] \in Seq(Nat) /\ e \in Seq(Nat)
  BY <1>1, <1>2 DEF TypeOK, HostSnapshot
<1>4. EventsKept(h) = KeepLast(applied[h])
  <2>1. CASE h \in DOMAIN hosts
    BY <1>1, <2>1 DEF EventsKept, KeepsLastEvents
  <2>2. CASE h \notin DOMAIN hosts
    <3>1. applied[h] = <<>> /\ EventsKept(h) = <<>>
      BY <1>1, <1>2, <2>2 DEF EventsKept, UnknownHasNoHistory
    <3>2. Len(<<>>) = 0 /\ ~(0 > MaxEvents)
      BY HostManagerAssumption
    <3> QED BY <3>1, <3>2 DEF KeepLast
  <2> QED BY <2>1, <2>2
<1>5. hosts'[h].diagnose_events = KeepLast(EventsKept(h) \o e)
  <2>1. Merge(h, snap).diagnose_events = KeepLast(EventsKept(h) \o e)
    BY <1>2 DEF Merge, HostSnapshot
  <2> QED BY <1>2, <2>1
<1>6. hosts'[h].diagnose_events = KeepLast(applied'[h])
  BY <1>2, <1>3, <1>4, <1>5, KeepLastAppend
<1>7. ASSUME NEW g \in DOMAIN hosts'
      PROVE  hosts'[g].diagnose_events = KeepLast(applied'[g])
  <2>1. CASE g = h
    BY <1>6, <2>1
  <2>2. CASE g # h
    <3>1. g \in DOMAIN hosts /\ g \in Hosts
      BY <1>1, <1>2, <1>7, <2>2 DEF TypeOK
    <3> QED BY <1>1, <1>2, <2>2, <3>1 DEF KeepsLastEvents
  <2> QED BY <2>1, <2>2
<1>8. KeepsLastEvents'
  BY <1>7 DEF KeepsLastEvents, KeepLast
<1>9. UnknownHasNoHistory'
  BY <1>1, <1>2 DEF UnknownHasNoHistory
<1> QED BY <1>8, <1>9 DEF EventInv

\* Every step preserves the retention invariant.
LEMMA EventStep == IndInv /\ [Next]_vars => EventInv'
<1> SUFFICES ASSUME IndInv, [Next]_vars PROVE EventInv'
  OBVIOUS
<1>1. ASSUME UNCHANGED <<hosts, applied>> PROVE EventInv'
  BY <1>1 DEF IndInv, EventInv, KeepsLastEvents, UnknownHasNoHistory, KeepLast
<1>2. ASSUME NEW s \in Slots, Update(s) PROVE EventInv'
  BY <1>2, UpdateKeepsEvents
<1>3. CASE MainLoop
  <2>1. /\ DOMAIN hosts' \subseteq DOMAIN hosts
        /\ \A h \in DOMAIN hosts' : hosts'[h] = hosts[h] /\ applied'[h] = applied[h]
        /\ \A h \in Hosts \ DOMAIN hosts' : applied'[h] = <<>>
    <3>1. TypeOK
      BY DEF IndInv
    <3> QED BY <1>3, <3>1, SweepFacts
  <2>2. KeepsLastEvents'
    BY <2>1 DEF IndInv, EventInv, KeepsLastEvents, KeepLast
  <2>3. UnknownHasNoHistory'
    BY <2>1 DEF UnknownHasNoHistory
  <2> QED BY <2>2, <2>3 DEF EventInv
<1>4. ASSUME NEW s \in Slots, NEW h \in Hosts, NEW m \in Metrics,
             NEW k \in 0..MaxBatch,
             SetMonitorInfo(s, h, m, k)
      PROVE  UNCHANGED <<hosts, applied>>
  BY <1>4 DEF SetMonitorInfo, history
<1>5. Signal \/ Exit \/ Tick \/ UNCHANGED vars => UNCHANGED <<hosts, applied>>
  BY DEF Signal, Exit, Tick, vars, history
<1> QED BY <1>1, <1>2, <1>3, <1>4, <1>5 DEF Next

(***************************************************************************)
(* Time stamps.  A stamp is at most MaxStall older than the moment it is   *)
(* applied, so a stamp applied since the last sweep is no older than       *)
(* MaxAge before that sweep, and the sweep removed every older one.        *)
(***************************************************************************)
LEMMA ConstantsAreNat ==
    /\ MaxAge \in Nat /\ SweepPeriod \in Nat /\ MaxStall \in Nat
    /\ SweepLag \in Nat /\ MaxStall <= MaxAge
BY HostManagerAssumption

\* Update may move a time stamp backwards, yet by no more than MaxStall, and
\* the host it stores counts as heard now.
LEMMA UpdateKeepsTimes ==
    ASSUME IndInv, NEW s \in Slots, Update(s)
    PROVE  TimeInv'
<1> DEFINE h == calls[s].host
           snap == calls[s].snap
<1> USE ConstantsAreNat
<1>1. TypeOK /\ CallTimes /\ HostTimes /\ SweepTimes /\ RecentReporterKnown
  BY DEF IndInv, TimeInv
<1>2. /\ s \in DOMAIN calls /\ h \in Hosts /\ snap \in HostSnapshot
      /\ DOMAIN hosts' = DOMAIN hosts \cup {h}
      /\ hosts'[h] = Merge(h, snap)
      /\ \A g \in DOMAIN hosts : g # h => hosts'[g] = hosts[g]
      /\ calls' = [t \in DOMAIN calls \ {s} |-> calls[t]]
      /\ lastHeard'[h] = now
      /\ \A g \in Hosts : g # h => lastHeard'[g] = lastHeard[g]
      /\ UNCHANGED <<now, wake, status>>
  BY <1>1, UpdateFacts
<1>3. /\ snap.last_update \in Nat /\ 1 <= snap.last_update
      /\ snap.last_update <= now /\ now <= snap.last_update + MaxStall
  BY <1>1, <1>2 DEF CallTimes, HostSnapshot
<1> HIDE DEF h, snap
<1>4. hosts'[h].last_update = snap.last_update
  <2>1. Merge(h, snap).last_update = snap.last_update
    BY <1>2 DEF Merge, HostSnapshot
  <2> QED BY <1>2, <2>1
<1>5. /\ now \in Nat /\ wake \in Nat /\ DOMAIN hosts \subseteq Hosts
      /\ \A g \in DOMAIN hosts : hosts[g].last_update \in Nat
      /\ \A g \in Hosts : lastHeard[g] \in Nat
  BY <1>1 DEF TypeOK, HostSnapshot
<1>6. CallTimes'
  BY <1>1, <1>2 DEF CallTimes
<1>7. HostTimes'
  <2> SUFFICES ASSUME NEW g \in DOMAIN hosts'
               PROVE  /\ 1 <= hosts'[g].last_update /\ hosts'[g].last_update <= now'
                      /\ lastHeard'[g] <= hosts'[g].last_update + MaxStall
    BY DEF HostTimes
  <2>1. CASE g = h
    BY <1>2, <1>3, <1>4, <1>5, <2>1
  <2>2. CASE g # h
    BY <1>1, <1>2, <1>5, <2>2 DEF HostTimes
  <2> QED BY <2>1, <2>2
<1>8. SweepTimes'
  <2> SUFFICES ASSUME status = "serving"
               PROVE  /\ now <= wake + SweepLag /\ wake <= now + SweepPeriod
                      /\ \A g \in DOMAIN hosts' :
                            wake <= hosts'[g].last_update + MaxAge + SweepPeriod
    BY <1>2 DEF SweepTimes
  <2>1. now <= wake + SweepLag /\ wake <= now + SweepPeriod
        /\ \A g \in DOMAIN hosts : wake <= hosts[g].last_update + MaxAge + SweepPeriod
    BY <1>1 DEF SweepTimes
  <2>2. wake <= hosts'[h].last_update + MaxAge + SweepPeriod
    BY <1>3, <1>4, <1>5, <2>1
  <2> QED BY <1>2, <2>1, <2>2
<1>9. RecentReporterKnown'
  BY <1>1, <1>2, <1>5 DEF RecentReporterKnown
<1> QED BY <1>6, <1>7, <1>8, <1>9 DEF TimeInv

\* RemoveExpired removes only hosts unheard of for longer than the promise.
LEMMA SweepKeepsTimes == ASSUME IndInv, MainLoop PROVE TimeInv'
<1> USE ConstantsAreNat
<1>1. TypeOK /\ CallTimes /\ HostTimes /\ SweepTimes /\ RecentReporterKnown
  BY DEF IndInv, TimeInv
<1>2. /\ DOMAIN hosts' = {h \in DOMAIN hosts : ~Expired(h)}
      /\ \A h \in DOMAIN hosts' : hosts'[h] = hosts[h]
      /\ UNCHANGED <<now, calls, lastHeard>>
  BY <1>1, SweepFacts
<1>3. /\ now \in Nat /\ wake \in Nat /\ DOMAIN hosts \subseteq Hosts
      /\ \A g \in DOMAIN hosts : hosts[g].last_update \in Nat
      /\ \A g \in Hosts : lastHeard[g] \in Nat
  BY <1>1 DEF TypeOK, HostSnapshot
<1>4. CallTimes'
  BY <1>1, <1>2 DEF CallTimes
<1>5. HostTimes'
  BY <1>1, <1>2 DEF HostTimes
<1>6. SweepTimes'
  <2> SUFFICES ASSUME status' = "serving"
               PROVE  /\ now <= wake' + SweepLag /\ wake' <= now + SweepPeriod
                      /\ \A h \in DOMAIN hosts' :
                            wake' <= hosts[h].last_update + MaxAge + SweepPeriod
    BY <1>2 DEF SweepTimes
  <2>1. wake' = now + SweepPeriod
    BY DEF MainLoop
  <2>2. \A h \in DOMAIN hosts' : now <= hosts[h].last_update + MaxAge
    BY <1>2, <1>3 DEF Expired
  <2> QED BY <1>2, <1>3, <2>1, <2>2
<1>7. RecentReporterKnown'
  <2> SUFFICES ASSUME NEW h \in Hosts, lastHeard[h] # Never,
                      now - lastHeard[h] <= MaxAge - MaxStall
               PROVE  h \in DOMAIN hosts'
    BY <1>2 DEF RecentReporterKnown
  <2>1. h \in DOMAIN hosts
    BY <1>1 DEF RecentReporterKnown
  <2>2. lastHeard[h] <= hosts[h].last_update + MaxStall
    BY <1>1, <2>1 DEF HostTimes
  <2>3. ~Expired(h)
    BY <1>3, <2>1, <2>2 DEF Expired
  <2> QED BY <1>2, <2>1, <2>3
<1> QED BY <1>4, <1>5, <1>6, <1>7 DEF TimeInv

\* The clock's step keeps the bounds, by the delays it waits for.
LEMMA TickKeepsTimes == ASSUME IndInv, Tick PROVE TimeInv'
<1> USE ConstantsAreNat
<1>1. TypeOK /\ CallTimes /\ HostTimes /\ SweepTimes /\ RecentReporterKnown
  BY DEF IndInv, TimeInv
<1>2. now' = now + 1 /\ UNCHANGED <<hosts, calls, wake, status, lastHeard>>
  BY DEF Tick, history
<1>3. /\ now \in Nat /\ wake \in Nat
      /\ \A g \in DOMAIN hosts : g \in Hosts /\ hosts[g].last_update \in Nat
      /\ \A g \in Hosts : lastHeard[g] \in Nat
      /\ \A s \in DOMAIN calls : calls[s].snap.last_update \in Nat
  BY <1>1 DEF TypeOK, HostSnapshot
<1>4. CallTimes'
  <2>1. \A s \in DOMAIN calls : now < calls[s].snap.last_update + MaxStall
    BY DEF Tick
  <2> QED BY <1>1, <1>2, <1>3, <2>1 DEF CallTimes
<1>5. HostTimes'
  BY <1>1, <1>2, <1>3 DEF HostTimes
<1>6. SweepTimes'
  BY <1>1, <1>2, <1>3 DEF SweepTimes, Tick
<1>7. RecentReporterKnown'
  BY <1>1, <1>2, <1>3 DEF RecentReporterKnown
<1> QED BY <1>4, <1>5, <1>6, <1>7 DEF TimeInv

\* A new request is stamped with the present time.
LEMMA RequestKeepsTimes ==
    ASSUME IndInv, NEW s \in Slots, NEW h \in Hosts, NEW m \in Metrics,
           NEW k \in 0..MaxBatch,
           SetMonitorInfo(s, h, m, k)
    PROVE  TimeInv'
<1> USE ConstantsAreNat
<1>1. TypeOK /\ CallTimes /\ HostTimes /\ SweepTimes /\ RecentReporterKnown
  BY DEF IndInv, TimeInv
<1>2. UNCHANGED <<now, hosts, wake, status, lastHeard>>
  BY DEF SetMonitorInfo, history
<1>3. /\ DOMAIN calls' = DOMAIN calls \cup {s}
      /\ calls'[s].snap.last_update = now
      /\ \A t \in DOMAIN calls : t # s => calls'[t] = calls[t]
  BY DEF SetMonitorInfo, Stamp
<1>4. CallTimes'
  BY <1>1, <1>2, <1>3 DEF CallTimes, TypeOK
<1>5. HostTimes' /\ SweepTimes' /\ RecentReporterKnown'
  BY <1>1, <1>2 DEF HostTimes, SweepTimes, RecentReporterKnown
<1> QED BY <1>4, <1>5 DEF TimeInv

\* Every step preserves the time invariant.
LEMMA TimeStep == IndInv /\ [Next]_vars => TimeInv'
<1> SUFFICES ASSUME IndInv, [Next]_vars PROVE TimeInv'
  OBVIOUS
<1>1. ASSUME NEW s \in Slots, NEW h \in Hosts, NEW m \in Metrics,
             NEW k \in 0..MaxBatch,
             SetMonitorInfo(s, h, m, k)
      PROVE  TimeInv'
  BY <1>1, RequestKeepsTimes
<1>2. ASSUME NEW s \in Slots, Update(s) PROVE TimeInv'
  BY <1>2, UpdateKeepsTimes
<1>3. CASE MainLoop
  BY <1>3, SweepKeepsTimes
<1>4. CASE Tick
  BY <1>4, TickKeepsTimes
<1>5. CASE Signal \/ UNCHANGED vars
  BY <1>5 DEF Signal, vars, history, IndInv, TimeInv, CallTimes, HostTimes,
              SweepTimes, RecentReporterKnown
<1>6. CASE Exit
  BY <1>6 DEF Exit, history, IndInv, TimeInv, CallTimes, HostTimes,
              SweepTimes, RecentReporterKnown
<1> QED BY <1>1, <1>2, <1>3, <1>4, <1>5, <1>6 DEF Next

(***************************************************************************)
(* The theorems.                                                           *)
(***************************************************************************)
LEMMA IndInvariant == Spec => []IndInv
<1>1. IndInv /\ [Next]_vars => IndInv'
  BY TypeStep, EventStep, TimeStep DEF IndInv
<1> QED BY <1>1, InitInd, PTL DEF Spec

\* Update's append-and-erase keeps exactly the last MaxEvents events of each
\* known host, for every number of events and every interleaving.
THEOREM Retention == Spec => []KeepsLastEvents
<1>1. IndInv => KeepsLastEvents
  BY DEF IndInv, EventInv
<1> QED BY <1>1, IndInvariant, PTL

\* A host that reported recently is never expired.
THEOREM NoPrematureExpiry == Spec => []RecentReporterKnown
<1>1. IndInv => RecentReporterKnown
  BY DEF IndInv, TimeInv
<1> QED BY <1>1, IndInvariant, PTL

\* While the main loop runs, no snapshot older than MaxAge plus one late
\* sweep is served.
THEOREM Freshness == Spec => []ServesFreshData
<1>1. ASSUME IndInv PROVE ServesFreshData
  <2> USE ConstantsAreNat
  <2> SUFFICES ASSUME status = "serving", NEW h \in Hosts
               PROVE  \/ GetMonitorInfo(h).timestamp = 0
                      \/ now - GetMonitorInfo(h).timestamp <= MaxAge + SweepPeriod + SweepLag
    BY DEF ServesFreshData
  <2>1. CASE h \notin DOMAIN hosts
    BY <2>1 DEF GetMonitorInfo, Get
  <2>2. CASE h \in DOMAIN hosts
    <3>1. GetMonitorInfo(h).timestamp = hosts[h].last_update
      BY <2>2 DEF GetMonitorInfo, Get
    <3>2. hosts[h].last_update \in Nat /\ now \in Nat /\ wake \in Nat
      BY <1>1, <2>2 DEF IndInv, TypeOK, HostSnapshot
    <3>3. now <= wake + SweepLag /\ wake <= hosts[h].last_update + MaxAge + SweepPeriod
      BY <1>1, <2>2 DEF IndInv, TimeInv, SweepTimes
    <3> QED BY <3>1, <3>2, <3>3
  <2> QED BY <2>1, <2>2
<1> QED BY <1>1, IndInvariant, PTL

\* A host's last_update never moves back by more than MaxStall.
THEOREM BoundedRegression == Spec => RegressionBounded
<1> DEFINE Bounded == \A h \in DOMAIN hosts \cap DOMAIN hosts' :
                          hosts'[h].last_update >= hosts[h].last_update - MaxStall
<1> USE ConstantsAreNat
<1>1. ASSUME IndInv, [Next]_vars PROVE [Bounded]_vars
  <2> SUFFICES ASSUME NEW h \in DOMAIN hosts \cap DOMAIN hosts'
               PROVE  hosts'[h].last_update >= hosts[h].last_update - MaxStall
    OBVIOUS
  <2>1. TypeOK /\ CallTimes /\ HostTimes
    BY <1>1 DEF IndInv, TimeInv
  <2>2. hosts[h].last_update \in Nat /\ hosts[h].last_update <= now /\ now \in Nat
    BY <2>1 DEF TypeOK, HostSnapshot, HostTimes
  <2>3. ASSUME hosts'[h] = hosts[h]
        PROVE  hosts'[h].last_update >= hosts[h].last_update - MaxStall
    BY <2>2, <2>3
  <2>4. ASSUME NEW s \in Slots, Update(s)
        PROVE  hosts'[h].last_update >= hosts[h].last_update - MaxStall
    <3> DEFINE g == calls[s].host
               snap == calls[s].snap
    <3>1. /\ s \in DOMAIN calls /\ snap \in HostSnapshot
          /\ hosts'[g] = Merge(g, snap)
          /\ h # g => hosts'[h] = hosts[h]
      BY <2>1, <2>4, UpdateFacts
    <3>2. snap.last_update \in Nat /\ now <= snap.last_update + MaxStall
      BY <2>1, <3>1 DEF CallTimes, HostSnapshot
    <3> HIDE DEF g, snap
    <3>3. CASE h = g
      <4>1. hosts'[h].last_update = snap.last_update
        <5>1. Merge(g, snap).last_update = snap.last_update
          BY <3>1 DEF Merge, HostSnapshot
        <5> QED BY <3>1, <3>3, <5>1
      <4> QED BY <2>2, <3>2, <4>1
    <3>4. CASE h # g
      BY <2>3, <3>1, <3>4
    <3> QED BY <3>3, <3>4
  <2>5. ASSUME MainLoop
        PROVE  hosts'[h].last_update >= hosts[h].last_update - MaxStall
    BY <2>1, <2>3, <2>5, SweepFacts
  <2>6. ASSUME NEW s \in Slots, NEW g \in Hosts, NEW m \in Metrics,
               NEW k \in 0..MaxBatch,
               SetMonitorInfo(s, g, m, k)
        PROVE  hosts'[h].last_update >= hosts[h].last_update - MaxStall
    BY <2>3, <2>6 DEF SetMonitorInfo
  <2>7. ASSUME Signal \/ Exit \/ Tick \/ UNCHANGED vars
        PROVE  hosts'[h].last_update >= hosts[h].last_update - MaxStall
    BY <2>3, <2>7 DEF Signal, Exit, Tick, vars
  <2> QED BY <1>1, <2>4, <2>5, <2>6, <2>7 DEF Next
<1> QED BY <1>1, IndInvariant, PTL DEF Spec, RegressionBounded
=============================================================================
