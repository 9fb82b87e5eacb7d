------------------------- MODULE BpfDiagnoserProofs -------------------------
(***************************************************************************)
(* Proofs about BpfDiagnoser: its safety properties hold for every list of *)
(* configured entries, every limit on the files and every bound on         *)
(* launches and failed forks.                                              *)
(*                                                                         *)
(* The argument is about rounds.  At any time there is a last pid b of the *)
(* earlier rounds: every child up to b has been reaped, the children after *)
(* b were launched for different entries, and runners_ holds only those.   *)
(* A new round is due when runners_ is empty; since every unreaped child   *)
(* is in runners_, b can then be moved to the last pid of all.             *)
(***************************************************************************)
EXTENDS BpfDiagnoser, SequenceLemmas, FiniteSetTheorems

ProcRec == [st : ChildStates, term : BOOLEAN, data : BOOLEAN,
            by : {"main", "loop"}, of : Entries]

(***************************************************************************)
(* The inductive invariant.                                                *)
(***************************************************************************)
\* A sequence of pids among the first n.
Held(s, n) == s \in Seq(Nat) /\ ToSet(s) \subseteq 1..n

HeldOK ==
    /\ Held(runners, Len(procs)) /\ Held(dtors, Len(procs))
    /\ Held(events, Len(procs)) /\ Held(reported, Len(procs))

ControlOK ==
    /\ thread \in {"main", "loop"}
    /\ phase \in {"launch", "loop", "reap", "push", "call", "joined", "release", "exited"}
    /\ stopping \in BOOLEAN
    /\ forkFails \in 0..MaxForkFails
    /\ thread = "main" => phase = "launch" /\ events = <<>>
    /\ phase \in {"call", "loop"} => events = <<>>

ProcsOK == procs \in Seq(ProcRec) /\ Len(procs) <= MaxLaunches

\* runners_ never outgrows the entries: while a round is launched it has fewer
\* elements than the entries gone through, and it only shrinks afterwards.
CursorOK ==
    /\ cursor \in 1..(Len(Configs) + 1)
    /\ capacity \in Nat /\ Len(runners) <= capacity
    /\ Len(runners) <= Len(Configs)
    /\ phase = "launch" => Len(runners) < cursor
    /\ phase = "reap" => cursor <= Len(runners) + 1

\* No pid is in two places, and what has been emitted had ended.
OnceOK ==
    /\ IsInjective(runners)
    /\ ToSet(runners) \cap ToSet(reported) = {}
    /\ ToSet(runners) \cap ToSet(events) = {}
    /\ ReportedOnce

\* The files F of the children P: each has its own, once it is past execv.
FilesOf(F, P) ==
    /\ F \in [Types -> Seq(Nat)]
    /\ \A type \in Types :
        /\ ToSet(F[type]) \subseteq DOMAIN P
        /\ IsInjective(F[type])
        /\ \A p \in ToSet(F[type]) : Configs[P[p].of] = type /\ P[p].st # "forked"

\* b is the last pid of the earlier rounds.
Past(P, b) == \A p \in DOMAIN P : p <= b => P[p].st = "reaped"
Distinct(P, b) ==
    \A p, q \in DOMAIN P : b < p /\ b < q /\ P[p].of = P[q].of => p = q
Newer(s, b) == \A p \in ToSet(s) : b < p

\* The files of earlier rounds are the older ones.
OlderFirst(f, b) == \A i, j \in DOMAIN f : i < j /\ f[j] <= b => f[i] <= b

RoundOK(b) ==
    /\ Past(procs, b)
    /\ Distinct(procs, b)
    /\ phase = "launch" => \A p \in Pids : b < p => procs[p].of < cursor
    /\ Newer(runners, b)
    /\ phase = "reap" => Newer(events, b)
    /\ \A type \in Types : OlderFirst(files[type], b)

Round == \E b \in 0..Len(procs) : RoundOK(b)

IndInv ==
    /\ ProcsOK /\ HeldOK /\ ControlOK /\ CursorOK
    /\ ChildrenStayPolled /\ OnceOK /\ FilesOf(files, procs) /\ Round
    /\ ReportedFileExists /\ ReportedFilesBounded

(***************************************************************************)
(* The children.                                                           *)
(***************************************************************************)
\* The children keep their pid and entry, a reaped one never comes back and
\* keeps what it had written, and none returns to before execv.
Keeps(P, Q) ==
    /\ Q \in Seq(ProcRec) /\ Len(Q) = Len(P) /\ DOMAIN Q = DOMAIN P
    /\ \A p \in DOMAIN P :
        /\ Q[p].of = P[p].of
        /\ P[p].st = "reaped" => Q[p].st = "reaped" /\ Q[p].data = P[p].data
        /\ Q[p].st = "forked" => P[p].st = "forked"

\* The constants, with their types.
LEMMA Constants ==
    /\ LimitFileNum \in Nat /\ MaxLaunches \in Nat /\ MaxForkFails \in Nat
    /\ Configs \in Seq(Types) /\ Len(Configs) \in Nat
    /\ Entries = 1..Len(Configs) /\ Len(Configs) <= MaxLaunches
BY BpfAssumption, LenProperties DEF Entries

\* The children are numbered from 1.
LEMMA PidsAre ==
    ASSUME ProcsOK
    PROVE  /\ Len(procs) \in Nat /\ Pids = 1..Len(procs) /\ DOMAIN procs = 1..Len(procs)
           /\ \A p \in Pids : procs[p] \in ProcRec
<1>1. Len(procs) \in Nat /\ DOMAIN procs = 1..Len(procs) /\ procs \in [1..Len(procs) -> ProcRec]
  BY LenProperties DEF ProcsOK
<1> QED BY <1>1 DEF Pids

\* No change is a change of that kind.
LEMMA KeepsItself ==
    ASSUME ProcsOK
    PROVE  Keeps(procs, procs)
BY DEF Keeps, ProcsOK

\* So is a change of one child.
LEMMA KeepsUpdated ==
    ASSUME ProcsOK, NEW p \in Pids, NEW r \in ProcRec,
           r.of = procs[p].of,
           procs[p].st = "reaped" => r.st = "reaped" /\ r.data = procs[p].data,
           r.st = "forked" => procs[p].st = "forked"
    PROVE  Keeps(procs, [procs EXCEPT ![p] = r])
<1> DEFINE Q == [procs EXCEPT ![p] = r]
<1>1. Q[p] = r /\ \A q \in DOMAIN procs : q # p => Q[q] = procs[q]
  BY UpdatedFacts DEF Pids, ProcsOK
<1>2. Q \in Seq(ProcRec) /\ Len(Q) = Len(procs) /\ DOMAIN Q = DOMAIN procs
  BY UpdatedFacts DEF Pids, ProcsOK
<1> HIDE DEF Q
<1>3. ASSUME NEW q \in DOMAIN procs
      PROVE  /\ Q[q].of = procs[q].of
             /\ procs[q].st = "reaped" => Q[q].st = "reaped" /\ Q[q].data = procs[q].data
             /\ Q[q].st = "forked" => procs[q].st = "forked"
  <2>1. CASE q = p
    BY <1>1, <2>1
  <2>2. CASE q # p
    BY <1>1, <2>2
  <2> QED BY <2>1, <2>2
<1> QED BY <1>2, <1>3 DEF Keeps, Q

\* waitpid: the child is reaped.
LEMMA KeepsReap ==
    ASSUME ProcsOK, NEW p \in Pids, Reap(p)
    PROVE  Keeps(procs, procs') /\ procs'[p].st = "reaped" /\ procs'[p].data = procs[p].data
<1> DEFINE r == [procs[p] EXCEPT !.st = "reaped"]
<1>1. procs[p] \in ProcRec /\ p \in DOMAIN procs
  BY PidsAre DEF Pids
<1>2. r \in ProcRec /\ r.of = procs[p].of /\ r.st = "reaped" /\ r.data = procs[p].data
  BY <1>1 DEF ProcRec, ChildStates
<1>3. procs' = [procs EXCEPT ![p] = r]
  BY <1>1 DEF Reap
<1> HIDE DEF r
<1>4. Keeps(procs, [procs EXCEPT ![p] = r])
  BY <1>2, KeepsUpdated
<1>5. procs'[p] = r
  BY <1>1, <1>3
<1> QED BY <1>2, <1>3, <1>4, <1>5

\* kill and waitpid, from a destructor.
LEMMA KeepsStop ==
    ASSUME ProcsOK, NEW p \in Pids, Stop(p)
    PROVE  Keeps(procs, procs')
<1>1. procs[p] \in ProcRec /\ p \in DOMAIN procs
  BY PidsAre DEF Pids
<1>2. \/ procs' = procs
      \/ Reap(p)
      \/ /\ procs[p].st \notin {"forked", "reaped"}
         /\ \E st \in {"running", "reaped"} : procs' = [procs EXCEPT ![p].term = TRUE, ![p].st = st]
  BY DEF Stop, Reap
<1>3. CASE procs' = procs
  BY <1>3, KeepsItself
<1>4. CASE Reap(p)
  BY <1>4, KeepsReap
<1>5. ASSUME procs[p].st \notin {"forked", "reaped"},
             NEW st \in {"running", "reaped"}, procs' = [procs EXCEPT ![p].term = TRUE, ![p].st = st]
      PROVE  Keeps(procs, procs')
  <2> DEFINE r == [procs[p] EXCEPT !.term = TRUE, !.st = st]
  <2>1. r \in ProcRec /\ r.of = procs[p].of /\ r.st = st
    BY <1>1 DEF ProcRec, ChildStates
  <2>2. procs' = [procs EXCEPT ![p] = r]
    BY <1>1, <1>5
  <2> HIDE DEF r
  <2>3. Keeps(procs, [procs EXCEPT ![p] = r])
    BY <1>5, <2>1, KeepsUpdated
  <2> QED BY <2>2, <2>3
<1> QED BY <1>2, <1>3, <1>4, <1>5

\* The child's own steps, none of which a reaped child takes.
LEMMA KeepsTool ==
    ASSUME ProcsOK, NEW p \in Pids,
           Exec(p) \/ ExecFails(p) \/ WriteOutput(p) \/ Complete(p) \/ DieOfTerm(p)
    PROVE  Keeps(procs, procs') /\ procs[p].st # "reaped" /\ procs'[p].st # "forked"
<1>1. procs[p] \in ProcRec /\ p \in DOMAIN procs
  BY PidsAre DEF Pids
<1>2. CASE WriteOutput(p)
  <2> DEFINE r == [procs[p] EXCEPT !.data = TRUE]
  <2>1. r \in ProcRec /\ r.of = procs[p].of /\ r.st = "running" /\ procs[p].st = "running"
    BY <1>1, <1>2 DEF ProcRec, ChildStates, WriteOutput
  <2>2. procs' = [procs EXCEPT ![p] = r]
    BY <1>1, <1>2 DEF WriteOutput
  <2> HIDE DEF r
  <2>3. Keeps(procs, [procs EXCEPT ![p] = r])
    BY <2>1, KeepsUpdated
  <2>4. procs'[p] = r
    BY <1>1, <2>2
  <2> QED BY <2>1, <2>2, <2>3, <2>4
<1>3. ASSUME NEW st \in {"running", "zombie"}, procs[p].st # "reaped",
             procs' = [procs EXCEPT ![p].st = st]
      PROVE  Keeps(procs, procs') /\ procs'[p].st # "forked"
  <2> DEFINE r == [procs[p] EXCEPT !.st = st]
  <2>1. r \in ProcRec /\ r.of = procs[p].of /\ r.st = st
    BY <1>1 DEF ProcRec, ChildStates
  <2>2. procs' = [procs EXCEPT ![p] = r]
    BY <1>1, <1>3
  <2> HIDE DEF r
  <2>3. Keeps(procs, [procs EXCEPT ![p] = r])
    BY <1>3, <2>1, KeepsUpdated
  <2>4. procs'[p] = r
    BY <1>1, <2>2
  <2> QED BY <2>1, <2>2, <2>3, <2>4
<1>4. CASE Exec(p)
  BY <1>3, <1>4 DEF Exec
<1>5. CASE ExecFails(p)
  BY <1>3, <1>5 DEF ExecFails
<1>6. CASE Complete(p) \/ DieOfTerm(p)
  BY <1>3, <1>6 DEF Complete, DieOfTerm
<1> QED BY <1>2, <1>4, <1>5, <1>6

\* The end of a thread only signals its children.
LEMMA KeepsThreadEnds ==
    ASSUME ProcsOK, NEW by, ThreadEnds(by)
    PROVE  Keeps(procs, procs')
<1>1. /\ Len(procs) \in Nat /\ Pids = 1..Len(procs) /\ DOMAIN procs = 1..Len(procs)
      /\ \A p \in Pids : procs[p] \in ProcRec
  BY PidsAre
<1>2. ASSUME NEW p \in Pids
      PROVE  /\ procs'[p] \in ProcRec /\ procs'[p].of = procs[p].of
             /\ procs'[p].st = procs[p].st /\ procs'[p].data = procs[p].data
  <2>1. procs'[p] = procs[p] \/ procs'[p] = [procs[p] EXCEPT !.term = TRUE]
    BY DEF ThreadEnds
  <2> QED BY <1>1, <2>1 DEF ProcRec
<1>3. procs' \in [1..Len(procs) -> ProcRec]
  BY <1>1, <1>2 DEF ThreadEnds
<1>4. procs' \in Seq(ProcRec) /\ DOMAIN procs' = 1..Len(procs)
  BY <1>1, <1>3, SeqDef
<1>5. Len(procs') = Len(procs)
  BY <1>1, <1>4, LenProperties
<1> QED BY <1>1, <1>2, <1>4, <1>5 DEF Keeps

(***************************************************************************)
(* The files of one prefix.                                                *)
(***************************************************************************)
\* A file of this round, written last, keeps the older ones first.
LEMMA OlderFirstAppend ==
    ASSUME NEW f \in Seq(Nat), NEW p \in Nat, NEW b \in Nat, b < p, OlderFirst(f, b)
    PROVE  OlderFirst(Append(f, p), b)
<1> DEFINE g == Append(f, p)
<1>1. /\ Len(f) \in Nat /\ DOMAIN f = 1..Len(f) /\ DOMAIN g = 1..(Len(f) + 1)
      /\ \A i \in 1..Len(f) : g[i] = f[i]
      /\ g[Len(f) + 1] = p
  BY AppendFacts
<1> HIDE DEF g
<1> SUFFICES ASSUME NEW i \in DOMAIN g, NEW j \in DOMAIN g, i < j, g[j] <= b
             PROVE  g[i] <= b
  BY DEF OlderFirst, g
<1>2. j # Len(f) + 1
  BY <1>1
<1>3. i \in DOMAIN f /\ j \in DOMAIN f
  BY <1>1, <1>2
<1> QED BY <1>1, <1>3 DEF OlderFirst

\* Created, before execv: a file that is newer than all others.
LEMMA CreatedFacts ==
    ASSUME NEW f \in Seq(Nat), NEW p \in Nat, IsInjective(f), p \notin ToSet(f)
    PROVE  /\ Created(f, p) \in Seq(Nat) /\ IsInjective(Created(f, p))
           /\ ToSet(Created(f, p)) = ToSet(f) \cup {p}
           /\ \A b \in Nat : b < p /\ OlderFirst(f, b) => OlderFirst(Created(f, p), b)
<1>1. Append(f, p) \in Seq(Nat)
  BY AppendFacts
<1>2. IsInjective(Append(f, p))
  BY InjectiveAppend
<1>3. ToSet(Append(f, p)) = ToSet(f) \cup {p}
  BY ToSetAppend
<1>4. ASSUME NEW b \in Nat, b < p, OlderFirst(f, b) PROVE OlderFirst(Append(f, p), b)
  BY <1>4, OlderFirstAppend
<1> QED BY <1>1, <1>2, <1>3, <1>4 DEF Created

\* Written: the same files, with this one the newest.
LEMMA WrittenFacts ==
    ASSUME NEW f \in Seq(Nat), NEW p \in Nat, IsInjective(f)
    PROVE  /\ Written(f, p) \in Seq(Nat) /\ IsInjective(Written(f, p))
           /\ ToSet(Written(f, p)) = ToSet(f)
           /\ \A b \in Nat : b < p /\ OlderFirst(f, b) => OlderFirst(Written(f, p), b)
<1>1. CASE p \notin ToSet(f)
  BY <1>1 DEF Written
<1>2. CASE p \in ToSet(f)
  <2> DEFINE k == Position(f, p)
             g == RemoveAt(f, k)
  <2>1. k \in DOMAIN f /\ f[k] = p
    BY <1>2 DEF ToSet, Position
  <2> HIDE DEF k
  <2>2. /\ g \in Seq(Nat) /\ Len(g) = Len(f) - 1 /\ DOMAIN g = 1..(Len(f) - 1)
        /\ \A j \in 1..(Len(f) - 1) : g[j] = IF j < k THEN f[j] ELSE f[j + 1]
    BY <2>1, RemoveAtFacts
  <2>3. IsInjective(g) /\ ToSet(g) = ToSet(f) \ {p}
    BY <2>1, InjectiveRemoveAt
  <2>4. Written(f, p) = Append(g, p)
    BY <1>2 DEF Written, k
  <2> HIDE DEF g
  <2>5. /\ Created(g, p) \in Seq(Nat) /\ IsInjective(Created(g, p))
        /\ ToSet(Created(g, p)) = ToSet(g) \cup {p}
    BY <2>2, <2>3, CreatedFacts
  <2>6. ASSUME NEW b \in Nat, b < p, OlderFirst(f, b) PROVE OlderFirst(Append(g, p), b)
    <3>1. Len(f) \in Nat /\ DOMAIN f = 1..Len(f) /\ k \in Int
      <4>1. Len(f) \in Nat /\ DOMAIN f = 1..Len(f)
        BY LenProperties
      <4> QED BY <2>1, <4>1
    <3>2. OlderFirst(g, b)
      <4> SUFFICES ASSUME NEW i \in DOMAIN g, NEW j \in DOMAIN g, i < j, g[j] <= b
                   PROVE  g[i] <= b
        BY DEF OlderFirst
      <4> DEFINE u == IF i < k THEN i ELSE i + 1
                 v == IF j < k THEN j ELSE j + 1
      <4>1. u \in DOMAIN f /\ v \in DOMAIN f /\ u < v /\ g[i] = f[u] /\ g[j] = f[v]
        <5>1. i \in 1..(Len(f) - 1) /\ j \in 1..(Len(f) - 1)
          BY <2>2
        <5>2. g[i] = f[u] /\ g[j] = f[v]
          BY <2>2, <5>1
        <5>3. Len(f) \in Nat /\ k \in Int
          BY <3>1
        <5>4. u \in 1..Len(f)
          BY <5>1, <5>3
        <5>5. v \in 1..Len(f)
          BY <5>1, <5>3
        <5>6. u < v
          BY <5>1, <5>3
        <5> HIDE DEF u, v
        <5> QED BY <3>1, <5>2, <5>4, <5>5, <5>6
      <4> HIDE DEF u, v
      <4> QED BY <2>6, <4>1 DEF OlderFirst
    <3> QED BY <2>2, <2>6, <3>2, OlderFirstAppend
  <2>7. ToSet(g) \cup {p} = ToSet(f)
    BY <1>2, <2>3
  <2> QED BY <2>4, <2>5, <2>6, <2>7 DEF Created
<1> QED BY <1>1, <1>2

\* Rotated: a suffix, no longer than the limit.
LEMMA RotatedFacts ==
    ASSUME NEW f \in Seq(Nat), NEW n \in Nat, IsInjective(f)
    PROVE  /\ Rotated(f, n) \in Seq(Nat) /\ IsInjective(Rotated(f, n))
           /\ ToSet(Rotated(f, n)) \subseteq ToSet(f)
           /\ n > 0 => Len(Rotated(f, n)) <= n
           /\ \A i \in DOMAIN f : Len(f) - i < n => f[i] \in ToSet(Rotated(f, n))
           /\ \A b \in Nat : OlderFirst(f, b) => OlderFirst(Rotated(f, n), b)
<1>1. Len(f) \in Nat /\ DOMAIN f = 1..Len(f)
  BY LenProperties
<1>2. CASE Len(f) <= n \/ n <= 0
  <2>1. Rotated(f, n) = f
    BY <1>1, <1>2 DEF Rotated, Newest
  <2>2. n > 0 => Len(f) <= n
    BY <1>1, <1>2
  <2> QED BY <1>1, <2>1, <2>2 DEF ToSet
<1>3. CASE ~(Len(f) <= n \/ n <= 0)
  <2> DEFINE g == SubSeq(f, Len(f) - n + 1, Len(f))
             d == Len(f) - n
  <2>1. Rotated(f, n) = g
    BY <1>1, <1>3 DEF Rotated, Newest
  <2>2. n <= Len(f)
    BY <1>1, <1>3
  <2>3. g \in Seq(Nat) /\ Len(g) = n /\ DOMAIN g = 1..n /\ \A j \in 1..n : g[j] = f[Len(f) - n + j]
    BY <2>2, SuffixFacts
  <2>4. d \in Nat /\ Len(f) = d + n
    BY <1>1, <2>2
  <2> HIDE DEF g
  <2>5. \A j \in DOMAIN g : d + j \in DOMAIN f /\ g[j] = f[d + j]
    BY <1>1, <2>3, <2>4
  <2> HIDE DEF d
  <2>6. \A i, j \in DOMAIN g : (i < j <=> d + i < d + j) /\ (d + i = d + j => i = j)
    BY <2>3, <2>4
  <2>7. \A i \in DOMAIN f : Len(f) - i < n => i - d \in DOMAIN g /\ d + (i - d) = i
    BY <1>1, <2>3, <2>4
  <2>8. IsInjective(g)
    <3> SUFFICES ASSUME NEW i \in DOMAIN g, NEW j \in DOMAIN g, g[i] = g[j] PROVE i = j
      BY DEF IsInjective
    <3>1. d + i = d + j
      BY <2>5 DEF IsInjective
    <3> QED BY <2>6, <3>1
  <2>9. ToSet(g) \subseteq ToSet(f)
    BY <2>5 DEF ToSet
  <2>10. ASSUME NEW i \in DOMAIN f, Len(f) - i < n PROVE f[i] \in ToSet(g)
    <3>1. i - d \in DOMAIN g /\ g[i - d] = f[i]
      BY <2>5, <2>7, <2>10
    <3> QED BY <3>1 DEF ToSet
  <2>11. ASSUME NEW b \in Nat, OlderFirst(f, b) PROVE OlderFirst(g, b)
    <3> SUFFICES ASSUME NEW i \in DOMAIN g, NEW j \in DOMAIN g, i < j, g[j] <= b
                 PROVE  g[i] <= b
      BY DEF OlderFirst
    <3> QED BY <2>5, <2>6, <2>11 DEF OlderFirst
  <2>12. Len(g) <= n
    BY <2>3
  <2> QED BY <2>1, <2>3, <2>8, <2>9, <2>10, <2>11, <2>12
<1> QED BY <1>2, <1>3

(***************************************************************************)
(* What a step does to the children.                                       *)
(***************************************************************************)
\* The elements of a sequence of pids.
LEMMA HeldElement ==
    ASSUME NEW n, NEW s, Held(s, n), NEW i \in DOMAIN s
    PROVE  s[i] \in 1..n /\ s[i] \in ToSet(s)
BY DEF Held, ToSet

\* More children do not disturb it.
LEMMA HeldMore ==
    ASSUME NEW n \in Nat, NEW m \in Nat, n <= m, NEW s, Held(s, n)
    PROVE  Held(s, m)
BY DEF Held

\* The empty sequence.
LEMMA HeldEmpty ==
    ASSUME NEW n
    PROVE  Held(<<>>, n)
BY ToSetEmpty, EmptySeq DEF Held

\* Start: one more child, before execv.
LEMMA LaunchFacts ==
    ASSUME ProcsOK, ControlOK, Launch
    PROVE  /\ procs' \in Seq(ProcRec) /\ Len(procs') = Len(procs) + 1
           /\ Len(procs') <= MaxLaunches
           /\ DOMAIN procs' = 1..(Len(procs) + 1) /\ NextPid = Len(procs) + 1
           /\ \A p \in 1..Len(procs) : procs'[p] = procs[p]
           /\ procs'[NextPid] = Child(thread, cursor)
           /\ procs'[NextPid].of = cursor /\ procs'[NextPid].st = "forked"
<1>1. Len(procs) \in Nat /\ MaxLaunches \in Nat
  BY PidsAre, Constants
<1>2. Child(thread, cursor) \in ProcRec
  BY DEF Child, ProcRec, ChildStates, Launch, ControlOK
<1>3. procs' = Append(procs, Child(thread, cursor)) /\ procs \in Seq(ProcRec)
  BY DEF Launch, Start, ProcsOK
<1>4. /\ procs' \in Seq(ProcRec) /\ Len(procs') = Len(procs) + 1
      /\ DOMAIN procs' = 1..(Len(procs) + 1)
      /\ \A p \in 1..Len(procs) : procs'[p] = procs[p]
      /\ procs'[Len(procs) + 1] = Child(thread, cursor)
  BY <1>2, <1>3, AppendFacts
<1>5. Len(procs) < MaxLaunches
  BY DEF Launch
<1>6. Child(thread, cursor).of = cursor /\ Child(thread, cursor).st = "forked"
  BY DEF Child
<1> QED BY <1>1, <1>4, <1>5, <1>6 DEF NextPid

\* The entry that Collect looks at.
LEMMA PolledRunner ==
    ASSUME ProcsOK, HeldOK, cursor \in DOMAIN runners
    PROVE  runners[cursor] \in Pids /\ runners[cursor] \in ToSet(runners)
<1>1. Held(runners, Len(procs))
  BY DEF HeldOK
<1> QED BY <1>1, HeldElement, PidsAre

\* Every step but a launch keeps the children.
LEMMA ChildrenStep ==
    ASSUME ProcsOK, HeldOK, [Next]_vars
    PROVE  Launch \/ Keeps(procs, procs')
<1>1. CASE Destroy
  <2>1. dtors \in Seq(Nat) /\ ToSet(dtors) \subseteq Pids /\ dtors # <<>>
    BY <1>1, PidsAre DEF HeldOK, Held, Destroy
  <2>2. Head(dtors) \in ToSet(dtors)
    <3>1. Len(dtors) \in Nat /\ DOMAIN dtors = 1..Len(dtors) /\ Len(dtors) # 0
      BY <2>1, LenProperties, EmptySeq
    <3>2. 1 \in DOMAIN dtors /\ Head(dtors) = dtors[1]
      BY <2>1, <3>1
    <3> QED BY <3>2 DEF ToSet
  <2>3. Head(dtors) \in Pids /\ Stop(Head(dtors))
    BY <1>1, <2>1, <2>2 DEF Destroy
  <2> QED BY <2>3, KeepsStop
<1>2. CASE LoopTest
  <2>1. procs' = procs \/ ThreadEnds("loop")
    BY <1>2 DEF LoopTest
  <2> QED BY <2>1, KeepsItself, KeepsThreadEnds
<1>3. CASE PollEnded
  <2>1. cursor \in DOMAIN runners /\ Reap(runners[cursor])
    BY <1>3 DEF PollEnded
  <2> QED BY <2>1, PolledRunner, KeepsReap
<1>4. CASE ProcessEnds
  BY <1>4, KeepsThreadEnds DEF ProcessEnds
<1>5. CASE LaunchFails \/ Launched \/ PollRunning \/ Polled \/ Push \/ CallReturns
           \/ Release \/ RequestStop
  <2>1. procs' = procs
    BY <1>5 DEF LaunchFails, Launched, PollRunning, Polled, Push, CallReturns, Release,
                RequestStop
  <2> QED BY <2>1, KeepsItself
<1>6. ASSUME NEW p \in Pids, ToolStarts(p) \/ ToolWrites(p) \/ ToolEnds(p)
      PROVE  Keeps(procs, procs')
  <2>1. Exec(p) \/ ExecFails(p) \/ WriteOutput(p) \/ Complete(p) \/ DieOfTerm(p)
    BY <1>6 DEF ToolStarts, ToolWrites, ToolEnds
  <2> QED BY <2>1, KeepsTool
<1>7. CASE UNCHANGED vars
  <2>1. procs' = procs
    BY <1>7 DEF vars
  <2> QED BY <2>1, KeepsItself
<1> QED BY <1>1, <1>2, <1>3, <1>4, <1>5, <1>6, <1>7 DEF Next, Worker

\* So the records of the children stay well formed.
LEMMA ProcsStep ==
    ASSUME ProcsOK, HeldOK, ControlOK, [Next]_vars
    PROVE  ProcsOK' /\ Len(procs') \in Nat /\ Len(procs) <= Len(procs')
<1>1. Len(procs) \in Nat /\ Len(procs) <= MaxLaunches
  BY PidsAre DEF ProcsOK
<1>2. CASE Launch
  <2>1. /\ procs' \in Seq(ProcRec) /\ Len(procs') = Len(procs) + 1
        /\ Len(procs') <= MaxLaunches
    BY <1>2, LaunchFacts
  <2> QED BY <1>1, <2>1 DEF ProcsOK
<1>3. CASE Keeps(procs, procs')
  BY <1>1, <1>3 DEF Keeps, ProcsOK
<1> QED BY <1>2, <1>3, ChildrenStep

(***************************************************************************)
(* What a step does to the sequences of pids.                              *)
(***************************************************************************)
\* runners_.erase: the ended tool's pid goes, the others stay.
LEMMA ErasedFacts ==
    ASSUME ProcsOK, HeldOK, IsInjective(runners), PollEnded
    PROVE  /\ Held(runners', Len(procs)) /\ IsInjective(runners')
           /\ ToSet(runners') = ToSet(runners) \ {runners[cursor]}
           /\ Len(runners') = Len(runners) - 1
           /\ Len(runners) \in Nat /\ DOMAIN runners = 1..Len(runners)
           /\ cursor \in 1..Len(runners)
<1>1. cursor \in DOMAIN runners /\ runners' = RemoveAt(runners, cursor)
  BY DEF PollEnded, RunnersErased
<1>2. runners \in Seq(Nat) /\ ToSet(runners) \subseteq 1..Len(procs)
  BY DEF HeldOK, Held
<1>3. runners' \in Seq(Nat) /\ Len(runners') = Len(runners) - 1
  BY <1>1, <1>2, RemoveAtFacts
<1>4. IsInjective(runners') /\ ToSet(runners') = ToSet(runners) \ {runners[cursor]}
  BY <1>1, <1>2, InjectiveRemoveAt
<1>5. Len(runners) \in Nat /\ DOMAIN runners = 1..Len(runners)
  BY <1>2, LenProperties
<1> QED BY <1>1, <1>2, <1>3, <1>4, <1>5 DEF Held

\* The sequences after a launch.
LEMMA LaunchedFacts ==
    ASSUME ProcsOK, HeldOK, ControlOK, Launch
    PROVE  /\ Held(runners', Len(procs')) /\ Held(dtors', Len(procs'))
           /\ ToSet(runners') = ToSet(runners) \cup {NextPid}
           /\ Len(runners') = Len(runners) + 1 /\ Len(runners) \in Nat
           /\ NextPid \notin ToSet(runners) /\ NextPid \in Nat
<1>1. Len(procs) \in Nat /\ Len(procs') = Len(procs) + 1 /\ NextPid = Len(procs) + 1
  BY PidsAre, LaunchFacts
<1>2. runners \in Seq(Nat) /\ ToSet(runners) \subseteq 1..Len(procs) /\ NextPid \in Nat
  BY <1>1 DEF HeldOK, Held
<1>3. runners' = Append(runners, NextPid)
  BY DEF Launch
<1>4. /\ runners' \in Seq(Nat) /\ Len(runners') = Len(runners) + 1 /\ Len(runners) \in Nat
      /\ ToSet(runners') = ToSet(runners) \cup {NextPid}
  BY <1>2, <1>3, AppendFacts, ToSetAppend
<1>5. NextPid \notin ToSet(runners) /\ ToSet(runners) \cup {NextPid} \subseteq 1..Len(procs')
  BY <1>1, <1>2
<1> DEFINE two == <<NextPid, NextPid>>
<1>6. two \in Seq(Nat) /\ ToSet(two) = {NextPid}
  BY <1>2 DEF ToSet
<1>7. dtors' = two \/ dtors' = runners \o two
  BY DEF Launch
<1> HIDE DEF two
<1>8. runners \o two \in Seq(Nat) /\ ToSet(runners \o two) = ToSet(runners) \cup {NextPid}
  BY <1>2, <1>6, ConcatProperties, ToSetConcat
<1>9. Held(dtors', Len(procs'))
  BY <1>5, <1>6, <1>7, <1>8 DEF Held
<1> QED BY <1>4, <1>5, <1>9, <1>2 DEF Held

\* The event of an ended tool, if it has one.
LEMMA EmittedFacts ==
    ASSUME ProcsOK, HeldOK, PollEnded
    PROVE  /\ Held(events', Len(procs))
           /\ events' = events \/ (HasData(runners[cursor]) /\ events' = Append(events, runners[cursor]))
           /\ ToSet(events') \subseteq ToSet(events) \cup {runners[cursor]}
<1> DEFINE p == runners[cursor]
<1>1. p \in 1..Len(procs) /\ p \in Nat
  BY PolledRunner, PidsAre DEF PollEnded
<1>2. events' = events \/ (HasData(p) /\ events' = Append(events, p))
  BY DEF PollEnded
<1> HIDE DEF p
<1>3. events \in Seq(Nat) /\ ToSet(events) \subseteq 1..Len(procs)
  BY DEF HeldOK, Held
<1>4. Append(events, p) \in Seq(Nat) /\ ToSet(Append(events, p)) = ToSet(events) \cup {p}
  BY <1>1, <1>3, AppendFacts, ToSetAppend
<1>5. Held(events', Len(procs)) /\ ToSet(events') \subseteq ToSet(events) \cup {p}
  BY <1>1, <1>2, <1>3, <1>4 DEF Held
<1> QED BY <1>2, <1>5 DEF p

\* The pids that the diagnoser holds are those of its children.
LEMMA HeldStep ==
    ASSUME ProcsOK, HeldOK, ControlOK, IsInjective(runners), [Next]_vars
    PROVE  HeldOK'
<1>1. /\ Len(procs) \in Nat /\ Len(procs') \in Nat /\ Len(procs) <= Len(procs')
  BY PidsAre, ProcsStep
<1>2. /\ Held(runners, Len(procs')) /\ Held(dtors, Len(procs'))
      /\ Held(events, Len(procs')) /\ Held(reported, Len(procs'))
  BY <1>1, HeldMore DEF HeldOK
<1>3. Held(<<>>, Len(procs'))
  BY HeldEmpty
<1>4. CASE Destroy
  <2>1. dtors \in Seq(Nat) /\ dtors # <<>> /\ dtors' = Tail(dtors)
    BY <1>4 DEF HeldOK, Held, Destroy
  <2>2. Tail(dtors) \in Seq(Nat) /\ ToSet(Tail(dtors)) \subseteq ToSet(dtors)
    <3>1. /\ Tail(dtors) \in Seq(Nat) /\ Len(Tail(dtors)) = Len(dtors) - 1
          /\ \A i \in 1..Len(Tail(dtors)) : Tail(dtors)[i] = dtors[i + 1]
      BY <2>1, HeadTailProperties
    <3>2. /\ Len(dtors) \in Nat /\ DOMAIN dtors = 1..Len(dtors)
          /\ DOMAIN Tail(dtors) = 1..(Len(dtors) - 1)
      BY <2>1, <3>1, LenProperties
    <3>3. \A i \in DOMAIN Tail(dtors) : i + 1 \in DOMAIN dtors /\ Tail(dtors)[i] = dtors[i + 1]
      BY <3>1, <3>2
    <3> QED BY <3>1, <3>3 DEF ToSet
  <2>3. Held(dtors', Len(procs'))
    BY <1>2, <2>1, <2>2 DEF Held
  <2> QED BY <1>2, <1>4, <2>3 DEF HeldOK, Destroy
<1>5. CASE Launch
  <2>1. events' = events /\ reported' = reported
    BY <1>5 DEF Launch
  <2> QED BY <1>2, <1>5, <2>1, LaunchedFacts DEF HeldOK
<1>6. CASE PollEnded
  <2>1. reported' = reported
    BY <1>6 DEF PollEnded
  <2>2. Held(runners', Len(procs'))
    BY <1>1, <1>6, ErasedFacts, HeldMore
  <2>3. Held(events', Len(procs'))
    BY <1>1, <1>6, EmittedFacts, HeldMore
  <2>4. Held(dtors', Len(procs'))
    <3>1. dtors' = <<>> \/ dtors' = <<Last(runners)>>
      BY <1>6 DEF PollEnded
    <3>2. runners \in Seq(Nat) /\ cursor \in 1..Len(runners) /\ DOMAIN runners = 1..Len(runners)
          /\ Len(runners) \in Nat
      BY <1>6, ErasedFacts DEF HeldOK, Held
    <3>3. Len(runners) \in DOMAIN runners
      BY <3>2
    <3>4. Last(runners) \in 1..Len(procs')
      BY <1>2, <3>3, HeldElement DEF Last
    <3> DEFINE l == Last(runners)
    <3> HIDE DEF l
    <3>5. <<l>> \in Seq(Nat) /\ ToSet(<<l>>) = {l}
      BY <3>4 DEF l, ToSet
    <3>6. Held(<<l>>, Len(procs'))
      BY <3>4, <3>5 DEF l, Held
    <3> QED BY <1>3, <3>1, <3>6 DEF l
  <2> QED BY <1>2, <2>1, <2>2, <2>3, <2>4 DEF HeldOK
<1>7. CASE Push
  <2>1. events' = <<>> /\ reported' = reported \o events /\ runners' = runners /\ dtors' = dtors
    BY <1>7 DEF Push, Reset
  <2>2. Held(reported \o events, Len(procs'))
    <3>1. reported \in Seq(Nat) /\ events \in Seq(Nat)
      BY <1>2 DEF Held
    <3>2. reported \o events \in Seq(Nat) /\ ToSet(reported \o events) = ToSet(reported) \cup ToSet(events)
      BY <3>1, ConcatProperties, ToSetConcat
    <3> QED BY <1>2, <3>2 DEF Held
  <2> QED BY <1>2, <1>3, <2>1, <2>2 DEF HeldOK
<1>8. CASE Release
  BY <1>2, <1>3, <1>8 DEF HeldOK, Release, Reset
<1>9. CASE LaunchFails \/ Launched \/ LoopTest \/ PollRunning \/ Polled \/ ProcessEnds
           \/ CallReturns \/ RequestStop \/ UNCHANGED vars
  <2>1. /\ runners' = runners /\ dtors' = dtors /\ events' = events /\ reported' = reported
    BY <1>9 DEF LaunchFails, Launched, LoopTest, PollRunning, Polled, ProcessEnds,
                CallReturns, RequestStop, vars
  <2> QED BY <1>2, <2>1 DEF HeldOK
<1>10. ASSUME NEW p \in Pids, ToolStarts(p) \/ ToolWrites(p) \/ ToolEnds(p)
       PROVE  HeldOK'
  <2>1. /\ runners' = runners /\ dtors' = dtors /\ events' = events /\ reported' = reported
    BY <1>10 DEF ToolStarts, ToolWrites, ToolEnds, ToolUnchanged
  <2> QED BY <1>2, <2>1 DEF HeldOK
<1> QED BY <1>4, <1>5, <1>6, <1>7, <1>8, <1>9, <1>10 DEF Next, Worker

\* The threads' control state.
LEMMA ControlStep ==
    ASSUME ControlOK, [Next]_vars
    PROVE  ControlOK'
<1> USE Constants
<1>1. CASE Destroy
  BY <1>1 DEF ControlOK, Destroy
<1>2. CASE Launch
  BY <1>2 DEF ControlOK, Launch
<1>3. CASE LaunchFails
  BY <1>3 DEF ControlOK, LaunchFails
<1>4. CASE Launched
  BY <1>4 DEF ControlOK, Launched, At
<1>5. CASE LoopTest
  BY <1>5 DEF ControlOK, LoopTest, At
<1>6. CASE PollRunning
  BY <1>6 DEF ControlOK, PollRunning
<1>7. CASE PollEnded
  BY <1>7 DEF ControlOK, PollEnded, At
<1>8. CASE Polled
  BY <1>8 DEF ControlOK, Polled, At
<1>9. CASE Push
  BY <1>9 DEF ControlOK, Push, At, Reset
<1>10. CASE Release \/ CallReturns
  BY <1>10 DEF ControlOK, Release, CallReturns, At
<1>11. CASE ProcessEnds
  BY <1>11 DEF ControlOK, ProcessEnds, At
<1>12. CASE RequestStop
  BY <1>12 DEF ControlOK, RequestStop
<1>13. ASSUME NEW p \in Pids, ToolStarts(p) \/ ToolWrites(p) \/ ToolEnds(p)
       PROVE  ControlOK'
  BY <1>13 DEF ControlOK, ToolStarts, ToolWrites, ToolEnds, ToolUnchanged
<1>14. CASE UNCHANGED vars
  BY <1>14 DEF ControlOK, vars
<1> QED BY <1>1, <1>2, <1>3, <1>4, <1>5, <1>6, <1>7, <1>8, <1>9, <1>10, <1>11, <1>12,
           <1>13, <1>14 DEF Next, Worker

\* The cursor stays inside what it goes through.
LEMMA CursorStep ==
    ASSUME ProcsOK, HeldOK, ControlOK, IsInjective(runners), CursorOK, [Next]_vars
    PROVE  CursorOK'
<1>1. Len(runners) \in Nat /\ DOMAIN runners = 1..Len(runners)
  BY LenProperties DEF HeldOK, Held
<1>2. Len(Configs) \in Nat /\ Entries = 1..Len(Configs) /\ Len(<<>>) = 0
  BY Constants, EmptySeq
<1>3. CASE Launch
  <2>1. Len(runners') = Len(runners) + 1
    BY <1>3, LaunchedFacts
  <2>2. cursor \in 1..Len(Configs) /\ cursor' = cursor + 1 /\ phase = "launch" /\ phase' = "launch"
    BY <1>2, <1>3 DEF Launch, At
  <2>3. CASE Len(runners) < capacity
    <3>1. capacity' = capacity
      BY <1>3, <2>3 DEF Launch
    <3> QED BY <1>1, <1>2, <2>1, <2>2, <2>3, <3>1 DEF CursorOK
  <2>4. CASE ~(Len(runners) < capacity)
    <3>1. capacity' = IF capacity = 0 THEN 1 ELSE 2 * capacity
      BY <1>3, <2>4 DEF Launch
    <3>2. capacity' \in Nat /\ Len(runners) + 1 <= capacity'
      BY <1>1, <2>4, <3>1 DEF CursorOK
    <3> QED BY <1>1, <1>2, <2>1, <2>2, <3>2 DEF CursorOK
  <2> QED BY <2>3, <2>4
<1>4. CASE LaunchFails
  BY <1>1, <1>2, <1>4 DEF CursorOK, LaunchFails, At
<1>5. CASE Launched \/ Polled
  <2>1. /\ cursor' = 1 /\ capacity' = capacity /\ runners' = runners
        /\ phase' = "launch" => runners = <<>>
        /\ phase' # "reap"
    BY <1>5 DEF Launched, Polled, RoundIsDue
  <2> QED BY <1>1, <1>2, <2>1 DEF CursorOK
<1>6. CASE LoopTest
  <2>1. cursor' = 1 /\ capacity' = capacity /\ runners' = runners /\ phase' # "launch"
    BY <1>6 DEF LoopTest, FirstRunner
  <2> QED BY <1>1, <1>2, <2>1 DEF CursorOK
<1>7. CASE PollRunning
  <2>1. /\ cursor \in 1..Len(runners) /\ cursor' = cursor + 1 /\ capacity' = capacity
        /\ runners' = runners /\ phase = "reap" /\ phase' = "reap"
    BY <1>1, <1>7 DEF PollRunning, At
  <2> QED BY <1>1, <1>2, <2>1 DEF CursorOK
<1>8. CASE PollEnded
  <2>1. cursor \in 1..Len(runners) /\ Len(runners') = Len(runners) - 1
    BY <1>8, ErasedFacts
  <2>2. cursor' = cursor /\ capacity' = capacity /\ phase' = phase /\ phase = "reap"
    BY <1>8 DEF PollEnded, At
  <2> QED BY <1>1, <1>2, <2>1, <2>2 DEF CursorOK
<1>9. CASE Release
  <2>1. cursor' = cursor /\ capacity' = capacity /\ runners' = <<>> /\ phase' = "release"
    BY <1>9 DEF Release
  <2> QED BY <1>2, <2>1 DEF CursorOK
<1>10. CASE Push \/ CallReturns \/ ProcessEnds
  <2>1. cursor' = cursor /\ capacity' = capacity /\ runners' = runners /\ phase' \notin {"launch", "reap"}
    BY <1>10 DEF Push, CallReturns, ProcessEnds
  <2> QED BY <2>1 DEF CursorOK
<1>11. CASE Destroy \/ RequestStop \/ UNCHANGED vars \/ ToolUnchanged
  <2>1. cursor' = cursor /\ capacity' = capacity /\ runners' = runners /\ phase' = phase
    BY <1>11 DEF Destroy, RequestStop, ToolUnchanged, vars
  <2> QED BY <2>1 DEF CursorOK
<1>12. ASSUME NEW p \in Pids, ToolStarts(p) \/ ToolWrites(p) \/ ToolEnds(p) PROVE ToolUnchanged
  BY <1>12 DEF ToolStarts, ToolWrites, ToolEnds
<1> QED BY <1>3, <1>4, <1>5, <1>6, <1>7, <1>8, <1>9, <1>10, <1>11, <1>12 DEF Next, Worker

(***************************************************************************)
(* ChildrenStayPolled and ReportedOnce.                                    *)
(***************************************************************************)
\* A step keeps every unreaped child in runners_ until shutdown.
LEMMA PolledStep ==
    ASSUME ProcsOK, HeldOK, ControlOK, IsInjective(runners), ChildrenStayPolled, [Next]_vars
    PROVE  ChildrenStayPolled'
<1> SUFFICES ASSUME phase' \notin {"release", "exited"}, NEW p \in Pids', procs'[p].st # "reaped"
             PROVE  p \in ToSet(runners')
  BY DEF ChildrenStayPolled
<1>1. /\ Len(procs) \in Nat /\ Pids = 1..Len(procs)
  BY PidsAre
<1>2. CASE Launch
  <2>1. /\ phase = "launch" /\ DOMAIN procs' = 1..(Len(procs) + 1)
        /\ \A q \in 1..Len(procs) : procs'[q] = procs[q]
        /\ NextPid = Len(procs) + 1 /\ ToSet(runners') = ToSet(runners) \cup {NextPid}
    BY <1>2, LaunchFacts, LaunchedFacts DEF Launch, At
  <2>2. p \in 1..(Len(procs) + 1)
    BY <2>1 DEF Pids
  <2>3. CASE p = NextPid
    BY <2>1, <2>3
  <2>4. CASE p # NextPid
    <3>1. p \in Pids /\ procs[p].st # "reaped"
      BY <1>1, <2>1, <2>2, <2>4
    <3> QED BY <2>1, <3>1 DEF ChildrenStayPolled
  <2> QED BY <2>3, <2>4
<1>3. CASE PollEnded
  <2>1. cursor \in DOMAIN runners /\ Reap(runners[cursor]) /\ phase = "reap"
    BY <1>3 DEF PollEnded, At
  <2>2. /\ Keeps(procs, procs') /\ procs'[runners[cursor]].st = "reaped"
    BY <2>1, PolledRunner, KeepsReap
  <2>3. p \in Pids /\ procs[p].st # "reaped" /\ p # runners[cursor]
    BY <2>2 DEF Keeps, Pids
  <2>4. p \in ToSet(runners)
    BY <2>1, <2>3 DEF ChildrenStayPolled
  <2> QED BY <1>3, <2>3, <2>4, ErasedFacts
<1>4. CASE Release
  BY <1>4 DEF Release
<1>5. CASE ~Launch /\ runners' = runners /\ (phase \in {"release", "exited"} => phase' \in {"release", "exited"})
  <2>1. Keeps(procs, procs')
    BY <1>5, ChildrenStep
  <2>2. p \in Pids /\ procs[p].st # "reaped"
    BY <2>1 DEF Keeps, Pids
  <2> QED BY <1>5, <2>2 DEF ChildrenStayPolled
<1>6. CASE Destroy \/ LaunchFails \/ Launched \/ LoopTest \/ PollRunning \/ Polled \/ Push
           \/ CallReturns \/ ProcessEnds \/ RequestStop \/ ToolUnchanged \/ UNCHANGED vars
  <2>1. /\ runners' = runners
        /\ phase \in {"release", "exited"} => phase' \in {"release", "exited"}
    BY <1>6 DEF Destroy, LaunchFails, Launched, LoopTest, PollRunning, Polled, Push,
                CallReturns, ProcessEnds, RequestStop, ToolUnchanged, vars, At
  <2> QED BY <1>2, <1>5, <2>1
<1>7. ASSUME NEW q \in Pids, ToolStarts(q) \/ ToolWrites(q) \/ ToolEnds(q) PROVE ToolUnchanged
  BY <1>7 DEF ToolStarts, ToolWrites, ToolEnds
<1> QED BY <1>2, <1>3, <1>4, <1>6, <1>7 DEF Next, Worker

\* What has been emitted stays ended, with its content.
LEMMA EmittedKept ==
    ASSUME ProcsOK, HeldOK, ControlOK, ReportedOnce, [Next]_vars, NEW p \in ToSet(reported \o events)
    PROVE  p \in Pids /\ procs'[p].st = "reaped" /\ procs'[p].data
<1>1. Len(procs) \in Nat /\ Pids = 1..Len(procs)
  BY PidsAre
<1>2. p \in 1..Len(procs)
  <2>1. /\ reported \in Seq(Nat) /\ events \in Seq(Nat)
        /\ ToSet(reported) \subseteq 1..Len(procs) /\ ToSet(events) \subseteq 1..Len(procs)
    BY DEF HeldOK, Held
  <2>2. ToSet(reported \o events) = ToSet(reported) \cup ToSet(events)
    BY <2>1, ToSetConcat
  <2> QED BY <2>1, <2>2
<1>3. procs[p].st = "reaped" /\ procs[p].data
  BY DEF ReportedOnce
<1>4. CASE Launch
  <2>1. procs'[p] = procs[p]
    BY <1>2, <1>4, LaunchFacts
  <2> QED BY <1>1, <1>2, <1>3, <2>1
<1>5. CASE Keeps(procs, procs')
  <2>1. procs'[p].st = "reaped" /\ procs'[p].data = procs[p].data
    BY <1>1, <1>2, <1>3, <1>5 DEF Keeps, Pids
  <2> QED BY <1>1, <1>2, <1>3, <2>1
<1> QED BY <1>4, <1>5, ChildrenStep

\* A step emits only what it takes out of runners_.
LEMMA OnceStep ==
    ASSUME ProcsOK, HeldOK, ControlOK, OnceOK, [Next]_vars
    PROVE  OnceOK'
<1> DEFINE out == reported \o events
<1>1. /\ runners \in Seq(Nat) /\ reported \in Seq(Nat) /\ events \in Seq(Nat)
      /\ ToSet(reported) \subseteq 1..Len(procs) /\ ToSet(events) \subseteq 1..Len(procs)
      /\ ToSet(runners) \subseteq 1..Len(procs)
  BY DEF HeldOK, Held
<1>2. out \in Seq(Nat) /\ ToSet(out) = ToSet(reported) \cup ToSet(events)
  BY <1>1, ConcatProperties, ToSetConcat
<1>3. IsInjective(out) /\ \A p \in ToSet(out) : procs'[p].st = "reaped" /\ procs'[p].data
  BY EmittedKept DEF OnceOK, ReportedOnce
<1> HIDE DEF out
<1>4. /\ IsInjective(runners) /\ ToSet(runners) \cap ToSet(reported) = {}
      /\ ToSet(runners) \cap ToSet(events) = {}
  BY DEF OnceOK
<1>5. CASE Launch
  <2>1. /\ ToSet(runners') = ToSet(runners) \cup {NextPid}
        /\ events' = events /\ reported' = reported /\ runners' = Append(runners, NextPid)
        /\ NextPid \notin ToSet(runners) /\ NextPid \in Nat
    BY <1>5, LaunchedFacts DEF Launch
  <2>2. NextPid \notin 1..Len(procs)
    BY PidsAre DEF NextPid
  <2>3. IsInjective(runners')
    BY <1>1, <1>4, <2>1, InjectiveAppend
  <2> QED BY <1>1, <1>3, <1>4, <2>1, <2>2, <2>3 DEF OnceOK, ReportedOnce, out
<1>6. CASE PollEnded
  <2> DEFINE p == runners[cursor]
  <2>1. p \in Pids /\ p \in ToSet(runners) /\ Reap(p) /\ reported' = reported
    BY <1>6, PolledRunner DEF PollEnded
  <2>2. /\ procs'[p].st = "reaped" /\ procs'[p].data = procs[p].data
    BY <2>1, KeepsReap
  <2>3. IsInjective(runners') /\ ToSet(runners') = ToSet(runners) \ {p}
    BY <1>4, <1>6, ErasedFacts
  <2>4. events' = events \/ (HasData(p) /\ events' = Append(events, p))
    BY <1>6, EmittedFacts
  <2>5. ToSet(events') \subseteq ToSet(events) \cup {p}
    BY <1>6, EmittedFacts
  <2> HIDE DEF p
  <2>6. CASE events' = events
    BY <1>3, <1>4, <2>1, <2>3, <2>6 DEF OnceOK, ReportedOnce, out
  <2>7. CASE HasData(p) /\ events' = Append(events, p)
    <3>1. p \in Nat
      BY <1>1, <2>1
    <3>2. reported' \o events' = Append(out, p)
      <4>1. Append(events, p) = events \o <<p>> /\ <<p>> \in Seq(Nat) /\ Append(out, p) = out \o <<p>>
        <5>1. Append(events, p) = events \o <<p>>
          BY <1>1, <3>1, AppendIsConcat
        <5>2. Append(out, p) = out \o <<p>>
          BY <1>2, <3>1, AppendIsConcat
        <5>3. <<p>> \in Seq(Nat)
          BY <3>1
        <5> QED BY <5>1, <5>2, <5>3
      <4>2. reported \o (events \o <<p>>) = (reported \o events) \o <<p>>
        BY <1>1, <4>1, ConcatAssociative
      <4> QED BY <2>1, <2>7, <4>1, <4>2 DEF out
    <3>3. p \notin ToSet(out)
      BY <1>2, <1>4, <2>1
    <3>4. IsInjective(Append(out, p)) /\ ToSet(Append(out, p)) = ToSet(out) \cup {p}
      BY <1>2, <1>3, <3>1, <3>3, InjectiveAppend, ToSetAppend
    <3>5. procs[p].data
      BY <2>7 DEF HasData
    <3>6. ReportedOnce'
      BY <1>3, <2>2, <3>2, <3>4, <3>5 DEF ReportedOnce
    <3> QED BY <1>4, <2>1, <2>3, <2>5, <3>6 DEF OnceOK
  <2> QED BY <2>4, <2>6, <2>7
<1>7. CASE Push
  <2>1. events' = <<>> /\ reported' = out /\ runners' = runners
    BY <1>7 DEF Push, Reset, out
  <2>2. out \o <<>> = out /\ ToSet(<<>>) = {}
    BY <1>2, ConcatEmptySeq, ToSetEmpty
  <2>3. ReportedOnce'
    BY <1>3, <2>1, <2>2 DEF ReportedOnce
  <2> QED BY <1>2, <1>4, <2>1, <2>2, <2>3 DEF OnceOK
<1>8. CASE Release
  <2>1. events' = <<>> /\ reported' = reported /\ runners' = <<>>
    BY <1>8 DEF Release, Reset
  <2>2. reported \o <<>> = reported /\ ToSet(<<>>) = {} /\ IsInjective(<<>>)
    BY <1>1, ConcatEmptySeq, ToSetEmpty DEF IsInjective
  <2>3. IsInjective(reported)
    <3>1. /\ \A i \in 1..(Len(reported) + Len(events)) :
                out[i] = IF i <= Len(reported) THEN reported[i] ELSE events[i - Len(reported)]
          /\ Len(out) = Len(reported) + Len(events)
      BY <1>1, ConcatProperties DEF out
    <3>2. /\ Len(reported) \in Nat /\ Len(events) \in Nat
          /\ DOMAIN reported = 1..Len(reported) /\ DOMAIN out = 1..Len(out)
      BY <1>1, <1>2, LenProperties
    <3>3. \A i \in DOMAIN reported : i \in DOMAIN out /\ out[i] = reported[i]
      BY <3>1, <3>2
    <3> QED BY <1>3, <3>3 DEF IsInjective
  <2>4. ReportedOnce'
    BY <1>2, <1>3, <2>1, <2>2, <2>3 DEF ReportedOnce
  <2> QED BY <2>1, <2>2, <2>4 DEF OnceOK
<1>9. CASE Destroy \/ LaunchFails \/ Launched \/ LoopTest \/ PollRunning \/ Polled
           \/ CallReturns \/ ProcessEnds \/ RequestStop \/ ToolUnchanged \/ UNCHANGED vars
  <2>1. runners' = runners /\ events' = events /\ reported' = reported
    BY <1>9 DEF Destroy, LaunchFails, Launched, LoopTest, PollRunning, Polled,
                CallReturns, ProcessEnds, RequestStop, ToolUnchanged, vars
  <2> QED BY <1>3, <1>4, <2>1 DEF OnceOK, ReportedOnce, out
<1>10. ASSUME NEW q \in Pids, ToolStarts(q) \/ ToolWrites(q) \/ ToolEnds(q) PROVE ToolUnchanged
  BY <1>10 DEF ToolStarts, ToolWrites, ToolEnds
<1> QED BY <1>5, <1>6, <1>7, <1>8, <1>9, <1>10 DEF Next, Worker

(***************************************************************************)
(* The output files.                                                       *)
(***************************************************************************)
\* Every tool has one of the two types.
LEMMA TypeOfChild ==
    ASSUME ProcsOK, NEW p \in Pids
    PROVE  TypeOf(p) \in Types
<1>1. procs[p].of \in 1..Len(Configs)
  BY PidsAre, Constants DEF ProcRec
<1>2. Configs \in [1..Len(Configs) -> Types]
  BY Constants, LenProperties
<1> QED BY <1>1, <1>2 DEF TypeOf

\* The same files, after a step of the children.
LEMMA FilesKept ==
    ASSUME ProcsOK, HeldOK, ControlOK, FilesOf(files, procs), [Next]_vars
    PROVE  FilesOf(files, procs')
<1>1. DOMAIN procs = 1..Len(procs) /\ Len(procs) \in Nat
  BY PidsAre
<1>2. ASSUME NEW p \in DOMAIN procs, procs[p].st # "forked"
      PROVE  p \in DOMAIN procs' /\ procs'[p].of = procs[p].of /\ procs'[p].st # "forked"
  <2>1. CASE Launch
    <3>1. DOMAIN procs' = 1..(Len(procs) + 1) /\ procs'[p] = procs[p]
      BY <1>1, <2>1, LaunchFacts
    <3> QED BY <1>1, <1>2, <3>1
  <2>2. CASE Keeps(procs, procs')
    BY <1>2, <2>2 DEF Keeps
  <2> QED BY <2>1, <2>2, ChildrenStep
<1>3. ASSUME NEW type \in Types, NEW p \in ToSet(files[type])
      PROVE  p \in DOMAIN procs' /\ Configs[procs'[p].of] = type /\ procs'[p].st # "forked"
  <2>1. p \in DOMAIN procs /\ procs[p].st # "forked" /\ Configs[procs[p].of] = type
    BY DEF FilesOf
  <2> QED BY <1>2, <2>1
<1> QED BY <1>3 DEF FilesOf

\* The files of one type are replaced.
LEMMA FilesUpdated ==
    ASSUME NEW F, NEW P, FilesOf(F, P), NEW type \in Types, NEW f \in Seq(Nat),
           ToSet(f) \subseteq DOMAIN P, IsInjective(f),
           \A p \in ToSet(f) : Configs[P[p].of] = type /\ P[p].st # "forked"
    PROVE  FilesOf([F EXCEPT ![type] = f], P)
<1> DEFINE G == [F EXCEPT ![type] = f]
<1>1. F \in [Types -> Seq(Nat)]
  BY DEF FilesOf
<1>2. G \in [Types -> Seq(Nat)] /\ G[type] = f /\ \A t \in Types : t # type => G[t] = F[t]
  BY <1>1
<1> HIDE DEF G
<1>3. ASSUME NEW t \in Types
      PROVE  /\ ToSet(G[t]) \subseteq DOMAIN P /\ IsInjective(G[t])
             /\ \A p \in ToSet(G[t]) : Configs[P[p].of] = t /\ P[p].st # "forked"
  <2>1. CASE t = type
    BY <1>2, <2>1
  <2>2. CASE t # type
    BY <1>2, <2>2 DEF FilesOf
  <2> QED BY <2>1, <2>2
<1> QED BY <1>2, <1>3 DEF FilesOf, G

\* What a tool does to the files of its type.
LEMMA ToolFiles ==
    ASSUME ProcsOK, HeldOK, ControlOK, FilesOf(files, procs), [Next]_vars,
           NEW p \in Pids, ToolStarts(p) \/ ToolWrites(p)
    PROVE  \E f \in Seq(Nat) :
              /\ files' = [files EXCEPT ![TypeOf(p)] = f]
              /\ IsInjective(f)
              /\ ToSet(f) \subseteq ToSet(files[TypeOf(p)]) \cup {p}
              /\ ToSet(files[TypeOf(p)]) \subseteq ToSet(f)
              /\ p \in ToSet(f) => p \in ToSet(files[TypeOf(p)]) \/ procs[p].st = "forked"
              /\ \A b \in Nat : b < p /\ OlderFirst(files[TypeOf(p)], b) => OlderFirst(f, b)
<1> DEFINE type == TypeOf(p)
           f0 == files[type]
<1>1. type \in Types /\ p \in Nat
  BY TypeOfChild, PidsAre
<1> HIDE DEF type
<1>2. f0 \in Seq(Nat) /\ IsInjective(f0) /\ \A q \in ToSet(f0) : procs[q].st # "forked"
  BY <1>1 DEF FilesOf
<1> HIDE DEF f0
<1>3. CASE ToolStarts(p)
  <2>1. procs[p].st = "forked" /\ files' = [files EXCEPT ![type] = Created(f0, p)]
    BY <1>3 DEF ToolStarts, Exec, ExecFails, type, f0
  <2>2. p \notin ToSet(f0)
    BY <1>2, <2>1
  <2>3. /\ Created(f0, p) \in Seq(Nat) /\ IsInjective(Created(f0, p))
        /\ ToSet(Created(f0, p)) = ToSet(f0) \cup {p}
        /\ \A b \in Nat : b < p /\ OlderFirst(f0, b) => OlderFirst(Created(f0, p), b)
    BY <1>1, <1>2, <2>2, CreatedFacts
  <2> DEFINE f == Created(f0, p)
  <2> HIDE DEF f
  <2>4. /\ f \in Seq(Nat) /\ IsInjective(f) /\ ToSet(f) = ToSet(f0) \cup {p}
        /\ \A b \in Nat : b < p /\ OlderFirst(f0, b) => OlderFirst(f, b)
        /\ files' = [files EXCEPT ![type] = f]
    BY <2>1, <2>3 DEF f
  <2> QED BY <2>1, <2>4 DEF type, f0
<1>4. CASE ToolWrites(p)
  <2>1. files' = [files EXCEPT ![type] = Written(f0, p)]
    BY <1>4 DEF ToolWrites, type, f0
  <2>2. /\ Written(f0, p) \in Seq(Nat) /\ IsInjective(Written(f0, p))
        /\ ToSet(Written(f0, p)) = ToSet(f0)
        /\ \A b \in Nat : b < p /\ OlderFirst(f0, b) => OlderFirst(Written(f0, p), b)
    BY <1>1, <1>2, WrittenFacts
  <2> DEFINE f == Written(f0, p)
  <2> HIDE DEF f
  <2>3. /\ f \in Seq(Nat) /\ IsInjective(f) /\ ToSet(f) = ToSet(f0)
        /\ \A b \in Nat : b < p /\ OlderFirst(f0, b) => OlderFirst(f, b)
        /\ files' = [files EXCEPT ![type] = f]
    BY <2>1, <2>2 DEF f
  <2> QED BY <2>3 DEF type, f0
<1> QED BY <1>3, <1>4

\* What Collect does to the files of an ended tool's type.
LEMMA CollectFiles ==
    ASSUME ProcsOK, HeldOK, FilesOf(files, procs), PollEnded
    PROVE  \/ events' = events /\ files' = files
           \/ /\ HasData(runners[cursor]) /\ events' = Append(events, runners[cursor])
              /\ files' = [files EXCEPT ![TypeOf(runners[cursor])] =
                                Rotated(files[TypeOf(runners[cursor])], LimitFileNum)]
BY DEF PollEnded, CleanupFiles

\* Every step keeps a file per tool.
LEMMA FilesStep ==
    ASSUME ProcsOK, HeldOK, ControlOK, FilesOf(files, procs), [Next]_vars
    PROVE  FilesOf(files, procs)'
<1>1. FilesOf(files, procs')
  BY FilesKept
<1>2. CASE files' = files
  BY <1>1, <1>2
<1>3. CASE PollEnded
  <2> DEFINE p == runners[cursor]
             type == TypeOf(p)
             f0 == files[type]
             f == Rotated(f0, LimitFileNum)
  <2>1. files' = files \/ files' = [files EXCEPT ![type] = f]
    BY <1>3, CollectFiles
  <2>2. type \in Types
    BY <1>3, PolledRunner, TypeOfChild DEF PollEnded
  <2> HIDE DEF type
  <2>3. f0 \in Seq(Nat) /\ IsInjective(f0)
    BY <2>2 DEF FilesOf
  <2> HIDE DEF f0
  <2>4. f \in Seq(Nat) /\ IsInjective(f) /\ ToSet(f) \subseteq ToSet(f0)
    BY <2>3, Constants, RotatedFacts
  <2> HIDE DEF f
  <2>5. /\ ToSet(f) \subseteq DOMAIN procs'
        /\ \A q \in ToSet(f) : Configs[procs'[q].of] = type /\ procs'[q].st # "forked"
    BY <1>1, <2>2, <2>4 DEF FilesOf, f0
  <2>6. FilesOf([files EXCEPT ![type] = f], procs')
    BY <1>1, <2>2, <2>4, <2>5, FilesUpdated
  <2> QED BY <1>2, <2>1, <2>6
<1>4. ASSUME NEW p \in Pids, ToolStarts(p) \/ ToolWrites(p)
      PROVE  FilesOf(files, procs)'
  <2> DEFINE type == TypeOf(p)
             f0 == files[type]
  <2>1. type \in Types
    BY TypeOfChild
  <2>2. PICK f \in Seq(Nat) :
              /\ files' = [files EXCEPT ![type] = f]
              /\ IsInjective(f) /\ ToSet(f) \subseteq ToSet(f0) \cup {p}
    BY <1>4, ToolFiles
  <2>3. /\ p \in DOMAIN procs' /\ procs'[p].st # "forked" /\ Configs[procs'[p].of] = type
    <3>1. Exec(p) \/ ExecFails(p) \/ WriteOutput(p)
      BY <1>4 DEF ToolStarts, ToolWrites
    <3>2. Keeps(procs, procs') /\ procs'[p].st # "forked"
      BY <3>1, KeepsTool
    <3> QED BY <3>2 DEF Keeps, Pids, TypeOf
  <2> HIDE DEF type
  <2>4. \A q \in ToSet(f0) : q \in DOMAIN procs' /\ Configs[procs'[q].of] = type /\ procs'[q].st # "forked"
    BY <1>1, <2>1 DEF FilesOf
  <2> HIDE DEF f0
  <2>5. /\ ToSet(f) \subseteq DOMAIN procs'
        /\ \A q \in ToSet(f) : Configs[procs'[q].of] = type /\ procs'[q].st # "forked"
    BY <2>2, <2>3, <2>4
  <2>6. IsInjective(f)
    BY <2>2
  <2>7. FilesOf([files EXCEPT ![type] = f], procs')
    BY <1>1, <2>1, <2>5, <2>6, FilesUpdated
  <2> QED BY <2>2, <2>7
<1>5. CASE Destroy \/ Launch \/ LaunchFails \/ Launched \/ LoopTest \/ PollRunning \/ Polled
           \/ Push \/ CallReturns \/ Release \/ ProcessEnds \/ RequestStop \/ UNCHANGED vars
  <2>1. files' = files
    BY <1>5 DEF Destroy, Launch, LaunchFails, Launched, LoopTest, PollRunning, Polled,
                Push, CallReturns, Release, ProcessEnds, RequestStop, vars
  <2> QED BY <1>2, <2>1
<1>6. ASSUME NEW p \in Pids, ToolEnds(p) PROVE files' = files
  BY <1>6 DEF ToolEnds
<1> QED BY <1>2, <1>3, <1>4, <1>5, <1>6 DEF Next, Worker

(***************************************************************************)
(* The rounds.                                                             *)
(***************************************************************************)
\* A pid of an earlier round is not that of a child with anything left to do.
LEMMA UnreapedIsNew ==
    ASSUME ProcsOK, NEW b \in Nat, Past(procs, b), NEW p \in Pids, procs[p].st # "reaped"
    PROVE  b < p
<1>1. p \in Nat
  BY PidsAre
<1> QED BY <1>1 DEF Past, Pids

\* The round's children after a step that launches none.
LEMMA RoundKept ==
    ASSUME Keeps(procs, procs'), NEW b, Past(procs, b), Distinct(procs, b)
    PROVE  Past(procs', b) /\ Distinct(procs', b)
<1>1. Past(procs', b)
  BY DEF Keeps, Past
<1>2. Distinct(procs', b)
  BY DEF Keeps, Distinct
<1> QED BY <1>1, <1>2

\* The order of the files of one type extends to those of all.
LEMMA OlderFirstUpdated ==
    ASSUME NEW F, NEW P, FilesOf(F, P), NEW type \in Types, NEW f, NEW b,
           OlderFirst(f, b), \A t \in Types : OlderFirst(F[t], b)
    PROVE  \A t \in Types : OlderFirst([F EXCEPT ![type] = f][t], b)
<1> DEFINE G == [F EXCEPT ![type] = f]
<1>1. F \in [Types -> Seq(Nat)]
  BY DEF FilesOf
<1>2. G[type] = f /\ \A t \in Types : t # type => G[t] = F[t]
  BY <1>1
<1> HIDE DEF G
<1>3. ASSUME NEW t \in Types PROVE OlderFirst(G[t], b)
  BY <1>2
<1> QED BY <1>3 DEF G

\* The files of earlier rounds stay the older ones.
LEMMA OlderFirstStep ==
    ASSUME ProcsOK, HeldOK, ControlOK, FilesOf(files, procs), [Next]_vars,
           NEW b \in Nat, Past(procs, b), \A type \in Types : OlderFirst(files[type], b)
    PROVE  \A type \in Types : OlderFirst(files'[type], b)
<1>1. CASE files' = files
  BY <1>1
<1>2. CASE PollEnded
  <2> DEFINE p == runners[cursor]
             type == TypeOf(p)
             f0 == files[type]
             f == Rotated(f0, LimitFileNum)
  <2>1. files' = files \/ files' = [files EXCEPT ![type] = f]
    BY <1>2, CollectFiles
  <2>2. type \in Types
    BY <1>2, PolledRunner, TypeOfChild DEF PollEnded
  <2> HIDE DEF type
  <2>3. f0 \in Seq(Nat) /\ IsInjective(f0) /\ OlderFirst(f0, b)
    BY <2>2 DEF FilesOf
  <2> HIDE DEF f0
  <2>4. OlderFirst(f, b)
    BY <2>3, Constants, RotatedFacts
  <2> HIDE DEF f
  <2>5. \A t \in Types : OlderFirst([files EXCEPT ![type] = f][t], b)
    BY <2>2, <2>4, OlderFirstUpdated
  <2> QED BY <1>1, <2>1, <2>5
<1>3. ASSUME NEW p \in Pids, ToolStarts(p) \/ ToolWrites(p)
      PROVE  \A t \in Types : OlderFirst(files'[t], b)
  <2> DEFINE type == TypeOf(p)
  <2>1. type \in Types
    BY TypeOfChild
  <2>2. b < p
    <3>1. Exec(p) \/ ExecFails(p) \/ WriteOutput(p)
      BY <1>3 DEF ToolStarts, ToolWrites
    <3> QED BY <3>1, KeepsTool, UnreapedIsNew
  <2>3. PICK f \in Seq(Nat) :
              /\ files' = [files EXCEPT ![type] = f]
              /\ \A c \in Nat : c < p /\ OlderFirst(files[type], c) => OlderFirst(f, c)
    BY <1>3, ToolFiles
  <2> HIDE DEF type
  <2>4. OlderFirst(f, b)
    BY <2>1, <2>2, <2>3
  <2>5. \A t \in Types : OlderFirst([files EXCEPT ![type] = f][t], b)
    BY <2>1, <2>4, OlderFirstUpdated
  <2> QED BY <2>3, <2>5
<1>4. CASE Destroy \/ Launch \/ LaunchFails \/ Launched \/ LoopTest \/ PollRunning \/ Polled
           \/ Push \/ CallReturns \/ Release \/ ProcessEnds \/ RequestStop \/ UNCHANGED vars
  <2>1. files' = files
    BY <1>4 DEF Destroy, Launch, LaunchFails, Launched, LoopTest, PollRunning, Polled,
                Push, CallReturns, Release, ProcessEnds, RequestStop, vars
  <2> QED BY <1>1, <2>1
<1>5. ASSUME NEW p \in Pids, ToolEnds(p) PROVE files' = files
  BY <1>5 DEF ToolEnds
<1> QED BY <1>1, <1>2, <1>3, <1>4, <1>5 DEF Next, Worker

\* Every step stays in the round, but the one that begins a new one.
LEMMA RoundStep ==
    ASSUME ProcsOK, HeldOK, ControlOK, CursorOK, ChildrenStayPolled, IsInjective(runners),
           FilesOf(files, procs), Round, [Next]_vars
    PROVE  Round'
<1>1. PICK b \in 0..Len(procs) : RoundOK(b)
  BY DEF Round
<1>2. /\ Len(procs) \in Nat /\ Pids = 1..Len(procs) /\ Len(procs') \in Nat
      /\ Len(procs) <= Len(procs')
  BY PidsAre, ProcsStep
<1>3. b \in Nat /\ b <= Len(procs) /\ b \in 0..Len(procs')
  BY <1>2
<1>4. /\ Past(procs, b) /\ Distinct(procs, b) /\ Newer(runners, b)
      /\ \A type \in Types : OlderFirst(files[type], b)
      /\ phase = "launch" => \A p \in Pids : b < p => procs[p].of < cursor
      /\ phase = "reap" => Newer(events, b)
  BY <1>1 DEF RoundOK
<1>5. \A type \in Types : OlderFirst(files'[type], b)
  BY <1>3, <1>4, OlderFirstStep
<1>6. Keeps(procs, procs') => Past(procs', b) /\ Distinct(procs', b)
  BY <1>4, RoundKept
<1>7. SUFFICES ASSUME ~(Polled /\ phase' = "launch")
               PROVE  /\ Past(procs', b) /\ Distinct(procs', b) /\ Newer(runners', b)
                      /\ phase' = "launch" => \A p \in Pids' : b < p => procs'[p].of < cursor'
                      /\ phase' = "reap" => Newer(events', b)
  <2>1. CASE Polled /\ phase' = "launch"
    <3>1. /\ runners = <<>> /\ runners' = <<>> /\ procs' = procs /\ files' = files
          /\ phase = "reap"
      BY <2>1 DEF Polled, RoundIsDue, At
    <3>2. \A p \in Pids : procs[p].st = "reaped"
      BY <3>1, ToSetEmpty DEF ChildrenStayPolled
    <3> PICK n \in Nat : n = Len(procs)
      BY <1>2
    <3>3. \A p \in Pids : p <= n /\ ~(n < p)
      BY <1>2
    <3>4. Past(procs', n) /\ Distinct(procs', n) /\ Newer(runners', n)
      BY <3>1, <3>2, <3>3, ToSetEmpty DEF Past, Distinct, Newer, Pids
    <3>5. \A p \in Pids' : ~(n < p)
      BY <3>1, <3>3 DEF Pids
    <3>6. ASSUME NEW type \in Types PROVE OlderFirst(files'[type], n)
      <4>1. \A i \in DOMAIN files[type] : files[type][i] <= n
        BY <3>3 DEF FilesOf, ToSet, Pids
      <4> QED BY <3>1, <4>1 DEF OlderFirst
    <3>7. n \in 0..Len(procs')
      BY <1>2, <3>1
    <3>8. RoundOK(n)'
      BY <2>1, <3>4, <3>5, <3>6 DEF RoundOK
    <3> QED BY <3>7, <3>8 DEF Round
  <2>2. CASE ~(Polled /\ phase' = "launch")
    <3>1. RoundOK(b)'
      BY <1>5, <1>7, <2>2 DEF RoundOK
    <3> QED BY <1>3, <3>1 DEF Round
  <2> QED BY <2>1, <2>2
<1>8. CASE Launch
  <2>1. /\ Len(procs') = Len(procs) + 1 /\ DOMAIN procs' = 1..(Len(procs) + 1)
        /\ NextPid = Len(procs) + 1
        /\ \A p \in 1..Len(procs) : procs'[p] = procs[p]
        /\ procs'[NextPid].of = cursor
    BY <1>8, LaunchFacts
  <2>2. phase = "launch" /\ phase' = "launch" /\ cursor' = cursor + 1 /\ cursor \in Nat
    BY <1>8 DEF Launch, At, CursorOK
  <2>3. \A p \in DOMAIN procs' : p \in 1..Len(procs) \/ p = NextPid
    BY <1>2, <2>1
  <2>4. Past(procs', b)
    <3> SUFFICES ASSUME NEW p \in DOMAIN procs', p <= b PROVE procs'[p].st = "reaped"
      BY DEF Past
    <3>1. p \in 1..Len(procs)
      BY <1>2, <1>3, <2>1
    <3> QED BY <1>2, <1>4, <2>1, <3>1 DEF Past, Pids
  <2>5. \A p \in 1..Len(procs) : b < p => procs'[p].of < cursor /\ procs'[p].of \in Int
    <3> SUFFICES ASSUME NEW p \in 1..Len(procs), b < p
                 PROVE  procs'[p].of < cursor /\ procs'[p].of \in Int
      OBVIOUS
    <3>1. procs'[p] = procs[p] /\ procs[p].of < cursor
      BY <1>2, <1>4, <2>1, <2>2
    <3>2. procs[p].of \in Int
      BY <1>2, PidsAre, Constants DEF ProcRec
    <3> QED BY <3>1, <3>2
  <2>6. Distinct(procs', b)
    <3> SUFFICES ASSUME NEW p \in DOMAIN procs', NEW q \in DOMAIN procs', b < p, b < q,
                        procs'[p].of = procs'[q].of
                 PROVE  p = q
      BY DEF Distinct
    <3>1. CASE p = NextPid /\ q = NextPid
      BY <3>1
    <3>2. CASE p = NextPid /\ q \in 1..Len(procs)
      BY <2>1, <2>2, <2>5, <3>2
    <3>3. CASE q = NextPid /\ p \in 1..Len(procs)
      BY <2>1, <2>2, <2>5, <3>3
    <3>4. CASE p \in 1..Len(procs) /\ q \in 1..Len(procs)
      BY <1>2, <1>4, <2>1, <3>4 DEF Distinct, Pids
    <3> QED BY <2>3, <3>1, <3>2, <3>3, <3>4
  <2>7. ASSUME NEW p \in Pids', b < p PROVE procs'[p].of < cursor'
    <3>1. CASE p = NextPid
      BY <2>1, <2>2, <3>1
    <3>2. CASE p \in 1..Len(procs)
      BY <2>2, <2>5, <2>7, <3>2
    <3> QED BY <2>3, <3>1, <3>2 DEF Pids
  <2>8. Newer(runners', b)
    <3>1. ToSet(runners') = ToSet(runners) \cup {NextPid}
      BY <1>8, LaunchedFacts
    <3>2. b < NextPid
      BY <1>2, <1>3, <2>1
    <3> QED BY <1>4, <3>1, <3>2 DEF Newer
  <2> QED BY <2>2, <2>4, <2>6, <2>7, <2>8
<1>9. ASSUME ~Launch PROVE Keeps(procs, procs') /\ Past(procs', b) /\ Distinct(procs', b)
  BY <1>6, <1>9, ChildrenStep
<1>10. CASE PollEnded
  <2>1. phase = "reap" /\ phase' = "reap" /\ cursor \in DOMAIN runners
    BY <1>10 DEF PollEnded, At
  <2>2. b < runners[cursor]
    BY <1>4, <2>1, PolledRunner DEF Newer
  <2>3. Newer(runners', b)
    BY <1>4, <1>10, ErasedFacts DEF Newer
  <2>4. Newer(events', b)
    BY <1>4, <1>10, <2>1, <2>2, EmittedFacts DEF Newer
  <2>5. ~Launch
    BY <2>1 DEF Launch, At
  <2> QED BY <1>9, <2>1, <2>3, <2>4, <2>5
<1>11. CASE ~Launch /\ runners' = runners /\ phase' = phase /\ cursor' = cursor /\ events' = events
  <2>1. Keeps(procs, procs')
    BY <1>9, <1>11
  <2>2. phase' = "launch" => \A p \in Pids' : b < p => procs'[p].of < cursor'
    BY <1>4, <1>11, <2>1 DEF Keeps, Pids
  <2> QED BY <1>4, <1>9, <1>11, <2>2
<1>12. CASE Destroy \/ RequestStop \/ ToolUnchanged \/ UNCHANGED vars
  <2>1. runners' = runners /\ phase' = phase /\ cursor' = cursor /\ events' = events
    BY <1>12 DEF Destroy, RequestStop, ToolUnchanged, vars
  <2> QED BY <1>8, <1>11, <2>1
<1>13. CASE LaunchFails
  <2>1. /\ runners' = runners /\ phase' = "launch" /\ phase = "launch" /\ cursor' = cursor + 1
        /\ procs' = procs /\ cursor \in Nat
    BY <1>13 DEF LaunchFails, At, CursorOK
  <2>2. ASSUME NEW p \in Pids, b < p PROVE procs[p].of < cursor + 1
    <3>1. procs[p].of < cursor /\ procs[p].of \in Int
      BY <1>4, <2>1, <2>2, PidsAre, Constants DEF ProcRec
    <3> QED BY <2>1, <3>1
  <2> QED BY <1>4, <2>1, <2>2 DEF Pids
<1>14. CASE PollRunning
  <2>1. /\ runners' = runners /\ phase' = "reap" /\ phase = "reap" /\ events' = events
        /\ procs' = procs
    BY <1>14 DEF PollRunning, At
  <2> QED BY <1>4, <2>1
<1>15. CASE LoopTest
  <2>1. runners' = runners /\ phase' # "launch" /\ phase = "loop" /\ events' = events
    BY <1>15 DEF LoopTest, At
  <2>2. Newer(events', b)
    BY <2>1, ToSetEmpty DEF ControlOK, Newer
  <2>3. ~Launch
    BY <2>1 DEF Launch, At
  <2> QED BY <1>4, <1>9, <2>1, <2>2, <2>3
<1>16. CASE Launched \/ Polled \/ Push \/ CallReturns \/ ProcessEnds
  <2>1. runners' = runners /\ phase' # "launch" /\ phase' # "reap"
    BY <1>7, <1>16 DEF Launched, Polled, Push, CallReturns, ProcessEnds
  <2>2. ~Launch
    BY <1>16, <2>1 DEF Launched, Polled, Push, CallReturns, ProcessEnds, Launch, At
  <2> QED BY <1>4, <1>9, <2>1, <2>2
<1>17. CASE Release
  <2>1. runners' = <<>> /\ phase' = "release" /\ procs' = procs
    BY <1>17 DEF Release
  <2>2. Newer(runners', b)
    BY <2>1, ToSetEmpty DEF Newer
  <2> QED BY <1>4, <2>1, <2>2
<1>18. ASSUME NEW p \in Pids, ToolStarts(p) \/ ToolWrites(p) \/ ToolEnds(p) PROVE ToolUnchanged
  BY <1>18 DEF ToolStarts, ToolWrites, ToolEnds
<1> QED BY <1>8, <1>10, <1>12, <1>13, <1>14, <1>15, <1>16, <1>17, <1>18 DEF Next, Worker

(***************************************************************************)
(* Rotation.                                                               *)
(***************************************************************************)
\* A child's type never changes.
LEMMA TypeKept ==
    ASSUME ProcsOK, HeldOK, ControlOK, [Next]_vars, NEW p \in Pids
    PROVE  procs'[p].of = procs[p].of /\ TypeOf(p)' = TypeOf(p)
<1>1. p \in 1..Len(procs) /\ p \in DOMAIN procs
  BY PidsAre
<1>2. CASE Launch
  BY <1>1, <1>2, LaunchFacts DEF TypeOf
<1>3. CASE Keeps(procs, procs')
  BY <1>1, <1>3 DEF Keeps, TypeOf
<1> QED BY <1>2, <1>3, ChildrenStep

\* Only Collect emits an event.
LEMMA OnlyCollectEmits ==
    ASSUME HeldOK, [Next]_vars, ~PollEnded
    PROVE  /\ ToSet(events') \subseteq ToSet(events)
           /\ ToSet(reported' \o events') \subseteq ToSet(reported \o events)
<1>1. events \in Seq(Nat) /\ reported \in Seq(Nat)
  BY DEF HeldOK, Held
<1>2. reported \o events \in Seq(Nat) /\ ToSet(reported \o events) = ToSet(reported) \cup ToSet(events)
  BY <1>1, ConcatProperties, ToSetConcat
<1>3. CASE events' = events /\ reported' = reported
  BY <1>3
<1>4. CASE Push
  <2>1. events' = <<>> /\ reported' = reported \o events
    BY <1>4 DEF Push, Reset
  <2>2. (reported \o events) \o <<>> = reported \o events
    BY <1>2, ConcatEmptySeq
  <2> QED BY <2>1, <2>2, ToSetEmpty
<1>5. CASE Release
  <2>1. events' = <<>> /\ reported' = reported
    BY <1>5 DEF Release, Reset
  <2>2. reported \o <<>> = reported
    BY <1>1, ConcatEmptySeq
  <2> QED BY <1>2, <2>1, <2>2, ToSetEmpty
<1>6. CASE Destroy \/ Launch \/ LaunchFails \/ Launched \/ LoopTest \/ PollRunning \/ Polled
           \/ CallReturns \/ ProcessEnds \/ RequestStop \/ ToolUnchanged \/ UNCHANGED vars
  <2>1. events' = events /\ reported' = reported
    BY <1>6 DEF Destroy, Launch, LaunchFails, Launched, LoopTest, PollRunning, Polled,
                CallReturns, ProcessEnds, RequestStop, ToolUnchanged, vars
  <2> QED BY <1>3, <2>1
<1>7. ASSUME NEW q \in Pids, ToolStarts(q) \/ ToolWrites(q) \/ ToolEnds(q) PROVE ToolUnchanged
  BY <1>7 DEF ToolStarts, ToolWrites, ToolEnds
<1> QED BY <1>4, <1>5, <1>6, <1>7 DEF Next, Worker

\* Only Collect removes files; a new one is that of a tool about to start.
LEMMA OnlyCollectUnlinks ==
    ASSUME ProcsOK, HeldOK, ControlOK, FilesOf(files, procs), [Next]_vars, ~PollEnded,
           NEW type \in Types
    PROVE  /\ ToSet(files[type]) \subseteq ToSet(files'[type])
           /\ \A q \in ToSet(files'[type]) :
                 q \in ToSet(files[type]) \/ (q \in Pids /\ procs[q].st = "forked")
<1>1. CASE files' = files
  BY <1>1
<1>2. ASSUME NEW p \in Pids, ToolStarts(p) \/ ToolWrites(p)
      PROVE  /\ ToSet(files[type]) \subseteq ToSet(files'[type])
             /\ \A q \in ToSet(files'[type]) :
                   q \in ToSet(files[type]) \/ (q \in Pids /\ procs[q].st = "forked")
  <2> DEFINE own == TypeOf(p)
  <2>1. own \in Types /\ files \in [Types -> Seq(Nat)]
    BY TypeOfChild DEF FilesOf
  <2>2. PICK f \in Seq(Nat) :
              /\ files' = [files EXCEPT ![own] = f]
              /\ ToSet(f) \subseteq ToSet(files[own]) \cup {p}
              /\ ToSet(files[own]) \subseteq ToSet(f)
              /\ p \in ToSet(f) => p \in ToSet(files[own]) \/ procs[p].st = "forked"
    BY <1>2, ToolFiles
  <2> HIDE DEF own
  <2>3. files'[own] = f /\ (type # own => files'[type] = files[type])
    BY <2>1, <2>2
  <2>4. CASE type = own
    BY <2>2, <2>3, <2>4
  <2>5. CASE type # own
    BY <2>3, <2>5
  <2> QED BY <2>4, <2>5
<1>3. CASE Destroy \/ Launch \/ LaunchFails \/ Launched \/ LoopTest \/ PollRunning \/ Polled
           \/ Push \/ CallReturns \/ Release \/ ProcessEnds \/ RequestStop \/ UNCHANGED vars
  <2>1. files' = files
    BY <1>3 DEF Destroy, Launch, LaunchFails, Launched, LoopTest, PollRunning, Polled,
                Push, CallReturns, Release, ProcessEnds, RequestStop, vars
  <2> QED BY <1>1, <2>1
<1>4. ASSUME NEW p \in Pids, ToolEnds(p) PROVE files' = files
  BY <1>4 DEF ToolEnds
<1> QED BY <1>1, <1>2, <1>3, <1>4 DEF Next, Worker

\* A file of this round and the ones after it belong to different entries, so
\* rotation keeps it if the entries of the type fit in the limit.
LEMMA SurvivesRotation ==
    ASSUME ProcsOK, FilesOf(files, procs), NEW b \in Nat, Distinct(procs, b),
           NEW type \in Types, OlderFirst(files[type], b),
           NEW q \in ToSet(files[type]), b < q,
           Cardinality(EntriesOfType(type)) <= LimitFileNum
    PROVE  q \in ToSet(Rotated(files[type], LimitFileNum))
<1> DEFINE f == files[type]
           E == EntriesOfType(type)
<1>1. f \in Seq(Nat) /\ IsInjective(f) /\ LimitFileNum \in Nat
  BY Constants DEF FilesOf
<1>2. \A p \in ToSet(f) : p \in DOMAIN procs /\ Configs[procs[p].of] = type
  BY DEF FilesOf
<1>3. \A p \in DOMAIN procs : procs[p].of \in Entries /\ p \in Nat
  <2>1. DOMAIN procs = 1..Len(procs) /\ Len(procs) \in Nat
    BY PidsAre
  <2>2. \A p \in DOMAIN procs : procs[p] \in ProcRec
    BY PidsAre DEF Pids
  <2> QED BY <2>1, <2>2 DEF ProcRec
<1>4. OlderFirst(f, b) /\ q \in ToSet(f)
  OBVIOUS
<1> HIDE DEF f
<1>5. Len(f) \in Nat /\ DOMAIN f = 1..Len(f)
  BY <1>1, LenProperties
<1>6. PICK i \in DOMAIN f : f[i] = q
  BY <1>4 DEF ToSet
<1> DEFINE I == i..Len(f)
<1>7. i \in Int /\ i <= Len(f) /\ \A j \in I : j \in DOMAIN f /\ (j # i => i < j)
  BY <1>5
<1>8. IsFiniteSet(I) /\ Cardinality(I) = Len(f) - i + 1
  BY <1>5, <1>7, FS_Interval
<1>9. IsFiniteSet(E)
  <2>1. IsFiniteSet(Entries)
    BY Constants, FS_Interval
  <2>2. E \in SUBSET Entries
    BY DEF EntriesOfType
  <2> QED BY <2>1, <2>2, FS_Subset
<1> HIDE DEF I
<1>10. \A j \in I : f[j] \in DOMAIN procs /\ b < f[j] /\ procs[f[j]].of \in E
  <2> TAKE j \in I
  <2>1. j \in DOMAIN f /\ f[j] \in ToSet(f)
    BY <1>7 DEF ToSet
  <2>2. f[j] \in DOMAIN procs /\ f[j] \in Nat /\ procs[f[j]].of \in E
    BY <1>2, <1>3, <2>1 DEF EntriesOfType
  <2>3. b < f[j]
    <3>1. CASE j = i
      BY <1>6, <3>1
    <3>2. CASE j # i
      <4>1. ~(f[j] <= b)
        <5> SUFFICES ASSUME f[j] <= b PROVE FALSE
          OBVIOUS
        <5>1. f[i] <= b
          BY <1>4, <1>7, <2>1, <3>2 DEF OlderFirst
        <5>2. q \in Nat
          BY <1>2, <1>3, <1>4
        <5> QED BY <1>6, <5>1, <5>2
      <4> QED BY <2>2, <4>1
    <3> QED BY <3>1, <3>2
  <2> QED BY <2>2, <2>3
<1> HIDE DEF E
<1> DEFINE g == [j \in I |-> procs[f[j]].of]
<1>11. g \in Injection(I, E)
  <2>1. g \in [I -> E]
    BY <1>10
  <2>2. ASSUME NEW j \in I, NEW k \in I, g[j] = g[k] PROVE j = k
    <3>1. procs[f[j]].of = procs[f[k]].of
      BY <2>2
    <3>2. f[j] = f[k]
      BY <1>10, <3>1 DEF Distinct
    <3> QED BY <1>1, <1>7, <3>2 DEF IsInjective
  <2> HIDE DEF g
  <2> QED BY <2>1, <2>2 DEF Injection, IsInjective
<1> HIDE DEF g
<1>12. Cardinality(I) <= Cardinality(E)
  BY <1>9, <1>11, FS_Injection
<1>13. Cardinality(E) \in Nat
  BY <1>9, FS_CardinalityType
<1>14. Cardinality(E) <= LimitFileNum
  BY DEF E
<1>15. Len(f) - i < LimitFileNum
  BY <1>1, <1>5, <1>7, <1>8, <1>12, <1>13, <1>14
<1>16. f[i] \in ToSet(Rotated(f, LimitFileNum))
  BY <1>1, <1>15, RotatedFacts
<1> QED BY <1>6, <1>16 DEF f

\* The file of an event that waits for the push is not rotated away.
LEMMA ExistsStep ==
    ASSUME ProcsOK, HeldOK, ControlOK, FilesOf(files, procs), Round, ReportedFileExists,
           [Next]_vars
    PROVE  ReportedFileExists'
<1> SUFFICES ASSUME NEW q \in ToSet(events'),
                    Cardinality(EntriesOfType(TypeOf(q)')) <= LimitFileNum
             PROVE  q \in ToSet(files'[TypeOf(q)'])
  BY DEF ReportedFileExists, FileExists, EntriesOfType, Entries
<1>1. Pids = 1..Len(procs)
  BY PidsAre
<1>2. CASE ~PollEnded
  <2>1. q \in ToSet(events) /\ q \in Pids
    BY <1>1, <1>2, OnlyCollectEmits DEF HeldOK, Held
  <2>2. TypeOf(q)' = TypeOf(q) /\ TypeOf(q) \in Types
    BY <2>1, TypeKept, TypeOfChild
  <2>3. q \in ToSet(files[TypeOf(q)])
    BY <2>1, <2>2 DEF ReportedFileExists, FileExists
  <2> QED BY <1>2, <2>2, <2>3, OnlyCollectUnlinks
<1>3. CASE PollEnded
  <2> DEFINE p == runners[cursor]
             type == TypeOf(p)
             own == TypeOf(q)
  <2>1. p \in Pids /\ p \in ToSet(runners) /\ phase = "reap"
    BY <1>3, PolledRunner DEF PollEnded, At
  <2>2. \/ events' = events /\ files' = files
        \/ /\ HasData(p) /\ ToSet(events') \subseteq ToSet(events) \cup {p}
           /\ files' = [files EXCEPT ![type] = Rotated(files[type], LimitFileNum)]
    BY <1>3, CollectFiles, EmittedFacts
  <2>3. q \in ToSet(events) \/ (HasData(p) /\ q = p)
    BY <2>2
  <2>4. q \in Pids
    BY <1>1, <2>1, <2>3 DEF HeldOK, Held
  <2>5. own' = own /\ own \in Types /\ type \in Types
    BY <2>1, <2>4, TypeKept, TypeOfChild
  <2>6. q \in ToSet(files[own])
    <3>1. CASE q \in ToSet(events)
      BY <2>5, <3>1 DEF ReportedFileExists, FileExists
    <3>2. CASE HasData(p) /\ q = p
      BY <3>2 DEF HasData, FileExists
    <3> QED BY <2>3, <3>1, <3>2
  <2>7. PICK b \in 0..Len(procs) : RoundOK(b)
    BY DEF Round
  <2>8. b \in Nat /\ Distinct(procs, b) /\ OlderFirst(files[own], b) /\ b < q
    <3>1. b \in Nat
      OBVIOUS
    <3>2. Distinct(procs, b) /\ OlderFirst(files[own], b)
      BY <2>5, <2>7 DEF RoundOK
    <3>3. b < q
      BY <2>1, <2>3, <2>7 DEF RoundOK, Newer
    <3> QED BY <3>1, <3>2, <3>3
  <2> HIDE DEF own
  <2>9. Cardinality(EntriesOfType(own)) <= LimitFileNum
    BY <2>5 DEF own
  <2>10. q \in ToSet(Rotated(files[own], LimitFileNum))
    BY <2>5, <2>6, <2>8, <2>9, SurvivesRotation
  <2>11. files \in [Types -> Seq(Nat)]
    BY DEF FilesOf
  <2> HIDE DEF type
  <2>12. files'[own] = files[own] \/ files'[own] = Rotated(files[own], LimitFileNum)
    BY <2>2, <2>5, <2>11
  <2>13. q \in ToSet(files'[own])
    BY <2>6, <2>10, <2>12
  <2> QED BY <2>5, <2>13 DEF own
<1> QED BY <1>2, <1>3

\* A sequence has at most as many elements as its length.
LEMMA ElementsBound ==
    ASSUME NEW S, NEW s \in Seq(S)
    PROVE  IsFiniteSet(ToSet(s)) /\ Cardinality(ToSet(s)) <= Len(s)
<1>1. Len(s) \in Nat /\ DOMAIN s = 1..Len(s) /\ s \in [1..Len(s) -> S]
  BY LenProperties
<1> DEFINE D == 1..Len(s)
           R == ToSet(s)
<1>2. s \in Surjection(D, R)
  <2>1. s \in [D -> R]
    BY <1>1 DEF ToSet
  <2>2. \A r \in R : \E d \in D : s[d] = r
    BY <1>1 DEF ToSet
  <2> QED BY <2>1, <2>2 DEF Surjection
<1>3. IsFiniteSet(D) /\ Cardinality(D) = Len(s)
  <2>1. 1 \in Int /\ Len(s) \in Int
    BY <1>1
  <2>2. IsFiniteSet(D) /\ Cardinality(D) = IF 1 > Len(s) THEN 0 ELSE Len(s) - 1 + 1
    BY <2>1, FS_Interval
  <2> QED BY <1>1, <2>2
<1> HIDE DEF D, R
<1>4. IsFiniteSet(R) /\ Cardinality(R) <= Cardinality(D)
  BY <1>2, <1>3, FS_Surjection
<1> QED BY <1>3, <1>4 DEF R

\* The number of reported files grows only where it is cut at once.
LEMMA BoundedStep ==
    ASSUME ProcsOK, HeldOK, ControlOK, FilesOf(files, procs), ReportedOnce,
           ReportedFilesBounded, [Next]_vars
    PROVE  ReportedFilesBounded'
<1> SUFFICES ASSUME LimitFileNum > 0, NEW type \in Types
             PROVE  Cardinality(ToSet(files'[type]) \cap ToSet(reported' \o events')) <= LimitFileNum
  BY DEF ReportedFilesBounded
<1> DEFINE A == ToSet(files[type]) \cap ToSet(reported \o events)
           B == ToSet(files'[type]) \cap ToSet(reported' \o events')
<1>1. files[type] \in Seq(Nat) /\ IsInjective(files[type]) /\ files \in [Types -> Seq(Nat)]
  BY DEF FilesOf
<1>2. IsFiniteSet(A) /\ Cardinality(A) <= LimitFileNum
  <2>1. IsFiniteSet(ToSet(files[type]))
    BY <1>1, ElementsBound
  <2> QED BY <2>1, FS_Intersection DEF ReportedFilesBounded
<1>3. ASSUME B \subseteq A PROVE Cardinality(B) <= LimitFileNum
  <2> HIDE DEF A, B
  <2>1. B \in SUBSET A
    BY <1>3
  <2>2. Cardinality(B) <= Cardinality(A) /\ IsFiniteSet(B)
    BY <1>2, <2>1, FS_Subset
  <2>3. Cardinality(A) \in Nat /\ Cardinality(B) \in Nat /\ LimitFileNum \in Nat
    BY <1>2, <2>2, FS_CardinalityType, Constants
  <2> QED BY <1>2, <2>2, <2>3
<1>4. CASE ~PollEnded
  <2>1. ToSet(reported' \o events') \subseteq ToSet(reported \o events)
    BY <1>4, OnlyCollectEmits
  <2>2. \A q \in ToSet(files'[type]) : q \in ToSet(files[type]) \/ procs[q].st = "forked"
    BY <1>4, OnlyCollectUnlinks
  <2>3. \A q \in ToSet(reported \o events) : procs[q].st = "reaped"
    BY DEF ReportedOnce
  <2>4. B \subseteq A
    BY <2>1, <2>2, <2>3
  <2> QED BY <1>3, <2>4
<1>5. CASE PollEnded
  <2> DEFINE p == runners[cursor]
             own == TypeOf(p)
             f == Rotated(files[own], LimitFileNum)
  <2>1. p \in Pids /\ own \in Types /\ reported' = reported
    BY <1>5, PolledRunner, TypeOfChild DEF PollEnded
  <2>2. \/ events' = events /\ files' = files
        \/ events' = Append(events, p) /\ files' = [files EXCEPT ![own] = f]
    BY <1>5, CollectFiles
  <2>3. CASE events' = events /\ files' = files
    BY <1>3, <2>1, <2>3
  <2>4. CASE events' = Append(events, p) /\ files' = [files EXCEPT ![own] = f] /\ type = own
    <3>1. files'[type] = f
      BY <1>1, <2>1, <2>4
    <3>2. f \in Seq(Nat) /\ Len(f) <= LimitFileNum
      BY <1>1, <2>4, Constants, RotatedFacts
    <3> HIDE DEF f
    <3>3. IsFiniteSet(ToSet(f)) /\ Cardinality(ToSet(f)) <= Len(f)
      BY <3>2, ElementsBound
    <3> DEFINE X == ToSet(reported' \o events')
    <3> HIDE DEF X
    <3>4. IsFiniteSet(ToSet(f) \cap X) /\ Cardinality(ToSet(f) \cap X) <= Cardinality(ToSet(f))
      BY <3>3, FS_Intersection
    <3>5. /\ Cardinality(ToSet(f)) \in Nat /\ Cardinality(ToSet(f) \cap X) \in Nat
          /\ Len(f) \in Nat /\ LimitFileNum \in Nat
      BY <3>2, <3>3, <3>4, FS_CardinalityType, Constants, LenProperties
    <3>6. Cardinality(ToSet(f) \cap X) <= LimitFileNum
      BY <3>2, <3>3, <3>4, <3>5
    <3> QED BY <3>1, <3>6 DEF X
  <2>5. CASE events' = Append(events, p) /\ files' = [files EXCEPT ![own] = f] /\ type # own
    <3>1. files'[type] = files[type]
      BY <1>1, <2>1, <2>5
    <3>2. p \notin ToSet(files[type])
      BY <2>5 DEF FilesOf, TypeOf
    <3>3. ToSet(reported' \o events') \subseteq ToSet(reported \o events) \cup {p}
      <4>1. reported \in Seq(Nat) /\ events \in Seq(Nat) /\ p \in Nat
        BY <2>1, PidsAre DEF HeldOK, Held
      <4> HIDE DEF p
      <4> DEFINE longer == Append(events, p)
      <4>2. longer \in Seq(Nat)
        BY <4>1, AppendFacts
      <4>3. ToSet(longer) = ToSet(events) \cup {p}
        BY <4>1, ToSetAppend
      <4>4. events' = longer
        BY <2>5
      <4> HIDE DEF longer
      <4>5. ToSet(reported \o longer) = ToSet(reported) \cup ToSet(longer)
        BY <4>1, <4>2, ToSetConcat
      <4>6. ToSet(reported \o events) = ToSet(reported) \cup ToSet(events)
        BY <4>1, ToSetConcat
      <4> QED BY <2>1, <4>3, <4>4, <4>5, <4>6
    <3>4. B \subseteq A
      BY <3>1, <3>2, <3>3
    <3> QED BY <1>3, <3>4
  <2> QED BY <2>2, <2>3, <2>4, <2>5
<1> QED BY <1>4, <1>5

(***************************************************************************)
(* The theorems.                                                           *)
(***************************************************************************)
\* The invariant holds initially.
LEMMA Initially ==
    ASSUME Init
    PROVE  IndInv
<1>1. /\ procs = <<>> /\ runners = <<>> /\ dtors = <<>> /\ events = <<>> /\ reported = <<>>
      /\ files = [type \in Types |-> <<>>]
  BY DEF Init
<1>2. /\ Len(<<>>) = 0 /\ DOMAIN <<>> = {} /\ ToSet(<<>>) = {} /\ IsInjective(<<>>)
      /\ \A S : <<>> \in Seq(S)
  BY EmptySeq, ToSetEmpty DEF IsInjective
<1>3. ProcsOK
  BY <1>1, <1>2, Constants DEF ProcsOK
<1>4. HeldOK
  BY <1>1, HeldEmpty DEF HeldOK
<1>5. ControlOK
  <2>1. forkFails \in 0..MaxForkFails
    BY Constants DEF Init
  <2>2. thread = "main" /\ phase = "launch" /\ stopping = FALSE /\ events = <<>>
    BY DEF Init
  <2> QED BY <2>1, <2>2, Zenon DEF ControlOK
<1>6. CursorOK
  BY <1>1, <1>2, Constants DEF Init, CursorOK
<1>7. ChildrenStayPolled
  BY <1>1, <1>2 DEF ChildrenStayPolled, Pids
<1>8. reported \o events = <<>>
  <2>1. <<>> \in Seq(Nat)
    BY <1>2
  <2> QED BY <1>1, <2>1, ConcatEmptySeq
<1>9. OnceOK
  BY <1>1, <1>2, <1>8 DEF OnceOK, ReportedOnce
<1>10. \A type \in Types : files[type] = <<>>
  BY <1>1
<1>11. FilesOf(files, procs)
  BY <1>1, <1>2, <1>10 DEF FilesOf
<1>12. Round
  <2>1. Past(procs, 0) /\ Distinct(procs, 0) /\ Newer(runners, 0) /\ Newer(events, 0)
    BY <1>1, <1>2 DEF Past, Distinct, Newer
  <2>2. \A type \in Types : OlderFirst(files[type], 0)
    BY <1>2, <1>10 DEF OlderFirst
  <2>3. RoundOK(0)
    BY <1>1, <1>2, <2>1, <2>2 DEF RoundOK, Pids
  <2>4. 0 \in 0..Len(procs)
    BY <1>1, <1>2
  <2> QED BY <2>3, <2>4 DEF Round
<1>13. ReportedFileExists
  BY <1>1, <1>2 DEF ReportedFileExists
<1>14. ReportedFilesBounded
  <2>1. \A type \in Types : ToSet(files[type]) \cap ToSet(reported \o events) = {}
    BY <1>2, <1>8
  <2>2. Cardinality({}) <= LimitFileNum
    BY FS_EmptySet, Constants
  <2> SUFFICES ASSUME NEW type \in Types
               PROVE  Cardinality(ToSet(files[type]) \cap ToSet(reported \o events)) <= LimitFileNum
    BY DEF ReportedFilesBounded
  <2> DEFINE X == ToSet(files[type]) \cap ToSet(reported \o events)
  <2>3. X = {}
    BY <2>1
  <2> HIDE DEF X
  <2>4. Cardinality(X) <= LimitFileNum
    BY <2>2, <2>3
  <2> QED BY <2>4 DEF X
<1> QED BY <1>3, <1>4, <1>5, <1>6, <1>7, <1>9, <1>11, <1>12, <1>13, <1>14 DEF IndInv

\* Every step keeps it.
LEMMA Inductive ==
    ASSUME IndInv, [Next]_vars
    PROVE  IndInv'
<1>1. /\ ProcsOK /\ HeldOK /\ ControlOK /\ CursorOK /\ ChildrenStayPolled /\ OnceOK
      /\ FilesOf(files, procs) /\ Round /\ ReportedFileExists /\ ReportedFilesBounded
      /\ IsInjective(runners) /\ ReportedOnce
  BY DEF IndInv, OnceOK
<1>2. ProcsOK' /\ HeldOK' /\ ControlOK' /\ CursorOK'
  BY <1>1, ProcsStep, HeldStep, ControlStep, CursorStep
<1>3. ChildrenStayPolled' /\ OnceOK'
  BY <1>1, PolledStep, OnceStep
<1>4. FilesOf(files, procs)' /\ Round'
  BY <1>1, FilesStep, RoundStep
<1>5. ReportedFileExists' /\ ReportedFilesBounded'
  BY <1>1, ExistsStep, BoundedStep
<1> QED BY <1>2, <1>3, <1>4, <1>5 DEF IndInv

\* It holds throughout.
LEMMA Invariance == Spec => []IndInv
<1>1. Init => IndInv
  BY Initially
<1>2. IndInv /\ [Next]_vars => IndInv'
  BY Inductive
<1> QED BY <1>1, <1>2, PTL DEF Spec

\* Type correctness: among others runners_ never outgrows the entries or the
\* vector's capacity, and every pid held is that of a child.
THEOREM TypeCorrect == Spec => []TypeOK
<1>1. IndInv => TypeOK
  <2> SUFFICES ASSUME IndInv PROVE TypeOK
    OBVIOUS
  <2>1. ProcsOK /\ HeldOK /\ ControlOK /\ CursorOK /\ FilesOf(files, procs)
    BY DEF IndInv
  <2>2. Pids = 1..Len(procs) /\ Pids = DOMAIN procs
    BY <2>1, PidsAre DEF Pids
  <2>3. {ToSet(runners), ToSet(dtors), ToSet(events), ToSet(reported)} \subseteq SUBSET Pids
    BY <2>1, <2>2 DEF HeldOK, Held
  <2>4. \A type \in Types : /\ ToSet(files[type]) \subseteq Pids /\ IsInjective(files[type])
                            /\ \A p \in ToSet(files[type]) : TypeOf(p) = type
    BY <2>1, <2>2 DEF FilesOf, TypeOf
  <2> QED BY <2>1, <2>3, <2>4 DEF TypeOK, ProcsOK, ProcRec, ControlOK, CursorOK
<1> QED BY <1>1, Invariance, PTL

\* Rounds never overlap: the children of earlier rounds have been reaped, and
\* those of this one are of different entries.
THEOREM OneTool == Spec => []OneToolPerEntry
<1>1. IndInv => OneToolPerEntry
  <2> SUFFICES ASSUME IndInv, NEW p \in Pids, NEW q \in Pids, IsRunning(p), IsRunning(q),
                      procs[p].of = procs[q].of
               PROVE  p = q
    BY DEF OneToolPerEntry
  <2>1. PICK b \in 0..Len(procs) : RoundOK(b)
    BY DEF IndInv, Round
  <2>2. ProcsOK /\ b \in Nat /\ Past(procs, b) /\ Distinct(procs, b)
    BY <2>1 DEF RoundOK, IndInv
  <2>3. procs[p].st # "reaped" /\ procs[q].st # "reaped"
    BY DEF IsRunning
  <2>4. b < p /\ b < q
    BY <2>2, <2>3, UnreapedIsNew
  <2> QED BY <2>2, <2>4 DEF Distinct, Pids
<1> QED BY <1>1, Invariance, PTL

\* Until shutdown every child that has not been waited for is in runners_,
\* whatever the destructors of the copies signal and reap.
THEOREM ChildrenPolled == Spec => []ChildrenStayPolled
<1>1. IndInv => ChildrenStayPolled
  BY DEF IndInv
<1> QED BY <1>1, Invariance, PTL

\* A tool is reported at most once, after it has ended, with its content.
THEOREM NoDoubleReport == Spec => []ReportedOnce
<1>1. IndInv => ReportedOnce
  BY DEF IndInv, OnceOK
<1> QED BY <1>1, Invariance, PTL

\* The file of an event that the next push carries has not been rotated away,
\* if the entries of its type fit in the limit.
THEOREM FileExistsAtPush == Spec => []ReportedFileExists
<1>1. IndInv => ReportedFileExists
  BY DEF IndInv
<1> QED BY <1>1, Invariance, PTL

\* Rotation bounds the reported files of each type.
THEOREM FilesBounded == Spec => []ReportedFilesBounded
<1>1. IndInv => ReportedFilesBounded
  BY DEF IndInv
<1> QED BY <1>1, Invariance, PTL
=============================================================================
