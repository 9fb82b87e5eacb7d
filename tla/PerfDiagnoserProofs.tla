------------------------ MODULE PerfDiagnoserProofs ------------------------
(***************************************************************************)
(* Proofs about PerfDiagnoser: for every list of targets, every usage of   *)
(* the CPU and every threshold, duration and limit, and however the worker *)
(* thread, the push thread and the perf processes interleave.              *)
(*                                                                         *)
(* Each group of properties has its own part of the inductive invariant:   *)
(* OnceOK and LossOK for the way of an event, LoadOK for what a timer      *)
(* stands for, NoticedOK for how far a scan may lag behind an overload     *)
(* (no target listed twice), SingleOK for the life of a recording (only    *)
(* one target).                                                            *)
(***************************************************************************)
EXTENDS PerfDiagnoser, SequenceLemmas

ProcRec == [st : ChildStates, term : BOOLEAN, data : BOOLEAN, by : {"perf"}, of : Names]

(***************************************************************************)
(* The inductive invariant.                                                *)
(***************************************************************************)
ProcsOK == procs \in Seq(ProcRec) /\ Len(procs) <= MaxLaunches

\* A sequence of pids among the first n.
Held(s, n) == s \in Seq(Nat) /\ ToSet(s) \subseteq 1..n

HeldOK ==
    /\ {perfPid, dtor, pending} \subseteq 0..Len(procs)
    /\ Held(files, Len(procs)) /\ IsInjective(files)
    /\ Held(events, Len(procs)) /\ Held(emitted, Len(procs)) /\ Held(carried, Len(procs))

\* perf_runner_ and pending_ev_ are about the same launch until Stop's end.
ControlOK ==
    /\ wpc \in {"off", "top", "scan", "ended"}
    /\ {running, torn, stopping} \subseteq BOOLEAN
    /\ ppc \in {"loop", "collected", "copying", "copied", "clearing", "call", "crashed",
                "joining", "stopped"}
    /\ ppc = "stopped" => wpc \in {"off", "ended"}
    /\ ppc = "crashed" => wpc = "ended"
    /\ running \/ stopping \/ wpc = "off" \/ ppc = "crashed"
    /\ ppc # "stopped" => pending = perfPid

ScanOK ==
    /\ cursor \in 1..(Len(Targets) + 1)
    /\ triggered \subseteq Names
    /\ alive \subseteq Names
    /\ timers \in [Names -> Nat]
    /\ unsampled \in [Names -> 0..Threshold]
    /\ sampled \in [Names -> BOOLEAN]
    /\ hot \in [Names -> 0..Needed] /\ missed \in [Names -> Nat] /\ burned \in [Names -> Nat]

\* The way of an event: emitted once, in events until Reset, carried once, unless
\* an append has undone a Reset.
OnceOK ==
    /\ CarriedOnce
    /\ revived \in BOOLEAN
    /\ IsInjective(events)
    /\ ToSet(events) \subseteq ToSet(emitted)
    /\ pending \notin ToSet(emitted)
    /\ ppc \in {"call", "loop", "collected"} => revived \/ ToSet(events) \cap ToSet(carried) = {}
    /\ \A p \in ToSet(emitted) : procs[p].st = "reaped"

\* What Reset clears has been carried, or was appended after the copy.
LossOK ==
    /\ LossNeedsRace
    /\ ppc \in {"copying", "copied", "clearing"} => ToSet(events) \subseteq ToSet(carried) \cup late

\* A timer of k periods stands for the usage of k periods at the threshold.
Accounts(timer, load, rest) ==
    \E k \in Nat : /\ timer = k * ScanPeriod
                   /\ AtMost(k * Threshold + rest, Needed * Threshold) <= load
LoadOK == \A t \in Names : Accounts(timers[t], burned[t], unsampled[t])

\* A target that was over the threshold in the last period has its usage
\* waiting for the scan, and a timer that is at most one scan behind.
Waiting(t) == hot[t] > 0 => unsampled[t] = Threshold
Behind(t) ==
    /\ missed[t] <= Needed
    /\ missed[t] > 0 => sampled[t] /\ (missed[t] - 1) * ScanPeriod <= timers[t]
NoticedOK ==
    /\ \A t \in Names : Behind(t)
    /\ wpc = "scan" => \A i \in cursor..Len(Targets) : Waiting(Targets[i])
    /\ wpc # "scan" /\ ppc # "crashed" => \A t \in Names : Waiting(t)

\* All recordings but the pending one are over and done with, and there is
\* none pending without a tag.
SingleOK ==
    /\ \A p \in Pids : p # pending =>
          procs[p].st = "reaped" /\ (HasData(p) => p \in ToSet(emitted))
    /\ triggered = {} /\ ppc # "stopped" => pending = NoPid

\* target_processes_ has at most one name, or none twice.
OneTarget == \A s, t \in Names : s = t
NoTargetTwice == IsInjective(Targets)

IndInv ==
    /\ ProcsOK /\ HeldOK /\ ControlOK /\ ScanOK
    /\ OnceOK /\ LossOK /\ LoadOK
    /\ NoTargetTwice => NoticedOK
    /\ OneTarget => SingleOK

(***************************************************************************)
(* The constants.                                                          *)
(***************************************************************************)
\* Their types, and those of the targets.
LEMMA Constants ==
    /\ Usage \subseteq Nat
    /\ Threshold \in Nat /\ Threshold > 0 /\ ScanPeriod \in Nat /\ ScanPeriod > 0
    /\ OverflowDuration \in Nat /\ LimitFileNum \in Nat /\ MaxLaunches \in Nat
    /\ Len(Targets) \in Nat /\ DOMAIN Targets = 1..Len(Targets)
    /\ \A i \in DOMAIN Targets : Targets[i] \in Names
<1>1. /\ Usage \subseteq Nat
      /\ Threshold \in Nat \ {0} /\ ScanPeriod \in Nat \ {0}
      /\ OverflowDuration \in Nat /\ LimitFileNum \in Nat /\ MaxLaunches \in Nat
  BY PerfAssumption
<1>2. Len(Targets) \in Nat /\ DOMAIN Targets = 1..Len(Targets)
  BY PerfAssumption, LenProperties
<1>3. \A i \in DOMAIN Targets : Targets[i] \in Names
  BY DEF Names, ToSet
<1> QED BY <1>1, <1>2, <1>3

\* Needed periods are the fewest that fill OverflowDuration.
LEMMA NeededFacts ==
    /\ Needed \in Nat
    /\ \A k \in Nat : k * ScanPeriod < OverflowDuration => k < Needed
    /\ \A k \in Nat : k * ScanPeriod >= OverflowDuration => k >= Needed
<1>1. \A a \in Nat : \A b \in Nat \ {0} : \A n :
         n = (a + b - 1) \div b =>
            n \in Nat /\ n * b >= a /\ \A k \in Nat : k * b >= a => k >= n
  OBVIOUS
<1>2. OverflowDuration \in Nat /\ ScanPeriod \in Nat \ {0}
  BY Constants
<1>3. /\ Needed \in Nat /\ Needed * ScanPeriod >= OverflowDuration
      /\ \A k \in Nat : k * ScanPeriod >= OverflowDuration => k >= Needed
  BY <1>1, <1>2 DEF Needed
<1>4. \A a \in Nat : \A b \in Nat \ {0} : \A n, k \in Nat :
         n * b >= a /\ k * b < a => k < n
  OBVIOUS
<1>5. \A k \in Nat : k * ScanPeriod < OverflowDuration => k < Needed
  BY <1>2, <1>3, <1>4
<1> QED BY <1>3, <1>5

(***************************************************************************)
(* The perf processes.                                                     *)
(***************************************************************************)
\* A reaped one never comes back and keeps what it had written.
Keeps(P, Q) ==
    /\ Q \in Seq(ProcRec) /\ Len(Q) = Len(P) /\ DOMAIN Q = DOMAIN P
    /\ \A p \in DOMAIN P :
        P[p].st = "reaped" => Q[p].st = "reaped" /\ Q[p].data = P[p].data

\* They are numbered from 1.
LEMMA PidsAre ==
    ASSUME ProcsOK
    PROVE  /\ Len(procs) \in Nat /\ Pids = 1..Len(procs) /\ DOMAIN procs = 1..Len(procs)
           /\ \A p \in Pids : procs[p] \in ProcRec
<1>1. Len(procs) \in Nat /\ DOMAIN procs = 1..Len(procs) /\ procs \in [1..Len(procs) -> ProcRec]
  BY LenProperties DEF ProcsOK
<1> QED BY <1>1 DEF Pids

\* No change is a change of that kind.
LEMMA KeepsItself ==
    ASSUME ProcsOK
    PROVE  Keeps(procs, procs)
BY DEF Keeps, ProcsOK

\* So is a change of one process.
LEMMA KeepsUpdated ==
    ASSUME ProcsOK, NEW p \in Pids, NEW r \in ProcRec,
           procs[p].st = "reaped" => r.st = "reaped" /\ r.data = procs[p].data
    PROVE  Keeps(procs, [procs EXCEPT ![p] = r]) /\ [procs EXCEPT ![p] = r][p] = r
<1> DEFINE Q == [procs EXCEPT ![p] = r]
<1>1. Q[p] = r /\ \A q \in DOMAIN procs : q # p => Q[q] = procs[q]
  BY UpdatedFacts DEF Pids, ProcsOK
<1>2. Q \in Seq(ProcRec) /\ Len(Q) = Len(procs) /\ DOMAIN Q = DOMAIN procs
  BY UpdatedFacts DEF Pids, ProcsOK
<1> HIDE DEF Q
<1>3. ASSUME NEW q \in DOMAIN procs, procs[q].st = "reaped"
      PROVE  Q[q].st = "reaped" /\ Q[q].data = procs[q].data
  BY <1>1, <1>3
<1> QED BY <1>1, <1>2, <1>3 DEF Keeps, Q

\* waitpid: the process is reaped.
LEMMA KeepsReap ==
    ASSUME ProcsOK, NEW p \in Pids, Reap(p)
    PROVE  Keeps(procs, procs') /\ procs'[p].st = "reaped" /\ procs'[p].data = procs[p].data
<1> DEFINE r == [procs[p] EXCEPT !.st = "reaped"]
<1>1. procs[p] \in ProcRec /\ p \in DOMAIN procs
  BY PidsAre DEF Pids
<1>2. r \in ProcRec /\ r.st = "reaped" /\ r.data = procs[p].data
  BY <1>1 DEF ProcRec, ChildStates
<1>3. procs' = [procs EXCEPT ![p] = r]
  BY <1>1 DEF Reap
<1> HIDE DEF r
<1>4. Keeps(procs, [procs EXCEPT ![p] = r]) /\ [procs EXCEPT ![p] = r][p] = r
  BY <1>2, KeepsUpdated
<1> QED BY <1>2, <1>3, <1>4

\* kill and waitpid.
LEMMA KeepsStop ==
    ASSUME ProcsOK, NEW p \in Pids \cup {NoPid}, Stop(p)
    PROVE  Keeps(procs, procs')
<1>1. CASE procs' = procs
  BY <1>1, KeepsItself
<1>2. CASE p \in Pids
  <2>1. procs[p] \in ProcRec /\ p \in DOMAIN procs
    BY <1>2, PidsAre DEF Pids
  <2>2. \/ procs' = procs
        \/ Reap(p)
        \/ /\ procs[p].st \notin {"forked", "reaped"}
           /\ \E st \in {"running", "reaped"} : procs' = [procs EXCEPT ![p].term = TRUE, ![p].st = st]
    BY DEF Stop, Reap
  <2>3. ASSUME procs[p].st \notin {"forked", "reaped"},
               NEW st \in {"running", "reaped"}, procs' = [procs EXCEPT ![p].term = TRUE, ![p].st = st]
        PROVE  Keeps(procs, procs')
    <3> DEFINE r == [procs[p] EXCEPT !.term = TRUE, !.st = st]
    <3>1. r \in ProcRec
      BY <2>1 DEF ProcRec, ChildStates
    <3>2. procs' = [procs EXCEPT ![p] = r]
      BY <2>1, <2>3
    <3> HIDE DEF r
    <3>3. Keeps(procs, [procs EXCEPT ![p] = r])
      BY <1>2, <2>3, <3>1, KeepsUpdated
    <3> QED BY <3>2, <3>3
  <2> QED BY <1>1, <1>2, <2>2, <2>3, KeepsReap
<1>3. p = NoPid => procs' = procs
  BY DEF Stop
<1> QED BY <1>1, <1>2, <1>3

\* perf's own steps.
LEMMA KeepsTool ==
    ASSUME ProcsOK, NEW p \in Pids,
           Exec(p) \/ ExecFails(p) \/ WriteOutput(p) \/ Complete(p) \/ DieOfTerm(p)
    PROVE  Keeps(procs, procs')
<1>1. procs[p] \in ProcRec /\ p \in DOMAIN procs
  BY PidsAre DEF Pids
<1>2. CASE WriteOutput(p)
  <2> DEFINE r == [procs[p] EXCEPT !.data = TRUE]
  <2>1. r \in ProcRec /\ procs[p].st = "running"
    BY <1>1, <1>2 DEF ProcRec, ChildStates, WriteOutput
  <2>2. procs' = [procs EXCEPT ![p] = r]
    BY <1>1, <1>2 DEF WriteOutput
  <2> HIDE DEF r
  <2> QED BY <2>1, <2>2, KeepsUpdated
<1>3. ASSUME NEW st \in {"running", "zombie"}, procs[p].st # "reaped",
             procs' = [procs EXCEPT ![p].st = st]
      PROVE  Keeps(procs, procs')
  <2> DEFINE r == [procs[p] EXCEPT !.st = st]
  <2>1. r \in ProcRec
    BY <1>1 DEF ProcRec, ChildStates
  <2>2. procs' = [procs EXCEPT ![p] = r]
    BY <1>1, <1>3
  <2> HIDE DEF r
  <2> QED BY <1>3, <2>1, <2>2, KeepsUpdated, ZenonT(40)
<1>4. CASE Exec(p)
  BY <1>3, <1>4 DEF Exec
<1>5. CASE ExecFails(p)
  BY <1>3, <1>5 DEF ExecFails
<1>6. CASE Complete(p) \/ DieOfTerm(p)
  BY <1>3, <1>6 DEF Complete, DieOfTerm
<1> QED BY <1>2, <1>4, <1>5, <1>6

\* The end of the worker thread only signals them.
LEMMA KeepsThreadEnds ==
    ASSUME ProcsOK, NEW by, ThreadEnds(by)
    PROVE  Keeps(procs, procs')
<1>1. /\ Len(procs) \in Nat /\ Pids = 1..Len(procs) /\ DOMAIN procs = 1..Len(procs)
      /\ \A p \in Pids : procs[p] \in ProcRec
  BY PidsAre
<1>2. ASSUME NEW p \in Pids
      PROVE  /\ procs'[p] \in ProcRec
             /\ procs'[p].st = procs[p].st /\ procs'[p].data = procs[p].data
  <2>1. procs'[p] = procs[p] \/ procs'[p] = [procs[p] EXCEPT !.term = TRUE]
    BY DEF ThreadEnds
  <2> QED BY <1>1, <2>1 DEF ProcRec
<1>3. procs' \in [1..Len(procs) -> ProcRec]
  BY <1>1, <1>2 DEF ThreadEnds
<1>4. procs' \in Seq(ProcRec) /\ DOMAIN procs' = 1..Len(procs)
  BY <1>1, <1>3, SeqDef
<1>5. Len(procs') = Len(procs)
  BY <1>1, <1>4, LenProperties
<1> QED BY <1>1, <1>2, <1>4, <1>5 DEF Keeps

\* A launch by the scan of t.
Launches(t) ==
    /\ ScanTriggers(t)
    /\ Len(procs) < MaxLaunches
    /\ Start("perf", t)
    /\ perfPid' = NextPid /\ dtor' = NextPid /\ pending' = NextPid
    /\ triggered' = TagsWith(t)

\* One more process.
LEMMA LaunchFacts ==
    ASSUME ProcsOK, NEW t \in Names, Launches(t)
    PROVE  /\ procs' \in Seq(ProcRec) /\ Len(procs') = Len(procs) + 1
           /\ Len(procs') <= MaxLaunches
           /\ DOMAIN procs' = 1..(Len(procs) + 1) /\ NextPid = Len(procs) + 1
           /\ \A p \in 1..Len(procs) : procs'[p] = procs[p]
<1>1. Len(procs) \in Nat /\ MaxLaunches \in Nat
  BY PidsAre, Constants
<1>2. Child("perf", t) \in ProcRec
  BY DEF Child, ProcRec, ChildStates
<1>3. procs' = Append(procs, Child("perf", t)) /\ procs \in Seq(ProcRec) /\ Len(procs) < MaxLaunches
  BY DEF Launches, Start, ProcsOK
<1>4. /\ procs' \in Seq(ProcRec) /\ Len(procs') = Len(procs) + 1
      /\ DOMAIN procs' = 1..(Len(procs) + 1)
      /\ \A p \in 1..Len(procs) : procs'[p] = procs[p]
  BY <1>2, <1>3, AppendFacts
<1> QED BY <1>1, <1>3, <1>4 DEF NextPid

(***************************************************************************)
(* The kinds of steps.                                                     *)
(***************************************************************************)
\* A step that leaves the recordings and their events alone.
Moves ==
    /\ UNCHANGED <<perfPid, pending, triggered, events, emitted, late, revived, carried>>
    /\ \/ ppc' = ppc
       \/ ppc = "call" /\ ppc' = "loop"
       \/ ppc = "loop" /\ ppc' = "collected"
       \/ ppc = "copying" /\ ppc' = "copied"
       \/ ppc = "copied" /\ ppc' = "clearing"
       \/ ppc # "stopped" /\ ppc' \in {"crashed", "joining"}

\* Every step is of one of these kinds.
LEMMA StepKinds ==
    ASSUME [Next]_vars
    PROVE  \/ PerfFinished \/ CopyBegins \/ ResetEnds \/ StopCompletes
           \/ \E t \in Names : Launches(t)
           \/ Moves
<1>1. CASE LoopEnds \/ NothingFinished \/ DestroyLocal
  BY <1>1 DEF LoopEnds, NothingFinished, DestroyLocal, Moves, recorder, outcome, pusher
<1>2. ASSUME NEW t \in Names, ScanSkips(t) \/ ScanSamples(t) PROVE Moves
  BY <1>2 DEF ScanSkips, ScanSamples, Moves, outcome, pusher
<1>3. ASSUME NEW t \in Names, ScanTriggers(t) PROVE Launches(t) \/ Moves
  BY <1>3 DEF ScanTriggers, Launches, Moves, outcome, pusher
<1>4. ASSUME NEW use \in [Names -> Usage], Sleep(use) PROVE Moves
  BY <1>4 DEF Sleep, Moves, outcome, pusher
<1>5. CASE \/ Collect \/ CopyEnds \/ RaceCrashes \/ ResetBegins \/ CallReturns
           \/ StopBegins \/ RequestStop
  BY <1>5 DEF Collect, CopyEnds, RaceCrashes, ResetBegins, CallReturns, StopBegins, RequestStop,
              Moves, recorder, outcome
<1>6. ASSUME NEW t \in Names, TargetStarts(t) \/ TargetExits(t) PROVE Moves
  BY <1>6 DEF TargetStarts, TargetExits, Moves, recorder, outcome, pusher
<1>7. ASSUME NEW p \in Pids, PerfStarts(p) \/ PerfOpens(p) \/ PerfWrites(p) \/ PerfEnds(p)
      PROVE  Moves
  BY <1>7 DEF PerfStarts, PerfOpens, PerfWrites, PerfEnds, PerfUnchanged, Moves, recorder,
              outcome, pusher
<1>8. CASE UNCHANGED vars
  BY <1>8 DEF vars, Moves, recorder, outcome, pusher
<1> QED BY <1>1, <1>2, <1>3, <1>4, <1>5, <1>6, <1>7, <1>8 DEF Next, WorkerLoop, PushThread

\* perf_runner_ and the other pids are those of processes, or none.
LEMMA HeldPids ==
    ASSUME ProcsOK, HeldOK
    PROVE  /\ perfPid \in Pids \cup {NoPid} /\ dtor \in Pids \cup {NoPid}
           /\ pending \in Pids \cup {NoPid}
           /\ NoPid \notin Pids
<1>1. Len(procs) \in Nat /\ Pids = 1..Len(procs)
  BY PidsAre
<1>2. 0..Len(procs) = (1..Len(procs)) \cup {0} /\ 0 \notin 1..Len(procs)
  BY <1>1
<1> QED BY <1>1, <1>2 DEF HeldOK, NoPid

\* Every step but a launch keeps the processes.
LEMMA ChildrenStep ==
    ASSUME ProcsOK, HeldOK, [Next]_vars
    PROVE  Keeps(procs, procs') \/ \E t \in Names : Launches(t)
<1>1. CASE LoopEnds
  BY <1>1, KeepsThreadEnds DEF LoopEnds
<1>2. CASE PerfFinished
  <2>1. procs' = procs \/ (perfPid # NoPid /\ Reap(perfPid))
    BY <1>2 DEF PerfFinished
  <2> QED BY <2>1, HeldPids, KeepsReap, KeepsItself
<1>3. CASE DestroyLocal
  BY <1>3, HeldPids, KeepsStop DEF DestroyLocal
<1>4. CASE StopCompletes
  BY <1>4, HeldPids, KeepsStop DEF StopCompletes
<1>5. ASSUME NEW t \in Names, ScanTriggers(t) PROVE procs' = procs \/ Launches(t)
  BY <1>5 DEF ScanTriggers, Launches
<1>6. ASSUME NEW p \in Pids, PerfStarts(p) \/ PerfWrites(p) \/ PerfEnds(p)
      PROVE  Keeps(procs, procs')
  <2>1. Exec(p) \/ ExecFails(p) \/ WriteOutput(p) \/ Complete(p) \/ DieOfTerm(p)
    BY <1>6 DEF PerfStarts, PerfWrites, PerfEnds
  <2> QED BY <2>1, KeepsTool
<1>7. CASE NothingFinished \/ Collect \/ CopyBegins \/ CopyEnds \/ RaceCrashes
           \/ ResetBegins \/ ResetEnds \/ CallReturns \/ StopBegins \/ RequestStop \/ UNCHANGED vars
  <2>1. procs' = procs
    BY <1>7 DEF NothingFinished, Collect, CopyBegins, CopyEnds, RaceCrashes, ResetBegins,
                ResetEnds, CallReturns, StopBegins, RequestStop, vars
  <2> QED BY <2>1, KeepsItself
<1>8. ASSUME NEW t \in Names, ScanSkips(t) \/ ScanSamples(t) \/ TargetStarts(t) \/ TargetExits(t)
      PROVE  procs' = procs
  BY <1>8 DEF ScanSkips, ScanSamples, TargetStarts, TargetExits
<1>9. ASSUME NEW use \in [Names -> Usage], Sleep(use) PROVE procs' = procs
  BY <1>9 DEF Sleep
<1>10. ASSUME NEW p \in Pids, PerfOpens(p) PROVE procs' = procs
  BY <1>10 DEF PerfOpens
<1> QED BY <1>1, <1>2, <1>3, <1>4, <1>5, <1>6, <1>7, <1>8, <1>9, <1>10, KeepsItself
        DEF Next, WorkerLoop, PushThread

\* So their records stay well formed.
LEMMA ProcsStep ==
    ASSUME ProcsOK, HeldOK, [Next]_vars
    PROVE  ProcsOK' /\ Len(procs') \in Nat /\ Len(procs) <= Len(procs')
<1>1. Len(procs) \in Nat /\ Len(procs) <= MaxLaunches
  BY PidsAre DEF ProcsOK
<1>2. ASSUME NEW t \in Names, Launches(t)
      PROVE  ProcsOK' /\ Len(procs') \in Nat /\ Len(procs) <= Len(procs')
  <2>1. /\ procs' \in Seq(ProcRec) /\ Len(procs') = Len(procs) + 1
        /\ Len(procs') <= MaxLaunches
    BY <1>2, LaunchFacts
  <2> QED BY <1>1, <2>1 DEF ProcsOK
<1>3. CASE Keeps(procs, procs')
  BY <1>1, <1>3 DEF Keeps, ProcsOK
<1> QED BY <1>2, <1>3, ChildrenStep

\* What is reaped stays as it is.
LEMMA ReapedStays ==
    ASSUME ProcsOK, HeldOK, [Next]_vars, NEW p \in Pids, procs[p].st = "reaped"
    PROVE  p \in Pids' /\ procs'[p].st = "reaped" /\ procs'[p].data = procs[p].data
<1>1. Len(procs) \in Nat /\ Pids = 1..Len(procs) /\ DOMAIN procs = Pids
  BY PidsAre DEF Pids
<1>2. ASSUME NEW t \in Names, Launches(t)
      PROVE  p \in Pids' /\ procs'[p].st = "reaped" /\ procs'[p].data = procs[p].data
  <2>1. DOMAIN procs' = 1..(Len(procs) + 1) /\ procs'[p] = procs[p]
    BY <1>1, <1>2, LaunchFacts
  <2> QED BY <1>1, <2>1 DEF Pids
<1>3. CASE Keeps(procs, procs')
  BY <1>1, <1>3 DEF Keeps, Pids
<1> QED BY <1>2, <1>3, ChildrenStep

(***************************************************************************)
(* The files.                                                              *)
(***************************************************************************)
\* Written: the same files.
LEMMA WrittenFacts ==
    ASSUME NEW f \in Seq(Nat), NEW p \in Nat, IsInjective(f)
    PROVE  /\ Written(f, p) \in Seq(Nat) /\ IsInjective(Written(f, p))
           /\ ToSet(Written(f, p)) = ToSet(f)
<1>1. CASE p \notin ToSet(f)
  BY <1>1 DEF Written
<1>2. CASE p \in ToSet(f)
  <2> DEFINE k == Position(f, p)
             g == RemoveAt(f, k)
  <2>1. k \in DOMAIN f /\ f[k] = p
    BY <1>2 DEF ToSet, Position
  <2> HIDE DEF k
  <2>2. g \in Seq(Nat)
    BY <2>1, RemoveAtFacts
  <2>3. IsInjective(g) /\ ToSet(g) = ToSet(f) \ {p}
    BY <2>1, InjectiveRemoveAt
  <2>4. Written(f, p) = Append(g, p)
    BY <1>2 DEF Written, k
  <2> HIDE DEF g
  <2>5. Append(g, p) \in Seq(Nat) /\ IsInjective(Append(g, p))
    BY <2>2, <2>3, AppendFacts, InjectiveAppend
  <2>6. ToSet(Append(g, p)) = ToSet(g) \cup {p}
    BY <2>2, ToSetAppend
  <2> QED BY <1>2, <2>3, <2>4, <2>5, <2>6
<1> QED BY <1>1, <1>2

\* Rotated: some of them.
LEMMA RotatedFacts ==
    ASSUME NEW f \in Seq(Nat), NEW n \in Nat, IsInjective(f)
    PROVE  /\ Rotated(f, n) \in Seq(Nat) /\ IsInjective(Rotated(f, n))
           /\ ToSet(Rotated(f, n)) \subseteq ToSet(f)
<1>1. Len(f) \in Nat /\ DOMAIN f = 1..Len(f)
  BY LenProperties
<1>2. CASE Len(f) <= n \/ n <= 0
  BY <1>2 DEF Rotated, Newest
<1>3. CASE ~(Len(f) <= n \/ n <= 0)
  <2> DEFINE d == Len(f) - n
             g == SubSeq(f, Len(f) - n + 1, Len(f))
  <2>1. Rotated(f, n) = g
    BY <1>3 DEF Rotated, Newest
  <2>2. n <= Len(f)
    BY <1>1, <1>3
  <2>3. g \in Seq(Nat) /\ DOMAIN g = 1..n /\ \A j \in 1..n : g[j] = f[Len(f) - n + j]
    BY <2>2, SuffixFacts
  <2> HIDE DEF g
  <2>4. \A j \in DOMAIN g : d + j \in DOMAIN f /\ g[j] = f[d + j]
    BY <1>1, <2>2, <2>3
  <2>5. \A i, j \in DOMAIN g : d + i = d + j => i = j
    BY <1>1, <2>2, <2>3
  <2> HIDE DEF d
  <2>6. IsInjective(g)
    <3> SUFFICES ASSUME NEW i \in DOMAIN g, NEW j \in DOMAIN g, g[i] = g[j] PROVE i = j
      BY DEF IsInjective
    <3>1. d + i = d + j
      BY <2>4 DEF IsInjective
    <3> QED BY <2>5, <3>1
  <2>7. ToSet(g) \subseteq ToSet(f)
    BY <2>4 DEF ToSet
  <2> QED BY <2>1, <2>3, <2>6, <2>7
<1> QED BY <1>2, <1>3

\* A step adds only the file of a running perf.
LEMMA FilesStep ==
    ASSUME ProcsOK, HeldOK, [Next]_vars
    PROVE  /\ files' \in Seq(Nat) /\ IsInjective(files')
           /\ \A p \in ToSet(files') :
                 p \in ToSet(files) \/ (p \in Pids /\ procs[p].st = "running")
<1>1. files \in Seq(Nat) /\ IsInjective(files) /\ LimitFileNum \in Nat
  BY Constants DEF HeldOK, Held
<1>2. CASE files' = files
  BY <1>1, <1>2
<1>3. CASE PerfFinished
  <2>1. files' = files \/ files' = Rotated(files, LimitFileNum)
    BY <1>3 DEF PerfFinished, FilesAfterFinish, CleanupFiles
  <2>2. /\ Rotated(files, LimitFileNum) \in Seq(Nat) /\ IsInjective(Rotated(files, LimitFileNum))
        /\ ToSet(Rotated(files, LimitFileNum)) \subseteq ToSet(files)
    BY <1>1, RotatedFacts
  <2> QED BY <1>2, <2>1, <2>2
<1>4. ASSUME NEW p \in Pids, PerfOpens(p)
      PROVE  /\ files' \in Seq(Nat) /\ IsInjective(files')
             /\ \A q \in ToSet(files') :
                   q \in ToSet(files) \/ (q \in Pids /\ procs[q].st = "running")
  <2>1. p \in Nat /\ p \notin ToSet(files) /\ procs[p].st = "running" /\ files' = Append(files, p)
    BY <1>4, PidsAre DEF PerfOpens, Created
  <2>2. /\ files' \in Seq(Nat) /\ IsInjective(files') /\ ToSet(files') = ToSet(files) \cup {p}
    BY <1>1, <2>1, AppendFacts, InjectiveAppend, ToSetAppend
  <2> QED BY <2>1, <2>2
<1>5. ASSUME NEW p \in Pids, PerfWrites(p)
      PROVE  files' \in Seq(Nat) /\ IsInjective(files') /\ ToSet(files') = ToSet(files)
  <2>1. p \in Nat /\ files' = Written(files, p)
    BY <1>5, PidsAre DEF PerfWrites
  <2> QED BY <1>1, <2>1, WrittenFacts
<1>6. CASE LoopEnds \/ NothingFinished \/ DestroyLocal \/ Collect \/ CopyBegins \/ CopyEnds
           \/ RaceCrashes \/ ResetBegins \/ ResetEnds \/ CallReturns \/ StopBegins
           \/ StopCompletes \/ RequestStop \/ UNCHANGED vars
  <2>1. files' = files
    BY <1>6 DEF LoopEnds, NothingFinished, DestroyLocal, Collect, CopyBegins, CopyEnds,
                RaceCrashes, ResetBegins, ResetEnds, CallReturns, StopBegins, StopCompletes,
                RequestStop, vars
  <2> QED BY <1>2, <2>1
<1>7. ASSUME NEW t \in Names,
             ScanSkips(t) \/ ScanSamples(t) \/ ScanTriggers(t) \/ TargetStarts(t) \/ TargetExits(t)
      PROVE  files' = files
  BY <1>7 DEF ScanSkips, ScanSamples, ScanTriggers, TargetStarts, TargetExits
<1>8. ASSUME NEW use \in [Names -> Usage], Sleep(use) PROVE files' = files
  BY <1>8 DEF Sleep
<1>9. ASSUME NEW p \in Pids, PerfStarts(p) \/ PerfEnds(p) PROVE files' = files
  BY <1>9 DEF PerfStarts, PerfEnds
<1> QED BY <1>2, <1>3, <1>4, <1>5, <1>6, <1>7, <1>8, <1>9 DEF Next, WorkerLoop, PushThread

(***************************************************************************)
(* Typing and control.                                                     *)
(***************************************************************************)
\* A perf that has finished is the pending one; it is reaped, and its event
\* appended if it left data.
LEMMA FinishedFacts ==
    ASSUME ProcsOK, HeldOK, ControlOK, PerfFinished
    PROVE  /\ pending = perfPid
           /\ pending # NoPid =>
                /\ pending \in Pids
                /\ procs'[pending].st = "reaped" /\ procs'[pending].data = procs[pending].data
           /\ \/ /\ pending # NoPid /\ HasData(pending)
                 /\ events' = Append(events, pending)
                 /\ emitted' = Append(emitted, pending)
                 /\ late' = IF ppc \in {"copying", "copied", "clearing"} THEN late \cup {pending} ELSE late
              \/ /\ pending = NoPid \/ ~HasData(pending)
                 /\ events' = events /\ emitted' = emitted /\ late' = late
           /\ pending' = NoPid /\ perfPid' = NoPid /\ carried' = carried /\ ppc' = ppc
           /\ triggered' = {} /\ wpc' = "scan" /\ revived' = revived
<1>1. ppc # "stopped"
  BY Zenon DEF ControlOK, PerfFinished
<1>2. pending = perfPid
  BY <1>1 DEF ControlOK
<1>3. ASSUME pending # NoPid
      PROVE  /\ pending \in Pids
             /\ procs'[pending].st = "reaped" /\ procs'[pending].data = procs[pending].data
  <2>1. pending \in Pids /\ Reap(pending)
    BY <1>2, <1>3, HeldPids DEF PerfFinished
  <2> QED BY <2>1, KeepsReap
<1>4. \/ /\ pending # NoPid /\ HasData(pending)
         /\ events' = Append(events, pending)
         /\ emitted' = Append(emitted, pending)
         /\ late' = IF ppc \in {"copying", "copied", "clearing"} THEN late \cup {pending} ELSE late
      \/ /\ pending = NoPid \/ ~HasData(pending)
         /\ events' = events /\ emitted' = emitted /\ late' = late
  BY DEF PerfFinished, EmitsEvent, outcome
<1>5. /\ pending' = NoPid /\ perfPid' = NoPid /\ carried' = carried /\ ppc' = ppc
      /\ triggered' = {} /\ wpc' = "scan" /\ revived' = revived
  BY DEF PerfFinished, TagsAfterFinish, outcome
<1> QED BY <1>2, <1>3, <1>4, <1>5

\* One more pid in a sequence of them.
LEMMA HeldAppend ==
    ASSUME NEW n \in Nat, NEW s, Held(s, n), NEW p \in 1..n
    PROVE  Held(Append(s, p), n) /\ ToSet(Append(s, p)) = ToSet(s) \cup {p}
<1>1. s \in Seq(Nat) /\ p \in Nat
  BY DEF Held
<1>2. Append(s, p) \in Seq(Nat) /\ ToSet(Append(s, p)) = ToSet(s) \cup {p}
  BY <1>1, AppendFacts, ToSetAppend
<1> QED BY <1>2 DEF Held

\* More processes do not disturb it.
LEMMA HeldMore ==
    ASSUME NEW n \in Nat, NEW m \in Nat, n <= m, NEW s, Held(s, n)
    PROVE  Held(s, m)
BY DEF Held

\* The pids that the diagnoser holds are those of processes it has started.
LEMMA HeldStep ==
    ASSUME ProcsOK, HeldOK, ControlOK, [Next]_vars
    PROVE  HeldOK'
<1>1. /\ Len(procs) \in Nat /\ Pids = 1..Len(procs) /\ Len(procs') \in Nat
      /\ Len(procs) <= Len(procs')
  BY PidsAre, ProcsStep
<1>2. /\ Held(files, Len(procs')) /\ Held(events, Len(procs')) /\ Held(emitted, Len(procs'))
      /\ Held(carried, Len(procs'))
  BY <1>1, HeldMore DEF HeldOK
<1>3. Held(<<>>, Len(procs'))
  BY ToSetEmpty, EmptySeq DEF Held
<1>4. Held(files', Len(procs')) /\ IsInjective(files')
  <2>1. /\ files' \in Seq(Nat) /\ IsInjective(files')
        /\ \A p \in ToSet(files') : p \in ToSet(files) \/ p \in Pids
    BY FilesStep
  <2>2. 1..Len(procs) \subseteq 1..Len(procs')
    BY <1>1
  <2> QED BY <1>1, <1>2, <2>1, <2>2 DEF Held
<1>5. {perfPid', dtor', pending'} \subseteq 0..Len(procs')
  <2>1. {perfPid, dtor, pending, NoPid} \subseteq 0..Len(procs')
    BY <1>1 DEF HeldOK, NoPid
  <2>2. ASSUME NEW t \in Names, Launches(t) PROVE {perfPid', dtor', pending'} \subseteq 0..Len(procs')
    <3>1. perfPid' = NextPid /\ dtor' = NextPid /\ pending' = NextPid
      BY <2>2 DEF Launches
    <3>2. NextPid = Len(procs) + 1 /\ Len(procs') = Len(procs) + 1
      BY <2>2, LaunchFacts
    <3> QED BY <1>1, <3>1, <3>2
  <2>3. (\E t \in Names : Launches(t)) \/ {perfPid', dtor', pending'} \subseteq {perfPid, dtor, pending, NoPid}
    <3>1. ASSUME NEW t \in Names, ScanTriggers(t)
          PROVE  Launches(t) \/ {perfPid', dtor', pending'} \subseteq {perfPid, dtor, pending, NoPid}
      BY <3>1 DEF ScanTriggers, Launches
    <3>2. CASE LoopEnds \/ NothingFinished \/ DestroyLocal \/ Collect \/ CopyBegins \/ CopyEnds
               \/ RaceCrashes \/ ResetBegins \/ ResetEnds \/ CallReturns \/ StopBegins
               \/ StopCompletes \/ RequestStop \/ PerfFinished \/ UNCHANGED vars
      BY <3>2 DEF LoopEnds, NothingFinished, DestroyLocal, Collect, CopyBegins, CopyEnds,
                  RaceCrashes, ResetBegins, ResetEnds, CallReturns, StopBegins, StopCompletes,
                  RequestStop, PerfFinished, vars, recorder
    <3>3. ASSUME NEW t \in Names, ScanSkips(t) \/ ScanSamples(t) \/ TargetStarts(t) \/ TargetExits(t)
          PROVE  {perfPid', dtor', pending'} \subseteq {perfPid, dtor, pending, NoPid}
      BY <3>3 DEF ScanSkips, ScanSamples, TargetStarts, TargetExits, recorder
    <3>4. ASSUME NEW use \in [Names -> Usage], Sleep(use)
          PROVE  {perfPid', dtor', pending'} \subseteq {perfPid, dtor, pending, NoPid}
      BY <3>4 DEF Sleep
    <3>5. ASSUME NEW p \in Pids, PerfStarts(p) \/ PerfOpens(p) \/ PerfWrites(p) \/ PerfEnds(p)
          PROVE  {perfPid', dtor', pending'} \subseteq {perfPid, dtor, pending, NoPid}
      BY <3>5 DEF PerfStarts, PerfOpens, PerfWrites, PerfEnds, PerfUnchanged, recorder
    <3> QED BY <3>1, <3>2, <3>3, <3>4, <3>5 DEF Next, WorkerLoop, PushThread
  <2> QED BY <2>1, <2>2, <2>3
<1>6. Held(events', Len(procs')) /\ Held(emitted', Len(procs')) /\ Held(carried', Len(procs'))
  <2>1. CASE PerfFinished
    <3>1. carried' = carried
      BY <2>1, FinishedFacts
    <3>2. \/ events' = events /\ emitted' = emitted
          \/ /\ pending \in 1..Len(procs')
             /\ events' = Append(events, pending) /\ emitted' = Append(emitted, pending)
      BY <1>1, <2>1, FinishedFacts
    <3>3. ASSUME pending \in 1..Len(procs')
          PROVE  Held(Append(events, pending), Len(procs')) /\ Held(Append(emitted, pending), Len(procs'))
      <4>1. Held(Append(events, pending), Len(procs'))
        BY <1>1, <1>2, <3>3, HeldAppend
      <4>2. Held(Append(emitted, pending), Len(procs'))
        BY <1>1, <1>2, <3>3, HeldAppend
      <4> QED BY <4>1, <4>2
    <3> QED BY <1>2, <3>1, <3>2, <3>3
  <2>2. CASE CopyBegins
    <3>1. carried' = carried \o events /\ events' = events /\ emitted' = emitted
      BY <2>2 DEF CopyBegins, CopiedEvents, outcome
    <3>2. carried \in Seq(Nat) /\ events \in Seq(Nat)
      BY <1>2 DEF Held
    <3>3. carried \o events \in Seq(Nat) /\ ToSet(carried \o events) = ToSet(carried) \cup ToSet(events)
      BY <3>2, ConcatProperties, ToSetConcat
    <3> QED BY <1>2, <3>1, <3>3 DEF Held
  <2>3. CASE ResetEnds \/ StopCompletes
    <3>1. events' \in {<<>>, events} /\ emitted' = emitted /\ carried' = carried
      BY <2>3 DEF ResetEnds, StopCompletes, EventsCleared, outcome
    <3> QED BY <1>2, <1>3, <3>1
  <2>4. CASE Moves \/ \E t \in Names : Launches(t)
    <3>1. events' = events /\ emitted' = emitted /\ carried' = carried
      BY <2>4 DEF Moves, Launches, ScanTriggers, outcome, pusher
    <3> QED BY <1>2, <3>1
  <2> QED BY <2>1, <2>2, <2>3, <2>4, StepKinds
<1> QED BY <1>4, <1>5, <1>6 DEF HeldOK

\* The threads' control state.
LEMMA ControlStep ==
    ASSUME ProcsOK, HeldOK, ControlOK, [Next]_vars
    PROVE  ControlOK'
<1> USE DEF ControlOK
<1>1. CASE LoopEnds
  BY <1>1, Zenon DEF LoopEnds, recorder, pusher
<1>2. CASE NothingFinished
  BY <1>2, Zenon DEF NothingFinished, recorder, pusher
<1>3. CASE PerfFinished
  <2>1. /\ pending' = perfPid' /\ ppc' = ppc /\ wpc' = "scan" /\ running' = running
        /\ stopping' = stopping /\ wpc = "top"
    BY <1>3, FinishedFacts DEF PerfFinished
  <2>2. torn' \in BOOLEAN
    BY <1>3 DEF PerfFinished, outcome
  <2> QED BY <2>1, <2>2
<1>4. CASE DestroyLocal
  BY <1>4, Zenon DEF DestroyLocal, pusher
<1>5. ASSUME NEW t \in Names, ScanSkips(t) \/ ScanSamples(t) PROVE ControlOK'
  BY <1>5, Zenon DEF ScanSkips, ScanSamples, pusher
<1>6. ASSUME NEW t \in Names, ScanTriggers(t) PROVE ControlOK'
  <2>1. /\ wpc = "scan" /\ wpc' = "scan" /\ running' = running /\ ppc' = ppc
        /\ torn' = torn /\ stopping' = stopping
    BY <1>6 DEF ScanTriggers, Scanning, pusher
  <2>2. ppc # "stopped"
    BY <2>1
  <2>3. pending' = perfPid'
    BY <1>6, <2>2 DEF ScanTriggers
  <2> QED BY <2>1, <2>2, <2>3
<1>7. ASSUME NEW use \in [Names -> Usage], Sleep(use) PROVE ControlOK'
  BY <1>7 DEF Sleep, pusher
<1>8. CASE Collect
  BY <1>8 DEF Collect, recorder
<1>9. CASE CopyBegins \/ CopyEnds \/ ResetBegins \/ ResetEnds \/ CallReturns
  BY <1>9 DEF CopyBegins, CopyEnds, ResetBegins, ResetEnds, CallReturns, recorder
<1>10. CASE RaceCrashes
  <2>1. /\ ppc \in {"copying", "clearing"} /\ ppc' = "crashed" /\ wpc' = "ended"
        /\ UNCHANGED <<perfPid, pending, running, torn, stopping>>
    BY <1>10 DEF RaceCrashes
  <2>2. pending' = perfPid'
    BY <2>1
  <2>3. running' = running /\ torn' = torn /\ stopping' = stopping
    BY <2>1
  <2>4. {running', torn', stopping'} \subseteq BOOLEAN
    BY <2>3, Zenon
  <2> QED BY <2>1, <2>2, <2>4
<1>11. CASE StopBegins
  BY <1>11 DEF StopBegins, RunningCleared, recorder
<1>12. CASE StopCompletes
  BY <1>12 DEF StopCompletes
<1>13. CASE RequestStop
  BY <1>13 DEF RequestStop, recorder
<1>14. ASSUME NEW t \in Names, TargetStarts(t) \/ TargetExits(t) PROVE ControlOK'
  BY <1>14 DEF TargetStarts, TargetExits, recorder, pusher
<1>15. ASSUME NEW p \in Pids, PerfStarts(p) \/ PerfOpens(p) \/ PerfWrites(p) \/ PerfEnds(p)
       PROVE  ControlOK'
  BY <1>15 DEF PerfStarts, PerfOpens, PerfWrites, PerfEnds, PerfUnchanged, recorder, pusher
<1>16. CASE UNCHANGED vars
  BY <1>16 DEF vars, recorder, pusher
<1> QED BY <1>1, <1>2, <1>3, <1>4, <1>5, <1>6, <1>7, <1>8, <1>9, <1>10, <1>11, <1>12,
           <1>13, <1>14, <1>15, <1>16 DEF Next, WorkerLoop, PushThread

(***************************************************************************)
(* The way of an event.                                                    *)
(***************************************************************************)
\* What has been emitted stays ended, with its data.
LEMMA EmittedStays ==
    ASSUME ProcsOK, HeldOK, OnceOK, [Next]_vars, NEW p \in ToSet(emitted)
    PROVE  p \in Pids /\ procs'[p].st = "reaped" /\ procs'[p].data
<1>1. p \in Pids
  BY PidsAre DEF HeldOK, Held
<1>2. procs[p].st = "reaped" /\ procs[p].data
  BY DEF OnceOK, CarriedOnce
<1> QED BY <1>1, <1>2, ReapedStays

\* An event is emitted once and carried once.
LEMMA OnceStep ==
    ASSUME ProcsOK, HeldOK, ControlOK, OnceOK, [Next]_vars
    PROVE  OnceOK'
<1>1. /\ events \in Seq(Nat) /\ emitted \in Seq(Nat) /\ carried \in Seq(Nat)
      /\ ToSet(emitted) \subseteq Pids /\ Pids = 1..Len(procs) /\ Len(procs) \in Nat
  BY PidsAre DEF HeldOK, Held
<1>2. /\ revived \in BOOLEAN
      /\ IsInjective(emitted) /\ (revived \/ IsInjective(carried)) /\ IsInjective(events)
      /\ ToSet(carried) \subseteq ToSet(emitted) /\ ToSet(events) \subseteq ToSet(emitted)
      /\ pending \notin ToSet(emitted)
      /\ ppc \in {"call", "loop", "collected"} => revived \/ ToSet(events) \cap ToSet(carried) = {}
  BY DEF OnceOK, CarriedOnce
<1>3. \A p \in ToSet(emitted) : procs'[p].data /\ procs'[p].st = "reaped"
  BY EmittedStays
<1>4. NoPid \notin ToSet(emitted)
  BY <1>1, HeldPids
<1>5. SUFFICES /\ revived' \in BOOLEAN
               /\ IsInjective(emitted') /\ (revived' \/ IsInjective(carried')) /\ IsInjective(events')
               /\ ToSet(carried') \subseteq ToSet(emitted') /\ ToSet(events') \subseteq ToSet(emitted')
               /\ pending' \notin ToSet(emitted')
               /\ ppc' \in {"call", "loop", "collected"} =>
                     revived' \/ ToSet(events') \cap ToSet(carried') = {}
               /\ \A p \in ToSet(emitted') : procs'[p].data /\ procs'[p].st = "reaped"
  BY <1>5 DEF OnceOK, CarriedOnce, Ended
<1>6. CASE PerfFinished
  <2>1. /\ pending' = NoPid /\ carried' = carried /\ ppc' = ppc /\ revived' = revived
    BY <1>6, FinishedFacts
  <2>2. CASE events' = events /\ emitted' = emitted
    BY <1>2, <1>3, <1>4, <2>1, <2>2
  <2>3. CASE /\ pending # NoPid /\ HasData(pending)
             /\ events' = Append(events, pending) /\ emitted' = Append(emitted, pending)
    <3>1. /\ pending \in Nat /\ pending \in Pids
          /\ procs'[pending].st = "reaped" /\ procs'[pending].data
      <4>1. /\ pending \in Pids
            /\ procs'[pending].st = "reaped" /\ procs'[pending].data = procs[pending].data
        BY <1>6, <2>3, FinishedFacts
      <4>2. procs[pending].data
        BY <2>3 DEF HasData
      <4> QED BY <1>1, <4>1, <4>2
    <3>2. pending \notin ToSet(events) /\ pending \notin ToSet(carried)
      BY <1>2
    <3>3. IsInjective(emitted') /\ ToSet(emitted') = ToSet(emitted) \cup {pending}
      <4>1. IsInjective(Append(emitted, pending))
        BY <1>1, <1>2, <3>1, InjectiveAppend
      <4>2. ToSet(Append(emitted, pending)) = ToSet(emitted) \cup {pending}
        BY <1>1, <3>1, ToSetAppend
      <4> QED BY <2>3, <4>1, <4>2
    <3>4. IsInjective(events') /\ ToSet(events') = ToSet(events) \cup {pending}
      <4>1. IsInjective(Append(events, pending))
        BY <1>1, <1>2, <3>1, <3>2, InjectiveAppend
      <4>2. ToSet(Append(events, pending)) = ToSet(events) \cup {pending}
        BY <1>1, <3>1, ToSetAppend
      <4> QED BY <2>3, <4>1, <4>2
    <3>5. NoPid \notin ToSet(emitted')
      BY <1>4, <2>3, <3>3
    <3> QED BY <1>2, <1>3, <2>1, <3>1, <3>2, <3>3, <3>4, <3>5
  <2> QED BY <1>6, <2>2, <2>3, FinishedFacts
<1>7. CASE CopyBegins
  <2>1. /\ carried' = carried \o events /\ events' = events /\ emitted' = emitted
        /\ pending' = pending /\ ppc = "collected" /\ ppc' = "copying" /\ revived' = revived
    BY <1>7 DEF CopyBegins, CopiedEvents, outcome, recorder
  <2>2. revived \/ IsInjective(carried \o events)
    BY <1>1, <1>2, <2>1, InjectiveConcat
  <2>3. ToSet(carried \o events) = ToSet(carried) \cup ToSet(events)
    BY <1>1, ToSetConcat
  <2> QED BY <1>2, <1>3, <2>1, <2>2, <2>3
<1>8. CASE ResetEnds \/ StopCompletes
  <2>1. /\ emitted' = emitted /\ carried' = carried /\ pending' = pending
        /\ (events' = <<>> /\ revived' = revived) \/ (events' = events /\ revived' = TRUE)
    BY <1>8 DEF ResetEnds, StopCompletes, EventsCleared, outcome, recorder
  <2>2. IsInjective(<<>>) /\ ToSet(<<>>) = {}
    BY ToSetEmpty DEF IsInjective
  <2> QED BY <1>2, <1>3, <2>1, <2>2
<1>9. ASSUME NEW t \in Names, Launches(t)
      PROVE  /\ events' = events /\ emitted' = emitted /\ carried' = carried /\ ppc' = ppc
             /\ revived' = revived /\ pending' \notin ToSet(emitted)
  <2>1. /\ events' = events /\ emitted' = emitted /\ carried' = carried /\ ppc' = ppc
        /\ revived' = revived /\ pending' = NextPid
    BY <1>9 DEF Launches, ScanTriggers, outcome, pusher
  <2>2. NextPid \notin Pids
    BY <1>1 DEF NextPid
  <2> QED BY <1>1, <2>1, <2>2
<1>10. CASE \E t \in Names : Launches(t)
  BY <1>2, <1>3, <1>9, <1>10
<1>11. CASE Moves
  <2>1. /\ events' = events /\ emitted' = emitted /\ carried' = carried /\ pending' = pending
        /\ revived' = revived
        /\ ppc' \in {"call", "loop", "collected"} => ppc \in {"call", "loop", "collected"}
    BY <1>11 DEF Moves
  <2> QED BY <1>2, <1>3, <2>1
<1> QED BY <1>6, <1>7, <1>8, <1>10, <1>11, StepKinds

\* An event is carried, unless it was appended between the copy and Reset.
LEMMA LossStep ==
    ASSUME ProcsOK, HeldOK, ControlOK, LossOK, [Next]_vars
    PROVE  LossOK'
<1>1. /\ events \in Seq(Nat) /\ emitted \in Seq(Nat) /\ carried \in Seq(Nat)
      /\ events' \in Seq(Nat) /\ carried' \in Seq(Nat)
  BY HeldStep DEF HeldOK, Held
<1>2. /\ ToSet(carried \o events) = ToSet(carried) \cup ToSet(events)
      /\ ToSet(carried' \o events') = ToSet(carried') \cup ToSet(events')
  BY <1>1, ToSetConcat
<1>3. /\ ~InStop => ToSet(emitted) \subseteq ToSet(carried) \cup ToSet(events) \cup late
      /\ ppc \in {"copying", "copied", "clearing"} => ToSet(events) \subseteq ToSet(carried) \cup late
  BY <1>2 DEF LossOK, LossNeedsRace
<1>4. SUFFICES /\ ~InStop' => ToSet(emitted') \subseteq ToSet(carried') \cup ToSet(events') \cup late'
               /\ ppc' \in {"copying", "copied", "clearing"} =>
                     ToSet(events') \subseteq ToSet(carried') \cup late'
  BY <1>2, <1>4 DEF LossOK, LossNeedsRace
<1>5. CASE PerfFinished
  <2>1. carried' = carried /\ ppc' = ppc /\ (InStop' <=> InStop)
    BY <1>5, FinishedFacts DEF InStop
  <2>2. CASE events' = events /\ emitted' = emitted /\ late' = late
    BY <1>3, <2>1, <2>2
  <2>3. CASE /\ pending # NoPid
             /\ events' = Append(events, pending) /\ emitted' = Append(emitted, pending)
             /\ late' = IF ppc \in {"copying", "copied", "clearing"} THEN late \cup {pending} ELSE late
    <3>1. pending \in Nat
      BY <1>5, <2>3, FinishedFacts, PidsAre
    <3>2. events \in Seq(Nat) /\ emitted \in Seq(Nat)
      BY <1>1
    <3>3. ToSet(Append(emitted, pending)) = ToSet(emitted) \cup {pending}
      BY <3>1, <3>2, ToSetAppend
    <3>4. ToSet(Append(events, pending)) = ToSet(events) \cup {pending}
      BY <3>1, <3>2, ToSetAppend
    <3>5. /\ ToSet(emitted') = ToSet(emitted) \cup {pending}
          /\ ToSet(events') = ToSet(events) \cup {pending}
      BY <2>3, <3>3, <3>4
    <3> QED BY <1>3, <2>1, <2>3, <3>5
  <2> QED BY <1>5, <2>2, <2>3, FinishedFacts
<1>6. CASE CopyBegins
  <2>1. /\ carried' = carried \o events /\ events' = events /\ emitted' = emitted
        /\ late' = late /\ ppc = "collected"
    BY <1>6 DEF CopyBegins, CopiedEvents, outcome
  <2>2. ~InStop
    BY <2>1 DEF InStop
  <2> QED BY <1>2, <1>3, <2>1, <2>2
<1>7. CASE ResetEnds
  <2>1. /\ events' \in {<<>>, events} /\ emitted' = emitted /\ carried' = carried /\ late' = late
        /\ ppc = "clearing" /\ ppc' = "call"
    BY <1>7 DEF ResetEnds, EventsCleared
  <2>2. ~InStop
    BY <2>1 DEF InStop
  <2> QED BY <1>3, <2>1, <2>2, ToSetEmpty
<1>8. CASE StopCompletes
  <2>1. ppc' = "stopped"
    BY <1>8 DEF StopCompletes
  <2> QED BY <2>1 DEF InStop
<1>9. CASE Moves \/ \E t \in Names : Launches(t)
  <2>1. /\ events' = events /\ emitted' = emitted /\ carried' = carried /\ late' = late
        /\ \/ ppc' = ppc
           \/ ppc = "call" /\ ppc' = "loop"
           \/ ppc = "loop" /\ ppc' = "collected"
           \/ ppc = "copying" /\ ppc' = "copied"
           \/ ppc = "copied" /\ ppc' = "clearing"
           \/ ppc' \in {"crashed", "joining"}
    <3>1. CASE Moves
      BY <3>1 DEF Moves
    <3>2. ASSUME NEW t \in Names, Launches(t)
          PROVE  /\ events' = events /\ emitted' = emitted /\ carried' = carried /\ late' = late
                 /\ ppc' = ppc
      <4>1. ScanTriggers(t)
        BY <3>2 DEF Launches
      <4> QED BY <4>1 DEF ScanTriggers, outcome, pusher
    <3> QED BY <1>9, <3>1, <3>2, Zenon
  <2> QED BY <1>3, <2>1 DEF InStop
<1> QED BY <1>5, <1>6, <1>7, <1>8, <1>9, StepKinds

(***************************************************************************)
(* One target.                                                             *)
(***************************************************************************)
\* Without a pending recording every one is over, and with one target none is
\* started before the last is over.
LEMMA SingleStep ==
    ASSUME ProcsOK, HeldOK, ControlOK, ScanOK, OneTarget, SingleOK, [Next]_vars
    PROVE  SingleOK'
<1>1. Len(procs) \in Nat /\ Pids = 1..Len(procs) /\ ppc # "stopped" => pending = perfPid
  BY PidsAre DEF ControlOK
<1>2. ASSUME NEW p \in Pids, procs[p].st = "reaped", HasData(p) => p \in ToSet(emitted),
             ToSet(emitted) \subseteq ToSet(emitted')
      PROVE  procs'[p].st = "reaped" /\ (HasData(p)' => p \in ToSet(emitted'))
  <2>1. procs'[p].st = "reaped" /\ procs'[p].data = procs[p].data
    BY <1>2, ReapedStays
  <2>2. p \in ToSet(files') => p \in ToSet(files)
    BY <1>2, FilesStep
  <2> QED BY <1>2, <2>1, <2>2 DEF HasData
<1>3. \A p \in Pids : p # pending => procs[p].st = "reaped" /\ (HasData(p) => p \in ToSet(emitted))
  BY DEF SingleOK
<1>4. Keeps(procs, procs') => Pids' = Pids
  BY DEF Keeps, Pids
<1>5. CASE \E t \in Names : Launches(t)
  <2>1. PICK t \in Names : Launches(t)
    BY <1>5
  <2>2. /\ t \notin triggered /\ wpc = "scan" /\ pending' = NextPid /\ triggered' = triggered \cup {t}
        /\ emitted' = emitted
    BY <2>1 DEF Launches, ScanTriggers, Scanning, TagsWith, outcome
  <2>3. triggered = {} /\ ppc # "stopped"
    BY <2>2 DEF OneTarget, ScanOK, ControlOK
  <2>4. pending = NoPid
    BY <2>3 DEF SingleOK
  <2>5. DOMAIN procs' = 1..(Len(procs) + 1) /\ NextPid = Len(procs) + 1
    BY <2>1, LaunchFacts
  <2>6. ASSUME NEW p \in Pids', p # pending'
        PROVE  procs'[p].st = "reaped" /\ (HasData(p)' => p \in ToSet(emitted'))
    <3>1. p \in Pids
      BY <1>1, <2>2, <2>5, <2>6 DEF Pids
    <3>2. p # pending
      BY <2>4, <3>1, HeldPids
    <3> QED BY <1>2, <1>3, <2>2, <3>1, <3>2
  <2>7. triggered' # {}
    BY <2>2
  <2> QED BY <2>6, <2>7 DEF SingleOK
<1>6. CASE PerfFinished
  <2>1. /\ pending' = NoPid
        /\ pending # NoPid => procs'[pending].st = "reaped" /\ procs'[pending].data = procs[pending].data
    BY <1>6, FinishedFacts
  <2>2. /\ ToSet(emitted) \subseteq ToSet(emitted')
        /\ pending # NoPid /\ HasData(pending) => pending \in ToSet(emitted')
    <3>1. CASE emitted' = emitted /\ (pending = NoPid \/ ~HasData(pending))
      BY <3>1
    <3>2. CASE pending # NoPid /\ emitted' = Append(emitted, pending)
      <4>1. emitted \in Seq(Nat) /\ pending \in Nat
        BY <1>1, <1>6, <3>2, FinishedFacts DEF HeldOK, Held
      <4>2. ToSet(emitted') = ToSet(emitted) \cup {pending}
        BY <3>2, <4>1, ToSetAppend
      <4> QED BY <4>2
    <3> QED BY <1>6, <3>1, <3>2, FinishedFacts
  <2>3. Pids' = Pids
    <3>1. ASSUME NEW t \in Names, Launches(t) PROVE FALSE
      BY <1>6, <3>1 DEF PerfFinished, Launches, ScanTriggers, Scanning
    <3> QED BY <1>4, <3>1, ChildrenStep
  <2>4. ASSUME NEW p \in Pids'
        PROVE  procs'[p].st = "reaped" /\ (HasData(p)' => p \in ToSet(emitted'))
    <3>1. CASE p # pending
      BY <1>2, <1>3, <2>2, <2>3, <3>1
    <3>2. CASE p = pending
      <4>1. p # NoPid /\ p \in Pids
        BY <2>3, HeldPids
      <4>2. ToSet(files') \subseteq ToSet(files)
        <5>1. files' = files \/ files' = Rotated(files, LimitFileNum)
          BY <1>6 DEF PerfFinished, FilesAfterFinish, CleanupFiles
        <5>2. ToSet(Rotated(files, LimitFileNum)) \subseteq ToSet(files)
          BY RotatedFacts, Constants DEF HeldOK, Held
        <5> QED BY <5>1, <5>2
      <4>3. HasData(p)' => HasData(p)
        BY <2>1, <3>2, <4>1, <4>2 DEF HasData
      <4> QED BY <2>1, <2>2, <3>2, <4>1, <4>3
    <3> QED BY <3>1, <3>2
  <2> QED BY <2>1, <2>4 DEF SingleOK
<1>7. CASE StopCompletes \/ CopyBegins \/ ResetEnds \/ Moves
  <2>1. /\ pending' = pending /\ emitted' = emitted
        /\ triggered' = {} /\ ppc' # "stopped" => triggered = {} /\ ppc # "stopped"
    BY <1>7 DEF StopCompletes, CopyBegins, ResetEnds, Moves, outcome, recorder
  <2>2. CASE \E t \in Names : Launches(t)
    BY <1>5, <2>2
  <2>3. CASE Pids' = Pids
    <3>1. ASSUME NEW p \in Pids', p # pending'
          PROVE  procs'[p].st = "reaped" /\ (HasData(p)' => p \in ToSet(emitted'))
      BY <1>2, <1>3, <2>1, <2>3, <3>1
    <3> QED BY <2>1, <3>1 DEF SingleOK
  <2> QED BY <1>4, <2>2, <2>3, ChildrenStep
<1> QED BY <1>5, <1>6, <1>7, StepKinds

(***************************************************************************)
(* The scan.                                                               *)
(***************************************************************************)
\* A step that leaves samples and timers alone, and at most begins a scan.
Rests ==
    /\ UNCHANGED <<alive, unsampled, sampled, hot, timers, missed, burned>>
    /\ ppc = "crashed" => ppc' = "crashed"
    /\ \/ wpc = "top" /\ wpc' = "scan" /\ cursor' = 1
       \/ cursor' = cursor /\ wpc' = wpc
       \/ cursor' = cursor /\ wpc # "scan" /\ wpc' # "scan"
       \/ cursor' = cursor /\ wpc' = "ended" /\ ppc' = "crashed"

\* Every step is of one of these kinds for the scan.
LEMMA ScanKinds ==
    ASSUME ControlOK, [Next]_vars
    PROVE  \/ \E t \in Names : ScanSkips(t) \/ ScanSamples(t) \/ ScanTriggers(t)
           \/ \E use \in [Names -> Usage] : Sleep(use)
           \/ \E t \in Names : TargetStarts(t) \/ TargetExits(t)
           \/ Rests
<1>1. CASE LoopEnds \/ NothingFinished \/ PerfFinished \/ DestroyLocal
  BY <1>1 DEF LoopEnds, NothingFinished, PerfFinished, DestroyLocal, Rests, recorder, sampling, pusher
<1>2. CASE Collect
  <2>1. /\ UNCHANGED <<alive, unsampled, sampled, hot, timers, missed, burned, cursor>>
        /\ wpc' = (IF running THEN wpc ELSE "top") /\ ppc = "loop" /\ ~stopping
    BY <1>2 DEF Collect, recorder, sampling
  <2>2. running \/ wpc = "off"
    BY <2>1 DEF ControlOK
  <2> QED BY <2>1, <2>2 DEF Rests
<1>3. CASE \/ CopyBegins \/ CopyEnds \/ RaceCrashes \/ ResetBegins \/ ResetEnds \/ CallReturns
           \/ RequestStop
  BY <1>3 DEF CopyBegins, CopyEnds, RaceCrashes, ResetBegins, ResetEnds, CallReturns, RequestStop,
              Rests, recorder, sampling
<1>4. CASE StopBegins \/ StopCompletes
  BY <1>4 DEF StopBegins, StopCompletes, Rests, recorder, sampling
<1>5. ASSUME NEW p \in Pids, PerfStarts(p) \/ PerfOpens(p) \/ PerfWrites(p) \/ PerfEnds(p)
      PROVE  Rests
  BY <1>5 DEF PerfStarts, PerfOpens, PerfWrites, PerfEnds, PerfUnchanged, Rests, recorder,
              sampling, pusher
<1>6. CASE UNCHANGED vars
  BY <1>6 DEF vars, Rests, recorder, sampling, pusher
<1> QED BY <1>1, <1>2, <1>3, <1>4, <1>5, <1>6, Zenon DEF Next, WorkerLoop, PushThread

\* The tags are those of targets.
LEMMA TagsStep ==
    ASSUME triggered \subseteq Names, [Next]_vars
    PROVE  triggered' \subseteq Names
<1>1. CASE PerfFinished \/ StopCompletes
  BY <1>1 DEF PerfFinished, TagsAfterFinish, StopCompletes
<1>2. CASE CopyBegins \/ ResetEnds \/ Moves
  BY <1>2 DEF CopyBegins, ResetEnds, Moves, recorder
<1>3. ASSUME NEW t \in Names, Launches(t) PROVE triggered' \subseteq Names
  BY <1>3 DEF Launches, TagsWith
<1> QED BY <1>1, <1>2, <1>3, StepKinds

\* Samples, timers and counters keep their types, and the scan stays within
\* the list.
LEMMA ScanStep ==
    ASSUME ControlOK, ScanOK, [Next]_vars
    PROVE  ScanOK'
<1>1. /\ Threshold \in Nat /\ ScanPeriod \in Nat /\ Needed \in Nat /\ Len(Targets) \in Nat
      /\ DOMAIN Targets = 1..Len(Targets) /\ Usage \subseteq Nat
  BY Constants, NeededFacts
<1>2. triggered' \subseteq Names
  BY TagsStep DEF ScanOK
<1>3. ASSUME NEW t \in Names, ScanSkips(t) PROVE ScanOK'
  BY <1>1, <1>2, <1>3 DEF ScanOK, ScanSkips, Scanning, NextTarget, sampling
<1>4. ASSUME NEW t \in Names, Refresh(t)
      PROVE  /\ unsampled' \in [Names -> 0..Threshold] /\ sampled' \in [Names -> BOOLEAN]
             /\ alive' \subseteq Names /\ hot' \in [Names -> 0..Needed]
  BY <1>1, <1>4 DEF ScanOK, Refresh
<1>5. ASSUME NEW t \in Names, ScanSamples(t) PROVE ScanOK'
  <2>1. Refresh(t) /\ cursor \in DOMAIN Targets /\ cursor' = cursor + 1
    BY <1>5 DEF ScanSamples, Scanning
  <2>2. TimerAfter(t) \in Nat /\ MissedAfter(t) \in Nat
    BY <1>1 DEF TimerAfter, MissedAfter, AtMost, ScanOK
  <2>3. /\ timers' \in [Names -> Nat] /\ missed' \in [Names -> Nat] /\ burned' \in [Names -> Nat]
    BY <1>5, <2>2 DEF ScanSamples, ScanOK
  <2>4. cursor' \in 1..(Len(Targets) + 1)
    BY <1>1, <2>1
  <2> QED BY <1>2, <1>4, <2>1, <2>3, <2>4 DEF ScanOK
<1>6. ASSUME NEW t \in Names, ScanTriggers(t) PROVE ScanOK'
  <2>1. Refresh(t) /\ cursor \in DOMAIN Targets /\ cursor' = cursor + 1
    BY <1>6 DEF ScanTriggers, Scanning
  <2>2. /\ timers' \in [Names -> Nat] /\ missed' \in [Names -> Nat] /\ burned' \in [Names -> Nat]
    BY <1>6 DEF ScanTriggers, ScanOK
  <2>3. cursor' \in 1..(Len(Targets) + 1)
    BY <1>1, <2>1
  <2> QED BY <1>2, <1>4, <2>1, <2>2, <2>3 DEF ScanOK
<1>7. ASSUME NEW use \in [Names -> Usage], Sleep(use) PROVE ScanOK'
  <2>1. \A t \in Names : use[t] \in Nat
    BY <1>1
  <2>2. Needed * Threshold \in Nat
    BY <1>1
  <2>3. unsampled' \in [Names -> 0..Threshold]
    BY <1>1, <1>7, <2>1 DEF Sleep, ScanOK, AtMost
  <2>4. hot' \in [Names -> 0..Needed]
    BY <1>1, <1>7, <2>1 DEF Sleep, ScanOK, AtMost
  <2>5. burned' \in [Names -> Nat]
    <3> DEFINE N == Needed * Threshold
    <3>1. N \in Nat
      BY <2>2
    <3>2. burned' = [t \in Names |-> IF t \in alive THEN AtMost(burned[t] + use[t], N) ELSE burned[t]]
      BY <1>7 DEF Sleep
    <3> HIDE DEF N
    <3> QED BY <2>1, <3>1, <3>2 DEF ScanOK, AtMost
  <2>6. /\ UNCHANGED <<cursor, timers, missed, alive, sampled>>
    BY <1>7 DEF Sleep
  <2> QED BY <1>2, <2>3, <2>4, <2>5, <2>6 DEF ScanOK
<1>8. ASSUME NEW t \in Names, TargetStarts(t) \/ TargetExits(t) PROVE ScanOK'
  <2>1. CASE TargetStarts(t)
    BY <1>2, <2>1 DEF ScanOK, TargetStarts, recorder
  <2>2. CASE TargetExits(t)
    BY <1>1, <1>2, <2>2 DEF ScanOK, TargetExits
  <2> QED BY <1>8, <2>1, <2>2
<1>9. CASE Rests
  BY <1>1, <1>2, <1>9 DEF ScanOK, Rests
<1> QED BY <1>3, <1>5, <1>6, <1>7, <1>8, <1>9, ScanKinds

(***************************************************************************)
(* What a timer stands for.                                                *)
(***************************************************************************)
\* One more period at the threshold, on the timer and off the rest.
LEMMA AccountsSample ==
    ASSUME NEW timer, NEW load \in Nat, NEW rest \in 0..Threshold,
           Accounts(timer, load, rest), rest >= Threshold
    PROVE  Accounts(timer + ScanPeriod, load, 0)
<1>1. Threshold \in Nat /\ ScanPeriod \in Nat /\ Needed \in Nat
  BY Constants, NeededFacts
<1>2. PICK k \in Nat : /\ timer = k * ScanPeriod
                       /\ AtMost(k * Threshold + rest, Needed * Threshold) <= load
  BY DEF Accounts
<1>3. (k + 1) * ScanPeriod = timer + ScanPeriod /\ (k + 1) * Threshold + 0 = k * Threshold + rest
  BY <1>1, <1>2
<1>4. k + 1 \in Nat
  OBVIOUS
<1> QED BY <1>2, <1>3, <1>4 DEF Accounts

\* Less usage that still waits for the scan.
LEMMA AccountsDrop ==
    ASSUME NEW timer, NEW load \in Nat, NEW rest \in 0..Threshold, Accounts(timer, load, rest)
    PROVE  Accounts(timer, load, 0)
<1>1. Threshold \in Nat /\ ScanPeriod \in Nat /\ Needed \in Nat
  BY Constants, NeededFacts
<1>2. PICK k \in Nat : /\ timer = k * ScanPeriod
                       /\ AtMost(k * Threshold + rest, Needed * Threshold) <= load
  BY DEF Accounts
<1>3. k * Threshold \in Nat /\ Needed * Threshold \in Nat
  BY <1>1
<1>4. \A m, n \in Nat : AtMost(m + rest, n) <= load => AtMost(m + 0, n) <= load
  BY <1>1 DEF AtMost
<1>5. AtMost(k * Threshold + 0, Needed * Threshold) <= load
  BY <1>2, <1>3, <1>4
<1> QED BY <1>2, <1>5 DEF Accounts

\* A timer at 0 stands for nothing.
LEMMA AccountsNothing == Accounts(0, 0, 0)
<1>1. Threshold \in Nat /\ ScanPeriod \in Nat /\ Needed \in Nat
  BY Constants, NeededFacts
<1>2. Needed * Threshold \in Nat
  BY <1>1
<1>3. \A n \in Nat : AtMost(0, n) <= 0
  BY DEF AtMost
<1>4. 0 * ScanPeriod = 0 /\ 0 * Threshold + 0 = 0
  BY <1>1
<1>5. 0 = 0 * ScanPeriod /\ AtMost(0 * Threshold + 0, Needed * Threshold) <= 0
  BY <1>2, <1>3, <1>4
<1> QED BY <1>5 DEF Accounts

\* The usage of a process before its first sample.
LEMMA AccountsStart ==
    ASSUME NEW u \in Nat
    PROVE  Accounts(0, AtMost(u, Needed * Threshold), u)
<1>1. Threshold \in Nat /\ ScanPeriod \in Nat /\ Needed \in Nat
  BY Constants, NeededFacts
<1>2. Needed * Threshold \in Nat
  BY <1>1
<1>3. 0 = 0 * ScanPeriod /\ 0 * Threshold + u = u
  BY <1>1
<1>4. \A n \in Nat : AtMost(u, n) <= AtMost(u, n)
  BY DEF AtMost
<1>5. AtMost(0 * Threshold + u, Needed * Threshold) <= AtMost(u, Needed * Threshold)
  BY <1>2, <1>3, <1>4
<1> QED BY <1>3, <1>5 DEF Accounts

\* A period of usage u.
LEMMA AccountsUse ==
    ASSUME NEW timer, NEW load \in Nat, NEW rest \in 0..Threshold, NEW u \in Nat,
           Accounts(timer, load, rest)
    PROVE  Accounts(timer, AtMost(load + u, Needed * Threshold), AtMost(rest + u, Threshold))
<1>1. Threshold \in Nat /\ ScanPeriod \in Nat /\ Needed \in Nat
  BY Constants, NeededFacts
<1>2. PICK k \in Nat : /\ timer = k * ScanPeriod
                       /\ AtMost(k * Threshold + rest, Needed * Threshold) <= load
  BY DEF Accounts
<1>3. k * Threshold \in Nat /\ Needed * Threshold \in Nat
  BY <1>1
<1>4. \A m, n \in Nat : AtMost(m + rest, n) <= load =>
         AtMost(m + AtMost(rest + u, Threshold), n) <= AtMost(load + u, n)
  BY <1>1 DEF AtMost
<1>5. AtMost(k * Threshold + AtMost(rest + u, Threshold), Needed * Threshold)
        <= AtMost(load + u, Needed * Threshold)
  BY <1>2, <1>3, <1>4
<1> QED BY <1>2, <1>5 DEF Accounts

\* A timer is never ahead of the usage since it was last 0.
LEMMA LoadStep ==
    ASSUME ControlOK, ScanOK, LoadOK, [Next]_vars
    PROVE  LoadOK'
<1>1. /\ Threshold \in Nat /\ ScanPeriod \in Nat /\ ScanPeriod > 0 /\ Needed \in Nat
      /\ Usage \subseteq Nat
  BY Constants, NeededFacts
<1>2. /\ timers \in [Names -> Nat] /\ burned \in [Names -> Nat]
      /\ unsampled \in [Names -> 0..Threshold] /\ sampled \in [Names -> BOOLEAN]
  BY DEF ScanOK
<1>3. \A t \in Names : Accounts(timers[t], burned[t], unsampled[t])
  BY DEF LoadOK
<1>4. SUFFICES \A t \in Names : Accounts(timers'[t], burned'[t], unsampled'[t])
  BY <1>4 DEF LoadOK
<1>5. ASSUME NEW t \in Names, ScanSamples(t)
      PROVE  \A s \in Names : Accounts(timers'[s], burned'[s], unsampled'[s])
  <2>1. \A s \in Names : s # t =>
           timers'[s] = timers[s] /\ burned'[s] = burned[s] /\ unsampled'[s] = unsampled[s]
    BY <1>2, <1>5 DEF ScanSamples, Refresh
  <2>2. /\ timers'[t] = TimerAfter(t) /\ unsampled'[t] = 0
        /\ burned'[t] = IF TimerAfter(t) = 0 THEN 0 ELSE burned[t]
    BY <1>2, <1>5 DEF ScanSamples, Refresh
  <2>3. CASE TimerAfter(t) = 0
    BY <1>3, <2>1, <2>2, <2>3, AccountsNothing
  <2>4. CASE TimerAfter(t) # 0
    <3>1. \/ TimerAfter(t) = timers[t]
          \/ TimerAfter(t) = timers[t] + ScanPeriod /\ unsampled[t] >= Threshold
      BY <2>4 DEF TimerAfter
    <3>2. Accounts(timers[t], burned[t], 0)
      BY <1>2, <1>3, AccountsDrop
    <3>3. unsampled[t] >= Threshold => Accounts(timers[t] + ScanPeriod, burned[t], 0)
      BY <1>2, <1>3, AccountsSample
    <3>4. Accounts(timers'[t], burned'[t], unsampled'[t])
      BY <2>2, <2>4, <3>1, <3>2, <3>3
    <3> QED BY <1>3, <2>1, <3>4
  <2> QED BY <2>3, <2>4
<1>6. ASSUME NEW t \in Names, ScanTriggers(t)
      PROVE  \A s \in Names : Accounts(timers'[s], burned'[s], unsampled'[s])
  <2>1. \A s \in Names : s # t =>
           timers'[s] = timers[s] /\ burned'[s] = burned[s] /\ unsampled'[s] = unsampled[s]
    BY <1>2, <1>6 DEF ScanTriggers, Refresh
  <2>2. timers'[t] = 0 /\ unsampled'[t] = 0 /\ burned'[t] = 0
    BY <1>2, <1>6 DEF ScanTriggers, Refresh
  <2> QED BY <1>3, <2>1, <2>2, AccountsNothing
<1>7. ASSUME NEW use \in [Names -> Usage], Sleep(use), NEW t \in Names
      PROVE  Accounts(timers'[t], burned'[t], unsampled'[t])
  <2>1. timers'[t] = timers[t] /\ use[t] \in Nat
    BY <1>1, <1>7 DEF Sleep
  <2>2. CASE t \in alive
    <3>1. /\ unsampled'[t] = AtMost(unsampled[t] + use[t], Threshold)
          /\ burned'[t] = AtMost(burned[t] + use[t], Needed * Threshold)
      BY <1>7, <2>2 DEF Sleep
    <3>2. burned[t] \in Nat /\ unsampled[t] \in 0..Threshold
      BY <1>2
    <3>3. Accounts(timers[t], AtMost(burned[t] + use[t], Needed * Threshold),
                   AtMost(unsampled[t] + use[t], Threshold))
      BY <1>3, <2>1, <3>2, AccountsUse
    <3> QED BY <2>1, <3>1, <3>3
  <2>3. CASE t \notin alive
    <3>1. unsampled'[t] = unsampled[t] /\ burned'[t] = burned[t]
      BY <1>7, <2>3 DEF Sleep
    <3> QED BY <1>3, <2>1, <3>1
  <2> QED BY <2>2, <2>3
<1>8. ASSUME NEW t \in Names, TargetExits(t)
      PROVE  \A s \in Names : Accounts(timers'[s], burned'[s], unsampled'[s])
  <2>1. timers' = timers /\ burned' = burned /\ unsampled' = [unsampled EXCEPT ![t] = 0]
    BY <1>8 DEF TargetExits
  <2>2. Accounts(timers[t], burned[t], 0)
    BY <1>2, <1>3, AccountsDrop
  <2> QED BY <1>2, <1>3, <2>1, <2>2
<1>9. ASSUME NEW t \in Names, ScanSkips(t) \/ TargetStarts(t)
      PROVE  timers' = timers /\ burned' = burned /\ unsampled' = unsampled
  BY <1>9 DEF ScanSkips, TargetStarts, recorder, sampling
<1>10. CASE Rests
  BY <1>3, <1>10 DEF Rests
<1> QED BY <1>3, <1>5, <1>6, <1>7, <1>8, <1>9, <1>10, ScanKinds

(***************************************************************************)
(* How far a scan may lag behind an overload.                              *)
(***************************************************************************)
\* A scan that samples t leaves it at most one scan behind its overload.
LEMMA BehindSample ==
    ASSUME ScanOK, NEW t \in Names, ScanSamples(t), Behind(t), Waiting(t)
    PROVE  Behind(t)'
<1>1. /\ Threshold \in Nat /\ Threshold > 0 /\ ScanPeriod \in Nat /\ Needed \in Nat
      /\ OverflowDuration \in Nat
  BY Constants, NeededFacts
<1>2. /\ timers[t] \in Nat /\ missed[t] \in Nat /\ hot[t] \in 0..Needed
      /\ unsampled[t] \in 0..Threshold /\ sampled[t] \in BOOLEAN
  BY DEF ScanOK
<1>3. /\ timers'[t] = TimerAfter(t) /\ missed'[t] = MissedAfter(t)
      /\ sampled'[t] = (sampled[t] \/ unsampled[t] > 0)
  BY DEF ScanSamples, Refresh, ScanOK
<1>4. /\ missed[t] <= Needed
      /\ missed[t] > 0 => sampled[t] /\ (missed[t] - 1) * ScanPeriod <= timers[t]
  BY DEF Behind
<1>5. SUFFICES /\ missed'[t] <= Needed
               /\ missed'[t] > 0 => sampled'[t] /\ (missed'[t] - 1) * ScanPeriod <= timers'[t]
  BY <1>5 DEF Behind
<1>6. CASE hot[t] = 0
  <2>1. missed'[t] = 0
    BY <1>3, <1>6 DEF MissedAfter
  <2> QED BY <1>1, <2>1
<1>7. CASE hot[t] > 0
  <2>1. unsampled[t] = Threshold /\ sampled'[t] /\ Needed >= 1
    <3>1. unsampled[t] = Threshold /\ unsampled[t] > 0 /\ Needed >= 1
      BY <1>1, <1>2, <1>7 DEF Waiting
    <3>2. sampled'[t]
      BY <1>3, <3>1, Zenon
    <3> QED BY <3>1, <3>2
  <2>2. missed'[t] = missed[t] + 1
    BY <1>1, <1>2, <1>3, <1>4, <1>7 DEF MissedAfter, AtMost
  <2>3. timers'[t] \in Nat
    BY <1>1, <1>2, <1>3 DEF TimerAfter
  <2>4. CASE missed[t] = 0
    <3>1. (missed'[t] - 1) * ScanPeriod = 0
      BY <1>1, <2>2, <2>4
    <3> QED BY <2>1, <2>2, <2>3, <2>4, <3>1
  <2>5. CASE missed[t] > 0
    <3>1. sampled[t] /\ (missed[t] - 1) * ScanPeriod <= timers[t]
      BY <1>4, <2>5
    <3>2. TimerAfter(t) = timers[t] + ScanPeriod
      BY <1>1, <2>1, <3>1 DEF TimerAfter
    <3>3. TimerAfter(t) < OverflowDuration
      BY <1>1, <1>2, <3>1, <3>2 DEF ScanSamples, Triggers
    <3>4. \A m, p, x \in Nat : (m - 1) * p <= x => m * p <= x + p
      OBVIOUS
    <3>5. missed[t] * ScanPeriod <= timers'[t]
      BY <1>1, <1>2, <1>3, <3>1, <3>2, <3>4
    <3>6. missed[t] * ScanPeriod < OverflowDuration
      <4>1. missed[t] * ScanPeriod \in Nat
        BY <1>1, <1>2
      <4> QED BY <1>1, <1>3, <2>3, <3>3, <3>5, <4>1
    <3>7. missed[t] < Needed
      BY <1>2, <3>6, NeededFacts
    <3>8. missed'[t] - 1 = missed[t] /\ missed'[t] <= Needed
      BY <1>1, <1>2, <2>2, <3>7
    <3> QED BY <2>1, <3>5, <3>8
  <2> QED BY <1>2, <2>4, <2>5
<1> QED BY <1>2, <1>6, <1>7

\* The scan of a target leaves the samples of the others alone.
LEMMA OthersWait ==
    ASSUME ScanOK, NEW t \in Names, ScanSkips(t) \/ ScanSamples(t) \/ ScanTriggers(t),
           NEW s \in Names, s # t
    PROVE  (Waiting(s) => Waiting(s)') /\ (Behind(s) => Behind(s)')
<1>1. hot' = hot /\ unsampled'[s] = unsampled[s] /\ sampled'[s] = sampled[s]
  BY DEF ScanSkips, ScanSamples, ScanTriggers, Refresh, sampling, ScanOK
<1>2. missed'[s] = missed[s] /\ timers'[s] = timers[s]
  BY DEF ScanSkips, ScanSamples, ScanTriggers, ScanOK
<1> QED BY <1>1, <1>2 DEF Waiting, Behind

\* With no target listed twice, a scan comes to each one with the usage of
\* its last period, and no overload goes on unnoticed.
LEMMA NoticedStep ==
    ASSUME ControlOK, ScanOK, NoTargetTwice, NoticedOK, [Next]_vars
    PROVE  NoticedOK'
<1>1. /\ Threshold \in Nat /\ ScanPeriod \in Nat /\ Needed \in Nat /\ Len(Targets) \in Nat
      /\ DOMAIN Targets = 1..Len(Targets) /\ Usage \subseteq Nat
      /\ \A i \in DOMAIN Targets : Targets[i] \in Names
  BY Constants, NeededFacts
<1>2. ASSUME NEW t \in Names, missed'[t] = 0
      PROVE  Behind(t)'
  BY <1>1, <1>2 DEF Behind
<1>3. ASSUME NEW t \in Names, ScanSkips(t) \/ ScanSamples(t) \/ ScanTriggers(t)
      PROVE  NoticedOK'
  <2>1. /\ wpc = "scan" /\ wpc' = "scan" /\ cursor' = cursor + 1
        /\ cursor \in 1..Len(Targets) /\ t = Targets[cursor]
    BY <1>1, <1>3 DEF ScanSkips, ScanSamples, ScanTriggers, Scanning, NextTarget
  <2>2. Behind(t)'
    <3>1. CASE ScanSamples(t)
      <4>1. Behind(t) /\ Waiting(t)
        BY <1>1, <2>1 DEF NoticedOK
      <4> QED BY <3>1, <4>1, BehindSample
    <3>2. CASE ScanSkips(t) \/ ScanTriggers(t)
      <4>1. missed'[t] = 0
        BY <3>2 DEF ScanSkips, ScanTriggers, ScanOK
      <4> QED BY <1>2, <4>1
    <3> QED BY <1>3, <3>1, <3>2
  <2>3. \A s \in Names : Behind(s)'
    <3>1. ASSUME NEW s \in Names, s # t PROVE Behind(s)'
      BY <1>3, <3>1, OthersWait DEF NoticedOK
    <3> QED BY <2>2, <3>1
  <2>4. ASSUME NEW i \in (cursor + 1)..Len(Targets)
        PROVE  Waiting(Targets[i])'
    <3>1. i \in DOMAIN Targets /\ i # cursor /\ cursor \in DOMAIN Targets /\ i \in cursor..Len(Targets)
      BY <1>1, <2>1
    <3>2. Targets[i] # t /\ Targets[i] \in Names
      BY <1>1, <2>1, <3>1 DEF NoTargetTwice, IsInjective
    <3>3. Waiting(Targets[i])
      BY <2>1, <3>1 DEF NoticedOK
    <3>4. ASSUME NEW s \in Names, s # t, Waiting(s) PROVE Waiting(s)'
      BY <1>3, <3>4, OthersWait
    <3> QED BY <3>2, <3>3, <3>4
  <2> QED BY <2>1, <2>3, <2>4 DEF NoticedOK
<1>4. ASSUME NEW use \in [Names -> Usage], Sleep(use)
      PROVE  NoticedOK'
  <2>1. wpc' = "top" /\ UNCHANGED <<timers, missed, sampled>>
    BY <1>4 DEF Sleep
  <2>2. \A t \in Names : Behind(t)'
    BY <2>1 DEF NoticedOK, Behind
  <2>3. ASSUME NEW t \in Names PROVE Waiting(t)'
    <3>1. use[t] \in Nat /\ unsampled[t] \in 0..Threshold
      BY <1>1 DEF ScanOK
    <3>2. CASE t \in alive /\ use[t] >= Threshold
      <4>1. unsampled'[t] = AtMost(unsampled[t] + use[t], Threshold)
        BY <1>4, <3>2 DEF Sleep
      <4>2. unsampled'[t] = Threshold
        BY <1>1, <3>1, <3>2, <4>1 DEF AtMost
      <4> QED BY <4>2 DEF Waiting
    <3>3. CASE ~(t \in alive /\ use[t] >= Threshold)
      <4>1. hot'[t] = 0
        BY <1>4, <3>3 DEF Sleep
      <4> QED BY <4>1 DEF Waiting
    <3> QED BY <3>2, <3>3
  <2> QED BY <2>1, <2>2, <2>3 DEF NoticedOK
<1>5. ASSUME NEW t \in Names, TargetStarts(t) \/ TargetExits(t)
      PROVE  NoticedOK'
  <2>1. wpc' = wpc /\ cursor' = cursor /\ ppc' = ppc /\ timers' = timers
    BY <1>5 DEF TargetStarts, TargetExits, recorder, pusher
  <2>2. ASSUME NEW s \in Names
        PROVE  \/ UNCHANGED <<hot[s], missed[s], unsampled[s], sampled[s]>>
               \/ hot'[s] = 0 /\ missed'[s] = 0
    BY <1>5 DEF TargetStarts, TargetExits, recorder, ScanOK
  <2>3. \A s \in Names : (Behind(s) => Behind(s)') /\ (Waiting(s) => Waiting(s)')
    <3>1. ASSUME NEW s \in Names PROVE (Behind(s) => Behind(s)') /\ (Waiting(s) => Waiting(s)')
      <4>1. CASE UNCHANGED <<hot[s], missed[s], unsampled[s], sampled[s]>>
        BY <2>1, <4>1 DEF Behind, Waiting
      <4>2. CASE hot'[s] = 0 /\ missed'[s] = 0
        BY <1>2, <4>2 DEF Waiting
      <4> QED BY <2>2, <4>1, <4>2
    <3> QED BY <3>1
  <2>4. \A s \in Names : Behind(s)'
    BY <2>3 DEF NoticedOK
  <2>5. ASSUME wpc' = "scan", NEW i \in cursor'..Len(Targets)
        PROVE  Waiting(Targets[i])'
    <3>1. Waiting(Targets[i]) /\ i \in DOMAIN Targets
      BY <1>1, <2>1, <2>5 DEF NoticedOK, ScanOK
    <3>2. Targets[i] \in Names
      BY <1>1, <3>1
    <3> QED BY <2>3, <3>1, <3>2
  <2>6. ASSUME wpc' # "scan", ppc' # "crashed" PROVE \A s \in Names : Waiting(s)'
    BY <2>1, <2>3, <2>6 DEF NoticedOK
  <2> QED BY <2>4, <2>5, <2>6 DEF NoticedOK
<1>6. CASE Rests
  <2>1. UNCHANGED <<unsampled, sampled, hot, timers, missed>> /\ (ppc = "crashed" => ppc' = "crashed")
    BY <1>6 DEF Rests
  <2>2. \A s \in Names : Behind(s)'
    BY <2>1 DEF Behind, NoticedOK
  <2>3. \A s : Waiting(s) => Waiting(s)'
    BY <2>1 DEF Waiting
  <2>4. CASE wpc = "top" /\ wpc' = "scan" /\ cursor' = 1
    <3>1. \A s \in Names : Waiting(s)'
      BY <2>3, <2>4 DEF NoticedOK, ControlOK
    <3>2. \A i \in 1..Len(Targets) : Waiting(Targets[i])'
      BY <1>1, <3>1
    <3> QED BY <2>2, <2>4, <3>2 DEF NoticedOK
  <2>5. CASE cursor' = cursor /\ wpc' = wpc
    <3>1. wpc' = "scan" => \A i \in cursor'..Len(Targets) : Waiting(Targets[i])'
      BY <2>3, <2>5 DEF NoticedOK
    <3>2. wpc' # "scan" /\ ppc' # "crashed" => \A t \in Names : Waiting(t)'
      BY <2>1, <2>3, <2>5 DEF NoticedOK
    <3> QED BY <2>2, <3>1, <3>2 DEF NoticedOK
  <2>6. CASE wpc # "scan" /\ wpc' # "scan"
    <3>1. wpc' # "scan" /\ ppc' # "crashed" => \A t \in Names : Waiting(t)'
      BY <2>1, <2>3, <2>6 DEF NoticedOK
    <3> QED BY <2>2, <2>6, <3>1 DEF NoticedOK
  <2>7. CASE wpc' = "ended" /\ ppc' = "crashed"
    BY <2>2, <2>7 DEF NoticedOK
  <2> QED BY <1>6, <2>4, <2>5, <2>6, <2>7 DEF Rests
<1> QED BY <1>3, <1>4, <1>5, <1>6, ScanKinds

(***************************************************************************)
(* The invariant.                                                          *)
(***************************************************************************)
\* It holds before the worker starts.
LEMMA Initially ==
    ASSUME Init
    PROVE  IndInv
<1> USE DEF Init
<1>1. Len(procs) = 0 /\ procs \in Seq(ProcRec) /\ Pids = {}
  BY DEF Pids
<1>2. /\ Threshold \in Nat /\ ScanPeriod \in Nat /\ Needed \in Nat /\ MaxLaunches \in Nat
      /\ Len(Targets) \in Nat /\ DOMAIN Targets = 1..Len(Targets)
      /\ \A i \in DOMAIN Targets : Targets[i] \in Names
  BY Constants, NeededFacts
<1>3. ProcsOK
  BY <1>1, <1>2 DEF ProcsOK
<1>4. ToSet(<<>>) = {} /\ IsInjective(<<>>) /\ <<>> \in Seq(Nat) /\ <<>> \o <<>> = <<>>
  BY ToSetEmpty DEF IsInjective
<1>5. HeldOK
  BY <1>1, <1>4 DEF HeldOK, Held, NoPid
<1>6. ControlOK
  BY DEF ControlOK
<1>7. ScanOK
  <2>1. ASSUME NEW t \in Names PROVE AtMost(unsampled[t], Needed * Threshold) \in Nat
    <3>1. unsampled[t] \in Nat /\ Needed * Threshold \in Nat
      BY <1>2
    <3> QED BY <3>1 DEF AtMost
  <2>2. burned \in [Names -> Nat]
    BY <2>1
  <2>3. unsampled \in [Names -> 0..Threshold]
    OBVIOUS
  <2> QED BY <1>2, <2>2, <2>3 DEF ScanOK
<1>8. OnceOK
  BY <1>4 DEF OnceOK, CarriedOnce
<1>9. LossOK
  BY <1>4 DEF LossOK, LossNeedsRace
<1>10. LoadOK
  <2>1. \A t \in Names : unsampled[t] \in Nat
    BY <1>2
  <2> QED BY <2>1, AccountsStart DEF LoadOK
<1>11. NoticedOK
  <2>1. \A t \in Names : hot[t] = 0 /\ missed[t] = 0
    OBVIOUS
  <2>2. wpc = "off"
    OBVIOUS
  <2> QED BY <1>2, <2>1, <2>2 DEF NoticedOK, Behind, Waiting
<1>12. SingleOK
  BY <1>1 DEF SingleOK
<1> QED BY <1>3, <1>5, <1>6, <1>7, <1>8, <1>9, <1>10, <1>11, <1>12 DEF IndInv

\* Every step preserves it.
LEMMA Inductive ==
    ASSUME IndInv, [Next]_vars
    PROVE  IndInv'
<1>1. ProcsOK /\ HeldOK /\ ControlOK /\ ScanOK /\ OnceOK /\ LossOK /\ LoadOK
  BY DEF IndInv
<1>2. ProcsOK'
  BY <1>1, ProcsStep
<1>3. HeldOK'
  BY <1>1, HeldStep
<1>4. ControlOK'
  BY <1>1, ControlStep
<1>5. ScanOK'
  BY <1>1, ScanStep
<1>6. OnceOK'
  BY <1>1, OnceStep
<1>7. LossOK'
  BY <1>1, LossStep
<1>8. LoadOK'
  BY <1>1, LoadStep
<1>9. ASSUME NoTargetTwice PROVE NoticedOK'
  BY <1>1, <1>9, NoticedStep DEF IndInv
<1>10. ASSUME OneTarget PROVE SingleOK'
  BY <1>1, <1>10, SingleStep DEF IndInv
<1>11. (NoTargetTwice' <=> NoTargetTwice) /\ (OneTarget' <=> OneTarget)
  BY DEF NoTargetTwice, OneTarget, Names
<1> QED BY <1>2, <1>3, <1>4, <1>5, <1>6, <1>7, <1>8, <1>9, <1>10, <1>11 DEF IndInv

\* It holds in every reachable state.
LEMMA Invariance == Spec => []IndInv
<1>1. Init => IndInv
  BY Initially
<1>2. IndInv /\ [Next]_vars => IndInv'
  BY Inductive
<1> QED BY <1>1, <1>2, PTL DEF Spec

(***************************************************************************)
(* The theorems.                                                           *)
(***************************************************************************)
\* Type correctness: the scan never leaves target_processes_, and every pid
\* that the diagnoser keeps is that of a perf process it has started.
THEOREM TypeCorrect == Spec => []TypeOK
<1>1. IndInv => TypeOK
  <2>1. SUFFICES ASSUME IndInv PROVE TypeOK
    OBVIOUS
  <2>2. ProcsOK /\ HeldOK /\ ControlOK /\ ScanOK
    BY <2>1 DEF IndInv
  <2>3. Pids = 1..Len(procs) /\ Len(procs) \in Nat
    BY <2>2, PidsAre
  <2>4. {perfPid, dtor, pending} \subseteq Pids \cup {NoPid}
    BY <2>2, HeldPids
  <2>5. {ToSet(files), ToSet(events), ToSet(emitted), ToSet(carried)} \subseteq SUBSET Pids
    BY <2>2, <2>3 DEF HeldOK, Held
  <2>6. {running, torn, stopping, revived} \subseteq BOOLEAN
    <3>1. OnceOK
      BY <2>1 DEF IndInv
    <3> QED BY <2>2, <3>1, Zenon DEF ControlOK, OnceOK
  <2> QED BY <2>2, <2>4, <2>5, <2>6 DEF TypeOK, ProcsOK, ProcRec, ControlOK, ScanOK
<1> QED BY <1>1, Invariance, PTL

\* Each recording is emitted and carried at most once, and only once perf has
\* ended with data, although the push thread reads `events` without a lock.
THEOREM CarriedAtMostOnce == Spec => []CarriedOnce
<1>1. IndInv => CarriedOnce
  BY DEF IndInv, OnceOK
<1> QED BY <1>1, Invariance, PTL

\* Until Stop, an event can only be lost when it is appended between the copy
\* of the list and its Reset.
THEOREM LossExplained == Spec => []LossNeedsRace
<1>1. IndInv => LossNeedsRace
  BY DEF IndInv, LossOK
<1> QED BY <1>1, Invariance, PTL

\* perf is started only for usage that fills OverflowDuration at the threshold.
THEOREM TriggersExplained == Spec => TriggerNeedsLoad
<1>1. IndInv /\ [Next]_vars =>
         [\A t \in triggered' \ triggered : burned[t] >= Needed * Threshold]_vars
  <2>1. SUFFICES ASSUME IndInv, [Next]_vars, NEW t \in triggered' \ triggered
                 PROVE  burned[t] >= Needed * Threshold
    OBVIOUS
  <2>2. ScanOK /\ LoadOK
    BY <2>1 DEF IndInv
  <2>3. Launches(t)
    <3>1. CASE PerfFinished \/ StopCompletes
      BY <2>1, <3>1 DEF PerfFinished, TagsAfterFinish, StopCompletes
    <3>2. CASE CopyBegins \/ ResetEnds \/ Moves
      BY <2>1, <3>2 DEF CopyBegins, ResetEnds, Moves, recorder
    <3>3. ASSUME NEW s \in Names, Launches(s) PROVE t = s
      BY <2>1, <3>3 DEF Launches, TagsWith
    <3> QED BY <2>1, <3>1, <3>2, <3>3, StepKinds
  <2>4. t \in Names /\ sampled[t] /\ TimerAfter(t) >= OverflowDuration
    <3>1. t \in Names
      BY <2>1, <2>2, TagsStep DEF ScanOK
    <3>2. Triggers(t)
      BY <2>3 DEF Launches, ScanTriggers
    <3> QED BY <3>1, <3>2 DEF Triggers
  <2>5. /\ Threshold \in Nat /\ ScanPeriod \in Nat /\ Needed \in Nat /\ OverflowDuration \in Nat
        /\ burned[t] \in Nat /\ unsampled[t] \in 0..Threshold /\ timers[t] \in Nat
    BY <2>2, <2>4, Constants, NeededFacts DEF ScanOK
  <2>6. PICK k \in Nat : /\ timers[t] = k * ScanPeriod
                         /\ AtMost(k * Threshold + unsampled[t], Needed * Threshold) <= burned[t]
    BY <2>2, <2>4 DEF LoadOK, Accounts
  <2>7. CASE unsampled[t] >= Threshold
    <3>1. TimerAfter(t) = timers[t] + ScanPeriod /\ (k + 1) * ScanPeriod = k * ScanPeriod + ScanPeriod
      <4>1. TimerAfter(t) = timers[t] + ScanPeriod
        BY <2>4, <2>7 DEF TimerAfter
      <4>2. (k + 1) * ScanPeriod = k * ScanPeriod + ScanPeriod
        BY <2>5
      <4> QED BY <4>1, <4>2
    <3>2. k + 1 >= Needed
      <4>1. (k + 1) * ScanPeriod >= OverflowDuration /\ k + 1 \in Nat
        BY <2>4, <2>5, <2>6, <3>1
      <4> QED BY <4>1, NeededFacts
    <3>3. \A a, b, c \in Nat : a >= b => a * c >= b * c
      OBVIOUS
    <3>4. (k + 1) * Threshold >= Needed * Threshold
      BY <2>5, <3>2, <3>3
    <3>5. k * Threshold + unsampled[t] >= Needed * Threshold
      BY <2>5, <2>7, <3>4
    <3>6. AtMost(k * Threshold + unsampled[t], Needed * Threshold) = Needed * Threshold
      BY <2>5, <3>5 DEF AtMost
    <3> QED BY <2>5, <2>6, <3>6
  <2>8. CASE ~(unsampled[t] >= Threshold)
    <3>1. TimerAfter(t) = 0
      BY <2>4, <2>8 DEF TimerAfter
    <3>2. 0 * ScanPeriod >= OverflowDuration
      BY <2>4, <2>5, <3>1
    <3>3. Needed = 0
      BY <2>5, <3>2, NeededFacts
    <3> QED BY <2>5, <3>3
  <2> QED BY <2>7, <2>8
<1> QED BY <1>1, Invariance, PTL DEF Spec, TriggerNeedsLoad

\* With no name listed twice, a process that is over the threshold in every
\* period is recorded at the latest one scan after its samples fill
\* OverflowDuration.
THEOREM OverloadNoticed == Spec => [](NoTargetTwice => OverloadIsNoticed)
<1>1. IndInv => (NoTargetTwice => OverloadIsNoticed)
  BY DEF IndInv, NoticedOK, Behind, OverloadIsNoticed
<1> QED BY <1>1, Invariance, PTL

\* With one target, perf_runner_ polls the only perf that is not waited for.
THEOREM PerfPolled == Spec => [](OneTarget => PerfStaysPolled)
<1>1. IndInv => (OneTarget => PerfStaysPolled)
  <2>1. SUFFICES ASSUME IndInv, OneTarget, ~InStop, NEW p \in Pids, procs[p].st # "reaped"
                 PROVE  p = perfPid
    BY DEF PerfStaysPolled
  <2>2. p = pending
    BY <2>1 DEF IndInv, SingleOK
  <2>3. pending = perfPid
    BY <2>1 DEF IndInv, ControlOK, InStop
  <2> QED BY <2>2, <2>3
<1> QED BY <1>1, Invariance, PTL

\* With one target, a perf that has ended with data and is no longer pending
\* was emitted.
THEOREM FinishedEmitted == Spec => [](OneTarget => FinishedIsEmitted)
<1>1. IndInv => (OneTarget => FinishedIsEmitted)
  BY DEF IndInv, SingleOK, FinishedIsEmitted
<1> QED BY <1>1, Invariance, PTL
=============================================================================
