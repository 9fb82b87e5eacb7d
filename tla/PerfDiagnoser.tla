--------------------------- MODULE PerfDiagnoser ---------------------------
(***************************************************************************)
(* The worker's Layer 4: PerfDiagnoser samples the CPU time of the target  *)
(* processes in a thread of its own, runs `perf record` on one that stays  *)
(* over the threshold, and leaves an event for the next push when perf has *)
(* finished.  The push thread reads and clears `events` without a lock.    *)
(*                                                                         *)
(* Sampling.  A target's CPU time matters only through what it has used    *)
(* since the stored sample, and that only up to Threshold, the amount that *)
(* amounts to cpu_threshold_pct_ over one period; unsampled[t] is that     *)
(* amount, saturated, and sampled[t] is prev.total_time # 0.  Every        *)
(* iteration of worker_loop takes one ScanPeriod.                          *)
(***************************************************************************)
EXTENDS CmdRunner, OutputFiles, FiniteSets

CONSTANTS
    Targets,           \* target_processes_, a sequence of names
    Usage,             \* CPU time a process may use in one period
    Threshold,         \* usage of a period that reaches cpu_threshold_pct_
    ScanPeriod,        \* 5 s: the sleep of worker_loop
    OverflowDuration,  \* overflow_duration_s_
    LimitFileNum,      \* limit_file_num_
    MaxLaunches        \* bound: perf processes started in a behaviour

ASSUME PerfAssumption ==
    /\ Targets \in Seq(STRING)
    /\ Usage \subseteq Nat
    /\ {Threshold, ScanPeriod} \subseteq Nat \ {0}
    /\ {OverflowDuration, LimitFileNum, MaxLaunches} \subseteq Nat

VARIABLES
    wpc,        \* worker_loop: "off", "top", "scan" (and the sleep), "ended"
    cursor,     \* the target being scanned
    perfPid,    \* perf_runner_.pid_
    dtor,       \* pid whose local CmdRunner copy is about to be destroyed
    pending,    \* pending_ev_: the launch it describes, NoPid if not pending
    triggered,  \* triggered_tags_
    timers,     \* overflow_timers_
    alive,      \* which target processes exist
    unsampled,
    sampled,
    files,
    running,    \* running_ of PerfDiagnoser
    events,     \* events
    ppc,        \* the push thread, then the main thread in Stop
    torn,       \* events was appended to while the push thread copies or clears it
    stopping,   \* MonitorPusher::Stop has been called
    \* History:
    emitted,    \* launches whose event was appended to events
    carried,    \* events handed to SetMonitorInfo
    hot,        \* target -> its latest consecutive periods over the threshold
    missed,     \* target -> those since a scan last skipped or tried to record it
    burned,     \* target -> CPU time used since its timer was last 0, saturated
    late,       \* events appended between the copy of the list and its Reset
    revived     \* an append that ran into the clearing of the list has undone it

outcome == <<emitted, late, revived>>
sampling == <<alive, unsampled, sampled, hot>>
pusher == <<ppc, torn, stopping, carried>>
recorder == <<perfPid, dtor, pending, triggered, timers, missed, burned>>
vars == <<procs, wpc, cursor, recorder, sampling, files, running, events, outcome, pusher>>

Names == ToSet(Targets)
AtMost(n, limit) == IF n > limit THEN limit ELSE n

\* Samples over the threshold that fill overflow_duration_s_.
Needed == (OverflowDuration + ScanPeriod - 1) \div ScanPeriod

Init ==
    /\ procs = <<>>
    /\ wpc = "off"
    /\ cursor = 1
    /\ perfPid = NoPid
    /\ dtor = NoPid
    /\ pending = NoPid
    /\ triggered = {}
    /\ timers = [t \in Names |-> 0]
    /\ alive \in SUBSET Names
    /\ unsampled \in [Names -> 0..Threshold] /\ \A t \in Names \ alive : unsampled[t] = 0
    /\ sampled = [t \in Names |-> FALSE]
    /\ files = <<>>
    /\ running = FALSE
    /\ events = <<>>
    /\ ppc = "loop"
    /\ torn = FALSE
    /\ stopping = FALSE
    /\ emitted = <<>>
    /\ carried = <<>>
    /\ hot = [t \in Names |-> 0]
    /\ missed = [t \in Names |-> 0]
    /\ burned = [t \in Names |-> AtMost(unsampled[t], Needed * Threshold)]
    /\ late = {}
    /\ revived = FALSE

(***************************************************************************)
(* worker_loop: the test of running_ and the handling of a finished perf.  *)
(***************************************************************************)
HasData(p) == procs[p].data /\ p \in ToSet(files)
CleanupFiles == Rotated(files, LimitFileNum)

LoopEnds ==
    /\ wpc = "top"
    /\ ~running
    /\ wpc' = "ended"
    /\ ThreadEnds("perf")
    /\ UNCHANGED <<cursor, recorder, sampling, files, running, events, outcome, pusher>>

\* No perf is awaited, or the awaited one still runs.
NothingFinished ==
    /\ wpc = "top"
    /\ running
    /\ triggered = {} \/ IsRunning(perfPid)
    /\ wpc' = "scan"
    /\ cursor' = 1
    /\ UNCHANGED <<procs, recorder, sampling, files, running, events, outcome, pusher>>

\* The handling of a finished perf.  Mutants: pending_ev_ is cleared before it
\* is looked at; only runs with data clear the tags.
EmitsNothing == FALSE
EmitsEvent == pending # NoPid /\ HasData(pending)

FilesAfterFinish == IF pending # NoPid THEN CleanupFiles ELSE files

ClearsIfData == IF EmitsEvent THEN {} ELSE triggered
TagsAfterFinish == {}

PerfFinished ==
    /\ wpc = "top"
    /\ running
    /\ triggered # {}
    /\ ~IsRunning(perfPid)
    /\ IF perfPid = NoPid THEN procs' = procs ELSE Reap(perfPid)
    /\ perfPid' = NoPid
    /\ IF EmitsEvent
       THEN /\ events' = Append(events, pending)
            /\ emitted' = Append(emitted, pending)
            /\ torn' = (torn \/ ppc \in {"copying", "clearing"})
            /\ late' = IF ppc \in {"copying", "copied", "clearing"} THEN late \cup {pending}
                       ELSE late
            /\ revived' = revived
       ELSE UNCHANGED <<events, outcome, torn>>
    /\ files' = FilesAfterFinish
    /\ pending' = NoPid
    /\ triggered' = TagsAfterFinish
    /\ wpc' = "scan"
    /\ cursor' = 1
    /\ UNCHANGED <<dtor, timers, missed, burned, sampling, running,
                   ppc, stopping, carried>>

(***************************************************************************)
(* worker_loop: the scan of one target.                                    *)
(***************************************************************************)
Scanning(t) == wpc = "scan" /\ dtor = NoPid /\ cursor \in DOMAIN Targets /\ t = Targets[cursor]

\* read_pid_by_name finds a process of that name in /proc.
HasProcess(t) == t \in alive

\* A recorded target, or one without a process, is passed over: neither its
\* sample nor its timer is touched.  (Mutant: the iterator is advanced twice.)
SkipsTwo == cursor + 2
NextTarget == cursor + 1

ScanSkips(t) ==
    /\ Scanning(t)
    /\ t \in triggered \/ ~HasProcess(t)
    /\ cursor' = NextTarget
    /\ missed' = [missed EXCEPT ![t] = 0]
    /\ UNCHANGED <<procs, wpc, perfPid, dtor, pending, triggered, timers, burned,
                   sampling, files, running, events, outcome, pusher>>

\* The sample is refreshed by every scan that reads it.
Refresh(t) ==
    /\ unsampled' = [unsampled EXCEPT ![t] = 0]
    /\ sampled' = [sampled EXCEPT ![t] = @ \/ unsampled[t] > 0]
    /\ UNCHANGED <<alive, hot>>

\* Mutant: the timer counts from the first scan over the threshold on.
TimerRuns(t) ==
    IF sampled[t] /\ (timers[t] > 0 \/ unsampled[t] >= Threshold) THEN timers[t] + ScanPeriod
    ELSE timers[t]

\* The timer after this scan; read_proc_cpu_pct has no value (-1) for the
\* first sample.
TimerAfter(t) ==
    IF ~sampled[t] THEN timers[t]
    ELSE IF unsampled[t] >= Threshold THEN timers[t] + ScanPeriod
    ELSE 0

\* Mutant: the timer has to exceed the duration.
TriggersLate(t) == sampled[t] /\ TimerAfter(t) > OverflowDuration
Triggers(t) == sampled[t] /\ TimerAfter(t) >= OverflowDuration

MissedAfter(t) == IF hot[t] > 0 THEN AtMost(missed[t] + 1, Needed + 1) ELSE 0

ScanSamples(t) ==
    /\ Scanning(t)
    /\ t \notin triggered
    /\ HasProcess(t)
    /\ ~Triggers(t)
    /\ Refresh(t)
    /\ timers' = [timers EXCEPT ![t] = TimerAfter(t)]
    /\ burned' = IF TimerAfter(t) = 0 THEN [burned EXCEPT ![t] = 0] ELSE burned
    /\ missed' = [missed EXCEPT ![t] = MissedAfter(t)]
    /\ cursor' = cursor + 1
    /\ UNCHANGED <<procs, wpc, perfPid, dtor, pending, triggered,
                   files, running, events, outcome, pusher>>

\* triggered_tags_.insert(tag).  Mutant: the tag is not inserted.
TagsUnchanged(t) == triggered
TagsWith(t) == triggered \cup {t}

\* perf record is started: perf_runner_ and pending_ev_ are overwritten, and
\* the local runner, a copy of the same pid, is destroyed.  Or fork fails.
ScanTriggers(t) ==
    /\ Scanning(t)
    /\ t \notin triggered
    /\ HasProcess(t)
    /\ Triggers(t)
    /\ Refresh(t)
    /\ \/ /\ Len(procs) < MaxLaunches
          /\ Start("perf", t)
          /\ perfPid' = NextPid
          /\ dtor' = NextPid
          /\ triggered' = TagsWith(t)
          /\ pending' = NextPid
       \/ UNCHANGED <<procs, perfPid, dtor, triggered, pending>>
    /\ timers' = [timers EXCEPT ![t] = 0]
    /\ burned' = [burned EXCEPT ![t] = 0]
    /\ missed' = [missed EXCEPT ![t] = 0]
    /\ cursor' = cursor + 1
    /\ UNCHANGED <<wpc, files, running, events, outcome, pusher>>

DestroyLocal ==
    /\ dtor # NoPid
    /\ Stop(dtor)
    /\ dtor' = NoPid
    /\ UNCHANGED <<wpc, cursor, perfPid, pending, triggered, timers, missed, burned,
                   sampling, files, running, events, outcome, pusher>>

\* The end of the scan and the sleep: one period in which each live target uses
\* some CPU time.
Sleep(use) ==
    /\ wpc = "scan"
    /\ dtor = NoPid
    /\ cursor \notin DOMAIN Targets
    /\ wpc' = "top"
    /\ unsampled' = [t \in Names |->
                       IF t \in alive THEN AtMost(unsampled[t] + use[t], Threshold)
                       ELSE unsampled[t]]
    /\ hot' = [t \in Names |->
                 IF t \in alive /\ use[t] >= Threshold THEN AtMost(hot[t] + 1, Needed)
                 ELSE 0]
    /\ burned' = [t \in Names |->
                    IF t \in alive THEN AtMost(burned[t] + use[t], Needed * Threshold)
                    ELSE burned[t]]
    /\ UNCHANGED <<procs, cursor, perfPid, dtor, pending, triggered, timers, missed, alive, sampled, files, running, events,
                   outcome, pusher>>

(***************************************************************************)
(* The push thread (do_push, once per interval) and MonitorPusher::Stop.   *)
(***************************************************************************)
\* The first Collect starts the thread.
Collect ==
    /\ ppc = "loop"
    /\ ~stopping
    /\ running' = TRUE
    /\ wpc' = IF running THEN wpc ELSE "top"
    /\ ppc' = "collected"
    /\ UNCHANGED <<procs, cursor, recorder, sampling, files, events, outcome,
                   torn, stopping, carried>>

\* Mutant: only the latest event is copied.
LatestEvent == IF events = <<>> THEN <<>> ELSE <<Last(events)>>
CopiedEvents == events

\* The loop over events: between its first and last step the worker may
\* append, which may move the vector's elements away under the iterators.
CopyBegins ==
    /\ ppc = "collected"
    /\ ppc' = "copying"
    /\ carried' = carried \o CopiedEvents
    /\ UNCHANGED <<procs, wpc, cursor, recorder, sampling, files, running, events, outcome,
                   torn, stopping>>

CopyEnds ==
    /\ ppc = "copying"
    /\ ppc' = "copied"
    /\ torn' = FALSE
    /\ UNCHANGED <<procs, wpc, cursor, recorder, sampling, files, running, events, outcome,
                   stopping, carried>>

\* Undefined behaviour of the torn copy or clear: the process crashes.
RaceCrashes ==
    /\ ppc \in {"copying", "clearing"}
    /\ torn
    /\ ppc' = "crashed"
    /\ wpc' = "ended"
    /\ dtor' = NoPid
    /\ UNCHANGED <<procs, cursor, perfPid, pending, triggered, timers, missed, burned,
                   sampling, files, running, events, outcome, torn, stopping, carried>>

\* PerfDiagnoser::Reset: events.clear(), which an append may run into.  Then the
\* end of the list that is stored last is that of the one or of the other, so that
\* the old elements may stay.  Mutant: the events are always kept.
EventsKept == events
EventsCleared == <<>>

ResetBegins ==
    /\ ppc = "copied"
    /\ ppc' = "clearing"
    /\ UNCHANGED <<procs, wpc, cursor, recorder, sampling, files, running, events, outcome,
                   torn, stopping, carried>>

ResetEnds ==
    /\ ppc = "clearing"
    /\ ppc' = "call"
    /\ \/ events' = EventsCleared /\ revived' = revived
       \/ torn /\ events' = events /\ revived' = TRUE
    /\ torn' = FALSE
    /\ UNCHANGED <<procs, wpc, cursor, recorder, sampling, files, running, emitted, late,
                   stopping, carried>>

\* SetMonitorInfo, on the same thread and without a deadline, returns (or is not
\* called, without a stub).
CallReturns ==
    /\ ppc = "call"
    /\ ppc' = "loop"
    /\ UNCHANGED <<procs, wpc, cursor, recorder, sampling, files, running, events, outcome,
                   torn, stopping, carried>>

RequestStop ==
    /\ ~stopping
    /\ ppc # "crashed"
    /\ stopping' = TRUE
    /\ UNCHANGED <<procs, wpc, cursor, recorder, sampling, files, running, events, outcome,
                   ppc, torn, carried>>

\* PerfDiagnoser::Stop, after push_loop's thread has been joined.  (Mutant:
\* running_ is left set.)
RunningKept == running
RunningCleared == FALSE

StopBegins ==
    /\ ppc = "loop"
    /\ stopping
    /\ ppc' = "joining"
    /\ running' = RunningCleared
    /\ UNCHANGED <<procs, wpc, cursor, recorder, sampling, files, events, outcome,
                   torn, stopping, carried>>

StopCompletes ==
    /\ ppc = "joining"
    /\ wpc \in {"off", "ended"}
    /\ ppc' = "stopped"
    /\ Stop(perfPid)
    /\ perfPid' = NoPid
    /\ events' = EventsCleared
    /\ triggered' = {}
    /\ UNCHANGED <<wpc, cursor, dtor, pending, timers, missed, burned, sampling,
                   files, running, outcome, torn, stopping, carried>>

(***************************************************************************)
(* The target processes, and perf itself, which opens its own output file. *)
(***************************************************************************)
\* A process of a target's name appears, with a pid never sampled before.
TargetStarts(t) ==
    /\ t \notin alive
    /\ alive' = alive \cup {t}
    /\ UNCHANGED <<procs, wpc, cursor, recorder, unsampled, sampled, hot, files, running,
                   events, outcome, pusher>>

\* The sample stored under the pid of a process that has gone is never read.
TargetExits(t) ==
    /\ t \in alive
    /\ alive' = alive \ {t}
    /\ unsampled' = [unsampled EXCEPT ![t] = 0]
    /\ sampled' = [sampled EXCEPT ![t] = FALSE]
    /\ hot' = [hot EXCEPT ![t] = 0]
    /\ missed' = [missed EXCEPT ![t] = 0]
    /\ UNCHANGED <<procs, wpc, cursor, perfPid, dtor, pending, triggered, timers, burned,
                   files, running, events, outcome, pusher>>

PerfUnchanged ==
    UNCHANGED <<wpc, cursor, recorder, sampling, running, events, outcome, pusher>>

PerfStarts(p) == (Exec(p) \/ ExecFails(p)) /\ files' = files /\ PerfUnchanged

PerfOpens(p) ==
    /\ procs[p].st = "running"
    /\ ~procs[p].data
    /\ p \notin ToSet(files)
    /\ files' = Created(files, p)
    /\ procs' = procs
    /\ PerfUnchanged

PerfWrites(p) ==
    /\ p \in ToSet(files)
    /\ WriteOutput(p)
    /\ files' = Written(files, p)
    /\ PerfUnchanged

PerfEnds(p) == (Complete(p) \/ DieOfTerm(p)) /\ files' = files /\ PerfUnchanged

WorkerLoop ==
    \/ LoopEnds \/ NothingFinished \/ PerfFinished \/ DestroyLocal
    \/ \E t \in Names : ScanSkips(t) \/ ScanSamples(t) \/ ScanTriggers(t)
    \/ \E use \in [Names -> Usage] : Sleep(use)

PushThread ==
    \/ Collect \/ CopyBegins \/ CopyEnds \/ RaceCrashes \/ ResetBegins \/ ResetEnds
    \/ CallReturns \/ StopBegins \/ StopCompletes

Next ==
    \/ WorkerLoop
    \/ PushThread
    \/ RequestStop
    \/ \E t \in Names : TargetStarts(t) \/ TargetExits(t)
    \/ \E p \in Pids : PerfStarts(p) \/ PerfOpens(p) \/ PerfWrites(p) \/ PerfEnds(p)

Spec == Init /\ [][Next]_vars

\* Both threads are scheduled, the push thread except inside its call, of which
\* nothing is assumed; and a started perf execs and ends: it records for the five
\* seconds of its `sleep 5`.
FairSpec ==
    /\ Spec
    /\ WF_vars(WorkerLoop)
    /\ WF_vars(ppc # "call" /\ PushThread)
    /\ \A p \in 1..MaxLaunches : WF_vars(p \in Pids /\ (PerfStarts(p) \/ PerfEnds(p)))

(***************************************************************************)
(* Properties.                                                             *)
(***************************************************************************)
\* Type correctness; the scan stays within target_processes_, and the pids
\* that the diagnoser holds are those of perf processes it has started.
TypeOK ==
    /\ procs \in Seq([st : ChildStates, term : BOOLEAN, data : BOOLEAN,
                      by : {"perf"}, of : Names])
    /\ Len(procs) <= MaxLaunches
    /\ wpc \in {"off", "top", "scan", "ended"}
    /\ cursor \in 1..(Len(Targets) + 1)
    /\ {perfPid, dtor, pending} \subseteq Pids \cup {NoPid}
    /\ triggered \subseteq Names
    /\ timers \in [Names -> Nat]
    /\ alive \subseteq Names
    /\ unsampled \in [Names -> 0..Threshold]
    /\ sampled \in [Names -> BOOLEAN]
    /\ {ToSet(files), ToSet(events), ToSet(emitted), ToSet(carried)} \subseteq SUBSET Pids
    /\ {running, torn, stopping, revived} \subseteq BOOLEAN
    /\ ppc \in {"loop", "collected", "copying", "copied", "clearing", "call", "crashed",
                "joining", "stopped"}

InStop == ppc \in {"joining", "stopped", "crashed"}

\* With one target, the shipped configuration, at most one perf runs, and a
\* perf that has not been waited for is the one perf_runner_ polls: none is
\* left a zombie.
PerfStaysPolled ==
    ~InStop => \A p \in Pids : procs[p].st # "reaped" => p = perfPid

\* The header on pending_ev_: "populated when perf starts, emitted when perf
\* finishes".  A perf that is no longer pending and left data was emitted.
FinishedIsEmitted ==
    \A p \in Pids \ {pending} : Ended(p) /\ HasData(p) => p \in ToSet(emitted)

\* Each recording is emitted and carried at most once, and only once it has
\* ended with data, however copying and appending interleave; only an append that
\* runs into the clearing of the list may bring events back to be carried again.
CarriedOnce ==
    /\ IsInjective(emitted)
    /\ revived \/ IsInjective(carried)
    /\ ToSet(carried) \subseteq ToSet(emitted)
    /\ \A p \in ToSet(emitted) : procs[p].data /\ Ended(p)

\* No overload goes unnoticed: a process over the threshold in every period
\* is recorded (or fork has failed) at the latest one scan after its samples
\* fill OverflowDuration, the first sample of a process being lost.
OverloadIsNoticed == \A t \in Names : missed[t] <= Needed

\* An event that is emitted is carried by a push: one that was appended before
\* the list is copied never misses it.  (One appended between the copy and
\* Reset may.)
LossNeedsRace == ~InStop => ToSet(emitted) \subseteq ToSet(carried \o events) \cup late

\* perf is started only after the target has used, since its timer was last 0,
\* the CPU time of OverflowDuration at the threshold: whatever periods scans have
\* skipped, and whichever processes of the name came and went.
TriggerNeedsLoad ==
    [][\A t \in triggered' \ triggered : burned[t] >= Needed * Threshold]_vars

\* A target is not blocked for ever: once perf has ended its tag is cleared
\* and it can be recorded again.
TagsAreCleared == triggered # {} ~> (triggered = {} \/ ppc = "crashed")

\* The call without deadline may hang; then nothing more is promised of Stop.
Hangs == <>[](ppc = "call")

\* MonitorPusher::Stop returns, whatever either thread was doing: nothing but a
\* hanging call keeps push_loop from ending, and then the worker thread notices
\* running_ and ends too.
StopReturns == Hangs \/ (stopping ~> ppc \in {"stopped", "crashed"})
=============================================================================
