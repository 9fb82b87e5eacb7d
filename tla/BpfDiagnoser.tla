---------------------------- MODULE BpfDiagnoser ----------------------------
(***************************************************************************)
(* The worker's Layer 3: BpfDiagnoser keeps one BCC tool per configured    *)
(* entry running, in rounds, and reports the output file of each finished  *)
(* tool with the next push.                                                *)
(*                                                                         *)
(* All its code runs on one thread at a time: the main thread launches the *)
(* first round in MonitorPusher::Run, then push_loop's thread calls        *)
(* Collect, copies the events and calls Reset, once per interval, until    *)
(* MonitorPusher::Stop.  The children run concurrently with it.            *)
(*                                                                         *)
(* CmdRunner declares a destructor, so it has no move constructor and no   *)
(* move assignment: each std::move of a runner copies its pid, and each    *)
(* copy's destructor calls Stop.  The destructors a statement runs are     *)
(* queued in dtors and run before the thread goes on.                      *)
(***************************************************************************)
EXTENDS CmdRunner, OutputFiles, FiniteSets

CONSTANTS
    Configs,       \* the type of each configured entry, offcpu_configs_ first
    LimitFileNum,  \* limit_file_num_
    MaxLaunches,   \* bound: tools launched in a behaviour
    MaxForkFails   \* bound: failed forks in a behaviour

Types == {"offcpu", "profile"}

ASSUME BpfAssumption ==
    /\ Configs \in Seq(Types)
    /\ {LimitFileNum, MaxLaunches, MaxForkFails} \subseteq Nat
    /\ Len(Configs) <= MaxLaunches

VARIABLES
    thread,    \* "main" in Run, "loop" in push_loop
    phase,     \* where that thread is
    cursor,    \* next entry to launch, or next element of runners_ to poll
    runners,   \* runners_: the pids of its elements
    capacity,  \* capacity of the vector runners_
    dtors,     \* pids whose CmdRunner copies are about to be destroyed
    events,    \* events: the pids whose events wait for the push
    files,     \* type -> its output files in output_dir_
    stopping,  \* MonitorPusher::Stop has cleared running_
    forkFails,
    reported   \* history: events handed to SetMonitorInfo

vars == <<procs, thread, phase, cursor, runners, capacity, dtors, events,
          files, stopping, forkFails, reported>>

Entries == DOMAIN Configs
TypeOf(p) == Configs[procs[p].of]

Init ==
    /\ procs = <<>>
    /\ thread = "main"
    /\ phase = "launch"
    /\ cursor = 1
    /\ runners = <<>>
    /\ capacity = 0
    /\ dtors = <<>>
    /\ events = <<>>
    /\ files = [type \in Types |-> <<>>]
    /\ stopping = FALSE
    /\ forkFails = 0
    /\ reported = <<>>

At(ph) == phase = ph /\ dtors = <<>>

\* One queued destructor: CmdRunner::~CmdRunner.
Destroy ==
    /\ dtors # <<>>
    /\ Stop(Head(dtors))
    /\ dtors' = Tail(dtors)
    /\ UNCHANGED <<thread, phase, cursor, runners, capacity, events, files,
                   stopping, forkFails, reported>>

(***************************************************************************)
(* launch_offcpu, launch_profile: fork the tool and push_back its entry.   *)
(* A push_back into a full vector moves, that is copies, the old elements  *)
(* and destroys them; then the locals `entry` and `runner` are destroyed.  *)
(***************************************************************************)
Launch ==
    /\ At("launch")
    /\ cursor \in Entries
    /\ Len(procs) < MaxLaunches
    /\ Start(thread, cursor)
    /\ runners' = Append(runners, NextPid)
    /\ IF Len(runners) < capacity
       THEN /\ capacity' = capacity
            /\ dtors' = <<NextPid, NextPid>>
       ELSE /\ capacity' = IF capacity = 0 THEN 1 ELSE 2 * capacity
            /\ dtors' = runners \o <<NextPid, NextPid>>
    /\ cursor' = cursor + 1
    /\ UNCHANGED <<thread, phase, events, files, stopping, forkFails, reported>>

\* fork fails: Start returns false and the entry is skipped in this round.
LaunchFails ==
    /\ At("launch")
    /\ cursor \in Entries
    /\ forkFails < MaxForkFails
    /\ forkFails' = forkFails + 1
    /\ cursor' = cursor + 1
    /\ UNCHANGED <<procs, thread, phase, runners, capacity, dtors, events, files,
                   stopping, reported>>

\* The end of Run starts push_loop; the end of Collect goes on with do_push.
Launched ==
    /\ At("launch")
    /\ cursor \notin Entries
    /\ thread' = "loop"
    /\ phase' = IF thread = "main" THEN "loop" ELSE "push"
    /\ cursor' = 1
    /\ UNCHANGED <<procs, runners, capacity, dtors, events, files, stopping,
                   forkFails, reported>>

(***************************************************************************)
(* push_loop and Collect.                                                  *)
(***************************************************************************)
\* The test of running_ before each do_push.
LoopDone == stopping

\* Where Collect's iterator starts.  Mutant: past the first element.
SecondRunner == 2
FirstRunner == 1

LoopTest ==
    /\ At("loop")
    /\ phase' = IF LoopDone THEN "joined" ELSE "reap"
    /\ IF LoopDone THEN ThreadEnds("loop") ELSE procs' = procs
    /\ cursor' = FirstRunner
    /\ UNCHANGED <<thread, runners, capacity, dtors, events, files, stopping,
                   forkFails, reported>>

PollRunning ==
    /\ At("reap")
    /\ cursor \in DOMAIN runners
    /\ IsRunning(runners[cursor])
    /\ cursor' = cursor + 1
    /\ UNCHANGED <<procs, thread, phase, runners, capacity, dtors, events, files,
                   stopping, forkFails, reported>>

\* cleanup_files(type): the tool's type is the prefix of its file's name.
CleanupFiles(type) == [files EXCEPT ![type] = Rotated(@, LimitFileNum)]

FileExists(p) == p \in ToSet(files[TypeOf(p)])
HasData(p) == procs[p].data /\ FileExists(p)

\* runners_.erase(it).  Mutant: the last element goes, whichever has ended.
RunnersPopped == Front(runners)
RunnersErased == RemoveAt(runners, cursor)

\* An ended tool: wait for it, emit its event if its file has content, and
\* erase its entry.  erase copies the later elements down and destroys the
\* last slot, whose pid is that of a live entry unless it was the erased one.
PollEnded ==
    LET p == runners[cursor]
    IN  /\ At("reap")
        /\ cursor \in DOMAIN runners
        /\ ~IsRunning(p)
        /\ Reap(p)
        /\ IF HasData(p)
           THEN events' = Append(events, p) /\ files' = CleanupFiles(TypeOf(p))
           ELSE UNCHANGED <<events, files>>
        /\ runners' = RunnersErased
        /\ dtors' = IF cursor < Len(runners) THEN <<Last(runners)>> ELSE <<>>
        /\ UNCHANGED <<thread, phase, cursor, capacity, stopping, forkFails, reported>>

\* The next round starts once every tool has ended (and, in the model, while
\* the bound on launches allows a whole round).  Mutants: without waiting for
\* the tools; never.
LaunchesLeft == Len(procs) + Len(Configs) <= MaxLaunches
RoundAnyTime == Configs # <<>> /\ LaunchesLeft
RoundNever == FALSE
RoundIsDue == runners = <<>> /\ Configs # <<>> /\ LaunchesLeft

\* The end of Collect.
Polled ==
    /\ At("reap")
    /\ cursor \notin DOMAIN runners
    /\ phase' = IF RoundIsDue THEN "launch" ELSE "push"
    /\ cursor' = 1
    /\ UNCHANGED <<procs, thread, runners, capacity, dtors, events, files, stopping,
                   forkFails, reported>>

\* BpfDiagnoser::Reset.  Mutant: the events are kept.
EventsKept == events
Reset == <<>>

\* do_push copies the events into the request and calls Reset.
Push ==
    /\ At("push")
    /\ reported' = reported \o events
    /\ events' = Reset
    /\ phase' = "call"
    /\ UNCHANGED <<procs, thread, cursor, runners, capacity, dtors, files, stopping,
                   forkFails>>

\* SetMonitorInfo, on the same thread and without a deadline, returns (or is not
\* called, without a stub), and push_loop sleeps until its next test.
CallReturns ==
    /\ At("call")
    /\ phase' = "loop"
    /\ UNCHANGED <<procs, thread, cursor, runners, capacity, dtors, events, files,
                   stopping, forkFails, reported>>

(***************************************************************************)
(* Shutdown: MonitorPusher::Stop from the main thread, then the            *)
(* destructors of runners_ and the end of the process.                     *)
(***************************************************************************)
RequestStop ==
    /\ thread = "loop"
    /\ ~stopping
    /\ stopping' = TRUE
    /\ UNCHANGED <<procs, thread, phase, cursor, runners, capacity, dtors, events,
                   files, forkFails, reported>>

Release ==
    /\ At("joined")
    /\ phase' = "release"
    /\ events' = Reset
    /\ dtors' = runners
    /\ runners' = <<>>
    /\ UNCHANGED <<procs, thread, cursor, capacity, files, stopping, forkFails, reported>>

ProcessEnds ==
    /\ At("release")
    /\ phase' = "exited"
    /\ ThreadEnds("main")
    /\ UNCHANGED <<thread, cursor, runners, capacity, dtors, events, files, stopping,
                   forkFails, reported>>

(***************************************************************************)
(* The tools.  The child creates its output file before execv; the tool    *)
(* writes to it while it runs.                                             *)
(***************************************************************************)
ToolUnchanged ==
    UNCHANGED <<thread, phase, cursor, runners, capacity, dtors, events, stopping,
                forkFails, reported>>

ToolStarts(p) ==
    /\ Exec(p) \/ ExecFails(p)
    /\ files' = [files EXCEPT ![TypeOf(p)] = Created(@, p)]
    /\ ToolUnchanged

ToolWrites(p) ==
    /\ WriteOutput(p)
    /\ files' = [files EXCEPT ![TypeOf(p)] = Written(@, p)]
    /\ ToolUnchanged

ToolEnds(p) ==
    /\ Complete(p) \/ DieOfTerm(p)
    /\ files' = files
    /\ ToolUnchanged

Worker ==
    \/ Destroy \/ Launch \/ LaunchFails \/ Launched \/ LoopTest
    \/ PollRunning \/ PollEnded \/ Polled \/ Push \/ CallReturns
    \/ Release \/ ProcessEnds

Next ==
    \/ Worker
    \/ RequestStop
    \/ \E p \in Pids : ToolStarts(p) \/ ToolWrites(p) \/ ToolEnds(p)

Spec == Init /\ [][Next]_vars

\* The worker's thread is scheduled, except inside the call, of which nothing is
\* assumed.  Nor is anything assumed of the tools: a profile is run without a
\* duration, and may never end.
FairSpec == Spec /\ WF_vars(phase # "call" /\ Worker)

(***************************************************************************)
(* Properties.                                                             *)
(***************************************************************************)
\* Type correctness; runners_ never outgrows the configured entries, and the
\* pids that the diagnoser holds are those of children it has started.
TypeOK ==
    /\ procs \in Seq([st : ChildStates, term : BOOLEAN, data : BOOLEAN,
                      by : {"main", "loop"}, of : Entries])
    /\ Len(procs) <= MaxLaunches
    /\ thread \in {"main", "loop"}
    /\ phase \in {"launch", "loop", "reap", "push", "call", "joined", "release", "exited"}
    /\ cursor \in 1..(Len(Configs) + 1)
    /\ {ToSet(runners), ToSet(dtors), ToSet(events), ToSet(reported)} \subseteq SUBSET Pids
    /\ \A type \in Types : /\ ToSet(files[type]) \subseteq Pids /\ IsInjective(files[type])
                           /\ \A p \in ToSet(files[type]) : TypeOf(p) = type
    /\ Len(runners) <= capacity
    /\ stopping \in BOOLEAN
    /\ forkFails \in 0..MaxForkFails

\* Rounds never overlap: however the tools end and whichever of them the
\* copies' destructors signal or reap, no entry ever has two tools at once.
OneToolPerEntry ==
    \A p, q \in Pids :
        IsRunning(p) /\ IsRunning(q) /\ procs[p].of = procs[q].of => p = q

\* No child is forgotten: until shutdown each child that has not been waited
\* for is still polled through runners_, so no zombie is left behind although
\* pids are copied and destructors reap behind Collect's back.
ChildrenStayPolled ==
    phase \notin {"release", "exited"} =>
        \A p \in Pids : procs[p].st # "reaped" => p \in ToSet(runners)

\* A tool is reported at most once, never before it has ended, and with the
\* content it had then.
ReportedOnce ==
    /\ IsInjective(reported \o events)
    /\ \A p \in ToSet(reported \o events) : procs[p].st = "reaped" /\ procs[p].data

\* Rotation does not race with reporting: the file of an event that the next
\* push will carry still exists, if the entries of its type fit in the limit.
EntriesOfType(type) == {i \in Entries : Configs[i] = type}
ReportedFileExists ==
    \A p \in ToSet(events) :
        Cardinality(EntriesOfType(TypeOf(p))) <= LimitFileNum => FileExists(p)

\* Rotation bounds the files that have been reported.
ReportedFilesBounded ==
    LimitFileNum > 0 =>
        \A type \in Types :
            Cardinality(ToSet(files[type]) \cap ToSet(reported \o events)) <= LimitFileNum

\* The call without deadline may hang; then nothing more is promised.
Hangs == <>[](phase = "call")

\* A tool that never ends, for instance one that runs without a duration.
NeverEnds == \E p \in 1..MaxLaunches : <>[](p \in Pids /\ ~Ended(p))

\* Every ended tool of an entry is eventually waited for, as long as the worker
\* runs, whatever the other tools do, unless a call hangs.
HasZombie(i) == \E p \in Pids : procs[p].of = i /\ procs[p].st = "zombie"
ZombiesAreReaped ==
    Hangs \/ \A i \in Entries : HasZombie(i) ~> (~HasZombie(i) \/ stopping)

\* Rounds go on, also after forks that fail, until shutdown: only a call that
\* hangs or a tool that never ends keeps the next one from starting.
RoundsGoOn ==
    \/ Hangs
    \/ NeverEnds
    \/ \A n \in 0..(MaxLaunches - Len(Configs)) :
          Len(procs) = n ~> (Len(procs) > n \/ stopping)

(***************************************************************************)
(* Statements of the source that the code does not keep.                   *)
(***************************************************************************)
\* Reset's comment: the tools are kept running so that they complete their
\* collection interval before Collect reaps them.
ToolsComplete ==
    ~stopping => \A p \in Pids \ ToSet(runners) : ~procs[p].term

\* CmdRunner's comment: a child dies when its parent dies.
ChildrenDieWithParent ==
    phase = "exited" => \A p \in Pids : procs[p].st = "running" => procs[p].term
=============================================================================
