# PerfMonitor: TLA+ models, checks and proofs

PerfMonitor is a host monitor in two processes. A **worker** on every host
collects metrics from `/proc` (layer 1), eBPF process and TCP events (layer 2),
runs BCC tools (layer 3) and `perf record` (layer 4), and pushes a snapshot to
the **manager** over gRPC once per interval. The manager keeps the latest
snapshot of every host, expires silent ones, and serves them over gRPC and HTTP.

This directory holds models of the parts of that system in which something can
go wrong between steps: threads, child processes, destructors, files and calls.

## Inventory

| Component | State | Operations | Interacts with |
|---|---|---|---|
| HostManager (`manager/src/host_manager.cpp`) | `hosts_`: hostname to snapshot, under a mutex | Update, Get, GetAll, RemoveExpired, ComputeHealth | called by gRPC handlers, the main loop and the exporter |
| GrpcServer (`grpc_server.cpp`) | none of its own | SetMonitorInfo, GetMonitorInfo | runs handlers concurrently; writes and reads HostManager |
| Manager main | `g_running` | sweep every 10 s, exit on a signal | RemoveExpired, exporter.Stop |
| MetricsExporter (`metrics_exporter.cpp`) | socket, `running_` | `/metrics`, `/api/events`, `/api/flamegraph`, `/healthz` | GetAll; runs shell pipelines |
| CmdRunner (`cmd_runner.cpp`) | `pid_` | Start, Stop (also the destructor), IsRunning | kernel: fork, exec, signals, waitpid |
| BpfDiagnoser (`bpf_diagnoser.cpp`) | `runners_`, configs, `events`, files | launch, Collect, Reset, cleanup_files | CmdRunner; called by MonitorPusher |
| PerfDiagnoser (`perf_diagnoser.cpp`) | samples, timers, tags, `pending_ev_`, `perf_runner_`, `events` | worker_loop (own thread), Collect, Reset, Stop | CmdRunner; `events` shared, unlocked, with the push thread |
| MonitorPusher, worker main (`monitor_pusher.cpp`, `main.cpp`) | `stub`, `running_`, `g_running` | Run, push_loop, do_push, Stop | all collectors; the manager over gRPC |
| ObserveCollector (`observe_collector.cpp`) | skeletons, perf buffers, two event lists | Init, Collect, callbacks, Reset, destructor | eBPF programs through per-CPU rings; do_push |
| `process_trace.bpf.c` | `processes` | tracepoints exec and exit | rings |
| `tcp_flow.bpf.c` | `flow_map`, `connect_start` | kprobes on send, receive, set_state, done | rings; the kernel's TCP on every CPU |
| Metric monitors (`monitor/*.cpp`) | previous samples | Init, Collect | `/proc`; do_push |
| ConfigManager, utils, proto | configuration | Load | Run |

What is hard about it:

* *Manager.* Handlers read the clock before they take the mutex, so snapshots of
  one host may be applied out of order and race with expiry. Correct means: the
  event list is exactly the last ones applied, no recent host is dropped, no
  reader gets stale data.
* *Exporter.* One thread with blocking calls serves clients that come and go.
  Correct means: everyone gets the answer to his own request, from the table as it
  is when he connects or later; a client that sends, or leaves at any point, does
  not hold up the others or Stop. (One that stays silent does.)
* *Tools.* `CmdRunner` has a destructor and hence no move operations; every
  `std::move` of a runner leaves a second owner of the pid, whose destructor
  signals the tool and may reap it. Tools end at any time. Correct means:
  rounds do not overlap, every child is waited for, each output is reported once,
  while its file exists, and files are bounded.
* *Perf.* Two threads share a vector; one runner and one pending event serve all
  targets; CPU usage is a difference of samples that may be old. Correct means:
  overload is noticed, each recording is emitted and carried once, Stop returns.
* *Observe and push.* Rings fill while they are read, an Init that fails half-way
  is ignored, and a blocking call without deadline or retry goes to a process that
  comes and goes. Correct means: a record is applied at most once, those of a ring
  in order, none disappears except in a full ring or with a failed call.
* *Flows.* Probes of several CPUs share map elements without atomic additions, a
  deleted element is reused while a probe holds its address, and a key contains the
  *current* process, which need not be the connection's. Correct means: exact
  reports where nothing overlaps, bounded damage where something does.
* *Metrics.* Rates are differences of unsigned counters that wrap, restart, or are
  missing from a sample. Correct means: a rate is what was done in the interval.

`PROJECT.json` lists each of these at its line, under `hazards`.

## Modules

| Module | Models |
|---|---|
| `HostManager` | HostManager, GrpcServer, the manager's main loop |
| `MetricsExporter` | the manager's HTTP loop, its clients and Stop |
| `CmdRunner` | the fork/exec wrapper and the life of a child |
| `OutputFiles` | the output directory ordered by modification time, and its rotation |
| `BpfDiagnoser` | layer 3, on top of the two above |
| `PerfDiagnoser` | layer 4, on top of the same two |
| `ObserveCollector` | layer 2: `process_trace`, the rings, ObserveCollector |
| `MonitorPusher` | extends it with worker main, push loop, and the call to a manager that may fail |
| `EventFeed` | abstract specification of the path of a record, which `MonitorPusher` implements |
| `TcpFlow` | the kprobes of `tcp_flow` over their maps |
| `MetricMonitors` | layer 1: MetricCollector and its monitors |
| `MC*` | instances for TLC |
| `*Proofs` | theorems about the module of that name and their proofs |
| `SequenceLemmas` | facts about sequences without duplicates, their elements, prefixes and suffixes that the proofs share |

**HostManager.** `hosts` and `calls` are functions over the hosts known and the
handlers in flight. `SetMonitorInfo(s, ...)` is the handler up to the mutex
(lines 12 to 60 of `grpc_server.cpp`); `Update(s)` is the critical section and
the return. `MainLoop` is one turn of the loop in `main`: sleep over, sweep, test
of `g_running`. `Tick` is the clock; it waits for handlers delayed by `MaxStall`
and a main loop late by `SweepLag`. These are the only assumptions on scheduling,
and they are explicit constants. `applied` and `lastHeard` are
history variables which no action reads. Metrics are integers; the sums over
disks and interfaces are taken as already made; a diagnose event is its number.
The event counters are left out: Update only overwrites them.

**MetricsExporter.** `spc` is the place of `serve_loop`; a client connects, sends
and leaves in steps of its own, so that it may leave before or after it is
accepted, with or without having sent. A request is the branch it takes (an
incomplete one is served as `/metrics`, as in the code), a response is that
branch, its status and the number of updates of the table it shows. Updates are
those of `HostManager`, whose GetAll is one critical section. `NoConnection` is
the timeout of `select` and a failed `accept`. The `read` waits until the client
sends or leaves, and the `write` may wait for one that stays and does not take its
answer; neither has a timeout. Writing to a client that has left
either succeeds or ends the process with SIGPIPE, which nothing ignores. The text
formats are left out.

**CmdRunner, OutputFiles.** `procs[p]` is the child with pid `p`. A SIGTERM
before `execv` is absorbed by the handler inherited from the worker, one after it
kills. `Stop` sends the signal and makes one `waitpid(WNOHANG)`, which may or may
not find the child gone. Pids are not reused, and a tool is one process that
starts no others. The files of one type are a sequence ordered by modification
time. A file is named by the pid of its writer, and no two are last written in one
second: the resolution of file names and of `st_mtime` is left out.

**BpfDiagnoser.** `phase`, `cursor` and `thread` say where the calling thread is.
`runners` are the pids in `runners_`; `dtors` are the copies about to be
destroyed, in the order in which the statement destroys them: after `push_back`
the old elements if the vector grew, then `entry`, then `runner`; after `erase`
the vacated last slot. `Destroy` runs one of them. The end of a thread sends the
death signal to the children *it* forked, as `PR_SET_PDEATHSIG` does: those of the
first round belong to the main thread. `Push` is the copy of the events and
`Reset`; then the thread is in the call, and `CallReturns` takes it back to the
loop, if the call returns.

**PerfDiagnoser.** `wpc` is `worker_loop`, `ppc` is the push thread and then
`Stop`. What a process has used since its stored sample is `unsampled`,
saturated at the amount that reaches the threshold; a reading is "over" if
`unsampled >= Threshold`, because the code divides by the last period only. The
copy of `events` in `do_push` and `events.clear()` in `Reset` have a begin and an
end each, and an append between them makes the copy or the clear undefined. It may
crash (`RaceCrashes`). Otherwise the copy has the elements that were there when it
began, and the clear either wins, with the appended event gone too, or is undone by
the append, which stores its end of the list, or a reallocated list, last: then all
elements are there again (`revived`). Copies of freed or half-written elements
without a crash are not modelled. After `Reset` the thread is in the call, and
returns from it or not. A process may have used CPU time before the first scan. A
target has one process; a name may
be listed twice, and the theorem about overloads says where that matters.

**ObserveCollector, MonitorPusher, EventFeed.** A record is its number, in the
order of output; `origin` says from which program and CPU. `loaded` counts the
stages of `Init` that have succeeded: two programs attached, then the rings of
each; a build without eBPF stays at 0. A record put into a full ring or output
before its rings exist is lost at once. `Collect` polls the process rings, then
the flow rings; `ready` are those that epoll reported, each read in a step of its
own while the programs go on. `CopyAndReset` is the rest of `do_push` up to the
call: it runs on the thread that reads the rings, and touches nothing shared
except the perf events, which the previous module treats. `Deliver`, `Apply`,
`CallReturns`, `CallFails` split the unary call; `CallFails` is possible before,
during and after the handler, and a call may also hang for ever. `EventFeed` says
what this amounts to: records are applied at most once, acknowledged after they
were applied, and always in exactly one of three places. The refinement mapping
takes as waiting what is in the rings, the lists and the request. (The checks of
`sz` in the callbacks cannot fail for records of these programs.)

**TcpFlow.** `cpu[c]` is the probe that runs on `c`: every helper call, and the
load and the store of an addition, is a step. `flow_map` is the array of a
preallocated hash: elements are reused as soon as they are deleted, and probes
hold element numbers, not keys. A key is a process and a local port. The port is 0
at SYN_SENT unless the program has bound the socket, and again after the end. The
actions under "the kernel's TCP" are the environment: any process that shares the
socket may send, `tcp_done` runs in the context of whatever process it interrupts,
a close with unread data has no `tcp_done`, and a send on an ended connection is
still probed. Probes of state changes exclude each other per connection (socket
lock), sends do not.

**MetricMonitors.** `pc` is the next file to be read; devices work, vanish and
come back between any two reads, and each read may fail. `Wide` stands for 2^64
and `Narrow` for the 2^32 of `io_ticks`; `Starts` is what the counters may have
reached before the worker runs. `lo` stays in its map and is not
reported, loop and ram disks are not even kept. A percentage is kept as the two
numbers it is the quotient of. Load and memory figures are values of the last
read, of an older one, or zero.

## Runs

| Run | Expected | Shows |
|---|---|---|
| `manager_table` | pass | `TypeOK`, `KeepsLastEvents`, `ServesFreshData`, `RecentReporterKnown`, `RegressionBounded`: two handlers, batches larger than the limit, handlers slower than a second, a late main loop, several expiries |
| `exporter` | pass | `TypeOK`, `OwnAnswer`, `ScrapeIsCurrent`; `EveryClientServed`, `StopJoins`, unless one client holds the thread up for ever |
| `bpf_rounds` | pass | `TypeOK`, `OneToolPerEntry`, `ChildrenStayPolled`, `ReportedOnce`, `ReportedFileExists`, `ReportedFilesBounded`; `ZombiesAreReaped`, unless a call hangs, and `RoundsGoOn`, unless moreover a tool never ends |
| `bpf_complete` | violation | the destructors of runner copies, those of a vector that grows or a launch's locals, kill tools that were just started |
| `bpf_orphan` | violation | a child before `execv` survives its parent |
| `perf_one` | pass | `TypeOK`, `PerfStaysPolled`, `FinishedIsEmitted`, `CarriedOnce`, `OverloadIsNoticed`, `LossNeedsRace`; `TriggerNeedsLoad`, `TagsAreCleared`, and `StopReturns` unless a call hangs; with one target |
| `perf_two` | violation | with two targets a recording can be forgotten |
| `push` | pass | `TypeOK`, `AppliedAtMostOnce`, `AckedInOrder`; `ImplementsFeed`; `FateDecided`, `SignalEndsWorker`, unless a call hangs |
| `push_retry` | violation | the announced retry of a first connection that timed out does not exist |
| `tcp_flow` | pass | `TypeOK`, `SerialReportsExact`, `CountedIsKept`, `LeakNeedsForeignEnd` |
| `flow_latency` | violation | a latency is measured from another connection's SYN_SENT |
| `monitors` | pass | `TypeOK`; `RateIsExact`, `PctIsOfInterval` |

Violations are statements of a comment, message or document that the code does
not keep; `findings` in `PROJECT.json` quotes them. Some passing properties name
the exception under which such a statement fails: `LossNeedsRace` that an event
appended between the copy of the list and `Reset` is cleared unsent
(`monitor_pusher.cpp:218`), `CarriedOnce` that an append which runs into that clear
may bring back events that were carried, `TriggerNeedsLoad` that the load behind a recording
need not be consecutive, as the header says, because a skipped target's sample
goes stale (`perf_diagnoser.cpp:157`), `ReportedFilesBounded` that files without
output, which are not reported, are not rotated either (`bpf_diagnoser.cpp:105`),
`RateIsExact` that `io_ticks` wraps in 32 bits (`disk_monitor.cpp:74`). Three more
need no model: rates named mbps are per push interval, by default ten seconds; the counters whose HELP text says "(cumulative)" are overwritten by
every push (`host_manager.cpp:13`), and `/api/events`, documented as the most
recent 20 events, returns up to 20 for every host (`metrics_exporter.cpp:69`).

Definitions commented as *mutants* are wrong variants of the definition that
follows them: a dropped clamp, an off-by-one, a missing reset. No specification
uses them; `mutants` in `PROJECT.json` says which property each one violates when
it replaces the right definition.

Bounds. *Manager*: two handlers are enough for one to overtake the other; the
clock runs past two expiries; a batch may exceed the event limit; one host, since
entries of the table do not affect each other, and the theorems cover any number.
*Exporter*: two clients, so that one waits for the other; two updates. *Bpf*: two
entries of one type so that `push_back` reallocates and `erase` shifts; four
launches are two rounds, enough for rotation with limit 2 to delete; one failed
fork.
*Perf*: `Needed` is 2 samples in `perf_one`, usage may be zero, half the threshold
or the threshold, two recordings so that tags, timers and files are reused.
*Push*: two programs and rings of two records on one CPU, so that of three records
two or three may meet in one ring, which overflows, or in two that are read in turn,
and two of one origin go in one request or in two, of which one may fail. More CPUs
are more rings that are read in turn; the theorems cover any number, and with two
the temporal properties take TLC too long. *TcpFlow*: two CPUs for overlaps, two
processes and two ports against two elements, so that the map fills up; two
connections, hence one that reuses the port of another; three sends or receives.
`flow_latency` needs three connections and only one CPU: no race is involved.
*Monitors*: one reported and one hidden device of each kind; all counters start at
15, so that those of both widths (16 and 4) wrap at the next step; and four changes or failures in all; samples are unbounded. When a launch bound is used up no further round starts;
`RoundsGoOn` therefore speaks of the rounds within the bound.

Fairness. The threads of the worker and of the exporter (weak fairness on their
next step, except where they wait for another party): the operating system
schedules them and none spins on another. A poll of the rings does not fail for ever
(strong fairness): with a timeout of 0 it is hardly interrupted at all. `accept`
does not fail for ever (strong fairness), the pipeline behind a flame graph ends,
and so does `perf record`, which runs `sleep 5`.

Whatever has no timeout in the code is not assumed to end, and the property names
it as its exception. The gRPC call has no deadline: `Hangs` is an exception of
`FateDecided`, `SignalEndsWorker`, `ZombiesAreReaped`, `RoundsGoOn` and
`StopReturns`, which say that nothing *but* a call that never returns holds up a
record, the push thread or Stop. `profile` is run without a duration
(`bpf_diagnoser.cpp:197`), so that no tool is assumed to end: `NeverEnds` is an
exception of `RoundsGoOn`, not of `ZombiesAreReaped`. The exporter's connections
have no timeout: `HeldUp`, that the thread waits for ever for one client which stays
and neither sends nor takes its answer, is the exception of `EveryClientServed` and
`StopJoins`. Nothing is assumed of signals, of the manager's process, of the
targets, of clients, or of tools producing output. Runs whose system may stop say so
in the cfg.

## Theorems

`HostManagerProofs` proves, for all sets of hosts and handlers, all limits and
delays satisfying `HostManagerAssumption` (naturals, at least one event kept,
and handlers not delayed by more than the expiry age):

* `TypeCorrect`: `Spec => []TypeOK`
* `Retention`: `Spec => []KeepsLastEvents`
* `NoPrematureExpiry`: `Spec => []RecentReporterKnown`
* `Freshness`: `Spec => []ServesFreshData`
* `BoundedRegression`: `Spec => RegressionBounded`

The inductive invariant is `IndInv == TypeOK /\ EventInv /\ TimeInv`.
`EventInv` adds to `KeepsLastEvents` that an unknown host has no history: its list
starts anew after expiry. Its step rests on `KeepLastAppend`: cutting before an
append and cutting after it come to the same, `KeepLast(KeepLast(s) \o t) =
KeepLast(s \o t)`. `TimeInv` relates the clock to the handlers in flight (stamped
at most `MaxStall` ago), to the table (`last_update` at most `MaxStall` before the
host was last heard, and not in the future), and to the sweep (a host in the table
was young enough when the last sweep looked). Neither freshness nor the promise
to recent reporters is inductive without these bounds.

The other proof modules have the same shape: `Invariance`, that an inductive
`IndInv` always holds, from a lemma for each of its parts and, under it, a case for
each action; then the theorems. All constants are arbitrary: the bounds of the
runs appear only as "some natural number".

**MetricsExporterProofs**, for any clients (`ExporterAssumption`: the server
socket and "none" are no clients): `TypeCorrect`, `OwnAnswers`
(`[]OwnAnswer`), `CurrentScrapes` (`[]ScrapeIsCurrent`). The invariant follows a
request through the loop: what is in the buffer is what the client being served
has sent (`ReadOK`), what was built is for that (`BuiltOK`), and a client that was
answered changes nothing any more (`AnsweredOK`). Descriptors matter: that the
connection served is the only one open is what makes the answer go to its owner.

**MonitorPusherProofs**, for any CPUs, ring sizes and numbers of records:
`TypeCorrect`, `AtMostOnce` (`[]AppliedAtMostOnce`), `InOrderOfOutput`
(`[]AckedInOrder`), and `FeedRefinement`, `Spec => ImplementsFeed`: the safety part
of `EventFeed`, step by step under the refinement mapping. A record goes through
ring, list, request and `acked`; `Pipeline` says that among records of one origin
those further along are older. It gives order and, since nothing is older than
itself, that no record is in two places, which is what the refinement needs.
`ManagerInv` keeps the records of handlers still running apart from each other and
from those in the worker: a call that failed after delivery may still be applied.

**TcpFlowProofs**, for any CPUs (finitely many), processes, ports and elements:
`TypeCorrect`, `SerialReports` (`[]SerialReportsExact`), `CountedKept`
(`[]CountedIsKept`), `LeaksExplained` (`[]LeakNeedsForeignEnd`). `MapOK` has one
element per key. `CountedOK` adds that a counted key still has its element;
`LockOK` that probes of state changes of one connection exclude each other;
`LeakOK` that a send still running on an ended connection is excused. For the
exact reports `SerialOK` says, while no two probes of a key have overlapped, that a
probe which holds an element holds that of its own key, and that an element has
what is owed less what a running probe is about to add. That `bytes` stay within
`MaxProbes` rests on the number of running probes (`Bounded`), hence finite `Cpus`.

**BpfDiagnoserProofs**, for every list of entries, limit and number of launches
and failed forks: `TypeCorrect`, `OneTool` (`[]OneToolPerEntry`), `ChildrenPolled`,
`NoDoubleReport` (`[]ReportedOnce`), `FileExistsAtPush` (`[]ReportedFileExists`) and
`FilesBounded` (`[]ReportedFilesBounded`). The argument is about rounds: there is
always a last pid of the earlier rounds up to which all children are reaped, and
after which all belong to different entries and are younger in every list
(`Round`). A new round is due only when `runners_` is empty, and then, as every
unreaped child is in `runners_` (`ChildrenStayPolled`), all are reaped: destructors
that signal or reap behind `Collect`'s back cannot make rounds overlap. Rotation
deletes by modification time, and files of earlier rounds come first in that order
(`OlderFirst`), so that a round's own reports, at most one per entry, survive.

**PerfDiagnoserProofs**, for every list of targets, threshold, duration and
limit: `TypeCorrect`, `CarriedAtMostOnce` (`[]CarriedOnce`), `LossExplained`
(`[]LossNeedsRace`), `TriggersExplained` (`TriggerNeedsLoad`). `OnceOK` says where
an event is (emitted, in `events`, carried; in `events` *and* carried between the
copy and the end of `Reset`, or after an append has undone it), and that the pending
recording has not been emitted; `LossOK` that what `Reset` clears was carried or is late.
`LoadOK` explains a timer: one of *k* periods stands for *k* times the threshold of
CPU time since it was 0, in addition to what waits for the next scan. Three
theorems have a condition on the configuration, because the property needs it:
`OverloadNoticed`, `[](NoTargetTwice => OverloadIsNoticed)`, since the second scan
of a name listed twice finds a fresh sample and resets the timer; and
`PerfPolled` and `FinishedEmitted`, `[](OneTarget => ...)`, since with two
targets a second launch overwrites `perf_runner_` and `pending_ev_`, as `perf_two`
shows. Their parts of the invariant are `NoticedOK` (the timer is at most one scan
behind the overload) and `SingleOK` (all recordings but the pending one are reaped
and emitted if they have data).

**MetricMonitorsProofs**, for any devices, widths and starting values
(`MetricAssumption`: the narrow counters are narrower, and less than 2^64 is
counted while the worker runs; without that bound a difference modulo 2^64 does
not determine what was done): `TypeCorrect`, `RatesExact` (`Spec => RateIsExact`),
`PercentagesOfInterval` (`Spec => PctIsOfInterval`). The invariant is an account: a
counter shows what `prev_map` has plus the work since, modulo 2^64, or exactly if it
is `io_ticks` and has not come back to 0 (`Follows`), for every remembered device
that is not excepted, and such a device is still there (`Sampled`): one that was
removed and added again is remembered only as an exception. `StatOK` is the same
account for `ticks`, `prev_` and `used`. The prover knows little about `%`; a few
lemmas about division carry the rest (`CountOn`: counting commutes with wrapping;
`Distance`, `DeltaOfSums`: the unsigned subtraction recovers what was counted,
also of `iops`, either of whose two counters may have wrapped).

TLC confirms each of these `IndInv` on the instance of its run, with small sets
in place of `Nat` where it has to enumerate them.

Every invariant and every safety action property that a run checks is stated by a
theorem. Only model-checked are the liveness properties (`EveryClientServed`,
`StopJoins`, `ZombiesAreReaped`, `RoundsGoOn`, `TagsAreCleared`, `StopReturns`,
`FateDecided`, `SignalEndsWorker`), as fairness is out of the prover's reach. The
violations are counterexamples of single instances.

## Plan

Done: every component that changes state while the system runs has a module, in the
order manager, tools, perf, push and observe, flows, exporter, metrics; every
safety property that holds is proved. What would come next is finer grain where a
hazard in `PROJECT.json` has only a note: the reuse of pids behind a copied runner,
which needs a kernel whose pids wrap, and file names that collide within a second.

## Not modelled

`ConfigManager` parses one file at start; its values are constants here (`Reload`,
which would append to the lists of targets, is never called). `HostInfoMonitor`
reads host name and address once. The protocol code is generated. Left out inside
modelled components: the text formats of the exporter and of `/proc`, units, the
fields of a record, `check_cpu_threshold`, `stop_all` and `ReadLines`, which
nothing calls. Benchmarks and scripts are no part of the running system.
