---------------------------- MODULE HostManager ----------------------------
(***************************************************************************)
(* The manager's core: the table hosts_ of the latest snapshot of every    *)
(* host, the concurrent SetMonitorInfo handlers of the gRPC server that    *)
(* write it, the main loop that expires silent hosts, and the reads that   *)
(* GetMonitorInfo and the HTTP exporter make of it.                        *)
(*                                                                         *)
(* A handler reads the clock before it takes the table's mutex, so it is   *)
(* two steps: SetMonitorInfo builds the snapshot, Update stores it.  Every *)
(* access to hosts_ is one critical section, hence one step.  A metric is  *)
(* an integer, a diagnose event is the number of its emission on its host, *)
(* and the sums over disks and interfaces are taken as already added up in *)
(* the request.                                                            *)
(***************************************************************************)
EXTENDS Integers, Sequences

CONSTANTS
    Hosts,        \* hostnames that workers report
    Slots,        \* SetMonitorInfo calls the server may run at one time
    Metrics,      \* readings a request may carry: [load, idle, mem, dropped]
    MaxEvents,    \* diagnose events kept per host (20 in Update)
    MaxAge,       \* max_age_s passed by main (60)
    SweepPeriod,  \* sleep of the main loop in seconds (10)
    MaxStall,     \* longest time a handler takes from time() to the mutex
    SweepLag,     \* longest time the main loop runs late
    MaxBatch,     \* bound: diagnose events in one request
    MaxSent,      \* bound: diagnose events emitted per host
    MaxTime       \* bound: last clock value

Readings == [load : Int, idle : Int, mem : Int, dropped : Int]

ASSUME HostManagerAssumption ==
    /\ Metrics \subseteq Readings
    /\ MaxEvents \in Nat \ {0}
    /\ {MaxAge, SweepPeriod, MaxStall, SweepLag} \subseteq Nat
    /\ {MaxBatch, MaxSent, MaxTime} \subseteq Nat
    \* A handler is not delayed by more than the expiry age.
    /\ MaxStall <= MaxAge

VARIABLES
    now,        \* time(nullptr)
    hosts,      \* hosts_: hostname -> HostSnapshot, for the known hosts
    calls,      \* slot -> [host, snap], for the handlers before Update
    wake,       \* when the main loop's sleep ends
    signalled,  \* ~g_running
    status,     \* main: "serving", "stopping" (exporter.Stop on), "exited"
    sent,       \* host -> diagnose events its workers have emitted
    \* History, read by no action:
    applied,    \* host -> events applied since its entry was created
    lastHeard   \* host -> when a request of it was last applied, Never if not

vars == <<now, hosts, calls, wake, signalled, status, sent,
          applied, lastHeard>>
history == <<applied, lastHeard>>

Never == 0

(***************************************************************************)
(* The health score, and the snapshot that a request becomes.              *)
(***************************************************************************)
Excess(value, limit) == IF value > limit THEN value - limit ELSE 0

\* Mutant: the score is not clamped at zero.
ComputeHealthUnclamped(m) ==
    100 - Excess(m.load, 8) * 5 - Excess(100 - m.idle, 90) * 2
        - Excess(m.mem, 85) * 2 - (IF m.dropped > 100 THEN 10 ELSE 0)

ComputeHealth(m) ==
    LET score == 100 - Excess(m.load, 8) * 5
                     - Excess(100 - m.idle, 90) * 2
                     - Excess(m.mem, 85) * 2
                     - (IF m.dropped > 100 THEN 10 ELSE 0)
    IN  IF score > 0 THEN score ELSE 0

HostSnapshot ==
    [last_update : Nat, metrics : Readings, health_score : 0..100,
     diagnose_events : Seq(Nat)]

\* Events numbered sent[h]+1 .. sent[h]+k: the next k that host h emits.
NewEvents(h, k) == [i \in 1..k |-> sent[h] + i]

\* The last MaxEvents elements of s: the erase from the front in Update.
KeepLast(s) ==
    IF Len(s) > MaxEvents
    THEN SubSeq(s, Len(s) - MaxEvents + 1, Len(s))
    ELSE s

\* The time stamp of a request with k diagnose events.  Mutant: only requests
\* with diagnose events are stamped.
StampIfEvents(k) == IF k > 0 THEN now ELSE 0

Stamp(k) == now

Init ==
    /\ now = 1
    /\ hosts = [h \in {} |-> 0]
    /\ calls = [s \in {} |-> 0]
    /\ wake = now + SweepPeriod
    /\ signalled = FALSE
    /\ status = "serving"
    /\ sent = [h \in Hosts |-> 0]
    /\ applied = [h \in Hosts |-> <<>>]
    /\ lastHeard = [h \in Hosts |-> Never]

(***************************************************************************)
(* GrpcServer::SetMonitorInfo up to the call of Update: a request of host  *)
(* h with readings m and k diagnose events.                                *)
(***************************************************************************)
SetMonitorInfo(s, h, m, k) ==
    /\ status # "exited"
    /\ s \notin DOMAIN calls
    /\ sent[h] + k <= MaxSent
    /\ calls' = [t \in DOMAIN calls \cup {s} |->
                   IF t = s
                   THEN [host |-> h,
                         snap |-> [last_update     |-> Stamp(k),
                                   metrics         |-> m,
                                   health_score    |-> 100,
                                   diagnose_events |-> NewEvents(h, k)]]
                   ELSE calls[t]]
    /\ sent' = [sent EXCEPT ![h] = @ + k]
    /\ UNCHANGED <<now, hosts, wake, signalled, status, history>>

\* HostManager::Update, under the mutex, and the handler's return.
EventsKept(h) == IF h \in DOMAIN hosts THEN hosts[h].diagnose_events ELSE <<>>

\* Mutant: the new events are put before the old ones.
MergeNewFirst(h, snap) ==
    [snap EXCEPT !.health_score = ComputeHealth(snap.metrics),
                 !.diagnose_events = KeepLast(@ \o EventsKept(h))]

Merge(h, snap) ==
    [snap EXCEPT !.health_score = ComputeHealth(snap.metrics),
                 !.diagnose_events = KeepLast(EventsKept(h) \o @)]

Update(s) ==
    LET h    == calls[s].host
        snap == calls[s].snap
    IN  /\ status # "exited"
        /\ s \in DOMAIN calls
        /\ hosts' = [g \in DOMAIN hosts \cup {h} |->
                       IF g = h THEN Merge(h, snap) ELSE hosts[g]]
        /\ calls' = [t \in DOMAIN calls \ {s} |-> calls[t]]
        /\ applied' = [applied EXCEPT ![h] = @ \o snap.diagnose_events]
        /\ lastHeard' = [lastHeard EXCEPT ![h] = now]
        /\ UNCHANGED <<now, wake, signalled, status, sent>>

(***************************************************************************)
(* The main loop: RemoveExpired after each sleep, then the test of         *)
(* g_running, which a signal handler clears at any time.                   *)
(***************************************************************************)
\* Mutants: a host expires one second early; the difference is the wrong way round.
ExpiredEarly(h) == now - hosts[h].last_update >= MaxAge
ExpiredReversed(h) == hosts[h].last_update - now > MaxAge

Expired(h) == now - hosts[h].last_update > MaxAge

RemoveExpired ==
    LET kept == {h \in DOMAIN hosts : ~Expired(h)}
    IN  /\ hosts' = [h \in kept |-> hosts[h]]
        /\ applied' = [h \in Hosts |-> IF h \in kept THEN applied[h] ELSE <<>>]

MainLoop ==
    /\ status = "serving"
    /\ now >= wake
    /\ RemoveExpired
    /\ IF signalled
       THEN status' = "stopping" /\ wake' = wake
       ELSE status' = status /\ wake' = now + SweepPeriod
    /\ UNCHANGED <<now, calls, signalled, sent, lastHeard>>

Signal ==
    /\ ~signalled
    /\ signalled' = TRUE
    /\ UNCHANGED <<now, hosts, calls, wake, status, sent, history>>

\* Return from main; the server's destructor waits for the running handlers.
Exit ==
    /\ status = "stopping"
    /\ DOMAIN calls = {}
    /\ status' = "exited"
    /\ UNCHANGED <<now, hosts, calls, wake, signalled, sent, history>>

(***************************************************************************)
(* The clock.  Time passes while the handlers and the main loop are within *)
(* the delays assumed of the scheduler.                                    *)
(***************************************************************************)
Tick ==
    /\ status # "exited"
    /\ now < MaxTime
    /\ \A s \in DOMAIN calls : now < calls[s].snap.last_update + MaxStall
    /\ status = "serving" => now < wake + SweepLag
    /\ now' = now + 1
    /\ UNCHANGED <<hosts, calls, wake, signalled, status, sent, history>>

Next ==
    \/ \E s \in Slots, h \in Hosts, m \in Metrics, k \in 0..MaxBatch :
          SetMonitorInfo(s, h, m, k)
    \/ \E s \in Slots : Update(s)
    \/ MainLoop
    \/ Signal
    \/ Exit
    \/ Tick

Spec == Init /\ [][Next]_vars

(***************************************************************************)
(* What readers see.  GetMonitorInfo answers from a default snapshot for   *)
(* an unknown host; the exporter's GetAll copies the known hosts.          *)
(***************************************************************************)
Get(h) ==
    IF h \in DOMAIN hosts
    THEN hosts[h]
    ELSE [last_update |-> 0, metrics |-> [load |-> 0, idle |-> 100, mem |-> 0, dropped |-> 0],
          health_score |-> 100, diagnose_events |-> <<>>]

GetMonitorInfo(h) ==
    LET snap == Get(h)
    IN  [timestamp |-> snap.last_update, load_1m |-> snap.metrics.load,
         idle_pct |-> snap.metrics.idle, used_pct |-> snap.metrics.mem]

(***************************************************************************)
(* Properties.                                                             *)
(***************************************************************************)

\* Type correctness: every stored snapshot has a health score in 0..100.
TypeOK ==
    /\ now \in Nat \ {0}
    /\ DOMAIN hosts \subseteq Hosts
    /\ hosts \in [DOMAIN hosts -> HostSnapshot]
    /\ DOMAIN calls \subseteq Slots
    /\ calls \in [DOMAIN calls -> [host : Hosts, snap : HostSnapshot]]
    /\ wake \in Nat
    /\ signalled \in BOOLEAN
    /\ status \in {"serving", "stopping", "exited"}
    /\ sent \in [Hosts -> Nat]
    /\ applied \in [Hosts -> Seq(Nat)]
    /\ lastHeard \in [Hosts -> Nat]

\* "last 20 kept across pushes": whatever the interleaving of handlers and
\* sweeps, a known host's list is exactly the last MaxEvents events applied
\* to it since it became known, in the order they were applied: the repeated
\* append-and-erase of Update loses none of them and keeps no older one.
KeepsLastEvents ==
    \A h \in DOMAIN hosts : hosts[h].diagnose_events = KeepLast(applied[h])

\* Staleness of what readers get: while the main loop runs, a snapshot that
\* GetMonitorInfo or the exporter returns was taken at most MaxAge plus one
\* (late) sweep ago.
ServesFreshData ==
    status = "serving" =>
        \A h \in Hosts :
            \/ GetMonitorInfo(h).timestamp = 0
            \/ now - GetMonitorInfo(h).timestamp <= MaxAge + SweepPeriod + SweepLag

\* RemoveExpired never drops a host that reported recently: although the
\* time stamp was read before the mutex and an older one may overwrite a
\* newer one, a host applied within MaxAge - MaxStall is still known.
RecentReporterKnown ==
    \A h \in Hosts :
        lastHeard[h] # Never /\ now - lastHeard[h] <= MaxAge - MaxStall
            => h \in DOMAIN hosts

\* Two handlers of one host may apply out of order; a host's last_update then
\* moves backwards, but by no more than a handler's delay.
RegressionBounded ==
    [][\A h \in DOMAIN hosts \cap DOMAIN hosts' :
          hosts'[h].last_update >= hosts[h].last_update - MaxStall]_vars
=============================================================================
