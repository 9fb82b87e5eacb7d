--------------------------- MODULE MetricMonitors ---------------------------
(***************************************************************************)
(* The worker's Layer 1: MetricCollector and its monitors, which read      *)
(* files of /proc, one after the other, while what they count goes on.     *)
(* A file that cannot be read has the content "".                          *)
(*                                                                         *)
(* The monitors compute in uint64_t, here modulo Wide.  So does the kernel *)
(* count, but for the time a disk is busy, which /proc/diskstats gives as  *)
(* an unsigned int, here modulo Narrow.  Units and text are left out, and  *)
(* of counters that are treated alike one or two stand for all.            *)
(***************************************************************************)
EXTENDS Integers, Functions, TLC

CONSTANTS
    Devices,    \* kind -> names that devices may have
    Hidden,     \* names of loop and ram disks, and lo
    Wide, Narrow,
    Starts,     \* what the counters of /proc may have reached before the worker starts
    MaxSteps    \* bound: changes of what /proc shows, and failed reads, in a behaviour

\* Less than 2^64 is counted while the worker runs.
ASSUME MetricAssumption ==
    /\ {Wide, Narrow, MaxSteps} \subseteq Nat /\ Starts \subseteq Nat
    /\ 0 < Narrow /\ Narrow < Wide /\ MaxSteps < Wide

VARIABLES
    proc,      \* kind -> device -> its counters
    ticks,     \* mode -> jiffies, of /proc/stat
    steps,
    pc,        \* the next read: "seed_...", by Init, or that of a Collect
    load,      \* CpuLoadMonitor's values: "zero", "old", "new"
    mem,       \* MemMonitor's values: "zero", "new"
    prev_,     \* CpuStatMonitor: mode -> jiffies
    pct,       \* its percentages: the jiffies of each mode, of how many
    prev_map,  \* kind -> device -> counters, of the last read
    rates,     \* kind -> device -> what is reported: disks, interfaces
    \* History, since the file was last read:
    work,      \* kind -> device -> counter -> what was done
    suspect,   \* kind -> device: a counter restarted, or a narrow one wrapped
    used,      \* mode -> jiffies
    dipped     \* iowait has decreased, or that read failed

envVars == <<proc, ticks, steps>>
diskNetVars == <<prev_map, rates, work, suspect>>
statVars == <<prev_, pct, used, dipped>>
vars == <<envVars, pc, load, mem, statVars, diskNetVars>>

Kinds == {"disk", "net"}
Counters(k) == IF k = "disk" THEN {"reads", "writes", "io_ticks"} ELSE {"rx_bytes"}
AllCounters == Counters("disk") \cup Counters("net")
AllDevices == Devices["disk"] \cup Devices["net"]
Modulus(f) == IF f = "io_ticks" THEN Narrow ELSE Wide
Modes == {"user", "irq", "idle", "iowait"}
Shown == Modes \ {"irq"}
Total(t) == t["user"] + t["irq"] + t["idle"] + t["iowait"]

NoDevice == [x \in {} |-> 0]
NoWork == [k \in Kinds |-> [x \in Devices[k] |-> [f \in Counters(k) |-> 0]]]

\* At first every device is there.
Init ==
    /\ \E start \in [Kinds -> [AllDevices -> [AllCounters -> Starts]]] :
          proc = [k \in Kinds |-> [x \in Devices[k] |->
                    [f \in Counters(k) |-> start[k][x][f] % Modulus(f)]]]
    /\ ticks \in [Modes -> Starts]
    /\ steps = 0
    /\ pc = "seed_stat"
    /\ load = "zero"
    /\ mem = "zero"
    /\ prev_ = [m \in Modes |-> 0]
    /\ pct = [of |-> 0, share |-> [m \in Shown |-> 0]]
    /\ prev_map = [k \in Kinds |-> NoDevice]
    /\ rates = [k \in Kinds |-> NoDevice]
    /\ work = NoWork
    /\ suspect = [k \in Kinds |-> {}]
    /\ used = [m \in Modes |-> 0]
    /\ dipped = TRUE

(***************************************************************************)
(* What /proc shows.                                                       *)
(***************************************************************************)
Happens == steps < MaxSteps /\ steps' = steps + 1

Works(k, x, f) ==
    /\ Happens
    /\ x \in DOMAIN proc[k]
    /\ proc' = [proc EXCEPT ![k][x][f] = (@ + 1) % Modulus(f)]
    /\ work' = [work EXCEPT ![k][x][f] = @ + 1]
    /\ suspect' = IF Modulus(f) = Narrow /\ proc'[k][x][f] = 0
                  THEN [suspect EXCEPT ![k] = @ \cup {x}] ELSE suspect
    /\ UNCHANGED <<ticks, pc, load, mem, statVars, prev_map, rates>>

Disappears(k, x) ==
    /\ Happens
    /\ x \in DOMAIN proc[k]
    /\ proc' = [proc EXCEPT ![k] = Restrict(@, DOMAIN @ \ {x})]
    /\ suspect' = [suspect EXCEPT ![k] = @ \cup {x}]
    /\ UNCHANGED <<ticks, pc, load, mem, statVars, prev_map, rates, work>>

Appears(k, x) ==
    /\ Happens
    /\ x \notin DOMAIN proc[k]
    /\ proc' = [proc EXCEPT ![k] =
                  [y \in DOMAIN @ \cup {x} |->
                     IF y = x THEN [f \in Counters(k) |-> 0] ELSE @[y]]]
    /\ UNCHANGED <<ticks, pc, load, mem, statVars, diskNetVars>>

Ticks(m) ==
    /\ Happens
    /\ ticks' = [ticks EXCEPT ![m] = @ + 1]
    /\ used' = [used EXCEPT ![m] = @ + 1]
    /\ UNCHANGED <<proc, pc, load, mem, prev_, pct, dipped, diskNetVars>>

\* The kernel may take iowait back.
IowaitDips ==
    /\ Happens
    /\ ticks["iowait"] > 0
    /\ ticks' = [ticks EXCEPT !["iowait"] = @ - 1]
    /\ dipped' = TRUE
    /\ UNCHANGED <<proc, pc, load, mem, prev_, pct, used, diskNetVars>>

Environment ==
    \/ \E k \in Kinds : \E x \in Devices[k] :
          Disappears(k, x) \/ Appears(k, x) \/ \E f \in Counters(k) : Works(k, x, f)
    \/ \E m \in Modes : Ticks(m)
    \/ IowaitDips

(***************************************************************************)
(* The monitors.  ok says whether ReadFile could open the file.            *)
(***************************************************************************)
Opens(ok) == IF ok THEN steps' = steps ELSE Happens

CpuLoadCollects(ok) ==
    /\ pc = "load"
    /\ Opens(ok)
    /\ load' = IF ok THEN "new" ELSE IF load = "zero" THEN "zero" ELSE "old"
    /\ pc' = "stat"
    /\ UNCHANGED <<proc, ticks, mem, statVars, diskNetVars>>

MemCollects(ok) ==
    /\ pc = "mem"
    /\ Opens(ok)
    /\ mem' = IF ok THEN "new" ELSE "zero"
    /\ pc' = "disk"
    /\ UNCHANGED <<proc, ticks, load, statVars, diskNetVars>>

StatLine(ok) == IF ok THEN ticks ELSE [m \in Modes |-> 0]

CpuStatInit(ok) ==
    /\ pc = "seed_stat"
    /\ Opens(ok)
    /\ prev_' = StatLine(ok)
    /\ used' = [m \in Modes |-> 0]
    /\ dipped' = ~ok
    /\ pc' = "seed_disk"
    /\ UNCHANGED <<proc, ticks, load, mem, pct, diskNetVars>>

\* calc: the signed difference, and 0 for a negative one.
Share(cur, m) == IF cur[m] < prev_[m] THEN 0 ELSE cur[m] - prev_[m]
\* prev_ = cur.  Mutant: forgotten.
PrevKept(cur) == prev_
PrevAfter(cur) == cur

CpuStatCollects(ok) ==
    LET cur == StatLine(ok)
        total_delta == (Total(cur) - Total(prev_)) % Wide
    IN  /\ pc = "stat"
        /\ Opens(ok)
        /\ IF total_delta = 0
           THEN UNCHANGED <<prev_, pct>>
           ELSE /\ pct' = [of |-> total_delta, share |-> [m \in Shown |-> Share(cur, m)]]
                /\ prev_' = PrevAfter(cur)
        /\ used' = [m \in Modes |-> 0]
        /\ dipped' = (~ok \/ (dipped /\ total_delta = 0))
        /\ pc' = "mem"
        /\ UNCHANGED <<proc, ticks, load, mem, diskNetVars>>

\* The devices in the file.  DiskMonitor skips the hidden ones at once, and
\* NetMonitor when it reports.
Content(k, ok) ==
    IF ~ok THEN NoDevice
    ELSE IF k = "disk" THEN Restrict(proc[k], DOMAIN proc[k] \ Hidden) ELSE proc[k]

\* What is reported of a device; iops is a sum of counters.
Value(raw, r) == IF r = "iops" THEN raw["reads"] + raw["writes"] ELSE raw[r]
Reported(k) == Counters(k) \cup IF k = "disk" THEN {"iops"} ELSE {}
\* Differences of unsigned integers.  Mutant: of signed ones.
SignedDelta(cur, prev) == cur - prev
Delta(cur, prev) == (cur - prev) % Wide

\* prev_map = std::move(cur_map).  Mutant: devices not in cur_map are kept.
MapMerged(k, cur) == cur @@ prev_map[k]
MapAfter(k, cur) == cur

ReadDone(k) ==
    /\ work' = [work EXCEPT ![k] = NoWork[k]]
    /\ suspect' = [suspect EXCEPT ![k] = {}]

DevicesInit(k, ok) ==
    /\ pc = IF k = "disk" THEN "seed_disk" ELSE "seed_net"
    /\ Opens(ok)
    /\ prev_map' = [prev_map EXCEPT ![k] = Content(k, ok)]
    /\ ReadDone(k)
    /\ pc' = IF k = "disk" THEN "seed_net" ELSE "load"
    /\ UNCHANGED <<proc, ticks, load, mem, statVars, rates>>

DevicesCollect(k, ok) ==
    LET cur == Content(k, ok)
    IN  /\ pc = k
        /\ Opens(ok)
        /\ rates' = [rates EXCEPT ![k] =
              [x \in (DOMAIN cur \cap DOMAIN prev_map[k]) \ Hidden |->
                 [r \in Reported(k) |-> Delta(Value(cur[x], r), Value(prev_map[k][x], r))]]]
        /\ prev_map' = [prev_map EXCEPT ![k] = MapAfter(k, cur)]
        /\ ReadDone(k)
        /\ pc' = IF k = "disk" THEN "net" ELSE "load"
        /\ UNCHANGED <<proc, ticks, load, mem, statVars>>

Collector ==
    \E ok \in BOOLEAN :
       \/ CpuStatInit(ok) \/ CpuLoadCollects(ok) \/ CpuStatCollects(ok) \/ MemCollects(ok)
       \/ \E k \in Kinds : DevicesInit(k, ok) \/ DevicesCollect(k, ok)

Next == Environment \/ Collector

Spec == Init /\ [][Next]_vars

(***************************************************************************)
(* Properties.                                                             *)
(***************************************************************************)
\* Type correctness; no figure is negative, whatever restarts or fails, and no
\* loop or ram disk, nor lo, is reported.
Places == {"seed_stat", "seed_disk", "seed_net", "load", "stat", "mem", "disk", "net"}
TypeOK ==
    /\ pc \in Places
    /\ \A k \in Kinds : /\ DOMAIN proc[k] \cup DOMAIN prev_map[k] \subseteq Devices[k]
                        /\ DOMAIN rates[k] \subseteq Devices[k] \ Hidden
                        /\ \A x \in DOMAIN proc[k], f \in Counters(k) :
                              proc[k][x][f] \in 0..(Modulus(f) - 1)
                        /\ \A x \in DOMAIN rates[k], r \in Reported(k) :
                              rates[k][x][r] \in 0..(Wide - 1)
    /\ ticks \in [Modes -> Nat] /\ prev_ \in [Modes -> Nat]
    /\ pct.of \in 0..(Wide - 1) /\ pct.share \in [Shown -> Nat]
    /\ steps \in 0..MaxSteps
    /\ load \in {"zero", "old", "new"} /\ mem \in {"zero", "new"}
    /\ {dipped} \subseteq BOOLEAN

\* A reported rate is what the device did since the file was last read, also
\* after reads that failed and across the wrap-around of a counter; excepted are
\* counters that restarted with their device, or that the kernel keeps in fewer
\* bits than the subtraction.
Done(k, x, r) == Value(work[k][x], r)
RateIsExact ==
    [][\A k \in Kinds : pc = k /\ pc' # k =>
         \A x \in DOMAIN rates'[k] \ suspect[k] : \A r \in Reported(k) :
            rates'[k][x][r] = Done(k, x, r)]_vars

\* New percentages are those of the time since /proc/stat was last read, unless
\* that read failed or iowait has decreased; after a read that fails all are 0.
PctIsOfInterval ==
    [][pct' # pct =>
         \/ dipped
         \/ pct' = [of |-> Total(used), share |-> Restrict(used, Shown)]
         \/ pct'.share = [m \in Shown |-> 0] /\ Total(prev_') = 0]_vars
=============================================================================
