------------------------- MODULE MetricMonitorsProofs -------------------------
(***************************************************************************)
(* Proofs about MetricMonitors, for any devices, any widths of the         *)
(* counters and any number of changes and failed reads below 2^64.         *)
(*                                                                         *)
(* The invariant says how what a monitor keeps (prev_map, prev_) and what  *)
(* was done since (work, used) account for what /proc shows now.  Its      *)
(* parts are written over values, so that they serve for the state before  *)
(* a step and for the one after it.                                        *)
(***************************************************************************)
EXTENDS MetricMonitors, TLAPS

\* The counters of one device, of one file, and of both.
Reading(k, c) ==
    DOMAIN c = Counters(k) /\ \A f \in Counters(k) : c[f] \in 0..(Modulus(f) - 1)
Readings(k, d) == DOMAIN d \subseteq Devices[k] /\ \A x \in DOMAIN d : Reading(k, d[x])
AllReadings(p) == DOMAIN p = Kinds /\ \A k \in Kinds : Readings(k, p[k])

\* What a device did since its file was read takes at most n steps.
Effort(k, w, n) ==
    /\ DOMAIN w = Counters(k)
    /\ \A f \in Counters(k) : w[f] \in Nat
    /\ \A r \in Reported(k) : Value(w, r) <= n
Efforts(k, e, n) == DOMAIN e = Devices[k] /\ \A x \in Devices[k] : Effort(k, e[x], n)
AllEfforts(w, n) == DOMAIN w = Kinds /\ \A k \in Kinds : Efforts(k, w[k], n)

\* A counter shows what it did when the file was read and what was done since.
Follows(f, now, then, done) ==
    IF f = "io_ticks" THEN now = then + done ELSE now = (then + done) % Wide
Accounted(k, now, then, done) ==
    \A f \in Counters(k) : Follows(f, now[f], then[f], done[f])
Sampled(k, now, then, done, s) ==
    \A x \in DOMAIN then \ s : x \in DOMAIN now /\ Accounted(k, now[x], then[x], done[x])
AllSampled(now, then, done, s) ==
    DOMAIN s = Kinds /\ \A k \in Kinds : Sampled(k, now[k], then[k], done[k], s[k])

\* What is reported of the devices of one kind, and of both.
Report(k, q) ==
    /\ DOMAIN q \subseteq Devices[k] \ Hidden
    /\ \A x \in DOMAIN q, r \in Reported(k) : q[x][r] \in 0..(Wide - 1)
AllReports(q) == DOMAIN q = Kinds /\ \A k \in Kinds : Report(k, q[k])

\* The line of /proc/stat, likewise.
StatAccounted(now, then, done, d) == ~d => \A m \in Modes : now[m] = then[m] + done[m]
StatOK ==
    /\ ticks \in [Modes -> Nat] /\ prev_ \in [Modes -> Nat] /\ used \in [Modes -> Nat]
    /\ pct.of \in 0..(Wide - 1) /\ pct.share \in [Shown -> Nat]
    /\ dipped \in BOOLEAN
    /\ Total(used) <= steps
    /\ StatAccounted(ticks, prev_, used, dipped)

ControlOK ==
    /\ pc \in Places
    /\ steps \in 0..MaxSteps
    /\ load \in {"zero", "old", "new"} /\ mem \in {"zero", "new"}

DevicesOK ==
    /\ AllReadings(proc) /\ AllReadings(prev_map)
    /\ AllEfforts(work, steps)
    /\ AllSampled(proc, prev_map, work, suspect)
    /\ AllReports(rates)

IndInv == ControlOK /\ StatOK /\ DevicesOK

(***************************************************************************)
(* Arithmetic modulo a positive number.                                    *)
(***************************************************************************)
\* A remainder is in range, and is what division leaves.
LEMMA Division ==
  ASSUME NEW W \in Nat, 0 < W, NEW a \in Int
  PROVE  /\ (a % W) \in 0..(W - 1)
         /\ (a \div W) \in Int
         /\ a = (W * (a \div W)) + (a % W)
  OBVIOUS

\* What differs from a number in range by a multiple of W has it as remainder.
LEMMA Remainder ==
  ASSUME NEW W \in Nat, 0 < W, NEW a \in Int, NEW q \in Int, NEW c \in 0..(W - 1),
         a = c + (W * q)
  PROVE  (a % W) = c
  <1>1. /\ (a % W) \in 0..(W - 1)
        /\ (a \div W) \in Int
        /\ a = (W * (a \div W)) + (a % W)
    BY Division
  <1>. DEFINE d == (a \div W) - q
              e == c - (a % W)
  <1>2. d \in Int /\ e \in Int /\ e > -W /\ e < W
    BY <1>1
  <1>3. e = W * d
    BY <1>1
  <1>. HIDE DEF d, e
  <1>4. \A u, v \in Int : u >= 1 /\ v >= 1 => u * v >= u
    OBVIOUS
  <1>5. ~(d >= 1)
    BY <1>2, <1>3, <1>4
  <1>6. ~(d <= -1)
    <2>1. SUFFICES ASSUME d <= -1 PROVE FALSE
      OBVIOUS
    <2>2. W * (-d) >= W
      BY <1>2, <1>4, <2>1
    <2>3. W * (-d) = -e
      BY <1>2, <1>3
    <2>. QED  BY <1>2, <2>2, <2>3
  <1>7. d = 0
    BY <1>2, <1>5, <1>6
  <1>8. e = 0
    BY <1>2, <1>3, <1>7
  <1>. QED  BY <1>1, <1>8 DEF e

\* Counting one more commutes with taking the remainder.
LEMMA CountOn ==
  ASSUME NEW W \in Nat, 0 < W, NEW a \in Nat
  PROVE  (((a % W) + 1) % W) = ((a + 1) % W)
  <1>. DEFINE b == (a % W) + 1
              r == b % W
              p == a \div W
              q == b \div W
  <1>1. a = (W * p) + (a % W) /\ p \in Int /\ (a % W) \in 0..(W - 1)
    BY Division
  <1>2. b \in Int /\ a + 1 = (W * p) + b
    BY <1>1
  <1>. HIDE DEF b
  <1>3. b = (W * q) + r /\ q \in Int /\ r \in 0..(W - 1)
    BY <1>2, Division
  <1>. HIDE DEF r, p, q
  <1>4. a + 1 = r + (W * (p + q))
    <2>1. W * (p + q) = (W * p) + (W * q)
      BY <1>1, <1>3
    <2>. QED  BY <2>1, <1>1, <1>2, <1>3
  <1>. DEFINE c == a + 1
              s == p + q
  <1>5. s \in Int /\ c \in Int /\ c = r + (W * s)
    BY <1>1, <1>3, <1>4
  <1>. HIDE DEF c, s
  <1>6. (c % W) = r
    BY <1>3, <1>5, Remainder
  <1>. QED  BY <1>6 DEF r, b, c

\* The subtraction modulo W recovers what was counted, across a wrap-around.
LEMMA Distance ==
  ASSUME NEW W \in Nat, 0 < W, NEW p \in Nat, NEW w \in Nat, w < W
  PROVE  ((((p + w) % W) - p) % W) = w
  <1>. DEFINE r == (p + w) % W
              q == (p + w) \div W
  <1>1. p + w = (W * q) + r /\ q \in Int /\ r \in 0..(W - 1)
    BY Division
  <1>. HIDE DEF r, q
  <1>2. W * (-q) = -(W * q) /\ -q \in Int
    BY <1>1
  <1>3. r - p = w + (W * (-q)) /\ r - p \in Int /\ w \in 0..(W - 1)
    BY <1>1, <1>2
  <1>4. ((r - p) % W) = w
    BY <1>2, <1>3, Remainder
  <1>. QED  BY <1>4 DEF r

\* A number in range is its own remainder.
LEMMA InRange ==
  ASSUME NEW W \in Nat, 0 < W, NEW a \in 0..(W - 1)
  PROVE  (a % W) = a
  <1>1. a = a + (W * 0) /\ a \in Int
    OBVIOUS
  <1>. QED  BY <1>1, Remainder

(***************************************************************************)
(* The operators of the model.                                             *)
(***************************************************************************)
\* The widths are positive, and the narrow one is that of io_ticks.
LEMMA Widths ==
  /\ Wide \in Nat /\ 0 < Wide /\ Narrow \in Nat /\ 0 < Narrow /\ Narrow < Wide
  /\ MaxSteps \in Nat /\ MaxSteps < Wide
  /\ Modulus("io_ticks") = Narrow
  /\ \A f : f # "io_ticks" => Modulus(f) = Wide
  /\ \A f : Modulus(f) \in Nat /\ 0 < Modulus(f) /\ Modulus(f) <= Wide
  BY MetricAssumption DEF Modulus

\* The kinds of devices and their counters.
LEMMA KindFacts ==
  /\ Kinds = {"disk", "net"}
  /\ Counters("disk") = {"reads", "writes", "io_ticks"} /\ Counters("net") = {"rx_bytes"}
  /\ Reported("disk") = {"reads", "writes", "io_ticks", "iops"} /\ Reported("net") = {"rx_bytes"}
  BY DEF Kinds, Counters, Reported

\* What is reported of a device is one of its counters, or a sum of two.
LEMMA ValueFacts ==
  ASSUME NEW c
  PROVE  /\ Value(c, "iops") = c["reads"] + c["writes"]
         /\ Value(c, "reads") = c["reads"] /\ Value(c, "writes") = c["writes"]
         /\ Value(c, "io_ticks") = c["io_ticks"] /\ Value(c, "rx_bytes") = c["rx_bytes"]
  BY DEF Value

\* A counter that counts on stays in range.
LEMMA ReadingCounts ==
  ASSUME NEW k \in Kinds, NEW c, Reading(k, c), NEW f \in Counters(k)
  PROVE  Reading(k, [c EXCEPT ![f] = (@ + 1) % Modulus(f)])
  <1>. DEFINE v == (c[f] + 1) % Modulus(f)
  <1>1. c[f] \in Nat
    BY Widths DEF Reading
  <1>2. v \in 0..(Modulus(f) - 1)
    BY <1>1, Widths, Division
  <1>. HIDE DEF v
  <1>3. Reading(k, [c EXCEPT ![f] = v])
    BY <1>2 DEF Reading
  <1>. QED  BY <1>3 DEF v

\* A step adds one at most to what is reported of a device.
LEMMA EffortCounts ==
  ASSUME NEW k \in Kinds, NEW w, NEW n \in Nat, Effort(k, w, n), NEW f \in Counters(k)
  PROVE  Effort(k, [w EXCEPT ![f] = @ + 1], n + 1)
  <1>. DEFINE u == [w EXCEPT ![f] = @ + 1]
  <1>1. DOMAIN u = Counters(k) /\ \A g \in Counters(k) : u[g] \in Nat
    BY DEF Effort
  <1>2. \A g \in Counters(k) : u[g] = IF g = f THEN w[g] + 1 ELSE w[g]
    BY DEF Effort
  <1>3. ASSUME NEW r \in Reported(k) PROVE Value(u, r) <= n + 1
    <2>1. Value(w, r) <= n
      BY <1>3 DEF Effort
    <2>2. \A g \in Counters(k) : w[g] \in Nat
      BY DEF Effort
    <2>. HIDE DEF u
    <2>3. CASE r = "iops"
      <3>1. "reads" \in Counters(k) /\ "writes" \in Counters(k)
        BY <2>3, KindFacts
      <3>2. w["reads"] + w["writes"] <= n
        BY <2>1, <2>3, ValueFacts
      <3>3. u["reads"] + u["writes"] <= n + 1
        BY <1>2, <2>2, <3>1, <3>2
      <3>. QED  BY <2>3, <3>3, ValueFacts
    <2>4. CASE r # "iops"
      <3>1. r \in Counters(k) /\ Value(u, r) = u[r] /\ Value(w, r) = w[r]
        BY <2>4, <1>3 DEF Reported, Value
      <3>. QED  BY <3>1, <1>2, <2>1, <2>2
    <2>. QED  BY <2>3, <2>4
  <1>. HIDE DEF u
  <1>4. Effort(k, u, n + 1)
    BY <1>1, <1>3 DEF Effort
  <1>. QED  BY <1>4 DEF u

\* A counter that counts on still accounts for what was done, unless it is a
\* narrow one that has come back to 0.
LEMMA AccountedCounts ==
  ASSUME NEW k \in Kinds, NEW c, NEW t, NEW w, NEW n \in Nat, NEW f \in Counters(k),
         Reading(k, c), Reading(k, t), Effort(k, w, n), Accounted(k, c, t, w),
         ~(Modulus(f) = Narrow /\ ((c[f] + 1) % Modulus(f)) = 0)
  PROVE  Accounted(k, [c EXCEPT ![f] = (@ + 1) % Modulus(f)], t, [w EXCEPT ![f] = @ + 1])
  <1>. DEFINE v == (c[f] + 1) % Modulus(f)
              d == [c EXCEPT ![f] = v]
              u == [w EXCEPT ![f] = @ + 1]
  <1>1. c[f] \in 0..(Modulus(f) - 1) /\ t[f] \in Nat /\ w[f] \in Nat
    BY Widths DEF Reading, Effort
  <1>2. Follows(f, c[f], t[f], w[f])
    BY DEF Accounted
  <1>3. Follows(f, v, t[f], w[f] + 1)
    <2>1. CASE f = "io_ticks"
      <3>1. Modulus(f) = Narrow /\ v # 0 /\ v = (c[f] + 1) % Narrow
        BY <2>1, Widths
      <3>2. c[f] + 1 # Narrow
        <4>1. SUFFICES ASSUME c[f] + 1 = Narrow PROVE FALSE
          OBVIOUS
        <4>2. (Narrow % Narrow) = 0
          <5>1. Narrow = 0 + (Narrow * 1) /\ 0 \in 0..(Narrow - 1) /\ Narrow \in Int
            BY Widths
          <5>. QED  BY <5>1, Widths, Remainder
        <4>. QED  BY <3>1, <4>1, <4>2
      <3>3. c[f] + 1 \in 0..(Narrow - 1)
        BY <1>1, <3>1, <3>2, Widths
      <3>4. v = c[f] + 1
        BY <3>1, <3>3, Widths, InRange
      <3>5. c[f] = t[f] + w[f]
        BY <2>1, <1>2 DEF Follows
      <3>6. v = t[f] + (w[f] + 1)
        BY <1>1, <3>4, <3>5
      <3>. QED  BY <2>1, <3>6 DEF Follows
    <2>2. CASE f # "io_ticks"
      <3>. DEFINE a == t[f] + w[f]
      <3>1. Modulus(f) = Wide /\ c[f] = a % Wide
        BY <2>2, <1>2, Widths DEF Follows
      <3>2. a \in Nat /\ a + 1 = t[f] + (w[f] + 1)
        BY <1>1
      <3>. HIDE DEF a
      <3>3. (((a % Wide) + 1) % Wide) = ((a + 1) % Wide)
        BY <3>2, Widths, CountOn
      <3>4. v = ((t[f] + (w[f] + 1)) % Wide)
        BY <3>1, <3>2, <3>3
      <3>. QED  BY <2>2, <3>4 DEF Follows
    <2>. QED  BY <2>1, <2>2
  <1>. HIDE DEF v
  <1>4. DOMAIN c = Counters(k) /\ DOMAIN w = Counters(k)
    BY DEF Reading, Effort
  <1>5. ASSUME NEW g \in Counters(k) PROVE Follows(g, d[g], t[g], u[g])
    <2>1. CASE g = f
      <3>1. d[g] = v /\ u[g] = w[f] + 1
        BY <2>1, <1>4
      <3>. QED  BY <2>1, <3>1, <1>3
    <2>2. CASE g # f
      <3>1. d[g] = c[g] /\ u[g] = w[g]
        BY <2>2, <1>4, <1>5
      <3>. QED  BY <3>1, <1>5 DEF Accounted
    <2>. QED  BY <2>1, <2>2
  <1>6. Accounted(k, d, t, u)
    BY <1>5 DEF Accounted
  <1>. QED  BY <1>6 DEF v

\* A file that has just been read accounts for itself.
LEMMA AccountedAfresh ==
  ASSUME NEW k \in Kinds, NEW c, Reading(k, c)
  PROVE  Accounted(k, c, c, [f \in Counters(k) |-> 0])
  <1>1. SUFFICES ASSUME NEW f \in Counters(k) PROVE Follows(f, c[f], c[f], 0)
    BY DEF Accounted
  <1>2. c[f] \in 0..(Modulus(f) - 1)
    BY <1>1 DEF Reading
  <1>3. c[f] = c[f] + 0
    BY <1>2, Widths
  <1>4. CASE f = "io_ticks"
    BY <1>3, <1>4 DEF Follows
  <1>5. CASE f # "io_ticks"
    <2>1. c[f] \in 0..(Wide - 1)
      BY <1>2, <1>5, Widths
    <2>2. (c[f] % Wide) = c[f]
      BY <2>1, Widths, InRange
    <2>. QED  BY <1>3, <1>5, <2>2 DEF Follows
  <1>. QED  BY <1>4, <1>5

\* Nothing has been done at first.
LEMMA NoEffort ==
  ASSUME NEW k \in Kinds, NEW n \in Nat
  PROVE  Effort(k, [f \in Counters(k) |-> 0], n)
  <1>. DEFINE w == [f \in Counters(k) |-> 0]
  <1>1. ASSUME NEW r \in Reported(k) PROVE Value(w, r) <= n
    <2>1. CASE r = "iops"
      <3>1. "reads" \in Counters(k) /\ "writes" \in Counters(k)
        BY <2>1, <1>1, KindFacts
      <3>. QED  BY <2>1, <3>1, ValueFacts
    <2>2. CASE r # "iops"
      BY <2>2, <1>1 DEF Reported, Value
    <2>. QED  BY <2>1, <2>2
  <1>. QED  BY <1>1 DEF Effort

\* The bound on what was done may be raised.
LEMMA EffortsWithin ==
  ASSUME NEW w, NEW n \in Nat, NEW m \in Nat, n <= m, AllEfforts(w, n)
  PROVE  AllEfforts(w, m)
  <1>1. SUFFICES ASSUME NEW k \in Kinds, NEW x \in Devices[k], NEW r \in Reported(k)
                 PROVE  Value(w[k][x], r) <= m
    BY DEF AllEfforts, Efforts, Effort
  <1>2. Effort(k, w[k][x], n)
    BY <1>1 DEF AllEfforts, Efforts
  <1>3. Value(w[k][x], r) <= n
    BY <1>1, <1>2 DEF Effort
  <1>4. \A f \in Counters(k) : w[k][x][f] \in Nat
    BY <1>2 DEF Effort
  <1>5. Value(w[k][x], r) \in Nat
    <2>1. CASE r = "iops"
      <3>1. "reads" \in Counters(k) /\ "writes" \in Counters(k)
        BY <2>1, <1>1, KindFacts
      <3>. QED  BY <2>1, <3>1, <1>4, ValueFacts
    <2>2. CASE r # "iops"
      BY <2>2, <1>1, <1>4 DEF Reported, Value
    <2>. QED  BY <2>1, <2>2
  <1>. QED  BY <1>3, <1>5

\* The values of a device are natural numbers.
LEMMA ValueIsNat ==
  ASSUME NEW k \in Kinds, NEW c, \A f \in Counters(k) : c[f] \in Nat, NEW r \in Reported(k)
  PROVE  Value(c, r) \in Nat
  <1>1. CASE r = "iops"
    <2>1. "reads" \in Counters(k) /\ "writes" \in Counters(k)
      BY <1>1, KindFacts
    <2>. QED  BY <1>1, <2>1, ValueFacts
  <1>2. CASE r # "iops"
    BY <1>2 DEF Reported, Value
  <1>. QED  BY <1>1, <1>2

\* So are the counters that a file shows.
LEMMA ReadingIsNat ==
  ASSUME NEW k \in Kinds, NEW c, Reading(k, c)
  PROVE  \A f \in Counters(k) : c[f] \in Nat
  BY Widths DEF Reading

\* A difference is in range, whatever the two readings are.
LEMMA DeltaInRange ==
  ASSUME NEW k \in Kinds, NEW c, NEW t, Reading(k, c), Reading(k, t), NEW r \in Reported(k)
  PROVE  Delta(Value(c, r), Value(t, r)) \in 0..(Wide - 1)
  <1>1. Value(c, r) \in Nat
    BY ReadingIsNat, ValueIsNat
  <1>2. Value(t, r) \in Nat
    BY ReadingIsNat, ValueIsNat
  <1>. DEFINE a == Value(c, r) - Value(t, r)
  <1>3. a \in Int
    BY <1>1, <1>2
  <1>. HIDE DEF a
  <1>4. (a % Wide) \in 0..(Wide - 1)
    BY <1>3, Widths, Division
  <1>. QED  BY <1>4 DEF Delta, a

\* The difference of sums of two counters is what was counted, whether either of
\* them has wrapped or both.
LEMMA DeltaOfSums ==
  ASSUME NEW p \in Nat, NEW w \in Nat, NEW p2 \in Nat, NEW w2 \in Nat,
         NEW r, Follows("reads", r, p, w), NEW r2, Follows("writes", r2, p2, w2),
         w + w2 < Wide
  PROVE  Delta(r + r2, p + p2) = w + w2
  <1>. DEFINE q == (p + w) \div Wide
              q2 == (p2 + w2) \div Wide
  <1>1. p + w = (Wide * q) + r /\ q \in Int /\ r \in 0..(Wide - 1)
    BY Widths, Division DEF Follows
  <1>2. p2 + w2 = (Wide * q2) + r2 /\ q2 \in Int /\ r2 \in 0..(Wide - 1)
    BY Widths, Division DEF Follows
  <1>. HIDE DEF q, q2
  <1>3. Wide * (-(q + q2)) = -((Wide * q) + (Wide * q2)) /\ -(q + q2) \in Int
    BY <1>1, <1>2, Widths
  <1>. DEFINE a == (r + r2) - (p + p2)
              s == w + w2
              n == -(q + q2)
  <1>4. a = s + (Wide * n) /\ a \in Int /\ s \in 0..(Wide - 1)
    BY <1>1, <1>2, <1>3, Widths
  <1>5. n \in Int
    BY <1>3
  <1>. HIDE DEF a, s, n
  <1>6. (a % Wide) = s
    BY <1>4, <1>5, Widths, Remainder
  <1>. QED  BY <1>6 DEF a, s, Delta

\* A difference of readings is what was done between them.
LEMMA DeltaIsExact ==
  ASSUME NEW k \in Kinds, NEW c, NEW t, NEW w, NEW n \in Nat, n < Wide,
         Reading(k, t), Effort(k, w, n), Accounted(k, c, t, w), NEW r \in Reported(k)
  PROVE  Delta(Value(c, r), Value(t, r)) = Value(w, r)
  <1>1. \A f \in Counters(k) : t[f] \in Nat /\ w[f] \in Nat
    BY ReadingIsNat DEF Effort
  <1>2. Value(w, r) <= n /\ Value(w, r) \in Nat
    BY <1>1, ValueIsNat DEF Effort
  <1>3. Value(w, r) < Wide
    BY <1>2, Widths
  <1>4. CASE r = "iops"
    <2>1. "reads" \in Counters(k) /\ "writes" \in Counters(k)
      BY <1>4, KindFacts
    <2>. DEFINE p == t["reads"]
                p2 == t["writes"]
                u == w["reads"]
                u2 == w["writes"]
    <2>2. p \in Nat /\ p2 \in Nat /\ u \in Nat /\ u2 \in Nat
      BY <1>1, <2>1
    <2>3. u + u2 < Wide
      BY <1>3, <1>4, ValueFacts
    <2>4. Follows("reads", c["reads"], p, u) /\ Follows("writes", c["writes"], p2, u2)
      BY <2>1 DEF Accounted
    <2>5. Value(c, r) = c["reads"] + c["writes"]
      BY <1>4, ValueFacts
    <2>6. Value(t, r) = p + p2 /\ Value(w, r) = u + u2
      BY <1>4, ValueFacts
    <2>. HIDE DEF p, p2, u, u2
    <2>7. Delta(c["reads"] + c["writes"], p + p2) = u + u2
      BY <2>2, <2>3, <2>4, DeltaOfSums
    <2>. QED  BY <2>5, <2>6, <2>7
  <1>5. CASE r # "iops"
    <2>1. r \in Counters(k) /\ Value(c, r) = c[r] /\ Value(t, r) = t[r] /\ Value(w, r) = w[r]
      BY <1>5 DEF Reported, Value
    <2>. DEFINE p == t[r]
                u == w[r]
    <2>2. p \in Nat /\ u \in Nat /\ u < Wide
      BY <1>1, <1>3, <2>1
    <2>3. Follows(r, c[r], p, u)
      BY <2>1 DEF Accounted
    <2>. HIDE DEF p, u
    <2>4. CASE r = "io_ticks"
      <3>1. c[r] = p + u
        BY <2>3, <2>4 DEF Follows
      <3>2. c[r] - p = u /\ u \in 0..(Wide - 1)
        BY <2>2, <3>1, Widths
      <3>3. (u % Wide) = u
        BY <3>2, Widths, InRange
      <3>. QED  BY <2>1, <3>2, <3>3 DEF Delta, p, u
    <2>5. CASE r # "io_ticks"
      <3>1. c[r] = (p + u) % Wide
        BY <2>3, <2>5 DEF Follows
      <3>2. ((((p + u) % Wide) - p) % Wide) = u
        BY <2>2, Widths, Distance
      <3>. QED  BY <2>1, <3>1, <3>2 DEF Delta, p, u
    <2>. QED  BY <2>4, <2>5
  <1>. QED  BY <1>4, <1>5

(***************************************************************************)
(* One kind of device after another: what the steps do to the maps.        *)
(***************************************************************************)
\* A change of one kind leaves the other alone.
LEMMA OneKind ==
  ASSUME NEW p, DOMAIN p = Kinds, NEW k \in Kinds, NEW v
  PROVE  /\ DOMAIN [p EXCEPT ![k] = v] = Kinds
         /\ [p EXCEPT ![k] = v][k] = v
         /\ \A j \in Kinds : j # k => [p EXCEPT ![k] = v][j] = p[j]
  OBVIOUS

\* The content of a file that is read, or cannot be, is part of what it shows.
LEMMA ContentFacts ==
  ASSUME AllReadings(proc), NEW k \in Kinds, NEW ok \in BOOLEAN
  PROVE  /\ Readings(k, Content(k, ok))
         /\ DOMAIN Content(k, ok) \subseteq DOMAIN proc[k]
         /\ \A x \in DOMAIN Content(k, ok) : Content(k, ok)[x] = proc[k][x]
  <1>. DEFINE c == Content(k, ok)
  <1>1. Readings(k, proc[k])
    BY DEF AllReadings
  <1>2. DOMAIN c \subseteq DOMAIN proc[k] /\ \A x \in DOMAIN c : c[x] = proc[k][x]
    <2>1. CASE ~ok
      <3>1. c = NoDevice
        BY <2>1 DEF Content
      <3>2. DOMAIN c = {}
        BY <3>1 DEF NoDevice
      <3>. QED  BY <3>2
    <2>2. CASE ok /\ k = "disk"
      <3>1. c = [x \in DOMAIN proc[k] \ Hidden |-> proc[k][x]]
        BY <2>2 DEF Content, Restrict
      <3>. QED  BY <3>1
    <2>3. CASE ok /\ k # "disk"
      <3>1. c = proc[k]
        BY <2>3 DEF Content
      <3>. QED  BY <3>1
    <2>. QED  BY <2>1, <2>2, <2>3
  <1>. HIDE DEF c
  <1>3. Readings(k, c)
    BY <1>1, <1>2 DEF Readings
  <1>. QED  BY <1>2, <1>3 DEF c

(***************************************************************************)
(* What a step leaves alone stays right.                                   *)
(***************************************************************************)
\* A change of what /proc shows is one of the steps that are counted.
LEMMA HappensFacts ==
  ASSUME ControlOK, Happens
  PROVE  steps' \in 0..MaxSteps /\ steps' = steps + 1 /\ steps \in Nat /\ steps <= steps'
  BY Widths DEF ControlOK, Happens

\* So is a read that fails, and no other.
LEMMA OpensFacts ==
  ASSUME ControlOK, NEW ok \in BOOLEAN, Opens(ok)
  PROVE  steps' \in 0..MaxSteps /\ steps \in Nat /\ steps <= steps'
  <1>1. CASE ok
    BY <1>1, Widths DEF ControlOK, Opens
  <1>2. CASE ~ok
    <2>1. Happens
      BY <1>2 DEF Opens
    <2>. QED  BY <2>1, HappensFacts
  <1>. QED  BY <1>1, <1>2

\* CpuStatMonitor's part of a step of another part.
LEMMA StatKept ==
  ASSUME StatOK, steps \in Nat, steps' \in Nat, steps <= steps', UNCHANGED <<ticks, statVars>>
  PROVE  StatOK'
  <1>1. Total(used) \in Nat
    BY DEF StatOK, Total, Modes
  <1>2. Total(used') <= steps'
    BY <1>1 DEF StatOK, statVars
  <1>3. StatAccounted(ticks', prev_', used', dipped')
    BY DEF StatOK, statVars
  <1>4. pct'.of \in 0..(Wide - 1) /\ pct'.share \in [Shown -> Nat]
    BY DEF StatOK, statVars
  <1>. QED  BY <1>2, <1>3, <1>4 DEF StatOK, statVars

\* The devices' part of a step of another part.
LEMMA DevicesKept ==
  ASSUME DevicesOK, steps \in Nat, steps' \in Nat, steps <= steps', UNCHANGED <<proc, diskNetVars>>
  PROVE  DevicesOK'
  <1>1. AllEfforts(work, steps')
    BY EffortsWithin DEF DevicesOK
  <1>. QED  BY <1>1 DEF DevicesOK, diskNetVars

(***************************************************************************)
(* What /proc shows.                                                       *)
(***************************************************************************)
\* A device that works: its counters, its work and what excepts it go together.
LEMMA WorksKeeps ==
  ASSUME IndInv, NEW k \in Kinds, NEW x \in Devices[k], NEW f \in Counters(k), Works(k, x, f)
  PROVE  DevicesOK'
  <1>1. steps' = steps + 1 /\ steps \in Nat /\ steps' \in Nat /\ steps <= steps'
    BY HappensFacts, Widths DEF IndInv, Works
  <1>2. /\ AllReadings(proc) /\ AllReadings(prev_map) /\ AllEfforts(work, steps)
        /\ AllSampled(proc, prev_map, work, suspect) /\ AllReports(rates)
    BY DEF IndInv, DevicesOK
  <1>3. x \in DOMAIN proc[k] /\ prev_map' = prev_map /\ rates' = rates
    BY DEF Works
  <1>. DEFINE c == [proc[k][x] EXCEPT ![f] = (@ + 1) % Modulus(f)]
              d == [proc[k] EXCEPT ![x] = c]
              w == [work[k][x] EXCEPT ![f] = @ + 1]
              e == [work[k] EXCEPT ![x] = w]
  <1>4. proc' = [proc EXCEPT ![k] = d] /\ work' = [work EXCEPT ![k] = e]
    BY DEF Works
  <1>5. Readings(k, proc[k]) /\ Reading(k, proc[k][x]) /\ DOMAIN proc = Kinds
    BY <1>2, <1>3 DEF AllReadings, Readings
  <1>6. Efforts(k, work[k], steps) /\ Effort(k, work[k][x], steps) /\ DOMAIN work = Kinds
    BY <1>2 DEF AllEfforts, Efforts
  <1>7. Reading(k, c)
    BY <1>5, ReadingCounts
  <1>8. Effort(k, w, steps')
    BY <1>1, <1>6, EffortCounts
  <1>9. c[f] = (proc[k][x][f] + 1) % Modulus(f)
    BY <1>5 DEF Reading
  <1>10. DOMAIN d = DOMAIN proc[k] /\ d[x] = c /\ \A y \in DOMAIN proc[k] : y # x => d[y] = proc[k][y]
    <2>. HIDE DEF c
    <2>. QED  BY <1>3
  <1>11. DOMAIN e = DOMAIN work[k] /\ e[x] = w /\ \A y \in DOMAIN work[k] : y # x => e[y] = work[k][y]
    <2>1. x \in DOMAIN work[k]
      BY <1>6 DEF Efforts
    <2>. HIDE DEF w
    <2>. QED  BY <2>1
  <1>12. /\ DOMAIN proc' = Kinds /\ proc'[k] = d
         /\ \A j \in Kinds : j # k => proc'[j] = proc[j]
    <2>. HIDE DEF d
    <2>. QED  BY <1>4, <1>5, OneKind
  <1>13. /\ DOMAIN work' = Kinds /\ work'[k] = e
         /\ \A j \in Kinds : j # k => work'[j] = work[j]
    <2>. HIDE DEF e
    <2>. QED  BY <1>4, <1>6, OneKind
  <1>14. /\ DOMAIN suspect' = Kinds /\ suspect[k] \subseteq suspect'[k]
         /\ \A j \in Kinds : j # k => suspect'[j] = suspect[j]
         /\ Modulus(f) = Narrow /\ c[f] = 0 => x \in suspect'[k]
    <2>1. proc'[k][x][f] = c[f]
      BY <1>10, <1>12
    <2>2. DOMAIN suspect = Kinds
      BY <1>2 DEF AllSampled
    <2>3. CASE Modulus(f) = Narrow /\ c[f] = 0
      <3>1. suspect' = [suspect EXCEPT ![k] = @ \cup {x}]
        BY <2>1, <2>3 DEF Works
      <3>. QED  BY <2>2, <3>1
    <2>4. CASE ~(Modulus(f) = Narrow /\ c[f] = 0)
      <3>1. suspect' = suspect
        BY <2>1, <2>4 DEF Works
      <3>. QED  BY <2>2, <2>4, <3>1
    <2>. QED  BY <2>3, <2>4
  <1>15. Readings(k, d)
    <2>. HIDE DEF c, d
    <2>. QED  BY <1>5, <1>7, <1>10 DEF Readings
  <1>16. Efforts(k, e, steps')
    <2>1. Efforts(k, work[k], steps')
      BY <1>1, <1>2, EffortsWithin DEF AllEfforts
    <2>. HIDE DEF w, e
    <2>. QED  BY <2>1, <1>8, <1>11 DEF Efforts
  <1>17. ASSUME NEW t, Reading(k, t), Accounted(k, proc[k][x], t, work[k][x]),
                ~(Modulus(f) = Narrow /\ c[f] = 0)
         PROVE  Accounted(k, c, t, w)
    BY <1>1, <1>5, <1>6, <1>9, <1>17, AccountedCounts
  <1>. HIDE DEF c, d, w, e
  <1>18. AllReadings(proc')
    BY <1>2, <1>12, <1>15 DEF AllReadings
  <1>19. AllEfforts(work', steps')
    <2>1. AllEfforts(work, steps')
      BY <1>1, <1>2, EffortsWithin
    <2>. QED  BY <2>1, <1>13, <1>16 DEF AllEfforts
  <1>20. Sampled(k, d, prev_map[k], e, suspect'[k])
    <2>1. SUFFICES ASSUME NEW y \in DOMAIN prev_map[k] \ suspect'[k]
                   PROVE  y \in DOMAIN d /\ Accounted(k, d[y], prev_map[k][y], e[y])
      BY DEF Sampled
    <2>2. y \in DOMAIN proc[k] /\ Accounted(k, proc[k][y], prev_map[k][y], work[k][y])
      BY <1>2, <1>14, <2>1 DEF AllSampled, Sampled
    <2>3. Reading(k, prev_map[k][y]) /\ y \in Devices[k]
      BY <1>2, <2>1 DEF AllReadings, Readings
    <2>4. CASE y = x
      <3>1. ~(Modulus(f) = Narrow /\ c[f] = 0)
        BY <1>14, <2>1, <2>4
      <3>2. Accounted(k, c, prev_map[k][y], w)
        BY <1>17, <2>2, <2>3, <2>4, <3>1
      <3>. QED  BY <2>2, <2>4, <3>2, <1>10, <1>11
    <2>5. CASE y # x
      <3>1. d[y] = proc[k][y] /\ y \in DOMAIN d
        BY <2>2, <2>5, <1>10
      <3>2. e[y] = work[k][y]
        BY <2>3, <2>5, <1>6, <1>11 DEF Efforts
      <3>. QED  BY <2>2, <3>1, <3>2
    <2>. QED  BY <2>4, <2>5
  <1>21. AllSampled(proc', prev_map', work', suspect')
    BY <1>2, <1>3, <1>12, <1>13, <1>14, <1>20 DEF AllSampled
  <1>. QED  BY <1>2, <1>3, <1>18, <1>19, <1>21 DEF DevicesOK

\* A device that goes away, or comes back with counters at 0, is excepted until
\* its file is read.
LEMMA DisappearsKeeps ==
  ASSUME IndInv, NEW k \in Kinds, NEW x \in Devices[k], Disappears(k, x)
  PROVE  DevicesOK'
  <1>1. steps \in Nat /\ steps' \in Nat /\ steps <= steps'
    BY HappensFacts, Widths DEF IndInv, Disappears
  <1>2. /\ AllReadings(proc) /\ AllReadings(prev_map) /\ AllEfforts(work, steps)
        /\ AllSampled(proc, prev_map, work, suspect) /\ AllReports(rates)
    BY DEF IndInv, DevicesOK
  <1>. DEFINE d == [y \in DOMAIN proc[k] \ {x} |-> proc[k][y]]
  <1>3. proc' = [proc EXCEPT ![k] = d] /\ DOMAIN proc = Kinds /\ DOMAIN suspect = Kinds
    BY <1>2 DEF Disappears, Restrict, AllReadings, AllSampled
  <1>4. DOMAIN d = DOMAIN proc[k] \ {x} /\ \A y \in DOMAIN d : d[y] = proc[k][y]
    OBVIOUS
  <1>. HIDE DEF d
  <1>5. DOMAIN proc' = Kinds /\ proc'[k] = d /\ \A j \in Kinds : j # k => proc'[j] = proc[j]
    BY <1>3, OneKind
  <1>6. /\ DOMAIN suspect' = Kinds /\ suspect'[k] = suspect[k] \cup {x}
        /\ \A j \in Kinds : j # k => suspect'[j] = suspect[j]
    BY <1>3 DEF Disappears
  <1>7. prev_map' = prev_map /\ rates' = rates /\ work' = work
    BY DEF Disappears
  <1>8. Readings(k, d)
    BY <1>2, <1>4 DEF AllReadings, Readings
  <1>9. AllReadings(proc')
    BY <1>2, <1>5, <1>8 DEF AllReadings
  <1>10. Sampled(k, d, prev_map[k], work[k], suspect'[k])
    <2>1. SUFFICES ASSUME NEW y \in DOMAIN prev_map[k] \ suspect'[k]
                   PROVE  y \in DOMAIN d /\ Accounted(k, d[y], prev_map[k][y], work[k][y])
      BY DEF Sampled
    <2>2. y # x /\ y \notin suspect[k]
      BY <1>6, <2>1
    <2>3. y \in DOMAIN proc[k] /\ Accounted(k, proc[k][y], prev_map[k][y], work[k][y])
      BY <1>2, <2>1, <2>2 DEF AllSampled, Sampled
    <2>. QED  BY <1>4, <2>2, <2>3
  <1>11. AllSampled(proc', prev_map', work', suspect')
    BY <1>2, <1>5, <1>6, <1>7, <1>10 DEF AllSampled
  <1>12. AllEfforts(work', steps')
    BY <1>1, <1>2, <1>7, EffortsWithin
  <1>. QED  BY <1>2, <1>7, <1>9, <1>11, <1>12 DEF DevicesOK

\* A device appears with counters at 0: if the monitor remembers it, it went away
\* before and is excepted already.
LEMMA AppearsKeeps ==
  ASSUME IndInv, NEW k \in Kinds, NEW x \in Devices[k], Appears(k, x)
  PROVE  DevicesOK'
  <1>1. steps \in Nat /\ steps' \in Nat /\ steps <= steps'
    BY HappensFacts, Widths DEF IndInv, Appears
  <1>2. /\ AllReadings(proc) /\ AllReadings(prev_map) /\ AllEfforts(work, steps)
        /\ AllSampled(proc, prev_map, work, suspect) /\ AllReports(rates)
    BY DEF IndInv, DevicesOK
  <1>. DEFINE z == [f \in Counters(k) |-> 0]
              d == [y \in DOMAIN proc[k] \cup {x} |-> IF y = x THEN z ELSE proc[k][y]]
  <1>3. proc' = [proc EXCEPT ![k] = d] /\ DOMAIN proc = Kinds /\ x \notin DOMAIN proc[k]
    BY <1>2 DEF Appears, AllReadings
  <1>4. Reading(k, z)
    BY Widths DEF Reading
  <1>. HIDE DEF z
  <1>5. /\ DOMAIN d = DOMAIN proc[k] \cup {x} /\ d[x] = z
        /\ \A y \in DOMAIN proc[k] : d[y] = proc[k][y]
    BY <1>3
  <1>. HIDE DEF d
  <1>6. DOMAIN proc' = Kinds /\ proc'[k] = d /\ \A j \in Kinds : j # k => proc'[j] = proc[j]
    BY <1>3, OneKind
  <1>7. prev_map' = prev_map /\ rates' = rates /\ work' = work /\ suspect' = suspect
    BY DEF Appears, diskNetVars
  <1>8. Readings(k, d)
    BY <1>2, <1>4, <1>5 DEF AllReadings, Readings
  <1>9. AllReadings(proc')
    BY <1>2, <1>6, <1>8 DEF AllReadings
  <1>10. Sampled(k, d, prev_map[k], work[k], suspect[k])
    <2>1. SUFFICES ASSUME NEW y \in DOMAIN prev_map[k] \ suspect[k]
                   PROVE  y \in DOMAIN d /\ Accounted(k, d[y], prev_map[k][y], work[k][y])
      BY DEF Sampled
    <2>2. y \in DOMAIN proc[k] /\ Accounted(k, proc[k][y], prev_map[k][y], work[k][y])
      BY <1>2, <2>1 DEF AllSampled, Sampled
    <2>. QED  BY <1>5, <2>2
  <1>11. AllSampled(proc', prev_map', work', suspect')
    BY <1>2, <1>6, <1>7, <1>10 DEF AllSampled
  <1>12. AllEfforts(work', steps')
    BY <1>1, <1>2, <1>7, EffortsWithin
  <1>. QED  BY <1>2, <1>7, <1>9, <1>11, <1>12 DEF DevicesOK

\* A sum of the modes grows by one with any of them.
LEMMA TotalCounts ==
  ASSUME NEW t \in [Modes -> Nat], NEW m \in Modes
  PROVE  Total([t EXCEPT ![m] = @ + 1]) = Total(t) + 1 /\ Total(t) \in Nat
  BY DEF Total, Modes

\* A jiffy is counted by the kernel and in the history alike.
LEMMA TicksKeeps ==
  ASSUME IndInv, NEW m \in Modes, Ticks(m)
  PROVE  StatOK'
  <1>1. steps' = steps + 1 /\ steps \in Nat
    BY HappensFacts DEF IndInv, Ticks
  <1>2. /\ ticks \in [Modes -> Nat] /\ prev_ \in [Modes -> Nat] /\ used \in [Modes -> Nat]
        /\ Total(used) <= steps /\ StatAccounted(ticks, prev_, used, dipped)
        /\ pct.of \in 0..(Wide - 1) /\ pct.share \in [Shown -> Nat] /\ dipped \in BOOLEAN
    BY DEF IndInv, StatOK
  <1>3. /\ ticks' = [ticks EXCEPT ![m] = @ + 1] /\ used' = [used EXCEPT ![m] = @ + 1]
        /\ prev_' = prev_ /\ pct' = pct /\ dipped' = dipped
    BY DEF Ticks
  <1>4. ticks' \in [Modes -> Nat] /\ used' \in [Modes -> Nat]
    BY <1>2, <1>3
  <1>5. Total(used') <= steps'
    <2>1. Total(used') = Total(used) + 1 /\ Total(used) \in Nat
      BY <1>2, <1>3, TotalCounts, Zenon
    <2>. QED  BY <1>1, <1>2, <2>1
  <1>6. StatAccounted(ticks', prev_', used', dipped')
    <2>1. SUFFICES ASSUME ~dipped, NEW j \in Modes PROVE ticks'[j] = prev_[j] + used'[j]
      BY <1>3 DEF StatAccounted
    <2>2. ticks[j] = prev_[j] + used[j]
      BY <1>2, <2>1 DEF StatAccounted
    <2>. QED  BY <1>2, <1>3, <2>2
  <1>. QED  BY <1>2, <1>3, <1>4, <1>5, <1>6 DEF StatOK

\* iowait that is taken back is excepted.
LEMMA IowaitDipsKeeps ==
  ASSUME IndInv, IowaitDips
  PROVE  StatOK'
  <1>1. steps' = steps + 1 /\ steps \in Nat
    BY HappensFacts DEF IndInv, IowaitDips
  <1>2. /\ ticks \in [Modes -> Nat] /\ prev_ \in [Modes -> Nat] /\ used \in [Modes -> Nat]
        /\ Total(used) <= steps
        /\ pct.of \in 0..(Wide - 1) /\ pct.share \in [Shown -> Nat]
    BY DEF IndInv, StatOK
  <1>3. /\ ticks' = [ticks EXCEPT !["iowait"] = @ - 1] /\ ticks["iowait"] > 0
        /\ prev_' = prev_ /\ pct' = pct /\ dipped' = TRUE /\ used' = used
    BY DEF IowaitDips
  <1>4. ticks' \in [Modes -> Nat]
    <2>1. "iowait" \in Modes
      BY DEF Modes
    <2>2. ticks["iowait"] - 1 \in Nat
      BY <1>2, <1>3, <2>1
    <2>. QED  BY <1>2, <1>3, <2>2
  <1>5. Total(used) \in Nat
    BY <1>2 DEF Total, Modes
  <1>6. Total(used') <= steps'
    BY <1>1, <1>2, <1>3, <1>5
  <1>7. StatAccounted(ticks', prev_', used', dipped')
    BY <1>3 DEF StatAccounted
  <1>. QED  BY <1>2, <1>3, <1>4, <1>6, <1>7 DEF StatOK

(***************************************************************************)
(* CpuStatMonitor.                                                         *)
(***************************************************************************)
\* A line that was read, or could not be, has a number of jiffies for each mode.
LEMMA StatLineFacts ==
  ASSUME ticks \in [Modes -> Nat], NEW ok \in BOOLEAN
  PROVE  StatLine(ok) \in [Modes -> Nat] /\ Total(StatLine(ok)) \in Nat
  <1>1. StatLine(ok) \in [Modes -> Nat]
    BY DEF StatLine
  <1>2. \A t \in [Modes -> Nat] : Total(t) \in Nat
    BY DEF Total, Modes
  <1>. QED  BY <1>1, <1>2

\* Nothing is used yet.
LEMMA NothingUsed ==
  /\ [m \in Modes |-> 0] \in [Modes -> Nat]
  /\ Total([m \in Modes |-> 0]) = 0
  BY DEF Total, Modes

\* With a line that follows the last one, the difference of the totals is the time
\* between them, and is 0 only when no mode has moved.
LEMMA TotalIsExact ==
  ASSUME StatOK, steps \in 0..MaxSteps, ~dipped
  PROVE  /\ ((Total(ticks) - Total(prev_)) % Wide) = Total(used)
         /\ Total(used) = 0 => \A m \in Modes : ticks[m] = prev_[m]
  <1>1. /\ ticks \in [Modes -> Nat] /\ prev_ \in [Modes -> Nat] /\ used \in [Modes -> Nat]
        /\ Total(used) <= steps /\ \A m \in Modes : ticks[m] = prev_[m] + used[m]
    BY DEF StatOK, StatAccounted
  <1>2. Total(ticks) - Total(prev_) = Total(used)
    BY <1>1 DEF Total, Modes
  <1>3. Total(used) \in Nat
    BY <1>1 DEF Total, Modes
  <1>4. Total(used) \in 0..(Wide - 1)
    BY <1>1, <1>3, Widths
  <1>5. (Total(used) % Wide) = Total(used)
    BY <1>4, Widths, InRange
  <1>6. Total(used) = 0 => \A m \in Modes : used[m] = 0
    BY <1>1 DEF Total, Modes
  <1>7. Total(used) = 0 => \A m \in Modes : ticks[m] = prev_[m]
    BY <1>1, <1>6
  <1>. QED  BY <1>2, <1>5, <1>7

\* Init's read sets prev_, and starts the history.
LEMMA CpuStatInitKeeps ==
  ASSUME IndInv, NEW ok \in BOOLEAN, CpuStatInit(ok)
  PROVE  StatOK'
  <1>1. steps' \in Nat
    BY OpensFacts, Widths DEF IndInv, CpuStatInit
  <1>2. /\ ticks \in [Modes -> Nat]
        /\ pct.of \in 0..(Wide - 1) /\ pct.share \in [Shown -> Nat]
    BY DEF IndInv, StatOK
  <1>3. /\ prev_' = StatLine(ok) /\ used' = [m \in Modes |-> 0] /\ dipped' = ~ok
        /\ ticks' = ticks /\ pct' = pct
    BY DEF CpuStatInit
  <1>4. prev_' \in [Modes -> Nat]
    BY <1>2, <1>3, StatLineFacts
  <1>5. used' \in [Modes -> Nat] /\ Total(used') <= steps'
    BY <1>1, <1>3, NothingUsed
  <1>6. StatAccounted(ticks', prev_', used', dipped')
    <2>1. SUFFICES ASSUME ok, NEW j \in Modes PROVE ticks[j] = prev_'[j] + 0
      BY <1>3 DEF StatAccounted
    <2>. QED  BY <1>2, <1>3, <2>1 DEF StatLine
  <1>7. dipped' \in BOOLEAN
    BY <1>3
  <1>8. ticks' \in [Modes -> Nat] /\ pct'.of \in 0..(Wide - 1) /\ pct'.share \in [Shown -> Nat]
    BY <1>2, <1>3
  <1>. QED  BY <1>4, <1>5, <1>6, <1>7, <1>8 DEF StatOK

\* A Collect reports the interval and starts the next one.  If no time seems to
\* have passed it keeps prev_, which then still accounts for the line.
LEMMA CpuStatCollectsKeeps ==
  ASSUME IndInv, NEW ok \in BOOLEAN, CpuStatCollects(ok)
  PROVE  StatOK'
  <1>. DEFINE cur == StatLine(ok)
              delta == (Total(cur) - Total(prev_)) % Wide
  <1>1. steps' \in Nat /\ steps \in 0..MaxSteps /\ StatOK
    BY OpensFacts, Widths DEF IndInv, ControlOK, CpuStatCollects
  <1>2. /\ ticks \in [Modes -> Nat] /\ prev_ \in [Modes -> Nat] /\ dipped \in BOOLEAN
        /\ pct.of \in 0..(Wide - 1) /\ pct.share \in [Shown -> Nat]
    BY <1>1 DEF StatOK
  <1>3. /\ used' = [m \in Modes |-> 0] /\ dipped' = (~ok \/ (dipped /\ delta = 0))
        /\ ticks' = ticks
    BY DEF CpuStatCollects
  <1>4. /\ delta = 0 => prev_' = prev_ /\ pct' = pct
        /\ delta # 0 => /\ prev_' = cur
                        /\ pct' = [of |-> delta, share |-> [m \in Shown |-> Share(cur, m)]]
    BY DEF CpuStatCollects, PrevAfter
  <1>5. cur \in [Modes -> Nat] /\ Total(cur) \in Nat
    BY <1>2, StatLineFacts
  <1>6. Total(prev_) \in Nat
    BY <1>2 DEF Total, Modes
  <1>7. delta \in 0..(Wide - 1)
    <2>. DEFINE a == Total(cur) - Total(prev_)
    <2>1. a \in Int
      BY <1>5, <1>6
    <2>. HIDE DEF a
    <2>2. (a % Wide) \in 0..(Wide - 1)
      BY <2>1, Widths, Division
    <2>. QED  BY <2>2 DEF a
  <1>8. ok => cur = ticks
    BY DEF StatLine
  <1>9. ok /\ ~dipped /\ delta = 0 => \A m \in Modes : ticks[m] = prev_[m]
    <2>1. SUFFICES ASSUME ok, ~dipped, delta = 0 PROVE \A m \in Modes : ticks[m] = prev_[m]
      OBVIOUS
    <2>2. ((Total(ticks) - Total(prev_)) % Wide) = 0
      BY <2>1, <1>8
    <2>. QED  BY <1>1, <2>1, <2>2, TotalIsExact
  <1>10. \A m \in Shown : Share(cur, m) \in Nat
    <2>. HIDE DEF cur
    <2>. QED  BY <1>2, <1>5 DEF Share, Shown
  <1>. HIDE DEF cur, delta
  <1>11. prev_' \in [Modes -> Nat]
    BY <1>2, <1>4, <1>5
  <1>12. pct'.of \in 0..(Wide - 1) /\ pct'.share \in [Shown -> Nat]
    <2>1. CASE delta = 0
      BY <2>1, <1>2, <1>4
    <2>2. CASE delta # 0
      BY <2>2, <1>4, <1>7, <1>10
    <2>. QED  BY <2>1, <2>2
  <1>13. used' \in [Modes -> Nat] /\ Total(used') <= steps'
    BY <1>1, <1>3, NothingUsed
  <1>14. StatAccounted(ticks', prev_', used', dipped')
    <2>1. SUFFICES ASSUME ~dipped', NEW j \in Modes PROVE ticks[j] = prev_'[j] + 0
      BY <1>3 DEF StatAccounted
    <2>2. ok /\ ~(dipped /\ delta = 0)
      BY <1>3, <2>1
    <2>3. CASE delta = 0
      <3>1. ticks[j] = prev_[j] /\ prev_' = prev_
        BY <1>4, <1>9, <2>1, <2>2, <2>3
      <3>. QED  BY <1>2, <2>1, <3>1
    <2>4. CASE delta # 0
      <3>1. prev_' = ticks
        BY <1>4, <1>8, <2>2, <2>4
      <3>. QED  BY <1>2, <2>1, <3>1
    <2>. QED  BY <2>3, <2>4
  <1>15. dipped' \in BOOLEAN
    BY <1>3
  <1>. QED  BY <1>2, <1>3, <1>11, <1>12, <1>13, <1>14, <1>15 DEF StatOK

(***************************************************************************)
(* DiskMonitor and NetMonitor.                                             *)
(***************************************************************************)
\* The read of a file makes it the one that later work is counted from.
LEMMA ReadKeeps ==
  ASSUME DevicesOK, NEW k \in Kinds, NEW ok \in BOOLEAN, ReadDone(k), proc' = proc,
         steps \in Nat, steps' \in Nat, steps <= steps',
         prev_map' = [prev_map EXCEPT ![k] = Content(k, ok)]
  PROVE  /\ AllReadings(proc') /\ AllReadings(prev_map') /\ AllEfforts(work', steps')
         /\ AllSampled(proc', prev_map', work', suspect')
  <1>1. /\ AllReadings(proc) /\ AllReadings(prev_map) /\ AllEfforts(work, steps)
        /\ AllSampled(proc, prev_map, work, suspect)
    BY DEF DevicesOK
  <1>. DEFINE cur == Content(k, ok)
  <1>2. /\ Readings(k, cur) /\ DOMAIN cur \subseteq DOMAIN proc[k]
        /\ \A x \in DOMAIN cur : cur[x] = proc[k][x]
    BY <1>1, ContentFacts
  <1>. HIDE DEF cur
  <1>3. /\ DOMAIN prev_map' = Kinds /\ prev_map'[k] = cur
        /\ \A j \in Kinds : j # k => prev_map'[j] = prev_map[j]
    <2>1. DOMAIN prev_map = Kinds
      BY <1>1 DEF AllReadings
    <2>. QED  BY <2>1 DEF cur
  <1>. DEFINE none == [x \in Devices[k] |-> [f \in Counters(k) |-> 0]]
  <1>4. /\ DOMAIN work' = Kinds /\ work'[k] = none
        /\ \A j \in Kinds : j # k => work'[j] = work[j]
    <2>1. DOMAIN work = Kinds
      BY <1>1 DEF AllEfforts
    <2>2. NoWork[k] = none
      BY DEF NoWork
    <2>3. work' = [work EXCEPT ![k] = none]
      BY <2>2 DEF ReadDone
    <2>. HIDE DEF none
    <2>. QED  BY <2>1, <2>3, OneKind
  <1>5. /\ DOMAIN suspect' = Kinds /\ suspect'[k] = {}
        /\ \A j \in Kinds : j # k => suspect'[j] = suspect[j]
    <2>1. DOMAIN suspect = Kinds
      BY <1>1 DEF AllSampled
    <2>. QED  BY <2>1 DEF ReadDone
  <1>6. Efforts(k, none, steps')
    BY NoEffort DEF Efforts
  <1>7. ASSUME NEW x \in Devices[k] PROVE none[x] = [f \in Counters(k) |-> 0]
    BY <1>7
  <1>. HIDE DEF none
  <1>8. Sampled(k, proc[k], cur, none, {})
    <2>1. SUFFICES ASSUME NEW x \in DOMAIN cur
                   PROVE  x \in DOMAIN proc[k] /\ Accounted(k, proc[k][x], cur[x], none[x])
      BY DEF Sampled
    <2>2. x \in DOMAIN proc[k] /\ cur[x] = proc[k][x] /\ x \in Devices[k] /\ Reading(k, cur[x])
      BY <1>2, <2>1 DEF Readings
    <2>3. Accounted(k, cur[x], cur[x], [f \in Counters(k) |-> 0])
      BY <2>2, AccountedAfresh
    <2>4. none[x] = [f \in Counters(k) |-> 0]
      BY <1>7, <2>2
    <2>. QED  BY <2>2, <2>3, <2>4
  <1>9. AllReadings(prev_map')
    BY <1>1, <1>2, <1>3 DEF AllReadings
  <1>10. AllEfforts(work', steps')
    <2>1. AllEfforts(work, steps')
      BY <1>1, EffortsWithin
    <2>. QED  BY <2>1, <1>4, <1>6 DEF AllEfforts
  <1>11. AllSampled(proc', prev_map', work', suspect')
    BY <1>1, <1>3, <1>4, <1>5, <1>8 DEF AllSampled
  <1>. QED  BY <1>1, <1>9, <1>10, <1>11

\* What a Collect reports of a kind of device, from prev_map and what it reads.
LEMMA CollectReports ==
  ASSUME IndInv, NEW k \in Kinds, NEW ok \in BOOLEAN, DevicesCollect(k, ok)
  PROVE  /\ DOMAIN rates' = Kinds
         /\ \A j \in Kinds : j # k => rates'[j] = rates[j]
         /\ DOMAIN rates'[k] = (DOMAIN Content(k, ok) \cap DOMAIN prev_map[k]) \ Hidden
         /\ \A x \in DOMAIN rates'[k], r \in Reported(k) :
               rates'[k][x][r] = Delta(Value(proc[k][x], r), Value(prev_map[k][x], r))
  <1>. DEFINE cur == Content(k, ok)
              D == (DOMAIN cur \cap DOMAIN prev_map[k]) \ Hidden
              q == [x \in D |-> [r \in Reported(k) |->
                      Delta(Value(cur[x], r), Value(prev_map[k][x], r))]]
  <1>1. rates' = [rates EXCEPT ![k] = q]
    BY DEF DevicesCollect
  <1>2. DOMAIN rates = Kinds
    BY DEF IndInv, DevicesOK, AllReports
  <1>3. \A x \in DOMAIN cur : cur[x] = proc[k][x]
    BY ContentFacts DEF IndInv, DevicesOK
  <1>. HIDE DEF cur
  <1>4. DOMAIN q = D
    OBVIOUS
  <1>5. ASSUME NEW x \in D, NEW r \in Reported(k)
        PROVE  q[x][r] = Delta(Value(proc[k][x], r), Value(prev_map[k][x], r))
    <2>1. q[x][r] = Delta(Value(cur[x], r), Value(prev_map[k][x], r))
      BY <1>5
    <2>. QED  BY <1>3, <1>5, <2>1
  <1>. HIDE DEF q, D
  <1>6. DOMAIN rates' = Kinds /\ rates'[k] = q /\ \A j \in Kinds : j # k => rates'[j] = rates[j]
    BY <1>1, <1>2, OneKind
  <1>. QED  BY <1>4, <1>5, <1>6 DEF D, cur

\* The read of Init.
LEMMA DevicesInitKeeps ==
  ASSUME IndInv, NEW k \in Kinds, NEW ok \in BOOLEAN, DevicesInit(k, ok)
  PROVE  DevicesOK'
  <1>1. steps \in Nat /\ steps' \in Nat /\ steps <= steps'
    BY OpensFacts, Widths DEF IndInv, DevicesInit
  <1>2. /\ AllReadings(proc') /\ AllReadings(prev_map') /\ AllEfforts(work', steps')
        /\ AllSampled(proc', prev_map', work', suspect')
    BY <1>1, ReadKeeps DEF IndInv, DevicesInit
  <1>3. AllReports(rates')
    BY DEF IndInv, DevicesOK, DevicesInit
  <1>. QED  BY <1>2, <1>3 DEF DevicesOK

\* A Collect, which also reports.
LEMMA DevicesCollectKeeps ==
  ASSUME IndInv, NEW k \in Kinds, NEW ok \in BOOLEAN, DevicesCollect(k, ok)
  PROVE  DevicesOK'
  <1>1. steps \in Nat /\ steps' \in Nat /\ steps <= steps'
    BY OpensFacts, Widths DEF IndInv, DevicesCollect
  <1>2. /\ AllReadings(proc') /\ AllReadings(prev_map') /\ AllEfforts(work', steps')
        /\ AllSampled(proc', prev_map', work', suspect')
    BY <1>1, ReadKeeps DEF IndInv, DevicesCollect, MapAfter
  <1>3. AllReadings(proc) /\ AllReadings(prev_map) /\ AllReports(rates)
    BY DEF IndInv, DevicesOK
  <1>4. DOMAIN Content(k, ok) \subseteq DOMAIN proc[k]
    BY <1>3, ContentFacts
  <1>5. /\ DOMAIN rates'[k] \subseteq DOMAIN proc[k] \cap DOMAIN prev_map[k]
        /\ DOMAIN rates'[k] \cap Hidden = {}
    BY <1>4, CollectReports
  <1>6. Report(k, rates'[k])
    <2>1. DOMAIN rates'[k] \subseteq Devices[k] \ Hidden
      BY <1>3, <1>5 DEF AllReadings, Readings
    <2>2. ASSUME NEW x \in DOMAIN rates'[k], NEW r \in Reported(k)
          PROVE  rates'[k][x][r] \in 0..(Wide - 1)
      <3>1. Reading(k, proc[k][x]) /\ Reading(k, prev_map[k][x])
        BY <1>3, <1>5, <2>2 DEF AllReadings, Readings
      <3>2. Delta(Value(proc[k][x], r), Value(prev_map[k][x], r)) \in 0..(Wide - 1)
        BY <2>2, <3>1, DeltaInRange
      <3>. QED  BY <2>2, <3>2, CollectReports
    <2>. QED  BY <2>1, <2>2 DEF Report
  <1>7. AllReports(rates')
    BY <1>3, <1>6, CollectReports DEF AllReports
  <1>. QED  BY <1>2, <1>7 DEF DevicesOK

(***************************************************************************)
(* The invariant.                                                          *)
(***************************************************************************)
\* It holds when the worker starts.
LEMMA InitInv == Init => IndInv
  <1>1. SUFFICES ASSUME Init PROVE IndInv
    OBVIOUS
  <1>2. ControlOK
    BY <1>1, Widths DEF Init, ControlOK, Places
  <1>3. StatOK
    <2>1. ticks \in [Modes -> Nat]
      BY <1>1, MetricAssumption DEF Init
    <2>2. prev_ \in [Modes -> Nat] /\ used \in [Modes -> Nat] /\ Total(used) <= steps
      BY <1>1, NothingUsed DEF Init
    <2>3. dipped = TRUE /\ StatAccounted(ticks, prev_, used, dipped)
      BY <1>1 DEF Init, StatAccounted
    <2>4. pct.of \in 0..(Wide - 1) /\ pct.share \in [Shown -> Nat]
      BY <1>1, Widths DEF Init
    <2>. QED  BY <2>1, <2>2, <2>3, <2>4 DEF StatOK
  <1>4. DevicesOK
    <2>1. AllReadings(proc)
      <3>1. PICK start \in [Kinds -> [AllDevices -> [AllCounters -> Starts]]] :
               proc = [k \in Kinds |-> [x \in Devices[k] |->
                         [f \in Counters(k) |-> start[k][x][f] % Modulus(f)]]]
        BY <1>1 DEF Init
      <3>2. SUFFICES ASSUME NEW k \in Kinds, NEW x \in Devices[k]
                     PROVE  Reading(k, proc[k][x])
        BY <3>1 DEF AllReadings, Readings
      <3>3. proc[k][x] = [f \in Counters(k) |-> start[k][x][f] % Modulus(f)]
        BY <3>1, <3>2
      <3>4. ASSUME NEW f \in Counters(k)
            PROVE  (start[k][x][f] % Modulus(f)) \in 0..(Modulus(f) - 1)
        <4>1. x \in AllDevices /\ f \in AllCounters
          BY <3>2, <3>4, KindFacts DEF AllDevices, AllCounters
        <4>2. start[k][x][f] \in Starts
          BY <3>1, <3>2, <4>1
        <4>3. start[k][x][f] \in Nat
          BY <4>2, MetricAssumption
        <4>. QED  BY <4>3, Widths, Division
      <3>. QED  BY <3>3, <3>4 DEF Reading
    <2>2. prev_map = [k \in Kinds |-> NoDevice] /\ rates = [k \in Kinds |-> NoDevice]
      BY <1>1 DEF Init
    <2>3. DOMAIN NoDevice = {}
      BY DEF NoDevice
    <2>4. AllReadings(prev_map) /\ AllReports(rates)
      BY <2>2, <2>3 DEF AllReadings, Readings, AllReports, Report
    <2>5. AllSampled(proc, prev_map, work, suspect)
      BY <1>1, <2>2, <2>3 DEF AllSampled, Sampled, Init
    <2>6. AllEfforts(work, steps)
      <3>1. work = [k \in Kinds |-> [x \in Devices[k] |-> [f \in Counters(k) |-> 0]]] /\ steps \in Nat
        BY <1>1 DEF Init, NoWork
      <3>2. \A k \in Kinds : Effort(k, [f \in Counters(k) |-> 0], steps)
        BY <3>1, NoEffort
      <3>. QED  BY <3>1, <3>2 DEF AllEfforts, Efforts
    <2>. QED  BY <2>1, <2>4, <2>5, <2>6 DEF DevicesOK
  <1>. QED  BY <1>2, <1>3, <1>4 DEF IndInv

\* A change of what /proc shows preserves it.
LEMMA EnvironmentInv == ASSUME IndInv, Environment PROVE IndInv'
  <1>1. ControlOK /\ StatOK /\ DevicesOK
    BY DEF IndInv
  <1>2. ASSUME Happens PROVE steps \in Nat /\ steps' \in Nat /\ steps <= steps'
    BY <1>1, <1>2, HappensFacts, Widths
  <1>3. ASSUME Happens, UNCHANGED <<pc, load, mem>> PROVE ControlOK'
    BY <1>1, <1>3, HappensFacts DEF ControlOK
  <1>4. ASSUME NEW k \in Kinds, NEW x \in Devices[k], Disappears(k, x) PROVE IndInv'
    <2>1. ControlOK'
      BY <1>3, <1>4 DEF Disappears
    <2>2. StatOK'
      BY <1>1, <1>2, <1>4, StatKept DEF Disappears
    <2>. QED  BY <1>4, <2>1, <2>2, DisappearsKeeps DEF IndInv
  <1>5. ASSUME NEW k \in Kinds, NEW x \in Devices[k], Appears(k, x) PROVE IndInv'
    <2>1. ControlOK'
      BY <1>3, <1>5 DEF Appears
    <2>2. StatOK'
      BY <1>1, <1>2, <1>5, StatKept DEF Appears
    <2>. QED  BY <1>5, <2>1, <2>2, AppearsKeeps DEF IndInv
  <1>6. ASSUME NEW k \in Kinds, NEW x \in Devices[k], NEW f \in Counters(k), Works(k, x, f)
        PROVE  IndInv'
    <2>1. ControlOK'
      BY <1>3, <1>6 DEF Works
    <2>2. StatOK'
      BY <1>1, <1>2, <1>6, StatKept DEF Works
    <2>. QED  BY <1>6, <2>1, <2>2, WorksKeeps DEF IndInv
  <1>7. ASSUME NEW m \in Modes, Ticks(m) PROVE IndInv'
    <2>1. ControlOK'
      BY <1>3, <1>7 DEF Ticks
    <2>2. DevicesOK'
      BY <1>1, <1>2, <1>7, DevicesKept DEF Ticks
    <2>. QED  BY <1>7, <2>1, <2>2, TicksKeeps DEF IndInv
  <1>8. ASSUME IowaitDips PROVE IndInv'
    <2>1. ControlOK'
      BY <1>3, <1>8 DEF IowaitDips
    <2>2. DevicesOK'
      BY <1>1, <1>2, <1>8, DevicesKept DEF IowaitDips
    <2>. QED  BY <1>8, <2>1, <2>2, IowaitDipsKeeps DEF IndInv
  <1>. QED  BY <1>4, <1>5, <1>6, <1>7, <1>8 DEF Environment

\* A read by one of the monitors preserves it.
LEMMA CollectorInv == ASSUME IndInv, Collector PROVE IndInv'
  <1>1. ControlOK /\ StatOK /\ DevicesOK
    BY DEF IndInv
  <1>2. PICK ok \in BOOLEAN :
           \/ CpuStatInit(ok) \/ CpuLoadCollects(ok) \/ CpuStatCollects(ok) \/ MemCollects(ok)
           \/ \E k \in Kinds : DevicesInit(k, ok) \/ DevicesCollect(k, ok)
    BY DEF Collector
  <1>3. Opens(ok)
    BY <1>2 DEF CpuStatInit, CpuLoadCollects, CpuStatCollects, MemCollects, DevicesInit,
                DevicesCollect
  <1>4. steps' \in 0..MaxSteps /\ steps \in Nat /\ steps' \in Nat /\ steps <= steps'
    BY <1>1, <1>3, OpensFacts, Widths
  <1>5. CASE CpuStatInit(ok)
    <2>1. ControlOK'
      BY <1>1, <1>4, <1>5 DEF ControlOK, CpuStatInit, Places
    <2>2. DevicesOK'
      BY <1>1, <1>4, <1>5, DevicesKept DEF CpuStatInit
    <2>. QED  BY <1>5, <2>1, <2>2, CpuStatInitKeeps DEF IndInv
  <1>6. CASE CpuStatCollects(ok)
    <2>1. ControlOK'
      BY <1>1, <1>4, <1>6 DEF ControlOK, CpuStatCollects, Places
    <2>2. DevicesOK'
      BY <1>1, <1>4, <1>6, DevicesKept DEF CpuStatCollects
    <2>. QED  BY <1>6, <2>1, <2>2, CpuStatCollectsKeeps DEF IndInv
  <1>7. CASE CpuLoadCollects(ok)
    <2>1. ControlOK'
      BY <1>1, <1>4, <1>7 DEF ControlOK, CpuLoadCollects, Places
    <2>2. DevicesOK'
      BY <1>1, <1>4, <1>7, DevicesKept DEF CpuLoadCollects
    <2>3. StatOK'
      BY <1>1, <1>4, <1>7, StatKept DEF CpuLoadCollects
    <2>. QED  BY <2>1, <2>2, <2>3 DEF IndInv
  <1>8. CASE MemCollects(ok)
    <2>1. ControlOK'
      BY <1>1, <1>4, <1>8 DEF ControlOK, MemCollects, Places
    <2>2. DevicesOK'
      BY <1>1, <1>4, <1>8, DevicesKept DEF MemCollects
    <2>3. StatOK'
      BY <1>1, <1>4, <1>8, StatKept DEF MemCollects
    <2>. QED  BY <2>1, <2>2, <2>3 DEF IndInv
  <1>9. ASSUME NEW k \in Kinds, DevicesInit(k, ok) PROVE IndInv'
    <2>1. ControlOK'
      BY <1>1, <1>4, <1>9 DEF ControlOK, DevicesInit, Places
    <2>2. StatOK'
      BY <1>1, <1>4, <1>9, StatKept DEF DevicesInit
    <2>. QED  BY <1>9, <2>1, <2>2, DevicesInitKeeps DEF IndInv
  <1>10. ASSUME NEW k \in Kinds, DevicesCollect(k, ok) PROVE IndInv'
    <2>1. ControlOK'
      BY <1>1, <1>4, <1>10 DEF ControlOK, DevicesCollect, Places
    <2>2. StatOK'
      BY <1>1, <1>4, <1>10, StatKept DEF DevicesCollect
    <2>. QED  BY <1>10, <2>1, <2>2, DevicesCollectKeeps DEF IndInv
  <1>. QED  BY <1>2, <1>5, <1>6, <1>7, <1>8, <1>9, <1>10

\* So does every step.
LEMMA NextInv == IndInv /\ [Next]_vars => IndInv'
  <1>1. SUFFICES ASSUME IndInv, [Next]_vars PROVE IndInv'
    OBVIOUS
  <1>2. CASE Environment
    BY <1>1, <1>2, EnvironmentInv
  <1>3. CASE Collector
    BY <1>1, <1>3, CollectorInv
  <1>4. CASE UNCHANGED vars
    <2>1. ControlOK /\ StatOK /\ DevicesOK /\ steps \in Nat /\ steps' = steps
      BY <1>1, <1>4, Widths DEF IndInv, ControlOK, vars, envVars
    <2>2. ControlOK'
      BY <2>1, <1>4 DEF ControlOK, vars
    <2>3. StatOK'
      BY <2>1, <1>4, StatKept DEF vars, envVars
    <2>4. DevicesOK'
      BY <2>1, <1>4, DevicesKept DEF vars, envVars
    <2>. QED  BY <2>2, <2>3, <2>4 DEF IndInv
  <1>. QED  BY <1>1, <1>2, <1>3, <1>4 DEF Next

\* The invariant is one.
LEMMA Invariance == Spec => []IndInv
  BY InitInv, NextInv, PTL DEF Spec

\* Type correctness: whatever restarts, wraps around or cannot be read, no monitor
\* reports a negative figure, one out of range, or a device that is hidden.
THEOREM TypeCorrect == Spec => []TypeOK
  <1>1. IndInv => TypeOK
    <2>1. SUFFICES ASSUME IndInv PROVE TypeOK
      OBVIOUS
    <2>2. ControlOK /\ StatOK /\ DevicesOK
      BY <2>1 DEF IndInv
    <2>3. ASSUME NEW k \in Kinds
          PROVE  /\ DOMAIN proc[k] \cup DOMAIN prev_map[k] \subseteq Devices[k]
                 /\ DOMAIN rates[k] \subseteq Devices[k] \ Hidden
                 /\ \A x \in DOMAIN proc[k], f \in Counters(k) :
                       proc[k][x][f] \in 0..(Modulus(f) - 1)
                 /\ \A x \in DOMAIN rates[k], r \in Reported(k) :
                       rates[k][x][r] \in 0..(Wide - 1)
      <3>1. Readings(k, proc[k]) /\ Readings(k, prev_map[k]) /\ Report(k, rates[k])
        BY <2>2, <2>3 DEF DevicesOK, AllReadings, AllReports
      <3>2. \A x \in DOMAIN proc[k], f \in Counters(k) : proc[k][x][f] \in 0..(Modulus(f) - 1)
        BY <3>1 DEF Readings, Reading
      <3>. QED  BY <3>1, <3>2 DEF Readings, Report
    <2>. QED  BY <2>2, <2>3 DEF TypeOK, ControlOK, StatOK
  <1>. QED  BY <1>1, Invariance, PTL

\* Only the collector's own steps move it on and change what it reports.
LEMMA EnvironmentLeaves == ASSUME Environment PROVE pc' = pc /\ pct' = pct
  <1>1. ASSUME NEW k \in Kinds, NEW x \in Devices[k], Disappears(k, x)
        PROVE  pc' = pc /\ pct' = pct
    BY <1>1 DEF Disappears, statVars
  <1>2. ASSUME NEW k \in Kinds, NEW x \in Devices[k], Appears(k, x)
        PROVE  pc' = pc /\ pct' = pct
    BY <1>2 DEF Appears, statVars
  <1>3. ASSUME NEW k \in Kinds, NEW x \in Devices[k], NEW f \in Counters(k), Works(k, x, f)
        PROVE  pc' = pc /\ pct' = pct
    BY <1>3 DEF Works, statVars
  <1>4. ASSUME NEW m \in Modes, Ticks(m) PROVE pc' = pc /\ pct' = pct
    BY <1>4 DEF Ticks
  <1>5. ASSUME IowaitDips PROVE pc' = pc /\ pct' = pct
    BY <1>5 DEF IowaitDips
  <1>. QED  BY <1>1, <1>2, <1>3, <1>4, <1>5 DEF Environment

\* The rates that a Collect of DiskMonitor or NetMonitor reports are what the
\* device did since the file was last read, unless the device is excepted.
LEMMA CollectIsExact ==
  ASSUME IndInv, NEW k \in Kinds, NEW ok \in BOOLEAN, DevicesCollect(k, ok),
         NEW x \in DOMAIN rates'[k] \ suspect[k], NEW r \in Reported(k)
  PROVE  rates'[k][x][r] = Done(k, x, r)
  <1>1. /\ AllReadings(prev_map) /\ AllEfforts(work, steps)
        /\ AllSampled(proc, prev_map, work, suspect)
    BY DEF IndInv, DevicesOK
  <1>2. steps \in Nat /\ steps < Wide
    BY Widths DEF IndInv, ControlOK
  <1>3. /\ x \in DOMAIN prev_map[k]
        /\ rates'[k][x][r] = Delta(Value(proc[k][x], r), Value(prev_map[k][x], r))
    BY CollectReports
  <1>4. Reading(k, prev_map[k][x]) /\ x \in Devices[k]
    BY <1>1, <1>3 DEF AllReadings, Readings
  <1>5. Effort(k, work[k][x], steps)
    BY <1>1, <1>4 DEF AllEfforts, Efforts
  <1>6. Accounted(k, proc[k][x], prev_map[k][x], work[k][x])
    BY <1>1, <1>3 DEF AllSampled, Sampled
  <1>7. Delta(Value(proc[k][x], r), Value(prev_map[k][x], r)) = Value(work[k][x], r)
    BY <1>2, <1>4, <1>5, <1>6, DeltaIsExact
  <1>. QED  BY <1>3, <1>7 DEF Done

\* Reported rates are exact, for any number of devices, across wrap-around and
\* after failed reads, but for the exceptions that RateIsExact names.
THEOREM RatesExact == Spec => RateIsExact
  <1>1. ASSUME IndInv, [Next]_vars
        PROVE  \A k \in Kinds : pc = k /\ pc' # k =>
                  \A x \in DOMAIN rates'[k] \ suspect[k] : \A r \in Reported(k) :
                     rates'[k][x][r] = Done(k, x, r)
    <2>1. SUFFICES ASSUME NEW k \in Kinds, pc = k, pc' # k,
                          NEW x \in DOMAIN rates'[k] \ suspect[k], NEW r \in Reported(k)
                   PROVE  rates'[k][x][r] = Done(k, x, r)
      OBVIOUS
    <2>2. ~UNCHANGED vars /\ ~Environment
      BY <2>1, EnvironmentLeaves DEF vars
    <2>3. Collector
      BY <1>1, <2>2 DEF Next
    <2>4. PICK ok \in BOOLEAN :
             \/ CpuStatInit(ok) \/ CpuLoadCollects(ok) \/ CpuStatCollects(ok) \/ MemCollects(ok)
             \/ \E j \in Kinds : DevicesInit(j, ok) \/ DevicesCollect(j, ok)
      BY <2>3 DEF Collector
    <2>5. pc \in {"disk", "net"}
      BY <2>1, KindFacts
    <2>6. ~CpuStatInit(ok) /\ ~CpuLoadCollects(ok) /\ ~CpuStatCollects(ok) /\ ~MemCollects(ok)
      BY <2>5 DEF CpuStatInit, CpuLoadCollects, CpuStatCollects, MemCollects
    <2>7. ASSUME NEW j \in Kinds PROVE ~DevicesInit(j, ok)
      BY <2>5 DEF DevicesInit
    <2>8. ASSUME NEW j \in Kinds, DevicesCollect(j, ok) PROVE j = k
      BY <2>1, <2>8 DEF DevicesCollect
    <2>9. DevicesCollect(k, ok)
      BY <2>4, <2>6, <2>7, <2>8
    <2>. QED  BY <1>1, <2>1, <2>9, CollectIsExact
  <1>. QED  BY <1>1, Invariance, PTL DEF Spec, RateIsExact

\* What CpuStatMonitor makes of a line that could be read, and of one that could not.
LEMMA StatCollectIsExact ==
  ASSUME IndInv, NEW ok \in BOOLEAN, CpuStatCollects(ok), pct' # pct
  PROVE  \/ dipped
         \/ pct' = [of |-> Total(used), share |-> Restrict(used, Shown)]
         \/ pct'.share = [m \in Shown |-> 0] /\ Total(prev_') = 0
  <1>. DEFINE cur == StatLine(ok)
              delta == (Total(cur) - Total(prev_)) % Wide
  <1>1. /\ prev_' = cur
        /\ pct' = [of |-> delta, share |-> [m \in Shown |-> Share(cur, m)]]
    BY DEF CpuStatCollects, PrevAfter
  <1>2. StatOK /\ steps \in 0..MaxSteps
    BY DEF IndInv, ControlOK
  <1>3. prev_ \in [Modes -> Nat] /\ used \in [Modes -> Nat] /\ Shown \subseteq Modes
    BY <1>2 DEF StatOK, Shown
  <1>4. CASE ok /\ ~dipped
    <2>1. cur = ticks
      BY <1>4 DEF StatLine
    <2>2. delta = Total(used)
      BY <1>2, <1>4, <2>1, TotalIsExact
    <2>3. ASSUME NEW m \in Shown PROVE Share(cur, m) = used[m]
      <3>1. ticks[m] = prev_[m] + used[m]
        BY <1>2, <1>3, <1>4, <2>3 DEF StatOK, StatAccounted
      <3>2. prev_[m] \in Nat /\ used[m] \in Nat
        BY <1>3, <2>3
      <3>. QED  BY <2>1, <3>1, <3>2 DEF Share
    <2>. HIDE DEF cur, delta
    <2>4. [m \in Shown |-> Share(cur, m)] = Restrict(used, Shown)
      BY <2>3 DEF Restrict
    <2>. QED  BY <1>1, <2>2, <2>4
  <1>5. CASE ~ok
    <2>1. cur = [m \in Modes |-> 0]
      BY <1>5 DEF StatLine
    <2>2. Total(prev_') = 0
      BY <1>1, <2>1, NothingUsed
    <2>3. ASSUME NEW m \in Shown PROVE Share(cur, m) = 0
      <3>1. cur[m] = 0 /\ prev_[m] \in Nat
        BY <1>3, <2>1, <2>3
      <3>. HIDE DEF cur
      <3>. QED  BY <3>1 DEF Share
    <2>. HIDE DEF cur, delta
    <2>4. [m \in Shown |-> Share(cur, m)] = [m \in Shown |-> 0]
      BY <2>3
    <2>. QED  BY <1>1, <2>2, <2>4
  <1>. QED  BY <1>4, <1>5

\* Percentages are those of the interval, for any starting values: the sum that
\* they are of is exact although it is subtracted modulo 2^64.
THEOREM PercentagesOfInterval == Spec => PctIsOfInterval
  <1>1. ASSUME IndInv, [Next]_vars
        PROVE  pct' # pct =>
                 \/ dipped
                 \/ pct' = [of |-> Total(used), share |-> Restrict(used, Shown)]
                 \/ pct'.share = [m \in Shown |-> 0] /\ Total(prev_') = 0
    <2>1. SUFFICES ASSUME pct' # pct
                   PROVE  \/ dipped
                          \/ pct' = [of |-> Total(used), share |-> Restrict(used, Shown)]
                          \/ pct'.share = [m \in Shown |-> 0] /\ Total(prev_') = 0
      OBVIOUS
    <2>2. ~UNCHANGED vars /\ ~Environment
      BY <2>1, EnvironmentLeaves DEF vars, statVars
    <2>3. Collector
      BY <1>1, <2>2 DEF Next
    <2>4. PICK ok \in BOOLEAN : CpuStatCollects(ok)
      BY <2>1, <2>3 DEF Collector, CpuStatInit, CpuLoadCollects, MemCollects, DevicesInit,
                        DevicesCollect, statVars
    <2>. QED  BY <1>1, <2>1, <2>4, StatCollectIsExact
  <1>. QED  BY <1>1, Invariance, PTL DEF Spec, PctIsOfInterval
=============================================================================
