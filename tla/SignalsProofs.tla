---------------------------- MODULE SignalsProofs ----------------------------
(***************************************************************************)
(* Proofs about Signals, for every load, number of cores, set of windows   *)
(* and length of behaviour: readings are right about the interval they are *)
(* for, windows hold what they should, and a percentile of what they hold  *)
(* has the rank it is named for.                                           *)
(***************************************************************************)
EXTENDS Signals, FiniteSetTheorems, TLAPS

-----------------------------------------------------------------------------
(***************************************************************************)
(* Arithmetic of rates and percentages.                                    *)
(***************************************************************************)
Capacity(ticks) == Cores * ticks

LEMMA ConstantsType ==
  /\ Cores \in Nat \ {0} /\ Loads \subseteq 0 .. Cores
  /\ MaxTime \in Nat /\ MaxPolls \in Nat /\ Unit \in Nat
BY SignalsAssumption

LEMMA CapacityGrows ==
  ASSUME NEW i \in Nat, NEW j \in Nat, i <= j
  PROVE  /\ Capacity(i) \in Nat /\ Capacity(j) \in Nat
         /\ Capacity(i) <= Capacity(j)
         /\ Capacity(j - i) = Capacity(j) - Capacity(i)
<1>1. Cores \in Nat /\ j - i \in Nat
  BY ConstantsType
<1>2. Capacity(j) = Capacity(i) + Capacity(j - i)
  BY <1>1 DEF Capacity
<1>3. Capacity(i) \in Nat /\ Capacity(j) \in Nat /\ Capacity(j - i) \in Nat
  BY <1>1 DEF Capacity
<1> HIDE DEF Capacity
<1> QED BY <1>2, <1>3

\* Unit is a multiple of every interval, so that rates are whole.
LEMMA UnitDivides ==
  ASSUME NEW interval \in 1 .. MaxTime
  PROVE  Unit \div interval \in Nat /\ (Unit \div interval) * interval = Unit
<1>1. Unit % interval = 0 /\ Unit \in Nat /\ MaxTime \in Nat
  BY SignalsAssumption
<1>2. interval \in Nat \ {0}
  BY ConstantsType
<1> QED BY <1>1, <1>2

LEMMA ProductMonotone ==
  ASSUME NEW a \in Int, NEW b \in Int, a <= b, NEW u \in Nat
  PROVE  a * u <= b * u
<1>1. (b - a) \in Nat
  OBVIOUS
<1>2. (b - a) * u \in Nat
  BY <1>1
<1>3. (b - a) * u = b * u - a * u
  OBVIOUS
<1> QED BY <1>2, <1>3

\* A rate times its interval is what was counted in it.
LEMMA ThroughputRate ==
  ASSUME NEW delta \in Nat, NEW interval \in 1 .. MaxTime, delta <= Capacity(interval)
  PROVE  /\ Throughput(delta, interval) \in 0 .. Cores * Unit
         /\ Throughput(delta, interval) * interval = delta * Unit
<1> DEFINE per == Unit \div interval
<1>1. per \in Nat /\ per * interval = Unit /\ interval \in Nat \ {0} /\ Cores \in Nat
  BY UnitDivides, ConstantsType
<1>2. Throughput(delta, interval) = delta * per
  BY <1>1 DEF Throughput
<1> HIDE DEF per
<1>3. (delta * per) * interval = delta * (per * interval)
  BY <1>1
<1>4. delta * per <= Capacity(interval) * per
  BY <1>1, ProductMonotone DEF Capacity
<1>5. Capacity(interval) * per = Cores * (per * interval)
  BY <1>1 DEF Capacity
<1>6. delta * per \in Nat
  BY <1>1
<1> QED BY <1>1, <1>2, <1>3, <1>4, <1>5, <1>6

\* The clamp makes a percentage of everything and alters no load that the cores
\* can carry.
LEMMA CpuPercentage ==
  ASSUME NEW delta \in Int, NEW interval \in Nat \ {0}
  PROVE  /\ NormalizeCpu(delta, interval) \in 0 .. 100
         /\ delta \in 0 .. Capacity(interval) =>
              NormalizeCpu(delta, interval) = (100 * delta) \div (Cores * interval)
<1> DEFINE full == Cores * interval
           pct  == (100 * delta) \div full
<1>1. full \in Nat \ {0} /\ Cores \in Nat \ {0}
  BY ConstantsType
<1>2. NormalizeCpu(delta, interval) = Clamp(pct)
  BY DEF NormalizeCpu
<1>3. Capacity(interval) = full
  BY DEF Capacity
<1> HIDE DEF full
<1>4. pct \in Int
  BY <1>1
<1>5. delta \in 0 .. full => pct \in 0 .. 100
  BY <1>1
<1> HIDE DEF pct
<1>6. Clamp(pct) \in 0 .. 100 /\ (pct \in 0 .. 100 => Clamp(pct) = pct)
  BY <1>4 DEF Clamp
<1> QED BY <1>2, <1>3, <1>5, <1>6 DEF pct, full

-----------------------------------------------------------------------------
(***************************************************************************)
(* The invariant.  What a counter has gained since it was known is what    *)
(* the Connector carried since, or less if it began again in between.      *)
(***************************************************************************)
TotalsOK ==
  /\ now \in 0 .. MaxTime
  /\ total \in [0 .. MaxTime -> 0 .. Capacity(MaxTime)]
  /\ total[0] = 0
  /\ \A i, j \in 0 .. now : i <= j => Carried(i, j) \in 0 .. Capacity(j - i)

CounterOK == counter \in 0 .. total[now]

KnownOK ==
  \/ known = None
  \/ /\ known \in [count : Nat, ts : 0 .. now, unbroken : BOOLEAN]
     /\ known.count <= total[known.ts]
     /\ counter - known.count <= Carried(known.ts, now)
     /\ known.unbroken => counter - known.count = Carried(known.ts, now)

MeterOK ==
  /\ meter \in [since : 0 .. now, count : Nat]
  /\ meter.count = Carried(meter.since, now)

LineOK ==
  \/ line = None
  \/ /\ line \in [from : 0 .. now, to : 0 .. now, delta : Nat, dated : BOOLEAN]
     /\ line.from <= line.to
     /\ line.delta = Carried(line.from, line.to)

\* The throughput and the CPU reading of a sample are right about its interval.
ThroughputRight(s) ==
  s.throughput # None =>
    /\ s.throughput * (s.to - s.from) <= Carried(s.from, s.to) * Unit
    /\ s.unbroken => s.throughput * (s.to - s.from) = Carried(s.from, s.to) * Unit

CpuRight(s) ==
  s.cpu # None /\ s.unbroken =>
    s.cpu = (100 * Carried(s.from, s.to)) \div (Cores * (s.to - s.from))

Sound(s) ==
  /\ s \in Samples
  /\ s.from <= s.to /\ s.to <= now
  /\ s.dated => s.ts = s.to
  /\ ThroughputRight(s) /\ CpuRight(s)

SamplesOK ==
  /\ ever \in Seq(Samples)
  /\ \A i \in DOMAIN ever : Sound(ever[i])

\* A sample is dropped once it is older than the longest window, for good.
BufferOK ==
  /\ buffer \subseteq DOMAIN ever
  /\ \A i \in DOMAIN ever : ever[i].ts >= now - Retention => i \in buffer

SourcesOK == TotalsOK /\ CounterOK /\ KnownOK /\ MeterOK /\ LineOK /\ polls \in 0 .. MaxPolls

SignalsInv == SourcesOK /\ SamplesOK /\ BufferOK

LEMMA LongestWindow ==
  Retention \in Windows /\ (\A w \in Windows : w \in Nat /\ w <= Retention)
BY SignalsAssumption DEF Retention

LEMMA InitSignals == Init => SignalsInv
<1> SUFFICES ASSUME Init PROVE SignalsInv
  OBVIOUS
<1> USE ConstantsType
<1>1. TotalsOK
  <2>1. now = 0 /\ total = [t \in 0 .. MaxTime |-> 0] /\ 0 \in 0 .. MaxTime
        /\ 0 \in 0 .. Capacity(MaxTime)
    BY DEF Init, Capacity
  <2>2. Carried(0, 0) = 0 /\ Capacity(0 - 0) = 0
    BY <2>1 DEF Carried, Capacity
  <2> QED BY <2>1, <2>2 DEF TotalsOK
<1>2. CounterOK /\ KnownOK /\ LineOK /\ polls \in 0 .. MaxPolls
  BY <1>1 DEF Init, CounterOK, KnownOK, LineOK, TotalsOK
<1>3. MeterOK
  BY <1>1 DEF Init, MeterOK, TotalsOK, Carried
<1>4. SamplesOK /\ BufferOK
  BY DEF Init, SamplesOK, BufferOK
<1> QED BY <1>1, <1>2, <1>3, <1>4 DEF SignalsInv, SourcesOK

\* A reading whose counter gained no more than what was carried is a sound one.
LEMMA SampleSound ==
  ASSUME TotalsOK, NEW from \in 0 .. now, NEW to \in 0 .. now, from <= to,
         NEW delta \in Int, delta <= Carried(from, to),
         NEW unbroken \in BOOLEAN, unbroken => delta = Carried(from, to),
         NEW dated \in BOOLEAN, NEW ts \in 0 .. now, dated => ts = to
  PROVE  Sound(Sample(ts, delta, from, to, unbroken, dated))
<1> DEFINE interval == to - from
           s        == Sample(ts, delta, from, to, unbroken, dated)
<1> USE ConstantsType
<1>1. /\ now \in 0 .. MaxTime /\ interval \in 0 .. MaxTime
      /\ Carried(from, to) \in 0 .. Capacity(interval)
      /\ Capacity(interval) \in Nat
  BY CapacityGrows DEF TotalsOK
<1>2. /\ s.ts = ts /\ s.from = from /\ s.to = to /\ s.unbroken = unbroken /\ s.dated = dated
      /\ s.cpu = NormalizeCpu(delta, interval)
      /\ s.throughput = Throughput(delta, interval)
  BY DEF Sample
<1>3. /\ s.cpu \in 0 .. 100 \cup {None}
      /\ CpuRight(s)
  <2>1. CASE interval = 0
    BY <1>2, <2>1 DEF NormalizeCpu, CpuRight
  <2>2. CASE interval # 0
    <3>1. interval \in Nat \ {0}
      BY <1>1, <2>2
    <3>2. NormalizeCpu(delta, interval) \in 0 .. 100
      BY <3>1, CpuPercentage
    <3>3. delta \in 0 .. Capacity(interval) =>
            NormalizeCpu(delta, interval) = (100 * delta) \div (Cores * interval)
      BY <3>1, CpuPercentage
    <3>4. unbroken => NormalizeCpu(delta, interval) = (100 * Carried(from, to)) \div (Cores * interval)
      BY <1>1, <3>3
    <3> QED BY <1>2, <3>2, <3>4 DEF CpuRight
  <2> QED BY <2>1, <2>2
<1>4. /\ s.throughput \in 0 .. Cores * Unit \cup {None}
      /\ ThroughputRight(s)
  <2>1. CASE interval = 0 \/ delta < 0
    BY <1>1, <1>2, <2>1 DEF Throughput, ThroughputRight
  <2>2. CASE interval # 0 /\ delta >= 0
    <3>1. interval \in 1 .. MaxTime /\ delta \in Nat /\ delta <= Capacity(interval)
      BY <1>1, <2>2
    <3>2. /\ Throughput(delta, interval) \in 0 .. Cores * Unit
          /\ Throughput(delta, interval) * interval = delta * Unit
      BY <3>1, ThroughputRate
    <3>3. delta * Unit <= Carried(from, to) * Unit
      BY <1>1, ProductMonotone
    <3> QED BY <1>2, <3>2, <3>3 DEF ThroughputRight
  <2> QED BY <1>1, <2>1, <2>2
<1>5. s \in Samples
  BY <1>1, <1>3, <1>4, <1>2 DEF Sample, Samples
<1> QED BY <1>1, <1>2, <1>3, <1>4, <1>5 DEF Sound

-----------------------------------------------------------------------------
(***************************************************************************)
(* The container's steps.                                                  *)
(***************************************************************************)

\* Time goes on, and the past stays as it was.
LEMMA TickTotals ==
  ASSUME TotalsOK, Tick
  PROVE  /\ TotalsOK' /\ now' = now + 1
         /\ \A i, j \in 0 .. now : Carried(i, j)' = Carried(i, j)
         /\ \E l \in Loads : /\ total'[now'] = total[now] + l
                             /\ \A i \in 0 .. now : total'[now'] - total'[i] = Carried(i, now) + l
                             /\ counter' = counter + l
                             /\ meter' = [meter EXCEPT !.count = @ + l]
<1> USE ConstantsType
<1>1. PICK l \in Loads : /\ total' = [total EXCEPT ![now + 1] = total[now] + l]
                         /\ counter' = counter + l
                         /\ meter' = [meter EXCEPT !.count = @ + l]
  BY DEF Tick
<1>2. /\ now \in 0 .. MaxTime /\ now' = now + 1 /\ now' \in 0 .. MaxTime /\ l \in 0 .. Cores
      /\ total \in [0 .. MaxTime -> 0 .. Capacity(MaxTime)] /\ total[0] = 0
      /\ Capacity(MaxTime) \in Nat
  BY DEF Tick, TotalsOK, Capacity
<1>3. /\ total'[now + 1] = total[now] + l
      /\ \A t \in 0 .. now : total'[t] = total[t] /\ total[t] \in Nat
  BY <1>1, <1>2
<1>5. \A i, j \in 0 .. now : Carried(i, j)' = Carried(i, j)
  BY <1>3 DEF Carried
<1>6. ASSUME NEW i \in 0 .. now
      PROVE  /\ total'[now + 1] - total'[i] = Carried(i, now) + l
             /\ total'[now + 1] - total'[i] \in 0 .. Capacity(now + 1 - i)
  <2>1. Carried(i, now) \in 0 .. Capacity(now - i)
    BY <1>2 DEF TotalsOK
  <2>2. Capacity(now + 1 - i) = Capacity(now - i) + Cores /\ Capacity(now - i) \in Nat
    BY <1>2 DEF Capacity
  <2>3. total'[now + 1] - total'[i] = Carried(i, now) + l
    BY <1>2, <1>3 DEF Carried
  <2>4. l \in 0 .. Cores /\ Cores \in Nat
    BY <1>2, ConstantsType
  <2> QED BY ONLY <2>1, <2>2, <2>3, <2>4
<1>4. total' \in [0 .. MaxTime -> 0 .. Capacity(MaxTime)] /\ total'[0] = 0
  <2>1. total'[0] = 0
    BY <1>2, <1>3
  <2>2. total'[now + 1] - total'[0] \in 0 .. Capacity(now + 1 - 0)
    BY <1>2, <1>6
  <2>3. Capacity(now + 1 - 0) <= Capacity(MaxTime) /\ Capacity(now + 1 - 0) \in Nat
    <3>1. now + 1 - 0 \in Nat /\ MaxTime \in Nat /\ now + 1 - 0 <= MaxTime
      BY <1>2
    <3> QED BY <3>1, CapacityGrows
  <2>4. total'[now + 1] \in 0 .. Capacity(MaxTime)
    BY <1>2, <1>3, <2>1, <2>2, <2>3
  <2>5. total[now] + l \in 0 .. Capacity(MaxTime)
    BY <1>3, <2>4
  <2> QED BY <1>1, <1>2, <2>1, <2>5
<1>7. ASSUME NEW i \in 0 .. now', NEW j \in 0 .. now', i <= j
      PROVE  total'[j] - total'[i] \in 0 .. Capacity(j - i)
  <2>1. CASE j \in 0 .. now
    <3>1. i \in 0 .. now
      BY <1>2, <1>7, <2>1
    <3>2. total'[j] - total'[i] = Carried(i, j)
      BY <1>3, <2>1, <3>1 DEF Carried
    <3> QED BY <1>7, <2>1, <3>1, <3>2 DEF TotalsOK
  <2>2. CASE j = now + 1 /\ i \in 0 .. now
    <3>1. total'[now + 1] - total'[i] \in 0 .. Capacity(now + 1 - i)
      BY <1>6, <2>2
    <3>2. j = now + 1 /\ j - i = now + 1 - i
      BY <1>2, <2>2
    <3> QED BY <3>1, <3>2, Zenon
  <2>3. CASE j = now + 1 /\ i = now + 1
    <3>1. Capacity(j - i) = 0
      BY <1>2, <2>3 DEF Capacity
    <3>2. total'[j] \in Nat /\ total'[i] = total'[j]
      BY <1>2, <1>4, <2>3
    <3> QED BY <3>1, <3>2
  <2> QED BY <1>2, <2>1, <2>2, <2>3
<1>8. TotalsOK'
  BY <1>2, <1>4, <1>7 DEF TotalsOK, Carried
<1> QED BY <1>1, <1>2, <1>3, <1>5, <1>6, <1>8

\* What was said of the past stays right.
LEMMA SoundKept ==
  ASSUME TotalsOK, now' >= now, now' \in Nat,
         \A i, j \in 0 .. now : Carried(i, j)' = Carried(i, j)
  PROVE  \A s : Sound(s) => Sound(s)'
<1> SUFFICES ASSUME NEW s, Sound(s) PROVE Sound(s)'
  OBVIOUS
<1>1. /\ s \in Samples /\ (s.dated => s.ts = s.to) /\ s.from <= s.to /\ s.to <= now
      /\ s.from \in Nat /\ s.to \in Nat /\ now \in Nat
  BY ConstantsType DEF Sound, Samples, TotalsOK
<1>2. s.from \in 0 .. now /\ s.to \in 0 .. now
  BY <1>1
<1>3. Carried(s.from, s.to)' = Carried(s.from, s.to)
  BY <1>2
<1>4. ThroughputRight(s)' /\ CpuRight(s)'
  BY <1>3 DEF Sound, ThroughputRight, CpuRight
<1>5. s.to <= now'
  BY <1>1
<1> QED BY <1>1, <1>4, <1>5 DEF Sound

LEMMA TickKeeps == SignalsInv /\ Tick => SignalsInv'
<1> SUFFICES ASSUME SignalsInv, Tick PROVE SignalsInv'
  OBVIOUS
<1> USE ConstantsType
<1>1. /\ TotalsOK' /\ now' = now + 1
      /\ \A i, j \in 0 .. now : Carried(i, j)' = Carried(i, j)
  BY TickTotals DEF SignalsInv, SourcesOK
<1>2. PICK l \in Loads :
        /\ total'[now'] = total[now] + l
        /\ \A i \in 0 .. now : total'[now'] - total'[i] = Carried(i, now) + l
        /\ counter' = counter + l
        /\ meter' = [meter EXCEPT !.count = @ + l]
  BY TickTotals DEF SignalsInv, SourcesOK
<1>3. l \in Nat /\ now \in Nat /\ UNCHANGED <<known, line, ever, buffer, polls>>
  BY DEF Tick, SignalsInv, SourcesOK, TotalsOK
<1>4. total[now] \in Nat /\ counter \in 0 .. total[now]
  BY DEF SignalsInv, SourcesOK, TotalsOK, CounterOK
<1>5. CounterOK'
  BY <1>2, <1>3, <1>4 DEF CounterOK
<1>6. KnownOK'
  <2>1. CASE known = None
    BY <1>3, <2>1 DEF KnownOK
  <2>2. CASE /\ known \in [count : Nat, ts : 0 .. now, unbroken : BOOLEAN]
             /\ known.count <= total[known.ts]
             /\ counter - known.count <= Carried(known.ts, now)
             /\ known.unbroken => counter - known.count = Carried(known.ts, now)
    <3>1. known.ts \in 0 .. now /\ known.count \in Nat
      BY <2>2
    <3>8. total'[now'] - total'[known.ts] = Carried(known.ts, now) + l
      BY <1>2, <3>1
    <3>9. Carried(known.ts, now) \in 0 .. Capacity(now - known.ts)
      <4>1. now \in 0 .. now /\ known.ts <= now
        BY <1>3, <3>1
      <4> QED BY <3>1, <4>1 DEF SignalsInv, SourcesOK, TotalsOK
    <3>10. Capacity(now - known.ts) \in Nat
      BY <1>3, <3>1, CapacityGrows
    <3>2. /\ total'[now'] - total'[known.ts] = Carried(known.ts, now) + l
          /\ Carried(known.ts, now) \in Nat
      BY <3>8, <3>9, <3>10
    <3>3. total'[known.ts] = total[known.ts]
      BY <3>1 DEF Tick, SignalsInv, SourcesOK, TotalsOK
    <3>4. counter' - known.count = (counter - known.count) + l
      BY <1>2, <1>3, <1>4, <3>1
    <3>5. Carried(known.ts, now)' = Carried(known.ts, now) + l
      BY <1>1, <1>3, <3>2 DEF Carried
    <3>6. known \in [count : Nat, ts : 0 .. now', unbroken : BOOLEAN]
      BY <1>1, <1>3, <2>2
    <3>7. /\ counter' - known.count <= Carried(known.ts, now) + l
          /\ known.unbroken => counter' - known.count = Carried(known.ts, now) + l
      BY <1>3, <1>4, <2>2, <3>1, <3>2, <3>4
    <3> QED BY <1>3, <2>2, <3>3, <3>5, <3>6, <3>7 DEF KnownOK
  <2> QED BY <2>1, <2>2 DEF SignalsInv, SourcesOK, KnownOK
<1>7. MeterOK'
  <2>1. /\ meter \in [since : 0 .. now, count : Nat]
        /\ meter.count = Carried(meter.since, now) /\ meter.since \in 0 .. now
    BY DEF SignalsInv, SourcesOK, MeterOK
  <2>2. meter'.since = meter.since /\ meter'.count = meter.count + l
    BY <1>2, <2>1
  <2>3. meter' \in [since : 0 .. now', count : Nat]
    BY <1>1, <1>2, <1>3, <2>1
  <2>4. Carried(meter.since, now)' = Carried(meter.since, now) + l
    BY <1>1, <1>2, <2>1, <2>2 DEF Carried
  <2> QED BY <2>1, <2>2, <2>3, <2>4 DEF MeterOK
<1>8. LineOK'
  <2>1. CASE line = None
    BY <1>3, <2>1 DEF LineOK
  <2>2. CASE /\ line \in [from : 0 .. now, to : 0 .. now, delta : Nat, dated : BOOLEAN]
             /\ line.from <= line.to
             /\ line.delta = Carried(line.from, line.to)
    <3>1. line \in [from : 0 .. now', to : 0 .. now', delta : Nat, dated : BOOLEAN]
      BY <1>1, <1>3, <2>2
    <3>2. Carried(line.from, line.to)' = Carried(line.from, line.to)
      BY <1>1, <1>3, <2>2 DEF Carried
    <3> QED BY <1>3, <2>2, <3>1, <3>2 DEF LineOK
  <2> QED BY <2>1, <2>2 DEF SignalsInv, SourcesOK, LineOK
<1>9. SamplesOK'
  <2>1. \A s : Sound(s) => Sound(s)'
    BY <1>1, <1>3, SoundKept DEF SignalsInv, SourcesOK
  <2> QED BY <1>3, <2>1 DEF SignalsInv, SamplesOK
<1>10. BufferOK'
  <2>1. ASSUME NEW i \in DOMAIN ever PROVE ever[i].ts \in Nat
    BY <2>1 DEF SignalsInv, SamplesOK, Sound, Samples
  <2>2. \A i \in DOMAIN ever : ever[i].ts >= now' - Retention => ever[i].ts >= now - Retention
    BY <1>1, <1>3, <2>1, LongestWindow
  <2> QED BY <1>3, <2>2 DEF SignalsInv, BufferOK
<1> QED BY <1>1, <1>3, <1>5, <1>6, <1>7, <1>8, <1>9, <1>10 DEF SignalsInv, SourcesOK

LEMMA RestartKeeps == SignalsInv /\ (RestartedInPlace \/ Recreated) => SignalsInv'
<1> SUFFICES ASSUME SignalsInv, RestartedInPlace \/ Recreated PROVE SignalsInv'
  OBVIOUS
<1> USE ConstantsType
<1>1. /\ UNCHANGED <<now, total, ever, buffer, polls>> /\ counter' = 0
      /\ meter' = [since |-> now, count |-> 0] /\ line' \in {line, None}
  BY DEF RestartedInPlace, Recreated
<1>2. /\ TotalsOK /\ CounterOK /\ now \in Nat /\ total[now] \in Nat
      /\ Capacity(now - now) = 0 /\ Carried(now, now) = 0
  BY DEF SignalsInv, SourcesOK, TotalsOK, Carried, Capacity
<1>3. TotalsOK' /\ CounterOK' /\ MeterOK'
  <2>1. TotalsOK'
    BY <1>1, <1>2 DEF TotalsOK, Carried
  <2>2. CounterOK'
    BY <1>1, <1>2 DEF CounterOK
  <2>3. MeterOK'
    BY <1>1, <1>2 DEF MeterOK, Carried
  <2> QED BY <2>1, <2>2, <2>3
<1>4. LineOK' /\ polls' \in 0 .. MaxPolls
  BY <1>1 DEF SignalsInv, SourcesOK, LineOK, Carried
<1>5. KnownOK'
  <2>1. CASE Recreated \/ known = None
    BY <2>1 DEF RestartedInPlace, Recreated, KnownOK
  <2>2. CASE RestartedInPlace /\ known # None
    <3>1. /\ known \in [count : Nat, ts : 0 .. now, unbroken : BOOLEAN]
          /\ known.count <= total[known.ts]
      BY <2>2 DEF SignalsInv, SourcesOK, KnownOK
    <3>2. known' = [known EXCEPT !.unbroken = FALSE]
      BY <2>2 DEF RestartedInPlace
    <3>3. /\ known' \in [count : Nat, ts : 0 .. now, unbroken : BOOLEAN]
          /\ known'.count = known.count /\ known'.ts = known.ts /\ ~known'.unbroken
      BY <3>1, <3>2
    <3>4. Carried(known.ts, now) \in Nat
      BY <1>2, <3>1 DEF TotalsOK
    <3>5. counter' - known.count <= Carried(known.ts, now)
      BY <1>1, <3>1, <3>4
    <3> QED BY <1>1, <3>1, <3>3, <3>5 DEF KnownOK, Carried
  <2> QED BY <2>1, <2>2
<1>6. SamplesOK' /\ BufferOK'
  BY <1>1 DEF SignalsInv, SamplesOK, BufferOK, Sound, ThroughputRight, CpuRight, Carried
<1> QED BY <1>3, <1>4, <1>5, <1>6 DEF SignalsInv, SourcesOK

LEMMA LineKeeps == SignalsInv /\ WritesLine => SignalsInv'
<1> SUFFICES ASSUME SignalsInv, WritesLine PROVE SignalsInv'
  OBVIOUS
<1> USE ConstantsType
<1>1. /\ UNCHANGED <<now, total, counter, known, ever, buffer, polls>> /\ meter.since < now
      /\ \E dated \in BOOLEAN :
           line' = [from |-> meter.since, to |-> now, delta |-> meter.count, dated |-> dated]
      /\ meter' = [since |-> now, count |-> 0]
  BY DEF WritesLine
<1>2. /\ TotalsOK /\ MeterOK /\ now \in Nat /\ total[now] \in Nat /\ Carried(now, now) = 0
  BY DEF SignalsInv, SourcesOK, TotalsOK, Carried
<1>3. TotalsOK' /\ CounterOK' /\ KnownOK' /\ polls' \in 0 .. MaxPolls
  BY <1>1 DEF SignalsInv, SourcesOK, TotalsOK, CounterOK, KnownOK, Carried
<1>4. MeterOK'
  BY <1>1, <1>2 DEF MeterOK, Carried
<1>5. LineOK'
  BY <1>1, <1>2 DEF MeterOK, LineOK, Carried
<1>6. SamplesOK' /\ BufferOK'
  BY <1>1 DEF SignalsInv, SamplesOK, BufferOK, Sound, ThroughputRight, CpuRight, Carried
<1> QED BY <1>3, <1>4, <1>5, <1>6 DEF SignalsInv, SourcesOK

-----------------------------------------------------------------------------
(***************************************************************************)
(* A cycle.                                                                *)
(***************************************************************************)

\* Whatever the two collectors return is sound.
LEMMA CollectedSound ==
  ASSUME SourcesOK
  PROVE  /\ DockerSample \in Seq(Samples) /\ (\A i \in DOMAIN DockerSample : Sound(DockerSample[i]))
         /\ StdoutSample \in Seq(Samples) /\ (\A i \in DOMAIN StdoutSample : Sound(StdoutSample[i]))
<1> USE ConstantsType
<1>1. TotalsOK /\ now \in Nat /\ now <= MaxTime
  BY DEF SourcesOK, TotalsOK
<1>2. ASSUME NEW s, Sound(s)
      PROVE  /\ << s >> \in Seq(Samples)
             /\ \A i \in DOMAIN << s >> : << s >>[i] = s
  BY <1>2 DEF Sound
<1>3. \E s : Sound(s) /\ DockerSample = << s >>
  <2>1. CASE known = None
    <3> DEFINE s == [ts |-> now, cpu |-> None, throughput |-> None, from |-> now, to |-> now,
                     unbroken |-> TRUE, dated |-> TRUE]
    <3>1. Sound(s)
      BY <1>1 DEF Sound, Samples, ThroughputRight, CpuRight
    <3>2. DockerSample = << s >>
      BY <2>1 DEF DockerSample
    <3> QED BY <3>1, <3>2
  <2>2. CASE known # None
    <3>1. /\ known \in [count : Nat, ts : 0 .. now, unbroken : BOOLEAN]
          /\ counter - known.count <= Carried(known.ts, now)
          /\ known.unbroken => counter - known.count = Carried(known.ts, now)
          /\ counter - known.count \in Int
      BY <1>1, <2>2 DEF SourcesOK, KnownOK, CounterOK, TotalsOK
    <3>2. known.ts \in 0 .. now /\ known.ts <= now /\ known.unbroken \in BOOLEAN /\ now \in 0 .. now
      BY <1>1, <3>1
    <3>3. Sound(Sample(now, counter - known.count, known.ts, now, known.unbroken, TRUE))
      BY <1>1, <3>1, <3>2, SampleSound
    <3>4. DockerSample = << Sample(now, counter - known.count, known.ts, now, known.unbroken, TRUE) >>
      BY <2>2 DEF DockerSample
    <3> QED BY <3>3, <3>4
  <2> QED BY <2>1, <2>2
<1>4. StdoutSample = << >> \/ \E s : Sound(s) /\ StdoutSample = << s >>
  <2>1. CASE line = None
    BY <2>1 DEF StdoutSample
  <2>2. CASE line # None
    <3>1. /\ line \in [from : 0 .. now, to : 0 .. now, delta : Nat, dated : BOOLEAN]
          /\ line.from <= line.to
          /\ line.delta = Carried(line.from, line.to)
      BY <2>2 DEF SourcesOK, LineOK
    <3>2. /\ line.from \in 0 .. now /\ line.to \in 0 .. now /\ line.delta \in Int
          /\ line.delta <= Carried(line.from, line.to) /\ TRUE \in BOOLEAN
          /\ line.dated \in BOOLEAN
          /\ LineTime \in 0 .. now /\ (line.dated => LineTime = line.to)
      BY <1>1, <3>1 DEF LineTime
    <3>3. Sound(Sample(LineTime, line.delta, line.from, line.to, TRUE, line.dated))
      BY <1>1, <3>1, <3>2, SampleSound
    <3>4. StdoutSample = << Sample(LineTime, line.delta, line.from, line.to, TRUE, line.dated) >>
      BY <2>2 DEF StdoutSample
    <3> QED BY <3>3, <3>4
  <2> QED BY <2>1, <2>2
<1>5. PICK s : Sound(s) /\ DockerSample = << s >>
  BY <1>3
<1>6. DockerSample \in Seq(Samples) /\ (\A i \in DOMAIN DockerSample : Sound(DockerSample[i]))
  BY <1>2, <1>5
<1>7. CASE StdoutSample = << >>
  BY <1>6, <1>7
<1>8. ASSUME NEW l, Sound(l), StdoutSample = << l >>
      PROVE  StdoutSample \in Seq(Samples) /\ \A i \in DOMAIN StdoutSample : Sound(StdoutSample[i])
  BY <1>2, <1>8
<1> QED BY <1>4, <1>6, <1>7, <1>8

LEMMA CycleKeeps == SignalsInv /\ Cycle => SignalsInv'
<1> SUFFICES ASSUME SignalsInv, Cycle PROVE SignalsInv'
  OBVIOUS
<1> USE ConstantsType
<1>1. PICK stats \in BOOLEAN, log \in BOOLEAN :
        LET samples == (IF stats THEN DockerSample ELSE << >>) \o (IF log THEN StdoutSample ELSE << >>)
            given   == ever \o samples
        IN  /\ ever' = given
            /\ buffer' = Prune(given, buffer \cup (DOMAIN given \ DOMAIN ever))
            /\ known' = Known(stats)
  BY DEF Cycle
<1> DEFINE first   == IF stats THEN DockerSample ELSE << >>
           second  == IF log THEN StdoutSample ELSE << >>
           samples == first \o second
           given   == ever \o samples
<1>2. /\ ever' = given /\ known' = Known(stats)
      /\ buffer' = Prune(given, buffer \cup (DOMAIN given \ DOMAIN ever))
  BY <1>1
<1>3. UNCHANGED <<now, total, counter, meter, line>> /\ polls' = polls + 1 /\ polls < MaxPolls
  BY DEF Cycle
<1>4. /\ first \in Seq(Samples) /\ (\A i \in DOMAIN first : Sound(first[i]))
      /\ second \in Seq(Samples) /\ (\A i \in DOMAIN second : Sound(second[i]))
  BY CollectedSound DEF SignalsInv
<1> HIDE DEF first, second
<1>5. samples \in Seq(Samples) /\ \A i \in DOMAIN samples : Sound(samples[i])
  BY <1>4
<1> HIDE DEF samples
<1>6. /\ given \in Seq(Samples) /\ DOMAIN ever \subseteq DOMAIN given
      /\ \A i \in DOMAIN given : Sound(given[i])
      /\ \A i \in DOMAIN ever : given[i] = ever[i]
  <2>1. ever \in Seq(Samples) /\ \A i \in DOMAIN ever : Sound(ever[i])
    BY DEF SignalsInv, SamplesOK
  <2> QED BY <1>5, <2>1
<1> HIDE DEF given
<1>7. SamplesOK'
  <2>1. \A s : Sound(s) => Sound(s)'
    BY <1>3 DEF Sound, ThroughputRight, CpuRight, Carried
  <2> QED BY <1>2, <1>6, <2>1 DEF SamplesOK
<1>8. BufferOK'
  <2>1. \A i \in DOMAIN given : given[i].ts >= now - Retention
             => i \in buffer \cup (DOMAIN given \ DOMAIN ever)
    BY <1>6 DEF SignalsInv, BufferOK
  <2>2. buffer \subseteq DOMAIN given
    BY <1>6 DEF SignalsInv, BufferOK
  <2> QED BY <1>2, <1>3, <2>1, <2>2 DEF BufferOK, Prune
<1>9. KnownOK'
  <2>1. CASE stats
    <3>1. known' = [count |-> counter, ts |-> now, unbroken |-> TRUE]
      BY <1>2, <2>1 DEF Known
    <3>2. counter \in Nat /\ counter <= total[now] /\ now \in 0 .. now /\ total[now] \in Nat
      BY DEF SignalsInv, SourcesOK, CounterOK, TotalsOK
    <3> QED BY <1>3, <3>1, <3>2 DEF KnownOK, Carried
  <2>2. CASE ~stats
    <3>1. known' = known
      BY <1>2, <2>2 DEF Known
    <3> QED BY <1>3, <3>1 DEF SignalsInv, SourcesOK, KnownOK, Carried
  <2> QED BY <2>1, <2>2
<1>10. TotalsOK' /\ CounterOK' /\ MeterOK' /\ LineOK'
  BY <1>3 DEF SignalsInv, SourcesOK, TotalsOK, CounterOK, MeterOK, LineOK, Carried
<1>11. polls' \in 0 .. MaxPolls
  BY <1>3 DEF SignalsInv, SourcesOK
<1> QED BY <1>7, <1>8, <1>9, <1>10, <1>11 DEF SignalsInv, SourcesOK

THEOREM SignalsInvariance == Spec => []SignalsInv
<1>1. SignalsInv /\ [Next]_vars => SignalsInv'
  <2> SUFFICES ASSUME SignalsInv, [Next]_vars PROVE SignalsInv'
    OBVIOUS
  <2>1. CASE Next
    BY <2>1, TickKeeps, RestartKeeps, LineKeeps, CycleKeeps DEF Next
  <2>2. CASE UNCHANGED vars
    <3>1. TotalsOK' /\ CounterOK' /\ polls' \in 0 .. MaxPolls
      BY <2>2 DEF vars, SignalsInv, SourcesOK, TotalsOK, CounterOK, Carried
    <3>2. KnownOK' /\ MeterOK' /\ LineOK'
      BY <2>2 DEF vars, SignalsInv, SourcesOK, KnownOK, MeterOK, LineOK, Carried
    <3>3. SamplesOK'
      BY <2>2 DEF vars, SignalsInv, SamplesOK, Sound, ThroughputRight, CpuRight, Carried
    <3>4. BufferOK'
      BY <2>2 DEF vars, SignalsInv, BufferOK
    <3> QED BY <3>1, <3>2, <3>3, <3>4 DEF SignalsInv, SourcesOK
  <2> QED BY <2>1, <2>2
<1> QED BY <1>1, InitSignals, PTL DEF Spec

-----------------------------------------------------------------------------
(***************************************************************************)
(* What the invariant gives.                                               *)
(***************************************************************************)

\* Every reading is of the scale the normalizers promise: a percentage, and a
\* throughput the cores can carry, with whatever reads fail and however often
\* the container is restarted (collectors/base.py).
THEOREM SignalsTypeCorrect == Spec => []SignalsTypeOK
<1>1. SignalsInv => SignalsTypeOK
  <2> SUFFICES ASSUME SignalsInv PROVE SignalsTypeOK
    OBVIOUS
  <2> USE ConstantsType
  <2>1. TotalsOK /\ CounterOK /\ KnownOK /\ MeterOK /\ LineOK /\ SamplesOK /\ BufferOK
        /\ polls \in 0 .. MaxPolls /\ now \in 0 .. MaxTime
    BY DEF SignalsInv, SourcesOK, TotalsOK
  <2> DEFINE Counts == 0 .. Cores * MaxTime
  <2>2. ASSUME NEW i \in 0 .. now, NEW j \in 0 .. now, i <= j PROVE Carried(i, j) \in Counts
    <3>1. Carried(i, j) \in 0 .. Capacity(j - i)
      BY <2>1, <2>2 DEF TotalsOK
    <3>2. j - i \in Nat /\ j - i <= MaxTime
      BY <2>1, <2>2
    <3>3. Capacity(j - i) \in Nat /\ Capacity(j - i) <= Capacity(MaxTime) /\ Capacity(MaxTime) \in Nat
      BY <3>2, CapacityGrows
    <3> QED BY <3>1, <3>3 DEF Capacity
  <2>3. /\ total[0] = 0 /\ now \in Nat /\ 0 \in 0 .. now /\ now \in 0 .. now
        /\ total \in [0 .. MaxTime -> Counts]
    <3>1. total \in [0 .. MaxTime -> Counts]
      BY <2>1 DEF TotalsOK, Capacity
    <3>2. total[0] = 0 /\ now \in Nat
      BY <2>1 DEF TotalsOK
    <3> QED BY <3>1, <3>2
  <2>4. ASSUME NEW t \in 0 .. now PROVE total[t] \in Counts
    BY <2>1, <2>3
  <2>5. counter \in Counts
    BY <2>1, <2>3, <2>4 DEF CounterOK
  <2>6. known = None \/ known \in [count : Counts, ts : 0 .. now, unbroken : BOOLEAN]
    BY <2>1, <2>4 DEF KnownOK
  <2>7. meter \in [since : 0 .. now, count : Counts]
    <3>1. meter.since \in 0 .. now /\ Carried(meter.since, now) \in Counts
      BY <2>1, <2>2, <2>3 DEF MeterOK
    <3> QED BY <2>1, <3>1 DEF MeterOK
  <2>8. line = None \/ line \in [from : 0 .. now, to : 0 .. now, delta : Counts, dated : BOOLEAN]
    <3>1. CASE /\ line \in [from : 0 .. now, to : 0 .. now, delta : Nat, dated : BOOLEAN]
               /\ line.from <= line.to
               /\ line.delta = Carried(line.from, line.to)
      <4>1. Carried(line.from, line.to) \in Counts
        BY <2>2, <3>1
      <4> QED BY <3>1, <4>1
    <3> QED BY <2>1, <3>1 DEF LineOK
  <2>9. ever \in Seq(Samples) /\ buffer \subseteq DOMAIN ever
    BY <2>1 DEF SamplesOK, BufferOK
  <2> QED BY <2>1, <2>3, <2>5, <2>6, <2>7, <2>8, <2>9 DEF SignalsTypeOK
<1> QED BY <1>1, SignalsInvariance, PTL

\* No throughput is higher than what was carried in its interval, and only a
\* restart in between makes it lower (throughput_from_totals).
THEOREM RatesAreHonest == Spec => []ThroughputHonest
<1>1. SignalsInv => ThroughputHonest
  BY DEF SignalsInv, SamplesOK, Sound, ThroughputRight, ThroughputHonest
<1> QED BY <1>1, SignalsInvariance, PTL

\* No first reading, failed read or recreated container makes a busy Connector
\* look idle: without a restart in its interval, a CPU reading is what was
\* carried over what could be (normalize_cpu_deltas).
THEOREM BusyLooksBusy == Spec => []NoFalseIdle
<1>1. SignalsInv => NoFalseIdle
  BY DEF SignalsInv, SamplesOK, Sound, CpuRight, NoFalseIdle
<1> QED BY <1>1, SignalsInvariance, PTL

\* One buffer serves the window of every metric (Aggregator.prune, which keeps
\* the longest).
THEOREM WindowsMissNothing == Spec => []WindowsComplete
<1>1. SignalsInv => WindowsComplete
  <2> SUFFICES ASSUME SignalsInv, NEW w \in Windows, NEW i \in DOMAIN ever, ever[i].ts >= now - w
               PROVE  i \in buffer
    BY DEF SignalsInv, BufferOK, WindowsComplete, InWindow
  <2>1. ever[i].ts \in Nat /\ now \in Nat
    BY ConstantsType DEF SignalsInv, SourcesOK, TotalsOK, SamplesOK, Sound, Samples
  <2>2. ever[i].ts >= now - Retention
    BY <2>1, LongestWindow
  <2> QED BY <2>2 DEF SignalsInv, BufferOK
<1> QED BY <1>1, SignalsInvariance, PTL

\* A dated line that is read again and again counts as of the time it was written
\* (StdoutMetricsCollector.collect with parse_payload_ts).
THEOREM WindowsAreRecent == Spec => []EvidenceRecent
<1>1. SignalsInv => EvidenceRecent
  BY DEF SignalsInv, SamplesOK, BufferOK, Sound, EvidenceRecent, InWindow
<1> QED BY <1>1, SignalsInvariance, PTL

-----------------------------------------------------------------------------
(***************************************************************************)
(* What a percentile is.  The k-th smallest of some numbers has at least k *)
(* of them at or below it and fewer than k below it; the rest is           *)
(* arithmetic of ranks.                                                    *)
(***************************************************************************)

Family(S, T) == T \subseteq SUBSET S /\ T # {}

LEMMA MinimalSubset ==
  ASSUME NEW S, IsFiniteSet(S), NEW T, Family(S, T)
  PROVE  \E x \in T : \A y \in T : y \subseteq x => y = x
<1>1. IsWellFoundedOn(StrictSubsetOrdering(S), SUBSET S)
  BY FS_StrictSubsetOrderingWellFounded, FS_FiniteSubsetsOfFinite
<1>2. PICK x \in T : \A y \in T : <<y, x>> \notin StrictSubsetOrdering(S)
  <2> HIDE DEF StrictSubsetOrdering
  <2> QED BY <1>1, WFMin DEF Family
<1> QED BY <1>2 DEF StrictSubsetOrdering, Family

Upto(S, n) == {y \in S : y <= n}
From(S, n) == {y \in S : n <= y}

LEMMA Extremes ==
  ASSUME NEW S, IsFiniteSet(S), S # {}, S \subseteq Int
  PROVE  /\ \E n \in S : \A m \in S : n <= m
         /\ \E n \in S : \A m \in S : m <= n
<1> DEFINE Lower == {Upto(S, n) : n \in S}
           Upper == {From(S, n) : n \in S}
<1>1. Family(S, Lower) /\ Family(S, Upper)
  BY DEF Upto, From, Family
<1>2. \E n \in S : \A m \in S : Upto(S, m) \subseteq Upto(S, n) => Upto(S, m) = Upto(S, n)
  <2>1. \E x \in Lower : \A y \in Lower : y \subseteq x => y = x
    <3> HIDE DEF Lower, Upper
    <3> QED BY <1>1, MinimalSubset
  <2> QED BY <2>1
<1>3. \E l \in S : \A m \in S : From(S, m) \subseteq From(S, l) => From(S, m) = From(S, l)
  <2>1. \E x \in Upper : \A y \in Upper : y \subseteq x => y = x
    <3> HIDE DEF Lower, Upper
    <3> QED BY <1>1, MinimalSubset
  <2> QED BY <2>1
<1> HIDE DEF Lower, Upper
<1>4. ASSUME NEW n \in S, NEW m \in S, m < n
      PROVE  /\ Upto(S, m) \subseteq Upto(S, n) /\ Upto(S, m) # Upto(S, n)
             /\ From(S, n) \subseteq From(S, m) /\ From(S, n) # From(S, m)
  <2>1. n \in Int /\ m \in Int /\ \A y \in S : y \in Int
    OBVIOUS
  <2>2. \A y \in S : (y <= m => y <= n) /\ (n <= y => m <= y)
    BY <1>4, <2>1
  <2>3. n \in Upto(S, n) /\ n \notin Upto(S, m) /\ m \in From(S, m) /\ m \notin From(S, n)
    BY <1>4, <2>1 DEF Upto, From
  <2>4. Upto(S, m) \subseteq Upto(S, n) /\ From(S, n) \subseteq From(S, m)
    BY <2>2 DEF Upto, From
  <2> QED BY <2>3, <2>4
<1>5. \A m, n \in S : m <= n \/ n < m
  <2>1. \A y \in S : y \in Int
    OBVIOUS
  <2> QED BY <2>1
<1> QED BY <1>2, <1>3, <1>4, <1>5

\* Places in values, and how many of them a condition holds in.
Numbers(values) == values \in Seq(Int) /\ Len(values) > 0
AtMost(values, v) == {i \in DOMAIN values : values[i] <= v}
Less(values, v) == {i \in DOMAIN values : values[i] < v}
AtLeast(values, v) == {i \in DOMAIN values : values[i] >= v}

LEMMA PlacesFinite ==
  ASSUME NEW values, Numbers(values), NEW places, places \subseteq DOMAIN values
  PROVE  /\ IsFiniteSet(places) /\ Cardinality(places) \in Nat
         /\ \A part \in SUBSET places : IsFiniteSet(part) /\ Cardinality(part) <= Cardinality(places)
         /\ Cardinality(DOMAIN values) = Len(values) /\ Len(values) \in Nat /\ DOMAIN values = 1 .. Len(values)
<1>1. Len(values) \in Nat /\ DOMAIN values = 1 .. Len(values) /\ Len(values) > 0
  BY DEF Numbers
<1>2. IsFiniteSet(DOMAIN values) /\ Cardinality(DOMAIN values) = Len(values)
  BY <1>1, FS_Interval
<1>3. IsFiniteSet(places)
  BY <1>2, FS_Subset
<1> QED BY <1>1, <1>2, <1>3, FS_Subset, FS_CardinalityType

LEMMA ValuesFinite ==
  ASSUME NEW values, Numbers(values), NEW some, some \subseteq Range(values)
  PROVE  IsFiniteSet(some) /\ some \subseteq Int
<1>1. Range(values) \subseteq Int
  BY DEF Range, Numbers
<1>2. values \in Surjection(DOMAIN values, Range(values))
  BY DEF Range, Surjection, Numbers
<1>3. IsFiniteSet(DOMAIN values)
  BY PlacesFinite
<1>4. IsFiniteSet(Range(values))
  BY <1>2, <1>3, FS_Surjection
<1> QED BY <1>1, <1>4, FS_Subset

\* In place k of the ordered values is one with k of them at or below it, and
\* fewer below it; and it grows with k.
LEMMA KthSmallest ==
  ASSUME NEW values, Numbers(values), NEW k \in 1 .. Len(values)
  PROVE  /\ Ordered(values)[k] \in Int
         /\ Cardinality(AtMost(values, Ordered(values)[k])) >= k
         /\ Cardinality(Less(values, Ordered(values)[k])) < k
         /\ \A v \in Range(values) : Cardinality(AtMost(values, v)) >= k => Ordered(values)[k] <= v
<1>1. Len(values) \in Nat /\ DOMAIN values = 1 .. Len(values) /\ values \in [DOMAIN values -> Int]
  BY DEF Numbers
<1> DEFINE Reached == {v \in Range(values) : Cardinality(AtMost(values, v)) >= k}
           u == Ordered(values)[k]
<1>2. IsFiniteSet(Reached) /\ Reached \subseteq Int
  BY ValuesFinite
<1>3. Reached # {}
  <2>1. IsFiniteSet(Range(values)) /\ Range(values) \subseteq Int
    BY ValuesFinite
  <2>2. Range(values) # {}
    BY <1>1 DEF Range
  <2>3. PICK top \in Range(values) : \A v \in Range(values) : v <= top
    BY <2>1, <2>2, Extremes
  <2>4. AtMost(values, top) = DOMAIN values
    BY <2>3 DEF AtMost, Range
  <2>5. Cardinality(AtMost(values, top)) = Len(values)
    BY <2>4, PlacesFinite
  <2> QED BY <1>1, <2>5
<1>4. u = Min(Reached)
  BY <1>1 DEF Ordered, AtMost
<1> HIDE DEF u, Reached
<1>5. u \in Reached /\ \A v \in Reached : u <= v
  <2>1. \E n \in Reached : \A m \in Reached : n <= m
    BY <1>2, <1>3, Extremes
  <2> QED BY <1>4, <2>1 DEF Min
<1>6. u \in Int /\ u \in Range(values) /\ Cardinality(AtMost(values, u)) >= k
  BY <1>2, <1>5 DEF Reached
<1>7. Cardinality(Less(values, u)) < k
  <2> SUFFICES ASSUME Cardinality(Less(values, u)) >= k PROVE FALSE
    <3>1. Cardinality(Less(values, u)) \in Nat
      BY PlacesFinite DEF Less
    <3> QED BY <3>1
  <2> DEFINE Under == {v \in Range(values) : v < u}
  <2>1. IsFiniteSet(Under) /\ Under \subseteq Int
    BY ValuesFinite
  <2>2. Under # {}
    <3>1. Less(values, u) # {}
      BY FS_EmptySet
    <3> QED BY <3>1 DEF Less, Range
  <2>3. PICK w \in Under : \A v \in Under : v <= w
    BY <2>1, <2>2, Extremes
  <2>4. Less(values, u) = AtMost(values, w)
    <3>1. \A i \in DOMAIN values : values[i] \in Range(values) /\ values[i] \in Int
      BY <1>1 DEF Range
    <3>2. w \in Int /\ w < u
      BY <2>1
    <3>3. \A i \in DOMAIN values : values[i] < u <=> values[i] <= w
      BY <1>6, <2>3, <3>1, <3>2
    <3> QED BY <3>3 DEF Less, AtMost
  <2>5. w \in Reached
    BY <2>4 DEF Reached
  <2> QED BY <1>5, <1>6, <2>1, <2>5
<1> QED BY <1>5, <1>6, <1>7 DEF u, Reached

LEMMA OrderedGrows ==
  ASSUME NEW values, Numbers(values), NEW j \in 1 .. Len(values), NEW k \in 1 .. Len(values), j <= k
  PROVE  Ordered(values)[j] <= Ordered(values)[k]
<1> DEFINE u == Ordered(values)[j]
           v == Ordered(values)[k]
<1>1. /\ u \in Int /\ v \in Int
      /\ Cardinality(Less(values, u)) < j
      /\ Cardinality(AtMost(values, v)) >= k
  BY KthSmallest
<1> HIDE DEF u, v
<1>2. Len(values) \in Nat /\ \A i \in DOMAIN values : values[i] \in Int
  BY DEF Numbers
<1>3. SUFFICES ASSUME v < u PROVE FALSE
  BY <1>1 DEF u, v
<1>4. AtMost(values, v) \subseteq Less(values, u)
  BY <1>1, <1>2, <1>3 DEF AtMost, Less
<1>5. Less(values, u) \subseteq DOMAIN values
  BY DEF Less
<1>6. Cardinality(AtMost(values, v)) <= Cardinality(Less(values, u))
  BY <1>4, <1>5, PlacesFinite
<1>7. Cardinality(AtMost(values, v)) \in Nat /\ Cardinality(Less(values, u)) \in Nat
  BY PlacesFinite DEF AtMost, Less
<1> QED BY <1>1, <1>2, <1>6, <1>7

\* The rank of a percentile in hundredths of a step, the places on both sides of
\* it, and what is left of it above the lower one.
RankOf(n, pct) == pct * (n - 1)
LowPlace(n, pct) == RankOf(n, pct) \div 100
HighPlace(n, pct) == (RankOf(n, pct) + 99) \div 100
Part(n, pct) == RankOf(n, pct) - 100 * LowPlace(n, pct)
RankAbove(n, pct) == ((100 - pct) * (n - 1)) \div 100

LEMMA Places ==
  ASSUME NEW n \in Nat, n > 0, NEW pct \in 0 .. 100
  PROVE  /\ RankOf(n, pct) \in Nat
         /\ LowPlace(n, pct) \in 0 .. n - 1 /\ HighPlace(n, pct) \in 0 .. n - 1
         /\ LowPlace(n, pct) <= HighPlace(n, pct)
         /\ HighPlace(n, pct) <= LowPlace(n, pct) + 1
         /\ Part(n, pct) \in 0 .. 99
         /\ 1 + RankAbove(n, pct) = n - HighPlace(n, pct)
<1> DEFINE r == RankOf(n, pct)
           m == n - 1
<1>1. m \in Nat /\ r = pct * m
  BY DEF RankOf
<1>2. r \in Nat /\ (100 - pct) * m = 100 * m - r
  BY <1>1
<1>3. (100 - pct) * m \in Nat
  BY <1>1
<1>4. m = n - 1
  OBVIOUS
<1> HIDE DEF r, m
<1>5. 100 * m - r >= 0
  BY <1>2, <1>3
<1>6. (100 * m - r) \div 100 = m - ((r + 99) \div 100)
  BY <1>1, <1>2, <1>5
<1>7. /\ r \div 100 \in 0 .. m /\ (r + 99) \div 100 \in 0 .. m
      /\ r \div 100 <= (r + 99) \div 100
      /\ (r + 99) \div 100 <= (r \div 100) + 1
      /\ r - 100 * (r \div 100) \in 0 .. 99
  BY <1>1, <1>2, <1>5
<1>8. RankAbove(n, pct) = (100 * m - r) \div 100
  BY <1>2, <1>4 DEF RankAbove
<1> QED BY <1>2, <1>4, <1>5, <1>6, <1>7, <1>8 DEF LowPlace, HighPlace, Part, r

LEMMA RankGrows ==
  ASSUME NEW n \in Nat, n > 0, NEW p \in 0 .. 100, NEW q \in 0 .. 100, p <= q
  PROVE  /\ RankOf(n, p) <= RankOf(n, q)
         /\ LowPlace(n, p) <= LowPlace(n, q) /\ HighPlace(n, p) <= HighPlace(n, q)
<1>1. n - 1 \in Nat /\ p \in Int /\ q \in Int
  OBVIOUS
<1>2. RankOf(n, p) <= RankOf(n, q)
  BY <1>1, ProductMonotone DEF RankOf
<1>3. RankOf(n, p) \in Nat /\ RankOf(n, q) \in Nat
  BY Places
<1> QED BY <1>2, <1>3 DEF LowPlace, HighPlace

\* The percentile is between the values at the two places, at that part of the
\* way from one to the other.
LowValue(values, pct) == Ordered(values)[LowPlace(Len(values), pct) + 1]
HighValue(values, pct) == Ordered(values)[HighPlace(Len(values), pct) + 1]

LEMMA Interpolated ==
  ASSUME NEW values, Numbers(values), NEW pct \in 0 .. 100
  PROVE  /\ LowValue(values, pct) \in Int /\ HighValue(values, pct) \in Int
         /\ Percentile(values, pct) \in Int
         /\ LowValue(values, pct) <= HighValue(values, pct)
         /\ 100 * LowValue(values, pct) <= Percentile(values, pct)
         /\ Percentile(values, pct) <= 100 * HighValue(values, pct)
<1> DEFINE n == Len(values)
           low == LowPlace(n, pct)
           high == HighPlace(n, pct)
           lo == LowValue(values, pct)
           hi == HighValue(values, pct)
           part == Part(n, pct)
<1>1. n \in Nat /\ n > 0
  BY DEF Numbers
<1>2. low \in 0 .. n - 1 /\ high \in 0 .. n - 1 /\ low <= high /\ part \in 0 .. 99
  BY <1>1, Places
<1>3. Percentile(values, pct) = 100 * lo + (hi - lo) * part
  BY DEF Percentile, LowPlace, HighPlace, RankOf, Part, LowValue, HighValue
<1>4. low + 1 \in 1 .. n /\ high + 1 \in 1 .. n /\ low + 1 <= high + 1
  <2> HIDE DEF n, low, high
  <2> QED BY <1>1, <1>2
<1>5. lo \in Int /\ hi \in Int /\ lo <= hi
  BY <1>4, KthSmallest, OrderedGrows DEF LowValue, HighValue
<1> HIDE DEF lo, hi, part
<1>6. (hi - lo) * part \in Nat
  BY <1>2, <1>5
<1>7. (hi - lo) * (100 - part) \in Nat
  BY <1>2, <1>5
<1>8. (hi - lo) * (100 - part) = 100 * hi - 100 * lo - (hi - lo) * part
  BY <1>2, <1>5
<1>9. /\ 100 * lo <= 100 * lo + (hi - lo) * part
      /\ 100 * lo + (hi - lo) * part <= 100 * hi
      /\ 100 * lo + (hi - lo) * part \in Int
  BY <1>5, <1>6, <1>7, <1>8
<1> QED BY <1>3, <1>5, <1>9 DEF lo, hi

LEMMA PercentileGrows ==
  ASSUME NEW values, Numbers(values), NEW p \in 0 .. 100, NEW q \in 0 .. 100, p <= q
  PROVE  Percentile(values, p) <= Percentile(values, q)
<1> DEFINE n == Len(values)
           lp == LowPlace(n, p)
           hp == HighPlace(n, p)
           lq == LowPlace(n, q)
           hq == HighPlace(n, q)
<1>1. n \in Nat /\ n > 0
  BY DEF Numbers
<1>2. /\ lp \in 0 .. n - 1 /\ hp \in 0 .. n - 1 /\ hp <= lp + 1 /\ lp <= hp
      /\ RankOf(n, p) \in Nat
  BY <1>1, Places
<1>3. /\ lq \in 0 .. n - 1 /\ hq \in 0 .. n - 1 /\ hq <= lq + 1 /\ lq <= hq
      /\ RankOf(n, q) \in Nat
  BY <1>1, Places
<1>4. RankOf(n, p) <= RankOf(n, q) /\ lp <= lq /\ hp <= hq
  BY <1>1, RankGrows
<1>5. /\ LowValue(values, p) \in Int /\ HighValue(values, p) \in Int /\ Percentile(values, p) \in Int
      /\ LowValue(values, p) <= HighValue(values, p)
      /\ Percentile(values, p) <= 100 * HighValue(values, p)
  BY Interpolated
<1>6. /\ LowValue(values, q) \in Int /\ Percentile(values, q) \in Int
      /\ 100 * LowValue(values, q) <= Percentile(values, q)
  BY Interpolated
<1>7. CASE hp <= lq
  <2>1. hp + 1 \in 1 .. n /\ lq + 1 \in 1 .. n /\ hp + 1 <= lq + 1
    <3> HIDE DEF n, lp, hp, lq, hq
    <3> QED BY <1>1, <1>2, <1>3, <1>7
  <2>2. HighValue(values, p) <= LowValue(values, q)
    BY <2>1, OrderedGrows DEF HighValue, LowValue
  <2> QED BY <1>5, <1>6, <2>2
<1>8. CASE lq < hp
  <2>1. lp = lq /\ hp = hq
    <3> HIDE DEF n, lp, hp, lq, hq
    <3> QED BY <1>1, <1>2, <1>3, <1>4, <1>8
  <2> DEFINE lo == LowValue(values, p)
             step == HighValue(values, p) - LowValue(values, p)
  <2>2. /\ Percentile(values, p) = 100 * lo + step * Part(n, p)
        /\ Percentile(values, q) = 100 * lo + step * Part(n, q)
    <3>1. LowValue(values, q) = LowValue(values, p) /\ HighValue(values, q) = HighValue(values, p)
      BY <2>1 DEF LowValue, HighValue
    <3>2. \A pct : Percentile(values, pct)
                     = 100 * LowValue(values, pct)
                         + (HighValue(values, pct) - LowValue(values, pct)) * Part(n, pct)
      BY DEF Percentile, LowPlace, HighPlace, RankOf, Part, LowValue, HighValue
    <3> HIDE DEF n
    <3> QED BY <3>1, <3>2
  <2>3. step \in Nat /\ lo \in Int
    BY <1>5
  <2>4. Part(n, p) \in Int /\ Part(n, q) \in Int /\ Part(n, p) <= Part(n, q)
    <3> HIDE DEF n
    <3> QED BY <1>2, <1>3, <1>4, <2>1 DEF Part
  <2> HIDE DEF step, lo, n
  <2>5. Part(n, p) * step <= Part(n, q) * step
    BY <2>3, <2>4, ProductMonotone
  <2>6. /\ Part(n, p) * step = step * Part(n, p) /\ Part(n, q) * step = step * Part(n, q)
        /\ Part(n, p) * step \in Int /\ Part(n, q) * step \in Int
    BY <2>3, <2>4
  <2> QED BY <2>2, <2>3, <2>5, <2>6
<1>9. hp <= lq \/ lq < hp
  <2> HIDE DEF n, lp, hp, lq, hq
  <2> QED BY <1>1, <1>2, <1>3
<1> QED BY <1>7, <1>8, <1>9

LEMMA PercentileRanks ==
  ASSUME NEW values, Numbers(values), NEW pct \in 0 .. 100
  PROVE  LET n == Len(values)
         IN  /\ Cardinality({i \in 1 .. n : 100 * values[i] <= Percentile(values, pct)})
                  >= 1 + (pct * (n - 1)) \div 100
             /\ Cardinality({i \in 1 .. n : 100 * values[i] >= Percentile(values, pct)})
                  >= 1 + ((100 - pct) * (n - 1)) \div 100
<1> DEFINE n == Len(values)
           lo == LowValue(values, pct)
           hi == HighValue(values, pct)
           pnn == Percentile(values, pct)
           low == LowPlace(n, pct)
           high == HighPlace(n, pct)
           Below == {i \in 1 .. n : 100 * values[i] <= pnn}
           Above == {i \in 1 .. n : 100 * values[i] >= pnn}
<1>1. n \in Nat /\ n > 0 /\ DOMAIN values = 1 .. n /\ \A i \in 1 .. n : values[i] \in Int
  BY DEF Numbers
<1>2. lo \in Int /\ hi \in Int /\ pnn \in Int /\ 100 * lo <= pnn /\ pnn <= 100 * hi
  BY Interpolated
<1>3. low \in 0 .. n - 1 /\ high \in 0 .. n - 1 /\ 1 + RankAbove(n, pct) = n - high
  BY <1>1, Places
<1>4. low + 1 \in 1 .. n /\ high + 1 \in 1 .. n
  <2> HIDE DEF n, low, high
  <2> QED BY <1>1, <1>3
<1>5. Cardinality(AtMost(values, lo)) >= low + 1 /\ Cardinality(Less(values, hi)) < high + 1
  BY <1>4, KthSmallest DEF LowValue, HighValue
<1> HIDE DEF lo, hi, pnn
<1>6. AtMost(values, lo) \subseteq Below
  BY <1>1, <1>2 DEF AtMost
<1>7. DOMAIN values \ Less(values, hi) \subseteq Above
  BY <1>1, <1>2 DEF Less
<1>8. /\ Cardinality(AtMost(values, lo)) <= Cardinality(Below)
      /\ Cardinality(AtMost(values, lo)) \in Nat /\ Cardinality(Below) \in Nat
  <2>1. Below \subseteq DOMAIN values /\ AtMost(values, lo) \subseteq DOMAIN values
    BY <1>1 DEF AtMost
  <2> HIDE DEF Below
  <2> QED BY <1>6, <2>1, PlacesFinite
<1>9. /\ Cardinality(DOMAIN values \ Less(values, hi)) <= Cardinality(Above)
      /\ Cardinality(DOMAIN values \ Less(values, hi)) = n - Cardinality(Less(values, hi))
      /\ Cardinality(Above) \in Nat /\ Cardinality(Less(values, hi)) \in Nat
  <2>1. Above \subseteq DOMAIN values /\ Less(values, hi) \subseteq DOMAIN values
    BY <1>1 DEF Less
  <2> HIDE DEF Above
  <2>2. IsFiniteSet(DOMAIN values) /\ Cardinality(DOMAIN values) = n
    BY PlacesFinite
  <2>3. DOMAIN values \cap Less(values, hi) = Less(values, hi)
    BY <2>1
  <2>4. Cardinality(DOMAIN values \ Less(values, hi)) = n - Cardinality(Less(values, hi))
    <3>1. Cardinality(DOMAIN values \ Less(values, hi))
            = Cardinality(DOMAIN values) - Cardinality(DOMAIN values \cap Less(values, hi))
      BY <2>2, FS_Difference
    <3> QED BY <2>2, <2>3, <3>1
  <2> QED BY <1>7, <2>1, <2>4, PlacesFinite
<1>10. low = (pct * (n - 1)) \div 100 /\ RankAbove(n, pct) = ((100 - pct) * (n - 1)) \div 100
  BY DEF LowPlace, RankOf, RankAbove
<1> HIDE DEF Below, Above, low, high, n
<1>11. low \in Int /\ high \in Int /\ n \in Int
  BY <1>1, <1>3
<1>12. Cardinality(Below) >= 1 + low /\ Cardinality(Above) >= n - high
  BY <1>5, <1>8, <1>9, <1>11
<1>13. /\ Cardinality(Below) >= 1 + (pct * (n - 1)) \div 100
       /\ Cardinality(Above) >= 1 + ((100 - pct) * (n - 1)) \div 100
  BY <1>3, <1>10, <1>12
<1> QED BY <1>13 DEF Below, Above, n, pnn

\* The throughputs at finitely many places are a sequence of numbers.
LEMMA ThroughputsNumbers ==
  ASSUME SamplesOK, NEW places, places \subseteq DOMAIN ever, Len(Throughputs(places)) > 0
  PROVE  Numbers(Throughputs(places))
<1> USE ConstantsType
<1> DEFINE carrying == {i \in places : ever[i].throughput # None}
           order == SetToSeq(carrying)
<1>1. ever \in Seq(Samples)
  BY DEF SamplesOK
<1>2. IsFiniteSet(carrying)
  <2>1. Len(ever) \in Nat /\ DOMAIN ever = 1 .. Len(ever)
    BY <1>1
  <2>2. IsFiniteSet(DOMAIN ever)
    BY <2>1, FS_Interval
  <2> QED BY <2>2, FS_Subset
<1>3. Cardinality(carrying) \in Nat /\ order \in [1 .. Cardinality(carrying) -> carrying]
  <2> HIDE DEF carrying
  <2>1. Cardinality(carrying) \in Nat /\ ExistsBijection(1 .. Cardinality(carrying), carrying)
    BY <1>2, FS_CardinalityType
  <2>2. PICK f \in [1 .. Cardinality(carrying) -> carrying] : IsInjective(f)
    BY <2>1 DEF ExistsBijection, Bijection, Injection, IsInjective
  <2> QED BY <2>1, <2>2 DEF SetToSeq
<1>4. \A i \in carrying : ever[i].throughput \in Int
  <2>1. \A i \in DOMAIN ever : ever[i].throughput \in 0 .. Cores * Unit \cup {None}
    <3>1. \A i \in DOMAIN ever : ever[i] \in Samples
      BY <1>1
    <3> QED BY <3>1 DEF Samples
  <2>2. Cores * Unit \in Int
    OBVIOUS
  <2> QED BY <2>1, <2>2
<1>5. Throughputs(places) = [i \in DOMAIN order |-> ever[order[i]].throughput]
  BY DEF Throughputs
<1> HIDE DEF carrying, order
<1>6. Throughputs(places) \in [1 .. Cardinality(carrying) -> Int]
  BY <1>3, <1>4, <1>5
<1> QED BY <1>3, <1>6 DEF Numbers

\* For every percentile and whatever samples a window holds (reduce_values,
\* _percentile): at least that share of the steps between the ranks lies below
\* it and the rest above, and a higher percentile is no lower.
THEOREM PercentilesAreRanks == Spec => []PercentilesRank
<1>1. SignalsInv => PercentilesRank
  <2> SUFFICES ASSUME SignalsInv, NEW w \in Windows,
                      Len(Throughputs(InWindow(buffer, w))) > 0
               PROVE  LET values == Throughputs(InWindow(buffer, w))
                          n == Len(values)
                      IN  \A p \in Percents :
                            /\ Cardinality({i \in 1 .. n : 100 * values[i] <= Percentile(values, p)})
                                 >= 1 + (p * (n - 1)) \div 100
                            /\ Cardinality({i \in 1 .. n : 100 * values[i] >= Percentile(values, p)})
                                 >= 1 + ((100 - p) * (n - 1)) \div 100
                            /\ \A q \in Percents : p <= q => Percentile(values, p) <= Percentile(values, q)
    BY DEF PercentilesRank
  <2> DEFINE values == Throughputs(InWindow(buffer, w))
  <2>1. InWindow(buffer, w) \subseteq DOMAIN ever
    BY DEF SignalsInv, BufferOK, InWindow
  <2>2. Numbers(values)
    BY <2>1, ThroughputsNumbers DEF SignalsInv
  <2>3. Percents \subseteq 0 .. 100
    BY SignalsAssumption
  <2> HIDE DEF values
  <2>4. \A p \in Percents :
          /\ Cardinality({i \in 1 .. Len(values) : 100 * values[i] <= Percentile(values, p)})
               >= 1 + (p * (Len(values) - 1)) \div 100
          /\ Cardinality({i \in 1 .. Len(values) : 100 * values[i] >= Percentile(values, p)})
               >= 1 + ((100 - p) * (Len(values) - 1)) \div 100
    BY <2>2, <2>3, PercentileRanks
  <2>5. \A p, q \in Percents : p <= q => Percentile(values, p) <= Percentile(values, q)
    BY <2>2, <2>3, PercentileGrows
  <2> QED BY <2>4, <2>5 DEF values
<1> QED BY <1>1, SignalsInvariance, PTL
=============================================================================
