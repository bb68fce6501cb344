-------------------------------- MODULE Signals --------------------------------
(***************************************************************************)
(* From the counters of a Connector's container to the windows the         *)
(* decisions are taken on: the docker_stats collector, which turns         *)
(* cumulative counters into deltas, the stdout_metrics collector, which    *)
(* takes over the last line the image has written, and the aggregator.     *)
(* Time is a number of ticks.  In each the Connector carries a load, which *)
(* is both the bytes it moves and the CPU it uses.                         *)
(*                                                                         *)
(* A reading is kept with the interval it is about, with whether the       *)
(* container was restarted in it, which the code does not know, and with   *)
(* whether it came with a date of its own.                                 *)
(***************************************************************************)
EXTENDS Integers, SequencesExt

CONSTANTS
  Loads,      \* what a Connector may carry in one tick
  Cores,      \* effective cores, what it can carry at most
  Windows,    \* window_seconds of the metrics in play
  Percents,   \* NN of the pNN aggregations in play
  MaxTime,    \* bound: ticks of one behaviour
  MaxPolls,   \* bound: cycles of one behaviour
  None,       \* "no value"
  Unit        \* rates are given in 1 / Unit, to stay whole

ASSUME SignalsAssumption ==
  /\ Cores \in Nat \ {0} /\ Loads \subseteq 0 .. Cores
  /\ Windows \subseteq Nat /\ \E w \in Windows : \A v \in Windows : v <= w
  /\ Percents \subseteq 0 .. 100
  /\ MaxTime \in Nat /\ MaxPolls \in Nat /\ Unit \in Nat
  /\ \A interval \in 1 .. MaxTime : Unit % interval = 0

VARIABLES
  now,       \* the ticks gone by
  total,     \* what the Connector had carried in all by each of them
  counter,   \* what the container has counted since it was started
  known,     \* _prev of the container's id: its last reading, or None
  meter,     \* the image's own: since when, and how much
  line,      \* the last metrics line in the container's log, or None
  ever,      \* every sample the aggregator was given
  buffer,    \* the places in it of those that are in its _samples
  polls      \* cycles so far

vars == <<now, total, counter, known, meter, line, ever, buffer, polls>>

\* What the Connector carried in the ticks after time from, up to time to.
Carried(from, to) == total[to] - total[from]

Retention == CHOOSE w \in Windows : \A v \in Windows : v <= w

Init ==
  /\ now = 0 /\ total = [t \in 0 .. MaxTime |-> 0]
  /\ counter = 0
  /\ known = None
  /\ meter = [since |-> 0, count |-> 0]
  /\ line = None
  /\ ever = << >> /\ buffer = {}
  /\ polls = 0

-----------------------------------------------------------------------------
(***************************************************************************)
(* The container                                                           *)
(***************************************************************************)

Tick ==
  /\ now < MaxTime
  /\ now' = now + 1
  /\ \E l \in Loads : /\ total' = [total EXCEPT ![now + 1] = total[now] + l]
                      /\ counter' = counter + l
                      /\ meter' = [meter EXCEPT !.count = @ + l]
  /\ UNCHANGED <<known, line, ever, buffer, polls>>

\* Its processes are started afresh: the counters of the container and of the
\* image begin again, the log does not.
RestartedInPlace ==
  /\ counter' = 0
  /\ meter' = [since |-> now, count |-> 0]
  /\ known' = IF known = None THEN None ELSE [known EXCEPT !.unbroken = FALSE]
  /\ UNCHANGED <<now, total, line, ever, buffer, polls>>

\* janus replaces it by another container, of whose id no reading is known.
Recreated ==
  /\ counter' = 0
  /\ meter' = [since |-> now, count |-> 0]
  /\ known' = None
  /\ line' = None
  /\ UNCHANGED <<now, total, ever, buffer, polls>>

\* The image writes a metrics line, about the time since the last, with a ts that
\* can be parsed or without.
WritesLine ==
  /\ meter.since < now
  /\ \E dated \in BOOLEAN :
       line' = [from |-> meter.since, to |-> now, delta |-> meter.count, dated |-> dated]
  /\ meter' = [since |-> now, count |-> 0]
  /\ UNCHANGED <<now, total, counter, known, ever, buffer, polls>>

-----------------------------------------------------------------------------
(***************************************************************************)
(* The collectors                                                          *)
(***************************************************************************)

Clamp(pct) == IF pct < 0 THEN 0 ELSE IF pct > 100 THEN 100 ELSE pct

\* Seeded bug: no clamp.
NormalizeCpuUnclamped(delta, interval) ==
  IF interval <= 0 THEN None ELSE (100 * delta) \div (Cores * interval)

\* Seeded bug: divided by the number of cores again, which the system's counter
\* has in it.
NormalizeCpuTwice(delta, interval) ==
  IF interval <= 0 THEN None ELSE Clamp((100 * delta) \div (Cores * Cores * interval))

\* normalize_cpu_deltas, the system's counter gaining Cores in each tick, and
\* normalize_raw_cpu_pct.
NormalizeCpu(delta, interval) ==
  IF interval <= 0 THEN None ELSE Clamp((100 * delta) \div (Cores * interval))

\* throughput_from_totals and payload_throughput.
Throughput(delta, interval) ==
  IF interval <= 0 \/ delta < 0 THEN None ELSE delta * (Unit \div interval)

Sample(ts, delta, from, to, unbroken, dated) ==
  [ts |-> ts, cpu |-> NormalizeCpu(delta, to - from), throughput |-> Throughput(delta, to - from),
   from |-> from, to |-> to, unbroken |-> unbroken, dated |-> dated]

\* DockerStatsCollector.collect: a sample, which says nothing if it is the
\* container's first.
DockerSample ==
  IF known = None
  THEN << [ts |-> now, cpu |-> None, throughput |-> None,
           from |-> now, to |-> now, unbroken |-> TRUE, dated |-> TRUE] >>
  ELSE << Sample(now, counter - known.count, known.ts, now, known.unbroken, TRUE) >>

\* Seeded bug: a line counts as of the time it was read.
StdoutSampleNow ==
  IF line = None THEN << >> ELSE << Sample(now, line.delta, line.from, line.to, TRUE, line.dated) >>

\* parse_payload_ts: a line that does not tell its time counts as of now.
LineTime == IF line.dated THEN line.to ELSE now

\* StdoutMetricsCollector.collect: the last line in the log, whether or not it
\* was taken before.
StdoutSample ==
  IF line = None
  THEN << >>
  ELSE << Sample(LineTime, line.delta, line.from, line.to, TRUE, line.dated) >>

-----------------------------------------------------------------------------
(***************************************************************************)
(* The aggregator                                                          *)
(***************************************************************************)

\* Seeded bug: the cutoff itself is dropped.
PruneCutoff(samples, places) == {i \in places : samples[i].ts > now - Retention}

Prune(samples, places) == {i \in places : samples[i].ts >= now - Retention}

\* Seeded bug: a read that fails moves the time on, and leaves the counter.
KnownTimeMovesOn(ok) ==
  IF ok THEN [count |-> counter, ts |-> now, unbroken |-> TRUE]
        ELSE IF known = None THEN None ELSE [known EXCEPT !.ts = now]

\* What is known of the counter after a cycle in which its read succeeded or
\* failed.
Known(ok) == IF ok THEN [count |-> counter, ts |-> now, unbroken |-> TRUE] ELSE known

\* _collect, ingest and prune of one cycle; either collector may fail.
Cycle ==
  /\ polls < MaxPolls
  /\ \E stats, log \in BOOLEAN :
       LET samples == (IF stats THEN DockerSample ELSE << >>) \o (IF log THEN StdoutSample ELSE << >>)
           given   == ever \o samples
       IN  /\ ever' = given
           /\ buffer' = Prune(given, buffer \cup (DOMAIN given \ DOMAIN ever))
           /\ known' = Known(stats)
  /\ polls' = polls + 1
  /\ UNCHANGED <<now, total, counter, meter, line>>

InWindow(places, w) == {i \in places : ever[i].ts >= now - w}

\* The throughputs among the samples at some places.
Throughputs(places) ==
  LET carrying == SetToSeq({i \in places : ever[i].throughput # None})
  IN  [i \in DOMAIN carrying |-> ever[carrying[i]].throughput]

\* sorted: in place k the least of the values that no fewer than k do not exceed.
Ordered(values) ==
  [k \in DOMAIN values |->
     Min({v \in Range(values) : Cardinality({i \in DOMAIN values : values[i] <= v}) >= k})]

\* Seeded bug: the fraction is taken from the upper rank.
PercentileFromAbove(values, pct) ==
  LET ordered == Ordered(values)
      rank    == pct * (Len(values) - 1)
      low     == rank \div 100
      high    == (rank + 99) \div 100
  IN  100 * ordered[high + 1] + (ordered[high + 1] - ordered[low + 1]) * (rank - 100 * low)

\* _percentile, times 100: linear interpolation between ranks.
Percentile(values, pct) ==
  LET ordered == Ordered(values)
      rank    == pct * (Len(values) - 1)
      low     == rank \div 100
      high    == (rank + 99) \div 100
  IN  100 * ordered[low + 1] + (ordered[high + 1] - ordered[low + 1]) * (rank - 100 * low)

-----------------------------------------------------------------------------
Next == Tick \/ RestartedInPlace \/ Recreated \/ WritesLine \/ Cycle

Spec == Init /\ [][Next]_vars

-----------------------------------------------------------------------------
(***************************************************************************)
(* Properties                                                              *)
(***************************************************************************)

Samples == [ts : 0 .. MaxTime, cpu : 0 .. 100 \cup {None}, throughput : 0 .. Cores * Unit \cup {None},
            from : 0 .. MaxTime, to : 0 .. MaxTime, unbroken : BOOLEAN, dated : BOOLEAN]

\* Every variable has its type: a CPU reading is a percentage, a throughput is
\* one the Connector can carry (the scale the normalizers promise).
SignalsTypeOK ==
  /\ now \in 0 .. MaxTime /\ total \in [0 .. MaxTime -> 0 .. Cores * MaxTime]
  /\ counter \in 0 .. Cores * MaxTime
  /\ known = None \/ known \in [count : 0 .. Cores * MaxTime, ts : 0 .. now, unbroken : BOOLEAN]
  /\ meter \in [since : 0 .. now, count : 0 .. Cores * MaxTime]
  /\ line = None \/ line \in [from : 0 .. now, to : 0 .. now, delta : 0 .. Cores * MaxTime,
                             dated : BOOLEAN]
  /\ ever \in Seq(Samples) /\ buffer \subseteq DOMAIN ever
  /\ polls \in 0 .. MaxPolls

\* A throughput is never more than what the Connector carried in the interval
\* it is taken for, and exactly that unless the container was restarted in it:
\* whatever reads failed, and whenever the container was restarted or recreated
\* (the counter that goes backwards in throughput_from_totals).
ThroughputHonest ==
  \A i \in DOMAIN ever :
    LET s     == ever[i]
        moved == Carried(s.from, s.to) * Unit
    IN  s.throughput # None =>
          /\ s.throughput * (s.to - s.from) <= moved
          /\ s.unbroken => s.throughput * (s.to - s.from) = moved

\* A Connector looks less busy than it was only if its container was restarted
\* while it was watched: no first reading and no failed read makes it look idle
\* (what a scale-down would act on).
NoFalseIdle ==
  \A i \in DOMAIN ever :
    LET s == ever[i]
    IN  s.cpu # None /\ s.unbroken =>
          s.cpu = (100 * Carried(s.from, s.to)) \div (Cores * (s.to - s.from))

\* No window misses a sample the aggregator was given, although it prunes by
\* the longest of them.
WindowsComplete ==
  \A w \in Windows : InWindow(buffer, w) = InWindow(DOMAIN ever, w)

\* What is decided on is about the window: a dated line in the log of a Connector
\* that has stopped writing leaves it like any other, however often it is read.
\* An undated one never does: parse_payload_ts dates it anew at every read.
EvidenceRecent ==
  \A w \in Windows :
    \A i \in InWindow(buffer, w) : ever[i].dated => ever[i].to >= now - w

\* pNN is the NN-th percentile: at least NN percent of the steps between the
\* ranks lie below it and the rest above, and a higher NN is no lower.
PercentilesRank ==
  \A w \in Windows :
    LET values == Throughputs(InWindow(buffer, w))
        n      == Len(values)
        Below(v) == Cardinality({i \in 1 .. n : 100 * values[i] <= v})
        Above(v) == Cardinality({i \in 1 .. n : 100 * values[i] >= v})
    IN  n > 0 =>
          \A p \in Percents :
            /\ Below(Percentile(values, p)) >= 1 + (p * (n - 1)) \div 100
            /\ Above(Percentile(values, p)) >= 1 + ((100 - p) * (n - 1)) \div 100
            /\ \A q \in Percents : p <= q => Percentile(values, p) <= Percentile(values, q)
=============================================================================
