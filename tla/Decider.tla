------------------------------- MODULE Decider -------------------------------
(***************************************************************************)
(* The pure decision rules of engine/policy.py and engine/decider.py: how  *)
(* many Connectors to add or remove, and which unhealthy Connector to      *)
(* restart or to replace.  A policy is a record                            *)
(*                                                                         *)
(*   [min, max, step, trigger, quorumNum, quorumDen,                       *)
(*    cpuHigh, cpuLow, tputHigh, tputLow]                                  *)
(*                                                                         *)
(* with quorum_fraction = quorumNum / quorumDen.  A windowed fleet value   *)
(* (a float or None in the code) is the exact quotient [sum, n]; n = 0 is  *)
(* None.  A per-connector value map is a function from the Connectors of   *)
(* the fleet to such quotients.  Durations are ages in ticks.              *)
(***************************************************************************)
EXTENDS Integers, FiniteSets

BitsPerByte == 8
BitsPerMegabit == 1000000

Lesser(a, b) == IF a <= b THEN a ELSE b

-----------------------------------------------------------------------------
(***************************************************************************)
(* engine/policy.py                                                        *)
(***************************************************************************)

\* Seeded bug: reaching the watermark is not enough.
CpuIsHighStrict(p, cpu) == cpu.n > 0 /\ cpu.sum > p.cpuHigh * cpu.n

\* A value reaches the high watermark; bps_to_mbps(x) = x * 8 / 1000000.
CpuIsHigh(p, cpu) == cpu.n > 0 /\ cpu.sum >= p.cpuHigh * cpu.n
ThroughputIsHigh(p, tput) ==
  tput.n > 0 /\ tput.sum * BitsPerByte >= p.tputHigh * tput.n * BitsPerMegabit

\* Any signal that is present has reached its high watermark.
IsHighLoad(p, cpu, tput) == CpuIsHigh(p, cpu) \/ ThroughputIsHigh(p, tput)

\* count_over_high_watermark: Connectors over either watermark of their own.
OverHighWatermark(p, cpuBy, tputBy) ==
  {c \in DOMAIN cpuBy : CpuIsHigh(p, cpuBy[c]) \/ ThroughputIsHigh(p, tputBy[c])}

\* Seeded bug: the scale-down test reads the high watermark.
IsLowLoadBelowHigh(p, cpu, tput) ==
  /\ cpu.n > 0 \/ tput.n > 0
  /\ cpu.n > 0 => cpu.sum <= p.cpuHigh * cpu.n
  /\ tput.n > 0 =>
       tput.sum * BitsPerByte <= p.tputHigh * tput.n * BitsPerMegabit

\* At least one signal is present, and every present one is at most its low
\* watermark.
IsLowLoad(p, cpu, tput) ==
  /\ cpu.n > 0 \/ tput.n > 0
  /\ cpu.n > 0 => cpu.sum <= p.cpuLow * cpu.n
  /\ tput.n > 0 =>
       tput.sum * BitsPerByte <= p.tputLow * tput.n * BitsPerMegabit

\* Seeded bug: the remainder is one short.
CooldownRemainingShort(cooldown, elapsed) ==
  IF elapsed + 1 >= cooldown THEN 0 ELSE cooldown - elapsed - 1

\* What a cooldown has left once `elapsed` of it has passed.
CooldownRemaining(cooldown, elapsed) ==
  IF elapsed >= cooldown THEN 0 ELSE cooldown - elapsed

\* Seeded bug: the ceiling test is off by one and the step is not clamped.
ScaleUpCountOffByOne(p, current) == IF current > p.max THEN 0 ELSE p.step

ScaleUpCount(p, current) ==
  IF current >= p.max THEN 0 ELSE Lesser(p.step, p.max - current)

\* Seeded bug: the fill stops one short of the floor.
FloorFillCountOneShort(p, current) ==
  IF current >= p.min - 1 THEN 0 ELSE Lesser(p.min, p.max) - 1 - current

FloorFillCount(p, current) ==
  IF current >= p.min THEN 0 ELSE Lesser(p.min, p.max) - current

\* Seeded bug: the step is not clamped to the floor.
ScaleDownCountUnclamped(p, current) == IF current <= p.min THEN 0 ELSE p.step

ScaleDownCount(p, current) ==
  IF current <= p.min THEN 0 ELSE Lesser(p.step, current - p.min)

-----------------------------------------------------------------------------
(***************************************************************************)
(* engine/decider.py, decide_scale                                         *)
(***************************************************************************)
NoAction == [direction |-> "none", count |-> 0]

\* max(1, ceil(quorum_fraction * count))
QuorumThreshold(p, count) ==
  LET ceiling == (p.quorumNum * count + p.quorumDen - 1) \div p.quorumDen
  IN  IF ceiling < 1 THEN 1 ELSE ceiling

\* The scale-up trigger of the configured mode.
ScaleUpTrigger(p, count, cpu, tput, cpuBy, tputBy) ==
  LET over == Cardinality(OverHighWatermark(p, cpuBy, tputBy))
  IN  CASE p.trigger = "mean"   -> IsHighLoad(p, cpu, tput)
        [] p.trigger = "any"    -> over >= 1
        [] p.trigger = "quorum" -> over >= QuorumThreshold(p, count)

\* The ladder of decide_scale once the load is known to be high and/or low:
\* floor fill, replace suppression, scale-up, scale-down, in that order.
ScaleVerdict(p, count, high, low, upLeft, downLeft, replacePending) ==
  LET fill == FloorFillCount(p, count)
      up   == ScaleUpCount(p, count)
      down == ScaleDownCount(p, count)
  IN  IF fill > 0 THEN [direction |-> "up", count |-> fill]
      ELSE IF replacePending THEN NoAction
      ELSE IF high
           THEN IF up = 0 \/ upLeft > 0
                THEN NoAction ELSE [direction |-> "up", count |-> up]
      ELSE IF ~low \/ down = 0 \/ downLeft > 0
           THEN NoAction ELSE [direction |-> "down", count |-> down]

DecideScale(p, count, cpu, tput, cpuBy, tputBy, upLeft, downLeft, replacePending) ==
  ScaleVerdict(p, count,
               ScaleUpTrigger(p, count, cpu, tput, cpuBy, tputBy),
               IsLowLoad(p, cpu, tput),
               upLeft, downLeft, replacePending)

-----------------------------------------------------------------------------
(***************************************************************************)
(* engine/decider.py, decide_health.  What discovery reads of a Connector  *)
(* is one of                                                               *)
(*   "alive"     Twingate says ALIVE, Docker does not say unhealthy        *)
(*   "starting"  DEAD_NO_HEARTBEAT, never a heartbeat, Docker not unhealthy*)
(*   "failing"   any other DEAD_* state, or Docker says unhealthy          *)
(*   "unknown"   no Twingate record joins it, Docker not unhealthy         *)
(***************************************************************************)
Reading == {"alive", "starting", "failing", "unknown"}

IsUnhealthy(reading) == reading \in {"starting", "failing"}

\* Age of a map entry that is not there (first_seen / first_unhealthy).
Untracked == -1

InStartupGrace(reading, seenFor, grace) ==
  /\ grace > 0
  /\ reading = "starting"
  /\ seenFor # Untracked
  /\ seenFor < grace

UnhealthyLongEnough(unhealthyFor, threshold) ==
  \/ threshold <= 0
  \/ unhealthyFor # Untracked /\ unhealthyFor >= threshold

\* Whether decide_health gives a Connector an action at all.
NeedsRemedy(reading, cordoned, midReplace, seenFor, unhealthyFor, grace, threshold) ==
  /\ ~cordoned
  /\ ~midReplace
  /\ IsUnhealthy(reading)
  /\ ~InStartupGrace(reading, seenFor, grace)
  /\ UnhealthyLongEnough(unhealthyFor, threshold)

\* Seeded bug: one restart more than max_restarts.
RemedyKindOneMore(restarts, maxRestarts) ==
  IF restarts > maxRestarts THEN "replace" ELSE "restart"

\* Restart until max_restarts in the window, then replace.
RemedyKind(restarts, maxRestarts) ==
  IF restarts >= maxRestarts THEN "replace" ELSE "restart"
=============================================================================
