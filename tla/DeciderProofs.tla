----------------------------- MODULE DeciderProofs -----------------------------
(***************************************************************************)
(* What the decision rules guarantee for every policy and every fleet.     *)
(***************************************************************************)
EXTENDS Decider, TLAPS, FiniteSetTheorems

\* The bounds of a policy as config.py validates them.
BoundsOK(p) ==
  /\ p.min \in Nat /\ p.max \in Nat /\ p.step \in Nat \ {0}
  /\ p.min <= p.max

\* A verdict on a fleet of count Connectors that keeps the floor and the ceiling.
VerdictProper(p, count, v) ==
  /\ v.direction \in {"up", "down", "none"}
  /\ v.count \in Nat
  /\ v.direction = "up" => v.count > 0 /\ count + v.count <= p.max
  /\ v.direction = "down" => v.count > 0 /\ count - v.count >= p.min
  /\ v.direction = "none" => v.count = 0
  /\ count < p.min => v.direction = "up" /\ count + v.count = p.min

\* The floor and the ceiling (decide_scale, Key Design Rule 2): a scale-up of a
\* fleet within the ceiling stays within it, a fleet below the floor is filled
\* exactly to it whatever the load, and a scale-down never passes the floor.
THEOREM VerdictInBounds ==
  ASSUME NEW p, BoundsOK(p), NEW count \in Nat,
         NEW high \in BOOLEAN, NEW low \in BOOLEAN,
         NEW upLeft \in Nat, NEW downLeft \in Nat,
         NEW replacePending \in BOOLEAN
  PROVE  VerdictProper(p, count,
                       ScaleVerdict(p, count, high, low, upLeft, downLeft, replacePending))
<1> DEFINE fill == FloorFillCount(p, count)
           up   == ScaleUpCount(p, count)
           down == ScaleDownCount(p, count)
           v    == ScaleVerdict(p, count, high, low, upLeft, downLeft, replacePending)
<1>1. /\ fill \in Nat
      /\ fill > 0 <=> count < p.min
      /\ fill > 0 => count + fill = p.min
  BY DEF BoundsOK, FloorFillCount, Lesser
<1>2. up \in Nat /\ (up > 0 => count + up <= p.max)
  BY DEF BoundsOK, ScaleUpCount, Lesser
<1>3. down \in Nat /\ (down > 0 => count - down >= p.min)
  BY DEF BoundsOK, ScaleDownCount, Lesser
<1>4. \/ fill > 0 /\ v = [direction |-> "up", count |-> fill]
      \/ fill = 0 /\ v = NoAction
      \/ fill = 0 /\ up > 0 /\ v = [direction |-> "up", count |-> up]
      \/ fill = 0 /\ down > 0 /\ v = [direction |-> "down", count |-> down]
  <2>1. fill \in Nat /\ up \in Nat /\ down \in Nat
    BY <1>1, <1>2, <1>3
  <2> HIDE DEF fill, up, down
  <2> QED BY <2>1 DEF ScaleVerdict, fill, up, down
<1> HIDE DEF fill, up, down, v
<1>5. BoundsOK(p) /\ count \in Nat
  OBVIOUS
<1>6. VerdictProper(p, count, v)
  BY <1>1, <1>2, <1>3, <1>4, <1>5 DEF NoAction, BoundsOK, VerdictProper
<1> QED
  BY <1>6 DEF v

-----------------------------------------------------------------------------
\* A windowed fleet value that some sample, or none, contributed to.
FleetValue == [sum : Nat, n : Nat]

\* The watermarks of a policy as config.py validates them: low below high.
WatermarksOK(p) ==
  /\ p.cpuLow \in Nat /\ p.cpuHigh \in Nat /\ p.cpuLow < p.cpuHigh
  /\ p.tputLow \in Nat /\ p.tputHigh \in Nat /\ p.tputLow < p.tputHigh

LEMMA ScaledLess ==
  ASSUME NEW a \in Nat, NEW b \in Nat, NEW n \in Nat, a < b, n > 0
  PROVE  a * n < b * n
<1> DEFINE d == b - a
<1>1. d \in Nat /\ d >= 1 /\ b = a + d
  OBVIOUS
<1>2. d * n \in Nat /\ d * n >= n
  <2>1. d * n = (d - 1) * n + n
    BY <1>1
  <2>2. (d - 1) * n >= 0
    BY <1>1
  <2> QED BY <1>1, <2>1, <2>2
<1>3. b * n = a * n + d * n
  BY <1>1
<1>4. a * n \in Nat /\ b * n \in Nat
  OBVIOUS
<1> HIDE DEF d
<1> QED BY <1>2, <1>3, <1>4

\* Capacity is never removed while a fleet signal is hot (decide_scale,
\* "never remove capacity while any signal is hot"): low load excludes high
\* load whichever of the two signals are present, so the scale-down branch is
\* not reached, in any trigger mode, while the mean of a signal is high.
THEOREM LowLoadIsNotHigh ==
  ASSUME NEW p, WatermarksOK(p),
         NEW cpu \in FleetValue, NEW tput \in FleetValue,
         IsLowLoad(p, cpu, tput)
  PROVE  ~IsHighLoad(p, cpu, tput)
<1>1. ~CpuIsHigh(p, cpu)
  <2> SUFFICES ASSUME cpu.n > 0 PROVE cpu.sum < p.cpuHigh * cpu.n
    BY DEF CpuIsHigh, FleetValue, WatermarksOK
  <2>1. cpu.sum <= p.cpuLow * cpu.n
    BY DEF IsLowLoad
  <2>2. p.cpuLow * cpu.n < p.cpuHigh * cpu.n
    BY ScaledLess DEF FleetValue, WatermarksOK
  <2>3. /\ p.cpuLow * cpu.n \in Nat /\ p.cpuHigh * cpu.n \in Nat /\ cpu.sum \in Nat
    BY DEF FleetValue, WatermarksOK
  <2> QED BY <2>1, <2>2, <2>3
<1>2. ~ThroughputIsHigh(p, tput)
  <2> SUFFICES ASSUME tput.n > 0
               PROVE  tput.sum * BitsPerByte < p.tputHigh * tput.n * BitsPerMegabit
    BY DEF ThroughputIsHigh, FleetValue, WatermarksOK, BitsPerByte, BitsPerMegabit
  <2>1. tput.sum * BitsPerByte <= p.tputLow * tput.n * BitsPerMegabit
    BY DEF IsLowLoad
  <2>2. p.tputLow * tput.n < p.tputHigh * tput.n
    BY ScaledLess DEF FleetValue, WatermarksOK
  <2>3. p.tputLow * tput.n \in Nat /\ p.tputHigh * tput.n \in Nat /\ tput.sum \in Nat
    BY DEF FleetValue, WatermarksOK
  <2> QED BY <2>1, <2>2, <2>3 DEF BitsPerByte, BitsPerMegabit
<1> QED
  BY <1>1, <1>2 DEF IsHighLoad

\* The quorum of a non-empty fleet is one of its sizes: a scale-up is never
\* impossible, and never triggered by nobody.
THEOREM QuorumReachable ==
  ASSUME NEW p, p.quorumDen \in Nat \ {0}, p.quorumNum \in 1 .. p.quorumDen,
         NEW count \in Nat \ {0}
  PROVE  QuorumThreshold(p, count) \in 1 .. count
<1> DEFINE num == p.quorumNum
           den == p.quorumDen
           q   == (num * count + den - 1) \div den
<1>1. num \in Nat /\ den \in Nat /\ den > 0 /\ num <= den
  OBVIOUS
<1>2. num * count <= den * count /\ num * count \in Nat /\ den * count \in Nat
  <2>1. den * count = num * count + (den - num) * count
    BY <1>1
  <2>2. (den - num) * count >= 0 /\ num * count \in Nat /\ den * count \in Nat
    BY <1>1
  <2> QED BY <1>1, <2>1, <2>2
<1>3. q \in Nat /\ q * den <= num * count + den - 1
  <2> HIDE DEF num, den
  <2> DEFINE x == num * count + den - 1
  <2>1. x \in Nat
    BY <1>1, <1>2
  <2> HIDE DEF x
  <2>2. (x \div den) \in Nat /\ (x \div den) * den <= x
    BY <1>1, <2>1
  <2> QED BY <2>2 DEF x
<1>4. q <= count
  <2> HIDE DEF num, den, q
  <2> SUFFICES ASSUME q >= count + 1 PROVE FALSE
    BY <1>3
  <2>1. q * den >= (count + 1) * den
    <3>1. q * den = (count + 1) * den + (q - (count + 1)) * den
      BY <1>1, <1>3
    <3>2. (q - (count + 1)) * den >= 0
      BY <1>1, <1>3
    <3>3. (count + 1) * den \in Nat /\ q * den \in Nat
      BY <1>1, <1>3
    <3> QED BY <3>1, <3>2, <3>3, <1>1, <1>3
  <2>2. (count + 1) * den = den * count + den
    BY <1>1
  <2> QED BY <1>1, <1>2, <1>3, <2>1, <2>2
<1> QED
  BY <1>3, <1>4 DEF QuorumThreshold
=============================================================================
