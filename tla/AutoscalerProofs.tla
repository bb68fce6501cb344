--------------------------- MODULE AutoscalerProofs ---------------------------
(***************************************************************************)
(* Proofs about Autoscaler, for every pool of Connectors, every policy     *)
(* config.py accepts (each trigger mode, each quorum, each aggregate, each *)
(* window and cooldown), every set of demands, with and without failed     *)
(* reads: the bounds, the types, fresh evidence for a scale-up, and, from  *)
(* the sums of what the windows hold, that growth lasts.                   *)
(***************************************************************************)
EXTENDS Autoscaler, DeciderProofs, SequenceTheorems

Level == 0 .. Top \cup {NoReading}

\* The part of TypeOK that the size of the fleet depends on.
FleetOK ==
  /\ active \in SUBSET Slot
  /\ upLeft \in 0 .. UpCooldown
  /\ downLeft \in 0 .. DownCooldown
  /\ steady \in 0 .. Window + 1

SamplesOK ==
  /\ samples \in [Slot -> Seq(Level)]
  /\ \A c \in Slot : Len(samples[c]) <= Window + 1

-----------------------------------------------------------------------------
\* The pool is finite, so the fleet and what is outside it have a size.
LEMMA ActiveFinite ==
  ASSUME FleetOK
  PROVE  /\ IsFiniteSet(active) /\ Count \in Nat
         /\ IsFiniteSet(Slot \ active)
BY ModelAssumption, FS_Subset, FS_Difference, FS_CardinalityType DEF FleetOK, Count

LEMMA CooldownsType ==
  ASSUME FleetOK
  PROVE  /\ CooldownRemaining(upLeft, 1) \in 0 .. UpCooldown
         /\ CooldownRemaining(downLeft, 1) \in 0 .. DownCooldown
BY PolicyAssumption DEF FleetOK, CooldownRemaining

LEMMA SaturatingType ==
  ASSUME NEW age \in 0 .. Window + 1
  PROVE  Saturating(age) \in 1 .. Window + 1
BY PolicyAssumption DEF Saturating, Lesser

\* Whatever the samples say, a decision keeps the fleet within the policy's
\* bounds, or brings a fleet below the floor exactly to it.
LEMMA DecisionInBounds ==
  ASSUME FleetOK, NEW buffer, NEW up \in Nat, NEW down \in Nat
  PROVE  LET d == Decision(buffer, up, down)
         IN  /\ d.direction \in {"up", "down", "none"}
             /\ d.count \in Nat
             /\ d.direction = "up" => Count + d.count <= MaxConnectors
             /\ d.direction = "down" => Count - d.count >= MinConnectors
             /\ Count < MinConnectors => d.direction = "up" /\ Count + d.count = MinConnectors
<1> DEFINE cpu   == Reduce(buffer, active)
           cpuBy == [c \in active |-> Reduce(buffer, {c})]
           none  == [c \in active |-> Absent]
           high  == ScaleUpTrigger(Policy, Count, cpu, Absent, cpuBy, none)
           low   == IsLowLoad(Policy, cpu, Absent)
           stuck == FALSE
<1>1. high \in BOOLEAN
  <2>1. Policy.trigger \in {"mean", "any", "quorum"}
    BY PolicyAssumption DEF Policy
  <2>2. CASE Policy.trigger = "mean"
    <3>1. high = IsHighLoad(Policy, cpu, Absent)
      BY <2>2 DEF ScaleUpTrigger
    <3> HIDE DEF high
    <3> QED BY <3>1 DEF IsHighLoad
  <2>3. CASE Policy.trigger = "any"
    <3>1. high = (Cardinality(OverHighWatermark(Policy, cpuBy, none)) >= 1)
      BY <2>3 DEF ScaleUpTrigger
    <3> HIDE DEF high
    <3> QED BY <3>1
  <2>4. CASE Policy.trigger = "quorum"
    <3>1. high = (Cardinality(OverHighWatermark(Policy, cpuBy, none))
                    >= QuorumThreshold(Policy, Count))
      BY <2>4 DEF ScaleUpTrigger
    <3> HIDE DEF high
    <3> QED BY <3>1
  <2> QED BY <2>1, <2>2, <2>3, <2>4
<1>2. low \in BOOLEAN
  BY DEF IsLowLoad
<1>3. BoundsOK(Policy)
  BY PolicyAssumption DEF BoundsOK, Policy
<1>8. Policy.min = MinConnectors /\ Policy.max = MaxConnectors
  BY PolicyAssumption DEF BoundsOK, Policy
<1>4. Decision(buffer, up, down) = ScaleVerdict(Policy, Count, high, low, up, down, stuck)
  BY DEF Decision, DecideScale, Count
<1>5. Count \in Nat
  BY ActiveFinite
<1>6. stuck \in BOOLEAN
  OBVIOUS
<1>9. up \in Nat /\ down \in Nat
  OBVIOUS
<1> HIDE DEF high, low, stuck
<1> DEFINE d == ScaleVerdict(Policy, Count, high, low, up, down, stuck)
<1>7. VerdictProper(Policy, Count, d)
  BY <1>1, <1>2, <1>3, <1>5, <1>6, <1>9, VerdictInBounds
<1> HIDE DEF d
<1> QED
  BY <1>4, <1>7, <1>8 DEF d, VerdictProper

\* Starting or stopping n Connectors changes the size of the fleet by n.
LEMMA GrownBy ==
  ASSUME FleetOK, NEW n \in Nat, NEW new \in kSubset(n, Slot \ active)
  PROVE  /\ active \cup new \in SUBSET Slot
         /\ Cardinality(active \cup new) = Count + n
<1>1. new \subseteq Slot \ active /\ Cardinality(new) = n
  BY DEF kSubset
<1>2. IsFiniteSet(active) /\ IsFiniteSet(new) /\ Count \in Nat
  BY <1>1, ActiveFinite, FS_Subset
<1>3. active \cap new = {}
  BY <1>1
<1>4. Cardinality(active \cup new) = Count + n - Cardinality({})
  BY <1>1, <1>2, <1>3, FS_Union DEF Count
<1> QED
  BY <1>1, <1>2, <1>4, FS_EmptySet DEF FleetOK

LEMMA ShrunkBy ==
  ASSUME FleetOK, NEW n \in Nat, NEW old \in kSubset(n, active)
  PROVE  /\ active \ old \in SUBSET Slot
         /\ Cardinality(active \ old) = Count - n
<1>1. old \subseteq active /\ Cardinality(old) = n
  BY DEF kSubset
<1>2. IsFiniteSet(active) /\ active \cap old = old
  BY <1>1, ActiveFinite
<1>3. Cardinality(active \ old) = Count - n
  BY <1>1, <1>2, FS_Difference DEF Count
<1> QED
  BY <1>3 DEF FleetOK

-----------------------------------------------------------------------------
\* What is left of a cycle once it is known which way the decision goes.
LEMMA CycleCases ==
  ASSUME FleetOK, Cycle
  PROVE  /\ steady' = Saturating(steady) /\ demand' = demand
         /\ upLeft' \in 0 .. UpCooldown /\ downLeft' \in 0 .. DownCooldown
         /\ active' \in SUBSET Slot
         /\ \/ Cardinality(active') > Count /\ Cardinality(active') <= MaxConnectors
            \/ Cardinality(active') < Count
            \/ active' = active
         /\ Count < MinConnectors => Cardinality(active') = MinConnectors
         /\ Count >= MinConnectors => Cardinality(active') >= MinConnectors
<1>1. PICK reading \in Collected :
        LET up       == CooldownRemaining(upLeft, 1)
            down     == CooldownRemaining(downLeft, 1)
            buffer   == Ingest(reading)
            decision == Decision(buffer, up, down)
            n        == decision.count
        IN  /\ steady' = Saturating(steady)
            /\ UNCHANGED demand
            /\ \/ /\ decision.direction = "up"
                  /\ \E new \in kSubset(n, Slot \ active) : active' = active \cup new
                  /\ upLeft' = UpCooldown /\ downLeft' = down
               \/ /\ decision.direction = "down"
                  /\ \E old \in kSubset(n, active) : active' = active \ old
                  /\ upLeft' = up /\ downLeft' = DownCooldown
               \/ /\ decision.direction = "none"
                  /\ upLeft' = up /\ downLeft' = down
                  /\ UNCHANGED active
  BY Zenon DEF Cycle
<1> DEFINE up       == CooldownRemaining(upLeft, 1)
           down     == CooldownRemaining(downLeft, 1)
           decision == Decision(Ingest(reading), up, down)
           n        == decision.count
<1>2. /\ steady' = Saturating(steady) /\ demand' = demand
      /\ \/ /\ decision.direction = "up"
            /\ \E new \in kSubset(n, Slot \ active) : active' = active \cup new
            /\ upLeft' = UpCooldown /\ downLeft' = down
         \/ /\ decision.direction = "down"
            /\ \E old \in kSubset(n, active) : active' = active \ old
            /\ upLeft' = up /\ downLeft' = DownCooldown
         \/ /\ decision.direction = "none"
            /\ upLeft' = up /\ downLeft' = down
            /\ active' = active
  BY <1>1, Zenon
<1>3. up \in 0 .. UpCooldown /\ down \in 0 .. DownCooldown
  BY CooldownsType
<1>4. /\ decision.direction \in {"up", "down", "none"}
      /\ n \in Nat
      /\ decision.direction = "up" => Count + n <= MaxConnectors
      /\ decision.direction = "down" => Count - n >= MinConnectors
      /\ Count < MinConnectors => decision.direction = "up" /\ Count + n = MinConnectors
  <2>1. up \in Nat /\ down \in Nat
    BY <1>3, PolicyAssumption
  <2> HIDE DEF up, down
  <2> QED BY <2>1, DecisionInBounds
<1>5. Count \in Nat /\ MinConnectors \in Nat /\ MaxConnectors \in Nat
  BY ActiveFinite, PolicyAssumption
<1>6. UpCooldown \in 0 .. UpCooldown /\ DownCooldown \in 0 .. DownCooldown
  BY PolicyAssumption
<1> HIDE DEF up, down, decision, n
<1>7. CASE decision.direction = "up"
  <2>1. PICK new \in kSubset(n, Slot \ active) : active' = active \cup new
    BY <1>2, <1>7
  <2>2. active' \in SUBSET Slot /\ Cardinality(active') = Count + n
    BY <1>4, <2>1, GrownBy
  <2>3. upLeft' = UpCooldown /\ downLeft' = down
    BY <1>2, <1>7
  <2>4. n = 0 => active' = active
    <3> SUFFICES ASSUME n = 0 PROVE new = {}
      BY <2>1
    <3>1. new \subseteq Slot \ active /\ Cardinality(new) = 0
      BY <2>1 DEF kSubset
    <3> QED BY <3>1, ActiveFinite, FS_Subset, FS_EmptySet
  <2> QED BY <1>2, <1>3, <1>4, <1>5, <1>6, <1>7, <2>2, <2>3, <2>4
<1>8. CASE decision.direction = "down"
  <2>1. PICK old \in kSubset(n, active) : active' = active \ old
    BY <1>2, <1>8
  <2>2. active' \in SUBSET Slot /\ Cardinality(active') = Count - n
    BY <1>4, <2>1, ShrunkBy
  <2>3. upLeft' = up /\ downLeft' = DownCooldown
    BY <1>2, <1>8
  <2>4. n = 0 => active' = active
    <3> SUFFICES ASSUME n = 0 PROVE old = {}
      BY <2>1
    <3>1. old \subseteq active /\ Cardinality(old) = 0
      BY <2>1 DEF kSubset
    <3> QED BY <3>1, ActiveFinite, FS_Subset, FS_EmptySet
  <2> QED BY <1>2, <1>3, <1>4, <1>5, <1>6, <1>8, <2>2, <2>3, <2>4
<1>9. CASE decision.direction = "none"
  <2>1. active' = active /\ upLeft' = up /\ downLeft' = down
    BY <1>2, <1>9
  <2>2. active' \in SUBSET Slot /\ Cardinality(active') = Count
    BY <2>1 DEF FleetOK, Count
  <2> QED BY <1>2, <1>3, <1>4, <1>5, <1>9, <2>1, <2>2
<1> QED
  BY <1>4, <1>7, <1>8, <1>9

\* The inductive invariant of the bounds.
BoundsInv == FleetOK /\ BoundsHold

LEMMA InitBounds == Init => BoundsInv
BY PolicyAssumption, FS_EmptySet DEF Init, BoundsInv, FleetOK, BoundsHold, Count

LEMMA CycleBounds ==
  ASSUME BoundsInv, Cycle PROVE BoundsInv'
<1>1. FleetOK /\ Count <= MaxConnectors
  BY DEF BoundsInv, BoundsHold
<1>2. FleetOK'
  BY <1>1, CycleCases, SaturatingType DEF FleetOK
<1>3. Count' = Cardinality(active')
  BY DEF Count
<1>4. Count \in Nat /\ Count' \in Nat /\ MinConnectors \in Nat /\ MaxConnectors \in Nat
  <2>1. active' \subseteq Slot
    BY <1>2 DEF FleetOK
  <2> QED BY <1>1, <1>3, <2>1, ActiveFinite, ModelAssumption, PolicyAssumption,
             FS_Subset, FS_CardinalityType
<1>5. Count' <= MaxConnectors
  BY <1>1, <1>3, <1>4, CycleCases DEF Count
<1>6. Count' >= MinConnectors
  BY <1>1, <1>3, <1>4, CycleCases
<1> QED
  BY <1>2, <1>5, <1>6 DEF BoundsInv, BoundsHold

LEMMA DisturbedBounds ==
  ASSUME BoundsInv, DemandChanges \/ ConnectorLost PROVE BoundsInv'
<1>1. FleetOK /\ Count <= MaxConnectors
  BY DEF BoundsInv, BoundsHold
<1>2. steady' = 0 /\ 0 \in 0 .. Window + 1
  BY PolicyAssumption DEF DemandChanges, ConnectorLost
<1>3. active' \subseteq active /\ upLeft' = upLeft /\ downLeft' = downLeft
  BY DEF DemandChanges, ConnectorLost
<1>4. FleetOK'
  BY <1>1, <1>2, <1>3 DEF FleetOK
<1>5. Count' <= Count /\ Count' \in Nat /\ Count \in Nat
  BY <1>1, <1>3, ActiveFinite, FS_Subset, FS_CardinalityType DEF Count
<1> QED
  BY <1>1, <1>2, <1>4, <1>5, PolicyAssumption DEF BoundsInv, BoundsHold

\* The fleet never exceeds max_connectors, and one cycle restores the floor,
\* for every policy and whatever the readings: what the closed loop adds to
\* VerdictInBounds is that no order of cycles, losses and changes of demand
\* accumulates past the bounds (decide_scale, Key Design Rule 2).
THEOREM BoundsAlwaysHold == Spec => []BoundsHold
<1>1. BoundsInv /\ [Next]_vars => BoundsInv'
  <2> SUFFICES ASSUME BoundsInv, [Next]_vars PROVE BoundsInv'
    OBVIOUS
  <2>1. CASE Next
    BY <2>1, CycleBounds, DisturbedBounds DEF Next
  <2>2. CASE UNCHANGED vars
    BY <2>2 DEF vars, BoundsInv, FleetOK, BoundsHold, Count
  <2> QED BY <2>1, <2>2
<1>2. BoundsInv => BoundsHold
  BY DEF BoundsInv
<1> QED
  BY <1>1, <1>2, InitBounds, PTL DEF Spec

-----------------------------------------------------------------------------
LEMMA CollectedFrom ==
  ASSUME NEW reading \in Collected
  PROVE  \E s \in Spreads, failed \in (IF MayMiss THEN SUBSET active ELSE {{}}) :
           reading = [c \in active |-> IF c \in Unread \cup failed THEN NoReading ELSE s[c]]
BY DEF Collected

LEMMA CollectedType ==
  ASSUME NEW reading \in Collected
  PROVE  reading \in [active -> Level]
<1>1. PICK s \in Spreads, failed \in (IF MayMiss THEN SUBSET active ELSE {{}}) :
        reading = [c \in active |-> IF c \in Unread \cup failed THEN NoReading ELSE s[c]]
  BY CollectedFrom
<1>2. s \in [active -> 0 .. Top]
  BY DEF Spreads
<1> QED
  BY <1>1, <1>2 DEF Level

\* The buffer keeps the samples of the window: Window + 1 of them at most.
LEMMA IngestType ==
  ASSUME SamplesOK, NEW reading \in [active -> Level]
  PROVE  /\ Ingest(reading) \in [Slot -> Seq(Level)]
         /\ \A c \in Slot : Len(Ingest(reading)[c]) <= Window + 1
<1> SUFFICES ASSUME NEW c \in Slot
             PROVE  /\ Ingest(reading)[c] \in Seq(Level)
                    /\ Len(Ingest(reading)[c]) <= Window + 1
  BY DEF Ingest
<1>1. Window \in Nat \ {0}
  BY PolicyAssumption
<1>2. CASE c \notin active
  <2>1. Ingest(reading)[c] = << >>
    BY <1>2 DEF Ingest
  <2> QED BY <1>1, <2>1
<1>3. CASE c \in active
  <2> DEFINE kept  == Append(samples[c], reading[c])
             first == IF Len(kept) > Window + 1 THEN 2 ELSE 1
  <2>1. Ingest(reading)[c] = SubSeq(kept, first, Len(kept))
    BY <1>3 DEF Ingest
  <2>2. /\ samples[c] \in Seq(Level) /\ reading[c] \in Level
        /\ Len(samples[c]) \in Nat /\ Len(samples[c]) <= Window + 1
    BY <1>3, LenProperties DEF SamplesOK
  <2>3. /\ kept \in Seq(Level) /\ Len(kept) = Len(samples[c]) + 1
    BY <2>2, AppendProperties
  <2> HIDE DEF kept
  <2>4. first \in 1 .. Len(kept) + 1 /\ Len(kept) - first + 1 <= Window + 1
    BY <1>1, <2>2, <2>3
  <2> HIDE DEF first
  <2>5. \A i \in first .. Len(kept) : kept[i] \in Level
    BY <2>2, <2>3, <2>4, ElementOfSeq
  <2>6. /\ SubSeq(kept, first, Len(kept)) \in Seq(Level)
        /\ Len(SubSeq(kept, first, Len(kept))) <= Window + 1
    BY <1>1, <2>2, <2>3, <2>4, <2>5, SubSeqProperties
  <2> QED BY <2>1, <2>6
<1> QED BY <1>2, <1>3

\* The inductive invariant of the types is the type invariant itself.
LEMMA TypeParts ==
  TypeOK <=> /\ FleetOK /\ SamplesOK
             /\ demand \in Demands /\ sinceUp \in 0 .. Window + 1 /\ grown \in BOOLEAN
BY DEF TypeOK, FleetOK, SamplesOK, Level

LEMMA InitTypes == Init => TypeOK
<1> SUFFICES ASSUME Init PROVE TypeOK
  OBVIOUS
<1>1. FleetOK
  BY InitBounds DEF BoundsInv
<1>2. SamplesOK
  BY PolicyAssumption DEF Init, SamplesOK
<1>3. demand \in Demands /\ sinceUp = Window + 1 /\ grown = FALSE
  BY DEF Init
<1>4. sinceUp \in 0 .. Window + 1
  BY <1>3, PolicyAssumption
<1>5. grown \in BOOLEAN
  BY <1>3
<1> QED
  BY <1>1, <1>2, <1>3, <1>4, <1>5 DEF TypeOK, FleetOK, SamplesOK, Level

LEMMA CycleTypes ==
  ASSUME TypeOK, Cycle PROVE TypeOK'
<1>1. /\ FleetOK /\ SamplesOK /\ demand \in Demands
      /\ sinceUp \in 0 .. Window + 1 /\ grown \in BOOLEAN
  BY TypeParts
<1>2. FleetOK' /\ demand' = demand
  BY <1>1, CycleCases, SaturatingType DEF FleetOK
<1>3. PICK reading \in Collected :
        /\ \/ samples' = Ingest(reading)
           \/ \E old : samples' = [c \in Slot |-> IF c \in old THEN << >> ELSE Ingest(reading)[c]]
        /\ sinceUp' = 0 \/ sinceUp' = Saturating(sinceUp)
        /\ \/ grown' = (grown \/ (steady > Window /\ Cardinality(active) >= MinConnectors))
           \/ grown' = grown
  BY Zenon DEF Cycle
<1>4. /\ Ingest(reading) \in [Slot -> Seq(Level)]
      /\ \A c \in Slot : Len(Ingest(reading)[c]) <= Window + 1
  BY <1>1, CollectedType, IngestType
<1>5. SamplesOK'
  <2> DEFINE buffer == Ingest(reading)
  <2>1. /\ buffer \in [Slot -> Seq(Level)]
        /\ \A c \in Slot : Len(buffer[c]) <= Window + 1
        /\ \/ samples' = buffer
           \/ \E old : samples' = [c \in Slot |-> IF c \in old THEN << >> ELSE buffer[c]]
    BY <1>3, <1>4
  <2> HIDE DEF buffer
  <2>2. << >> \in Seq(Level) /\ Len(<< >>) = 0 /\ 0 <= Window + 1
    BY EmptySeq, PolicyAssumption
  <2>3. CASE samples' = buffer
    BY <2>1, <2>3 DEF SamplesOK
  <2>4. ASSUME NEW old, samples' = [c \in Slot |-> IF c \in old THEN << >> ELSE buffer[c]]
        PROVE  SamplesOK'
    <3>1. \A c \in Slot : samples'[c] = << >> \/ samples'[c] = buffer[c]
      BY <2>4
    <3>2. \A c \in Slot : samples'[c] \in Seq(Level) /\ Len(samples'[c]) <= Window + 1
      BY <2>1, <2>2, <3>1
    <3> QED BY <2>4, <3>2 DEF SamplesOK
  <2> QED BY <2>1, <2>3, <2>4
<1>6. sinceUp' \in 0 .. Window + 1
  BY <1>1, <1>3, SaturatingType, PolicyAssumption
<1>7. grown' \in BOOLEAN
  BY <1>1, <1>3
<1> QED
  BY <1>1, <1>2, <1>5, <1>6, <1>7 DEF TypeOK, FleetOK, SamplesOK, Level

LEMMA DisturbedTypes ==
  ASSUME TypeOK, DemandChanges \/ ConnectorLost PROVE TypeOK'
<1>1. /\ FleetOK /\ SamplesOK /\ demand \in Demands
      /\ sinceUp \in 0 .. Window + 1 /\ grown \in BOOLEAN
  BY TypeParts
<1>2. FleetOK'
  BY <1>1, PolicyAssumption DEF DemandChanges, ConnectorLost, FleetOK
<1>3. SamplesOK'
  <2>1. << >> \in Seq(Level) /\ Len(<< >>) = 0 /\ 0 <= Window + 1
    BY EmptySeq, PolicyAssumption
  <2>2. /\ samples' = samples \/ \E c \in active : samples' = [samples EXCEPT ![c] = << >>]
        /\ samples \in [Slot -> Seq(Level)]
    BY <1>1 DEF DemandChanges, ConnectorLost, SamplesOK
  <2>3. \A c \in Slot : samples'[c] = << >> \/ samples'[c] = samples[c]
    BY <2>2
  <2>4. \A c \in Slot : samples'[c] \in Seq(Level) /\ Len(samples'[c]) <= Window + 1
    BY <1>1, <2>1, <2>3 DEF SamplesOK
  <2>5. DOMAIN samples' = Slot /\ samples' = [c \in Slot |-> samples'[c]]
    BY <2>2
  <2> QED BY <2>4, <2>5 DEF SamplesOK
<1>4. demand' \in Demands /\ sinceUp' = sinceUp /\ grown' = FALSE
  BY <1>1 DEF DemandChanges, ConnectorLost
<1> QED
  BY <1>1, <1>2, <1>3, <1>4 DEF TypeOK, FleetOK, SamplesOK, Level

\* Every variable of the closed loop keeps its type; in particular no window
\* ever holds more than Window + 1 readings of a Connector (Aggregator.prune)
\* and no cooldown is ever negative (engine/policy.py, cooldown_remaining).
THEOREM ScalerTypeCorrect == Spec => []TypeOK
<1>1. TypeOK /\ [Next]_vars => TypeOK'
  <2> SUFFICES ASSUME TypeOK, [Next]_vars PROVE TypeOK'
    OBVIOUS
  <2>1. CASE Next
    BY <2>1, CycleTypes, DisturbedTypes DEF Next
  <2>2. CASE UNCHANGED vars
    BY <2>2 DEF vars, TypeOK
  <2> QED BY <2>1, <2>2
<1> QED
  BY <1>1, InitTypes, PTL DEF Spec

-----------------------------------------------------------------------------
\* A fleet at its floor or above grows only once the cooldown is over.
LEMMA GrowthIsCooled ==
  ASSUME FleetOK, NEW buffer, NEW up \in Nat, NEW down \in Nat,
         Count >= MinConnectors, Decision(buffer, up, down).direction = "up"
  PROVE  up = 0
<1> DEFINE cpu   == Reduce(buffer, active)
           cpuBy == [c \in active |-> Reduce(buffer, {c})]
           none  == [c \in active |-> Absent]
           high  == ScaleUpTrigger(Policy, Count, cpu, Absent, cpuBy, none)
           low   == IsLowLoad(Policy, cpu, Absent)
           fill  == FloorFillCount(Policy, Count)
           more  == ScaleUpCount(Policy, Count)
           less  == ScaleDownCount(Policy, Count)
           d     == ScaleVerdict(Policy, Count, high, low, up, down, FALSE)
<1>1. Decision(buffer, up, down) = d
  BY DEF Decision, DecideScale, Count
<1>2. fill = 0
  BY PolicyAssumption, ActiveFinite DEF FloorFillCount, Policy
<1> HIDE DEF high, low, fill, more, less
<1>3. \/ d = NoAction
      \/ d = [direction |-> "down", count |-> less]
      \/ ~(more = 0 \/ up > 0)
  BY <1>2 DEF ScaleVerdict, fill, more, less
<1> HIDE DEF d
<1>4. d.direction = "up"
  BY <1>1
<1> QED
  BY <1>3, <1>4 DEF NoAction

\* What is left of the cooldown and what has passed since the last scale-up
\* make up the cooldown, until the latter is no longer told apart.
PaceInv ==
  /\ FleetOK
  /\ sinceUp \in 0 .. Window + 1
  /\ sinceUp = Window + 1 \/ upLeft + sinceUp >= UpCooldown

LEMMA InitPace == Init => PaceInv
<1> SUFFICES ASSUME Init PROVE PaceInv
  OBVIOUS
<1>1. FleetOK
  BY InitBounds DEF BoundsInv
<1>2. sinceUp = Window + 1
  BY DEF Init
<1> QED
  BY <1>1, <1>2, PolicyAssumption DEF PaceInv

LEMMA DisturbedPace ==
  ASSUME PaceInv, DemandChanges \/ ConnectorLost PROVE PaceInv'
BY PolicyAssumption DEF DemandChanges, ConnectorLost, PaceInv, FleetOK

LEMMA CyclePace ==
  ASSUME PaceInv, Cycle
  PROVE  /\ PaceInv'
         /\ Cardinality(active') > Count /\ Count >= MinConnectors
              => /\ UpCooldown > Window     => sinceUp >= Window
                 /\ UpCooldown > Window + 1 => sinceUp > Window
<1>1. FleetOK
  BY DEF PaceInv
<1>2. FleetOK'
  BY <1>1, CycleCases, SaturatingType DEF FleetOK
<1> DEFINE up   == CooldownRemaining(upLeft, 1)
           down == CooldownRemaining(downLeft, 1)
<1>3. PICK reading \in Collected :
        \/ /\ Decision(Ingest(reading), up, down).direction = "up"
           /\ upLeft' = UpCooldown /\ sinceUp' = 0
        \/ /\ \/ \E n, old : old \in kSubset(n, active) /\ active' = active \ old
              \/ active' = active
           /\ upLeft' = up /\ sinceUp' = Saturating(sinceUp)
  BY Zenon DEF Cycle
<1>4. /\ upLeft \in 0 .. UpCooldown /\ UpCooldown \in Nat /\ Window \in Nat \ {0}
      /\ sinceUp \in 0 .. Window + 1
      /\ sinceUp = Window + 1 \/ upLeft + sinceUp >= UpCooldown
  BY PolicyAssumption DEF PaceInv, FleetOK
<1>5. /\ up \in Nat /\ up <= upLeft /\ (up > 0 => up = upLeft - 1)
      /\ (up = 0 => upLeft <= 1) /\ down \in Nat
  BY <1>4, <1>1, PolicyAssumption, CooldownsType DEF CooldownRemaining
<1> HIDE DEF up, down
<1>6. CASE upLeft' = UpCooldown /\ sinceUp' = 0
           /\ Decision(Ingest(reading), up, down).direction = "up"
  <2>1. PaceInv'
    BY <1>2, <1>4, <1>6 DEF PaceInv
  <2>2. ASSUME Count >= MinConnectors
        PROVE  /\ UpCooldown > Window     => sinceUp >= Window
               /\ UpCooldown > Window + 1 => sinceUp > Window
    <3>1. up = 0
      BY <1>1, <1>5, <1>6, <2>2, GrowthIsCooled
    <3> QED BY <1>4, <1>5, <2>2, <3>1
  <2> QED BY <2>1, <2>2
<1>7. CASE /\ \/ \E n, old : old \in kSubset(n, active) /\ active' = active \ old
              \/ active' = active
           /\ upLeft' = up /\ sinceUp' = Saturating(sinceUp)
  <2>1. sinceUp' \in 0 .. Window + 1 /\ (sinceUp' = Window + 1 \/ sinceUp' = sinceUp + 1)
    BY <1>4, <1>7 DEF Saturating, Lesser
  <2>2. sinceUp' = Window + 1 \/ upLeft' + sinceUp' >= UpCooldown
    <3>1. CASE up > 0
      BY <1>4, <1>5, <1>7, <2>1, <3>1
    <3>2. CASE up = 0
      BY <1>4, <1>5, <1>7, <2>1, <3>2
    <3> QED BY <1>5, <3>1, <3>2
  <2>3. PaceInv'
    BY <1>2, <2>1, <2>2 DEF PaceInv
  <2>4. active' \subseteq active
    BY <1>7
  <2>5. Cardinality(active') <= Count /\ Cardinality(active') \in Nat /\ Count \in Nat
    BY <1>1, <2>4, ActiveFinite, FS_Subset, FS_CardinalityType DEF Count
  <2> QED BY <2>3, <2>5
<1> QED
  BY <1>3, <1>6, <1>7

\* With a scale-up cooldown longer than the window, as config.example.yaml has
\* it for CPU (600 s and 300 s; its throughput window, 1200 s, is longer), no
\* scale-up of a fleet at its floor or above ever counts a sample of the fleet
\* as it was before the previous one; with one longer by a cycle, nor one taken
\* while the Connectors added last were still unread.
THEOREM EvidenceIsFresh == Spec => FreshEvidence
<1>1. PaceInv /\ [Next]_vars => PaceInv'
  <2> SUFFICES ASSUME PaceInv, [Next]_vars PROVE PaceInv'
    OBVIOUS
  <2>1. CASE Cycle
    BY <2>1, CyclePace
  <2>2. CASE DemandChanges \/ ConnectorLost
    BY <2>2, DisturbedPace
  <2>3. CASE UNCHANGED vars
    BY <2>3 DEF vars, PaceInv, FleetOK
  <2> QED BY <2>1, <2>2, <2>3 DEF Next
<1> DEFINE Fresh == /\ Cardinality(active') > Count
                    /\ Count >= MinConnectors
                    => /\ UpCooldown > Window     => sinceUp >= Window
                       /\ UpCooldown > Window + 1 => sinceUp > Window
<1>2. PaceInv /\ [Next]_vars => [Fresh]_vars
  <2> SUFFICES ASSUME PaceInv, Next PROVE Fresh
    BY DEF vars
  <2>1. CASE Cycle
    BY <2>1, CyclePace
  <2>2. CASE DemandChanges \/ ConnectorLost
    <3>1. FleetOK /\ active' \subseteq active
      BY <2>2 DEF DemandChanges, ConnectorLost, PaceInv
    <3>2. Cardinality(active') <= Count /\ Cardinality(active') \in Nat /\ Count \in Nat
      BY <3>1, ActiveFinite, FS_Subset, FS_CardinalityType DEF Count
    <3> QED BY <3>2
  <2> QED BY <2>1, <2>2 DEF Next
<1>3. FreshEvidence <=> [][Fresh]_vars
  BY DEF FreshEvidence
<1> HIDE DEF Fresh
<1> QED
  BY <1>1, <1>2, <1>3, InitPace, PTL DEF Spec

-----------------------------------------------------------------------------
(***************************************************************************)
(* Sums over finite sets, as MapThenSumSet computes them.  The induction   *)
(* over a finite set is on a set of sets, good, so that no lemma takes an  *)
(* operator.                                                               *)
(***************************************************************************)
\* good holds of a subset of S once it holds of all that lack one element of it.
Inductive(S, good) == \A X \in SUBSET S : (\A x \in X : X \ {x} \in good) => X \in good

LEMMA SetInduction ==
  ASSUME NEW S, IsFiniteSet(S), NEW good, Inductive(S, good)
  PROVE  S \in good
<1> DEFINE bad == {X \in SUBSET S : X \notin good}
<1>1. SUFFICES ASSUME bad # {} PROVE FALSE
  OBVIOUS
<1>2. IsWellFoundedOn(StrictSubsetOrdering(S), SUBSET S)
  BY FS_StrictSubsetOrderingWellFounded, FS_FiniteSubsetsOfFinite
<1>3. \E X \in bad : \A Y \in bad : <<Y, X>> \notin StrictSubsetOrdering(S)
  <2>1. bad \subseteq SUBSET S
    OBVIOUS
  <2> HIDE DEF StrictSubsetOrdering, bad
  <2> QED BY <1>1, <1>2, <2>1, WFMin
<1>4. PICK X \in bad : \A Y \in bad : <<Y, X>> \notin StrictSubsetOrdering(S)
  BY <1>3
<1>5. ASSUME NEW x \in X PROVE X \ {x} \in good
  <2>1. <<X \ {x}, X>> \in StrictSubsetOrdering(S)
    <3>1. X \in SUBSET S /\ X \ {x} \in SUBSET S /\ X \ {x} \subseteq X /\ X \ {x} # X
      BY <1>4
    <3> QED BY <3>1 DEF StrictSubsetOrdering
  <2> HIDE DEF StrictSubsetOrdering
  <2> QED BY <1>4, <2>1
<1> QED BY <1>4, <1>5 DEF Inductive

\* The sum of f over S.
SumOn(f, S) == MapThenSumSet(LAMBDA x : f[x], S)

\* MapThenSumSet adds the elements one by one, the one it picks first; g is the
\* function it chooses, on the subsets of S.
Pick(s) == CHOOSE x \in s : TRUE

Adds(g, f, S) ==
  g = [s \in SUBSET S |-> IF s = {} THEN 0 ELSE f[Pick(s)] + g[s \ {Pick(s)}]]

LEMMA SumUnfolds ==
  ASSUME NEW f, NEW S
  PROVE  SumOn(f, S) = (CHOOSE g : Adds(g, f, S))[S]
BY Zenon DEF SumOn, MapThenSumSet, MapThenFoldSet, Adds, Pick

LEMMA Picked ==
  ASSUME NEW s, s # {} PROVE Pick(s) \in s
BY DEF Pick

LEMMA AddsStep ==
  ASSUME NEW f, NEW S, NEW g, Adds(g, f, S), NEW s \in SUBSET S
  PROVE  g[s] = IF s = {} THEN 0 ELSE f[Pick(s)] + g[s \ {Pick(s)}]
BY DEF Adds

LEMMA AddsAgree ==
  ASSUME NEW f, NEW A, NEW B, NEW g, NEW h, Adds(g, f, A), Adds(h, f, B),
         NEW S, IsFiniteSet(S), S \subseteq A, S \subseteq B
  PROVE  g[S] = h[S]
<1> DEFINE good == {X \in SUBSET S : g[X] = h[X]}
<1>1. ASSUME NEW X \in SUBSET S, \A x \in X : X \ {x} \in good
      PROVE  X \in good
  <2>1. /\ g[X] = IF X = {} THEN 0 ELSE f[Pick(X)] + g[X \ {Pick(X)}]
        /\ h[X] = IF X = {} THEN 0 ELSE f[Pick(X)] + h[X \ {Pick(X)}]
    BY AddsStep
  <2>2. CASE X = {}
    BY <2>1, <2>2
  <2>3. CASE X # {}
    <3>1. X \ {Pick(X)} \in good
      BY <1>1, <2>3, Picked
    <3> QED BY <2>1, <2>3, <3>1
  <2> QED BY <2>2, <2>3
<1>2. Inductive(S, good)
  BY <1>1 DEF Inductive
<1>3. S \in good
  <2> HIDE DEF good
  <2> QED BY <1>2, SetInduction
<1> QED BY <1>3

LEMMA AddsExist ==
  ASSUME NEW f, NEW S, IsFiniteSet(S)
  PROVE  \E g : Adds(g, f, S)
<1> DEFINE good == {X \in SUBSET S : \A Y \in SUBSET X : \E g : Adds(g, f, Y)}
<1>1. ASSUME NEW X \in SUBSET S, \A x \in X : X \ {x} \in good
      PROVE  X \in good
  <2>1. \A Y \in SUBSET X : Y # X => \E g : Adds(g, f, Y)
    <3> SUFFICES ASSUME NEW Y \in SUBSET X, Y # X PROVE \E g : Adds(g, f, Y)
      OBVIOUS
    <3>1. PICK x \in X : x \notin Y
      OBVIOUS
    <3>2. X \ {x} \in good /\ Y \in SUBSET (X \ {x})
      BY <1>1, <3>1
    <3> QED BY <3>2
  <2> DEFINE G(Y) == CHOOSE g : Adds(g, f, Y)
             Rest(s) == s \ {Pick(s)}
             V(s) == IF s = {} THEN 0 ELSE f[Pick(s)] + G(Rest(s))[Rest(s)]
             h == [s \in SUBSET X |-> V(s)]
  <2>2. \A Y \in SUBSET X : Y # X => Adds(G(Y), f, Y)
    BY <2>1
  <2>3. \A s \in SUBSET X : s # {} => Rest(s) \in SUBSET X /\ Rest(s) # X /\ Pick(s) \in s
    BY Picked
  <2>4. \A s \in SUBSET X : IsFiniteSet(s)
    BY FS_Subset
  <2>5. ASSUME NEW u \in SUBSET X, u # X PROVE G(u)[u] = V(u)
    <3>1. Adds(G(u), f, u)
      BY <2>2, <2>5
    <3> HIDE DEF G
    <3>2. G(u)[u] = IF u = {} THEN 0 ELSE f[Pick(u)] + G(u)[Rest(u)]
      BY <3>1, AddsStep
    <3>3. CASE u = {}
      BY <3>2, <3>3
    <3>4. CASE u # {}
      <4>1. Adds(G(Rest(u)), f, Rest(u))
        BY <2>2, <2>3, <3>4
      <4>2. IsFiniteSet(Rest(u)) /\ Rest(u) \subseteq u /\ Rest(u) \subseteq Rest(u)
        BY <2>3, <2>4, <3>4
      <4>3. G(u)[Rest(u)] = G(Rest(u))[Rest(u)]
        <5> HIDE DEF Rest
        <5> QED BY <3>1, <4>1, <4>2, AddsAgree
      <4> QED BY <3>2, <3>4, <4>3
    <3> QED BY <3>3, <3>4
  <2>6. \A s \in SUBSET X : V(s) = IF s = {} THEN 0 ELSE f[Pick(s)] + h[Rest(s)]
    <3>1. ASSUME NEW s \in SUBSET X, s # {}
          PROVE  G(Rest(s))[Rest(s)] = h[Rest(s)]
      <4>1. Rest(s) \in SUBSET X /\ Rest(s) # X
        BY <2>3, <3>1
      <4>2. h[Rest(s)] = V(Rest(s))
        BY <4>1
      <4> HIDE DEF V, G, Rest, h
      <4> QED BY <2>5, <4>1, <4>2
    <3> HIDE DEF G, Rest, h
    <3> QED BY <3>1
  <2>7. Adds(h, f, X)
    <3>1. h = [s \in SUBSET X |-> IF s = {} THEN 0 ELSE f[Pick(s)] + h[Rest(s)]]
      <4>1. h = [s \in SUBSET X |-> V(s)]
        OBVIOUS
      <4> HIDE DEF h, V, Rest
      <4> QED BY <2>6, <4>1
    <3> HIDE DEF h
    <3> QED BY <3>1 DEF Adds
  <2> HIDE DEF G, Rest, V, h
  <2>8. \A Y \in SUBSET X : \E g : Adds(g, f, Y)
    BY <2>1, <2>7
  <2> QED BY <2>8
<1>2. Inductive(S, good)
  BY <1>1 DEF Inductive
<1>3. S \in good
  <2> HIDE DEF good
  <2> QED BY <1>2, SetInduction
<1> QED BY <1>3

LEMMA SumRule ==
  ASSUME NEW f, NEW S, IsFiniteSet(S)
  PROVE  /\ S = {} => SumOn(f, S) = 0
         /\ S # {} => SumOn(f, S) = f[Pick(S)] + SumOn(f, S \ {Pick(S)})
<1> DEFINE rest == S \ {Pick(S)}
           G(X) == CHOOSE g : Adds(g, f, X)
<1>1. Adds(G(S), f, S) /\ Adds(G(rest), f, rest) /\ IsFiniteSet(rest)
  <2>1. IsFiniteSet(rest)
    BY FS_Subset
  <2> HIDE DEF rest
  <2>2. \A X : IsFiniteSet(X) => Adds(G(X), f, X)
    BY AddsExist
  <2> QED BY <2>1, <2>2
<1>2. SumOn(f, S) = G(S)[S] /\ SumOn(f, rest) = G(rest)[rest]
  BY SumUnfolds
<1> HIDE DEF G
<1>3. G(S)[S] = IF S = {} THEN 0 ELSE f[Pick(S)] + G(S)[rest]
  BY <1>1, AddsStep
<1>4. G(S)[rest] = G(rest)[rest]
  <2>1. rest \subseteq S /\ rest \subseteq rest
    OBVIOUS
  <2> HIDE DEF rest
  <2> QED BY <1>1, <2>1, AddsAgree
<1> QED BY <1>2, <1>3, <1>4

LEMMA SumSame ==
  ASSUME NEW f, NEW h, NEW S, IsFiniteSet(S), \A x \in S : f[x] = h[x]
  PROVE  SumOn(f, S) = SumOn(h, S)
<1> DEFINE good == {X \in SUBSET S : SumOn(f, X) = SumOn(h, X)}
<1>1. ASSUME NEW X \in SUBSET S, \A x \in X : X \ {x} \in good
      PROVE  X \in good
  <2>1. IsFiniteSet(X)
    BY FS_Subset
  <2>2. CASE X = {}
    BY <2>1, <2>2, SumRule
  <2>3. CASE X # {}
    <3>1. Pick(X) \in X /\ Pick(X) \in S /\ X \ {Pick(X)} \in good
      BY <1>1, <2>3, Picked
    <3>2. SumOn(f, X) = f[Pick(X)] + SumOn(f, X \ {Pick(X)}) /\ SumOn(h, X) = h[Pick(X)] + SumOn(h, X \ {Pick(X)})
      BY <2>1, <2>3, SumRule
    <3> QED BY <3>1, <3>2
  <2> QED BY <2>2, <2>3
<1>2. Inductive(S, good)
  BY <1>1 DEF Inductive
<1>3. S \in good
  <2> HIDE DEF good
  <2> QED BY <1>2, SetInduction
<1> QED BY <1>3

\* A sum of finitely many integers.
Whole(f, S) == IsFiniteSet(S) /\ \A x \in S : f[x] \in Int

LEMMA SumInt ==
  ASSUME NEW f, NEW S, Whole(f, S)
  PROVE  SumOn(f, S) \in Int
<1> DEFINE good == {X \in SUBSET S : SumOn(f, X) \in Int}
<1>1. ASSUME NEW X \in SUBSET S, \A x \in X : X \ {x} \in good
      PROVE  X \in good
  <2>1. IsFiniteSet(X)
    BY FS_Subset DEF Whole
  <2>2. CASE X = {}
    <3>1. SumOn(f, X) = 0
      BY <2>1, <2>2, SumRule
    <3> QED BY <3>1
  <2>3. CASE X # {}
    <3>1. f[Pick(X)] \in Int /\ X \ {Pick(X)} \in good
      BY <1>1, <2>3, Picked DEF Whole
    <3>2. SumOn(f, X) = f[Pick(X)] + SumOn(f, X \ {Pick(X)})
      BY <2>1, <2>3, SumRule
    <3> QED BY <3>1, <3>2
  <2> QED BY <2>2, <2>3
<1>2. Inductive(S, good)
  BY <1>1 DEF Inductive
<1>3. S \in good
  <2> HIDE DEF good
  <2> QED BY <1>2, SetInduction DEF Whole
<1> QED BY <1>3

LEMMA WholePart ==
  ASSUME NEW f, NEW S, Whole(f, S), NEW X \in SUBSET S
  PROVE  /\ Whole(f, X) /\ SumOn(f, X) \in Int
         /\ \A x : Whole(f, X \ {x}) /\ SumOn(f, X \ {x}) \in Int
<1>1. Whole(f, X) /\ \A x : Whole(f, X \ {x})
  BY FS_Subset DEF Whole
<1> QED BY <1>1, SumInt

\* The order of the terms does not matter.
LEMMA SumTake ==
  ASSUME NEW f, NEW S, Whole(f, S), NEW x \in S
  PROVE  SumOn(f, S) = f[x] + SumOn(f, S \ {x})
<1> DEFINE good == {X \in SUBSET S : \A y \in X : SumOn(f, X) = f[y] + SumOn(f, X \ {y})}
<1>1. ASSUME NEW X \in SUBSET S, \A y \in X : X \ {y} \in good
      PROVE  X \in good
  <2> SUFFICES ASSUME NEW y \in X PROVE SumOn(f, X) = f[y] + SumOn(f, X \ {y})
    OBVIOUS
  <2> DEFINE p == Pick(X)
  <2>1. p \in X /\ IsFiniteSet(X)
    BY Picked, WholePart DEF Whole
  <2>2. SumOn(f, X) = f[p] + SumOn(f, X \ {p})
    BY <2>1, SumRule
  <2> HIDE DEF p
  <2>3. CASE y = p
    BY <2>2, <2>3
  <2>4. CASE y # p
    <3>1. X \ {p} \in good /\ X \ {y} \in good /\ y \in X \ {p} /\ p \in X \ {y}
      BY <1>1, <2>1, <2>4
    <3>2. /\ SumOn(f, X \ {p}) = f[y] + SumOn(f, (X \ {p}) \ {y})
          /\ SumOn(f, X \ {y}) = f[p] + SumOn(f, (X \ {y}) \ {p})
      BY <3>1
    <3>3. SumOn(f, (X \ {p}) \ {y}) = SumOn(f, (X \ {y}) \ {p})
      <4>1. (X \ {p}) \ {y} = (X \ {y}) \ {p}
        OBVIOUS
      <4> QED BY <4>1
    <3>4. f[y] \in Int /\ f[p] \in Int /\ SumOn(f, (X \ {p}) \ {y}) \in Int
      <4>1. X \ {p} \in SUBSET S
        OBVIOUS
      <4> QED BY <2>1, <4>1, WholePart DEF Whole
    <3> DEFINE rest == SumOn(f, (X \ {p}) \ {y})
    <3>5. /\ SumOn(f, X) = f[p] + (f[y] + rest) /\ SumOn(f, X \ {y}) = f[p] + rest
          /\ f[y] \in Int /\ f[p] \in Int /\ rest \in Int
      BY <2>2, <3>2, <3>3, <3>4
    <3> HIDE DEF good, rest
    <3> QED BY <3>5
  <2> QED BY <2>3, <2>4
<1>2. Inductive(S, good)
  BY <1>1 DEF Inductive
<1>3. S \in good
  <2> HIDE DEF good
  <2> QED BY <1>2, SetInduction DEF Whole
<1> QED BY <1>3

LEMMA SumPlus ==
  ASSUME NEW f, NEW g, NEW h, NEW S, Whole(g, S), Whole(h, S),
         \A x \in S : f[x] = g[x] + h[x]
  PROVE  SumOn(f, S) = SumOn(g, S) + SumOn(h, S)
<1> DEFINE good == {X \in SUBSET S : SumOn(f, X) = SumOn(g, X) + SumOn(h, X)}
<1>1. ASSUME NEW X \in SUBSET S, \A x \in X : X \ {x} \in good
      PROVE  X \in good
  <2>1. IsFiniteSet(X)
    BY WholePart DEF Whole
  <2>2. CASE X = {}
    <3>1. SumOn(f, X) = 0 /\ SumOn(g, X) = 0 /\ SumOn(h, X) = 0
      BY <2>1, <2>2, SumRule
    <3> QED BY <3>1
  <2>3. CASE X # {}
    <3> DEFINE p == Pick(X)
    <3>1. p \in X /\ p \in S
      BY <2>3, Picked
    <3>2. /\ SumOn(f, X) = f[p] + SumOn(f, X \ {p}) /\ SumOn(g, X) = g[p] + SumOn(g, X \ {p})
          /\ SumOn(h, X) = h[p] + SumOn(h, X \ {p})
      BY <2>1, <2>3, SumRule
    <3> HIDE DEF p
    <3>3. /\ SumOn(f, X \ {p}) = SumOn(g, X \ {p}) + SumOn(h, X \ {p})
          /\ f[p] = g[p] + h[p] /\ g[p] \in Int /\ h[p] \in Int
      BY <1>1, <3>1 DEF Whole
    <3>4. SumOn(g, X \ {p}) \in Int /\ SumOn(h, X \ {p}) \in Int
      BY WholePart
    <3>5. SumOn(f, X) = SumOn(g, X) + SumOn(h, X)
      <4> HIDE DEF good
      <4> QED BY <3>2, <3>3, <3>4
    <3> QED BY <3>5
  <2> QED BY <2>2, <2>3
<1>2. Inductive(S, good)
  BY <1>1 DEF Inductive
<1>3. S \in good
  <2> HIDE DEF good
  <2> QED BY <1>2, SetInduction DEF Whole
<1> QED BY <1>3

LEMMA SumMonotone ==
  ASSUME NEW f, NEW h, NEW S, Whole(f, S), Whole(h, S), \A x \in S : f[x] <= h[x]
  PROVE  SumOn(f, S) <= SumOn(h, S)
<1> DEFINE good == {X \in SUBSET S : SumOn(f, X) <= SumOn(h, X)}
<1>1. ASSUME NEW X \in SUBSET S, \A x \in X : X \ {x} \in good
      PROVE  X \in good
  <2>1. IsFiniteSet(X)
    BY WholePart DEF Whole
  <2>2. CASE X = {}
    <3>1. SumOn(f, X) = 0 /\ SumOn(h, X) = 0
      BY <2>1, <2>2, SumRule
    <3> QED BY <3>1
  <2>3. CASE X # {}
    <3> DEFINE p == Pick(X)
    <3>1. p \in X /\ p \in S
      BY <2>3, Picked
    <3>2. SumOn(f, X) = f[p] + SumOn(f, X \ {p}) /\ SumOn(h, X) = h[p] + SumOn(h, X \ {p})
      BY <2>1, <2>3, SumRule
    <3> HIDE DEF p
    <3>3. /\ SumOn(f, X \ {p}) <= SumOn(h, X \ {p})
          /\ f[p] <= h[p] /\ f[p] \in Int /\ h[p] \in Int
      BY <1>1, <3>1 DEF Whole
    <3>4. SumOn(f, X \ {p}) \in Int /\ SumOn(h, X \ {p}) \in Int
      BY WholePart
    <3>5. SumOn(f, X) <= SumOn(h, X)
      <4> HIDE DEF good
      <4> QED BY <3>2, <3>3, <3>4
    <3> QED BY <3>5
  <2> QED BY <2>2, <2>3
<1>2. Inductive(S, good)
  BY <1>1 DEF Inductive
<1>3. S \in good
  <2> HIDE DEF good
  <2> QED BY <1>2, SetInduction DEF Whole
<1> QED BY <1>3

LEMMA SumConstant ==
  ASSUME NEW f, NEW S, IsFiniteSet(S), NEW b \in Int, \A x \in S : f[x] = b
  PROVE  SumOn(f, S) = b * Cardinality(S)
<1> DEFINE good == {X \in SUBSET S : SumOn(f, X) = b * Cardinality(X)}
<1>1. ASSUME NEW X \in SUBSET S, \A x \in X : X \ {x} \in good
      PROVE  X \in good
  <2>1. IsFiniteSet(X)
    BY FS_Subset
  <2>2. CASE X = {}
    <3>1. SumOn(f, X) = 0 /\ Cardinality(X) = 0
      BY <2>1, <2>2, SumRule, FS_EmptySet
    <3> QED BY <3>1
  <2>3. CASE X # {}
    <3> DEFINE p == Pick(X)
    <3>1. p \in X /\ p \in S
      BY <2>3, Picked
    <3>2. SumOn(f, X) = f[p] + SumOn(f, X \ {p})
      BY <2>1, <2>3, SumRule
    <3> HIDE DEF p
    <3>3. SumOn(f, X \ {p}) = b * Cardinality(X \ {p}) /\ f[p] = b
      BY <1>1, <3>1
    <3>4. Cardinality(X \ {p}) = Cardinality(X) - 1 /\ Cardinality(X) \in Nat
      BY <2>1, <3>1, FS_RemoveElement, FS_CardinalityType
    <3>5. b * (Cardinality(X) - 1) = b * Cardinality(X) - b /\ b * Cardinality(X) \in Int
      BY <3>4
    <3>6. SumOn(f, X) = b * Cardinality(X)
      <4> HIDE DEF good
      <4> QED BY <3>2, <3>3, <3>4, <3>5
    <3> QED BY <3>6
  <2> QED BY <2>2, <2>3
<1>2. Inductive(S, good)
  BY <1>1 DEF Inductive
<1>3. S \in good
  <2> HIDE DEF good
  <2> QED BY <1>2, SetInduction
<1> QED BY <1>3

LEMMA SumSplit ==
  ASSUME NEW f, NEW A, NEW B, Whole(f, A), Whole(f, B), A \cap B = {}
  PROVE  SumOn(f, A \cup B) = SumOn(f, A) + SumOn(f, B)
<1> DEFINE good == {X \in SUBSET A : SumOn(f, X \cup B) = SumOn(f, X) + SumOn(f, B)}
<1>1. ASSUME NEW X \in SUBSET A, \A x \in X : X \ {x} \in good
      PROVE  X \in good
  <2>1. IsFiniteSet(X) /\ SumOn(f, B) \in Int
    BY WholePart, SumInt DEF Whole
  <2>2. CASE X = {}
    <3>1. SumOn(f, X) = 0 /\ SumOn(f, X \cup B) = SumOn(f, B)
      <4>1. X \cup B = B
        BY <2>2
      <4> QED BY <2>1, <2>2, <4>1, SumRule
    <3>2. SumOn(f, X \cup B) = SumOn(f, X) + SumOn(f, B)
      <4> HIDE DEF good
      <4> QED BY <2>1, <3>1
    <3> QED BY <3>2
  <2>3. CASE X # {}
    <3> DEFINE p == Pick(X)
    <3>1. p \in X /\ p \in A /\ p \notin B
      BY <2>3, Picked
    <3>2. SumOn(f, X) = f[p] + SumOn(f, X \ {p})
      BY <2>1, <2>3, SumRule
    <3> HIDE DEF p
    <3>3. Whole(f, X \cup B)
      <4>1. IsFiniteSet(X \cup B)
        BY <2>1, FS_Union DEF Whole
      <4> QED BY <4>1 DEF Whole
    <3>4. SumOn(f, X \cup B) = f[p] + SumOn(f, (X \cup B) \ {p})
      <4>1. p \in X \cup B
        BY <3>1
      <4> QED BY <3>3, <4>1, SumTake
    <3>5. (X \cup B) \ {p} = (X \ {p}) \cup B
      BY <3>1
    <3>6. SumOn(f, (X \ {p}) \cup B) = SumOn(f, X \ {p}) + SumOn(f, B)
      BY <1>1, <3>1
    <3>7. SumOn(f, X \ {p}) \in Int /\ f[p] \in Int
      BY <3>1, WholePart DEF Whole
    <3>8. SumOn(f, X \cup B) = f[p] + (SumOn(f, X \ {p}) + SumOn(f, B))
      BY <3>4, <3>5, <3>6
    <3>9. SumOn(f, X \cup B) = SumOn(f, X) + SumOn(f, B)
      <4> HIDE DEF good
      <4> QED BY <2>1, <3>2, <3>7, <3>8
    <3> QED BY <3>9
  <2> QED BY <2>2, <2>3
<1>2. Inductive(A, good)
  BY <1>1 DEF Inductive
<1>3. A \in good
  <2> HIDE DEF good
  <2> QED BY <1>2, SetInduction DEF Whole
<1> QED BY <1>3

\* A sum over other names for the same terms.
LEMMA SumRenamed ==
  ASSUME NEW f, NEW h, NEW A, NEW b, IsFiniteSet(A),
         \A x, y \in A : b[x] = b[y] => x = y,
         \A x \in A : h[x] = f[b[x]] /\ h[x] \in Int
  PROVE  SumOn(h, A) = SumOn(f, {b[x] : x \in A})
<1> DEFINE Image(X) == {b[x] : x \in X}
           good == {X \in SUBSET A : IsFiniteSet(Image(X)) /\ SumOn(h, X) = SumOn(f, Image(X))}
<1>1. ASSUME NEW X \in SUBSET A, \A x \in X : X \ {x} \in good
      PROVE  X \in good
  <2>1. IsFiniteSet(X)
    BY FS_Subset
  <2>2. CASE X = {}
    <3>1. Image(X) = {}
      BY <2>2
    <3>2. IsFiniteSet({}) /\ SumOn(h, {}) = 0 /\ SumOn(f, {}) = 0
      BY FS_EmptySet, SumRule
    <3> QED BY <2>2, <3>1, <3>2
  <2>3. CASE X # {}
    <3> DEFINE p == Pick(X)
    <3>1. p \in X /\ p \in A
      BY <2>3, Picked
    <3>2. SumOn(h, X) = h[p] + SumOn(h, X \ {p})
      BY <2>1, <2>3, SumRule
    <3> HIDE DEF p
    <3>3. Image(X) = Image(X \ {p}) \cup {b[p]} /\ b[p] \notin Image(X \ {p})
      BY <3>1
    <3>4. IsFiniteSet(Image(X \ {p})) /\ SumOn(h, X \ {p}) = SumOn(f, Image(X \ {p}))
      BY <1>1, <3>1
    <3> HIDE DEF Image
    <3>5. IsFiniteSet(Image(X))
      <4>1. IsFiniteSet(Image(X \ {p}) \cup {b[p]})
        BY <3>4, FS_AddElement
      <4> QED BY <3>3, <4>1
    <3>6. Image(X) \ {b[p]} = Image(X \ {p}) /\ b[p] \in Image(X)
      BY <3>3
    <3>7. Whole(f, Image(X))
      BY <3>5 DEF Whole, Image
    <3>8. SumOn(f, Image(X)) = f[b[p]] + SumOn(f, Image(X) \ {b[p]})
      BY <3>6, <3>7, SumTake
    <3>9. SumOn(h, X) = SumOn(f, Image(X))
      <4>1. h[p] = f[b[p]]
        BY <3>1
      <4> HIDE DEF good
      <4> QED BY <3>2, <3>4, <3>6, <3>8, <4>1
    <3> QED BY <3>5, <3>9
  <2> QED BY <2>2, <2>3
<1>2. Inductive(A, good)
  BY <1>1 DEF Inductive
<1>3. A \in good
  <2> HIDE DEF good
  <2> QED BY <1>2, SetInduction
<1> QED BY <1>3

\* A part of some terms that are not negative adds up to no more than all.
LEMMA SumPart ==
  ASSUME NEW f, NEW S, Whole(f, S), \A x \in S : f[x] >= 0, NEW X \in SUBSET S
  PROVE  0 <= SumOn(f, X) /\ SumOn(f, X) <= SumOn(f, S)
<1> DEFINE none == [x \in S |-> 0]
<1>1. \A Y \in SUBSET S : 0 <= SumOn(f, Y)
  <2> SUFFICES ASSUME NEW Y \in SUBSET S PROVE 0 <= SumOn(f, Y)
    OBVIOUS
  <2>1. Whole(f, Y) /\ IsFiniteSet(Y)
    BY WholePart DEF Whole
  <2>2. SumOn(none, Y) = 0 * Cardinality(Y)
    BY <2>1, SumConstant
  <2>3. Cardinality(Y) \in Nat
    BY <2>1, FS_CardinalityType
  <2>4. Whole(none, Y) /\ \A x \in Y : none[x] <= f[x]
    BY <2>1 DEF Whole
  <2> HIDE DEF none
  <2>5. SumOn(none, Y) <= SumOn(f, Y)
    BY <2>1, <2>4, SumMonotone
  <2> QED BY <2>2, <2>3, <2>5
<1>2. SumOn(f, S) = SumOn(f, S \ X) + SumOn(f, X)
  <2>1. S = (S \ X) \cup X /\ (S \ X) \cap X = {} /\ S \ X \in SUBSET S
    OBVIOUS
  <2>2. Whole(f, X) /\ Whole(f, S \ X)
    BY <2>1, WholePart
  <2>3. SumOn(f, (S \ X) \cup X) = SumOn(f, S \ X) + SumOn(f, X)
    BY <2>1, <2>2, SumSplit
  <2> QED BY <2>1, <2>3
<1>3. 0 <= SumOn(f, S \ X) /\ 0 <= SumOn(f, X)
  BY <1>1
<1>4. SumOn(f, S \ X) \in Int /\ SumOn(f, X) \in Int
  <2>1. S \ X \in SUBSET S
    OBVIOUS
  <2> QED BY <2>1, WholePart
<1> QED BY <1>2, <1>3, <1>4

-----------------------------------------------------------------------------
(***************************************************************************)
(***************************************************************************)
(* Growth lasts.  The readings of a cycle are shares of the demand, and    *)
(* add up to all of it unless a Connector is new or some were removed      *)
(* since.  The windows of the fleet hold the readings of Depth cycles, so  *)
(* what they hold together, their pool, is a multiple of the demand but    *)
(* for the one cycle after a scale-up; and the demand that made the fleet  *)
(* grow is more than lets the grown fleet shrink, that cycle left out.     *)
(***************************************************************************)
Depth == Window + 1

\* What a window may hold.
Leveled(buffer) ==
  /\ buffer \in [Slot -> Seq(Level)]
  /\ \A c \in Slot : Len(buffer[c]) <= Depth

\* What a sample adds to a sum.
Value(sample) == IF sample = NoReading THEN 0 ELSE sample

\* The reading of a Connector a - 1 cycles ago, and those of several.
Age(buffer, c, a) ==
  IF Len(buffer[c]) >= a THEN Value(buffer[c][Len(buffer[c]) - a + 1]) ELSE 0
Slice(buffer, X, a) == SumOn([c \in Slot |-> Age(buffer, c, a)], X)

\* What a window of one Connector, and of several, adds up to.
Ages(buffer, c) == [a \in 1 .. Depth |-> Age(buffer, c, a)]
Held(buffer, c) == SumOn(Ages(buffer, c), 1 .. Depth)
Pool(buffer, X) == SumOn([c \in Slot |-> Held(buffer, c)], X)

LEMMA Constants ==
  /\ IsFiniteSet(Slot) /\ Depth \in Nat /\ Depth > 1 /\ Window \in Nat \ {0} /\ Depth = Window + 1
  /\ Top \in Nat /\ High \in Nat /\ Low \in Nat /\ Low < High /\ High <= Top
  /\ IsFiniteSet(1 .. Depth) /\ Cardinality(1 .. Depth) = Depth
<1>1. Depth \in Nat /\ Depth > 1
  BY PolicyAssumption DEF Depth
<1>2. IsFiniteSet(1 .. Depth) /\ Cardinality(1 .. Depth) = Depth
  BY <1>1, FS_Interval
<1> QED BY <1>1, <1>2, PolicyAssumption, ModelAssumption DEF Depth

LEMMA ValueLevel ==
  ASSUME NEW sample \in Level
  PROVE  Value(sample) \in 0 .. Top
BY Constants DEF Value, Level, NoReading

LEMMA LeveledSeq ==
  ASSUME NEW buffer, Leveled(buffer), NEW c \in Slot
  PROVE  /\ buffer[c] \in Seq(Level) /\ DOMAIN buffer[c] = 1 .. Len(buffer[c])
         /\ Len(buffer[c]) \in 0 .. Depth
         /\ \A i \in 1 .. Len(buffer[c]) : buffer[c][i] \in Level
<1>1. buffer[c] \in Seq(Level) /\ Len(buffer[c]) <= Depth
  BY DEF Leveled
<1>2. Len(buffer[c]) \in Nat /\ DOMAIN buffer[c] = 1 .. Len(buffer[c])
  BY <1>1
<1>3. \A i \in 1 .. Len(buffer[c]) : buffer[c][i] \in Level
  BY <1>1, ElementOfSeq
<1> QED BY <1>1, <1>2, <1>3, Constants

LEMMA AgeLevel ==
  ASSUME NEW buffer, Leveled(buffer), NEW c \in Slot, NEW a \in 1 .. Depth
  PROVE  Age(buffer, c, a) \in 0 .. Top
<1>1. Len(buffer[c]) \in Nat /\ Top \in Nat /\ Depth \in Nat
  BY LeveledSeq, Constants
<1>2. CASE Len(buffer[c]) >= a
  <2>1. Len(buffer[c]) - a + 1 \in 1 .. Len(buffer[c])
    BY <1>1, <1>2
  <2>2. Value(buffer[c][Len(buffer[c]) - a + 1]) \in 0 .. Top
    BY <2>1, LeveledSeq, ValueLevel
  <2> QED BY <1>2, <2>2 DEF Age
<1>3. CASE ~(Len(buffer[c]) >= a)
  BY <1>1, <1>3 DEF Age
<1> QED BY <1>2, <1>3

LEMMA WindowWhole ==
  ASSUME NEW buffer, Leveled(buffer), NEW c \in Slot
  PROVE  /\ Whole(Ages(buffer, c), 1 .. Depth)
         /\ \A a \in 1 .. Depth : Ages(buffer, c)[a] = Age(buffer, c, a)
                                  /\ Age(buffer, c, a) \in 0 .. Top
         /\ Held(buffer, c) \in Int /\ Held(buffer, c) >= 0
<1>1. \A a \in 1 .. Depth : Ages(buffer, c)[a] = Age(buffer, c, a) /\ Age(buffer, c, a) \in 0 .. Top
  BY AgeLevel DEF Ages
<1>2. \A a \in 1 .. Depth : Ages(buffer, c)[a] \in Int /\ Ages(buffer, c)[a] >= 0
  BY <1>1, Constants
<1>3. Whole(Ages(buffer, c), 1 .. Depth)
  BY <1>2, Constants DEF Whole
<1>4. SumOn(Ages(buffer, c), 1 .. Depth) \in Int /\ 0 <= SumOn(Ages(buffer, c), 1 .. Depth)
  <2>1. 1 .. Depth \in SUBSET (1 .. Depth)
    OBVIOUS
  <2> QED BY <1>2, <1>3, <2>1, SumInt, SumPart
<1> QED BY <1>1, <1>3, <1>4 DEF Held

LEMMA PoolWhole ==
  ASSUME NEW buffer, Leveled(buffer), NEW X \in SUBSET Slot
  PROVE  /\ Whole([c \in Slot |-> Held(buffer, c)], X)
         /\ \A c \in X : [d \in Slot |-> Held(buffer, d)][c] = Held(buffer, c) /\ Held(buffer, c) >= 0
         /\ Pool(buffer, X) \in Int
<1>1. IsFiniteSet(X)
  BY Constants, FS_Subset
<1>2. \A c \in X : Held(buffer, c) \in Int /\ Held(buffer, c) >= 0
  BY WindowWhole
<1>3. Whole([c \in Slot |-> Held(buffer, c)], X)
  BY <1>1, <1>2 DEF Whole
<1> QED BY <1>2, <1>3, SumInt DEF Pool

LEMMA SliceWhole ==
  ASSUME NEW buffer, Leveled(buffer), NEW X \in SUBSET Slot, NEW a \in 1 .. Depth
  PROVE  /\ Whole([c \in Slot |-> Age(buffer, c, a)], X)
         /\ \A c \in X : [d \in Slot |-> Age(buffer, d, a)][c] = Age(buffer, c, a)
                         /\ Age(buffer, c, a) \in 0 .. Top
         /\ Slice(buffer, X, a) \in Int /\ Slice(buffer, X, a) >= 0
<1>1. IsFiniteSet(X)
  BY Constants, FS_Subset
<1>2. \A c \in X : Age(buffer, c, a) \in 0 .. Top
  BY AgeLevel
<1> DEFINE f == [c \in Slot |-> Age(buffer, c, a)]
<1>3. Whole(f, X) /\ \A c \in X : f[c] >= 0
  BY <1>1, <1>2, Constants DEF Whole
<1>4. SumOn(f, X) \in Int /\ 0 <= SumOn(f, X)
  <2> HIDE DEF f
  <2>1. X \in SUBSET X
    OBVIOUS
  <2> QED BY <1>3, <2>1, SumInt, SumPart
<1> QED BY <1>2, <1>3, <1>4 DEF Slice

\* The pool of some Connectors, added up cycle by cycle.
LEMMA PoolSliced ==
  ASSUME NEW buffer, Leveled(buffer), NEW X \in SUBSET Slot
  PROVE  Pool(buffer, X) = SumOn([a \in 1 .. Depth |-> Slice(buffer, X, a)], 1 .. Depth)
<1> DEFINE f == [c \in Slot |-> Held(buffer, c)]
           S(Y) == [a \in 1 .. Depth |-> Slice(buffer, Y, a)]
           good == {Y \in SUBSET X : SumOn(f, Y) = SumOn(S(Y), 1 .. Depth)}
<1>1. ASSUME NEW Y \in SUBSET X, \A c \in Y : Y \ {c} \in good
      PROVE  Y \in good
  <2>1. Y \in SUBSET Slot /\ IsFiniteSet(Y)
    BY Constants, FS_Subset
  <2>2. CASE Y = {}
    <3>1. SumOn(f, Y) = 0
      BY <2>1, <2>2, SumRule
    <3>2. \A a \in 1 .. Depth : S(Y)[a] = 0
      <4>1. \A a \in 1 .. Depth : Slice(buffer, Y, a) = 0
        BY <2>1, <2>2, SumRule DEF Slice
      <4> QED BY <4>1
    <3>3. SumOn(S(Y), 1 .. Depth) = 0 * Depth
      <4> HIDE DEF S
      <4> QED BY <3>2, SumConstant, Constants
    <3> QED BY <3>1, <3>3, Constants
  <2>3. CASE Y # {}
    <3> DEFINE p == Pick(Y)
    <3>1. p \in Y /\ p \in Slot /\ Y \ {p} \in SUBSET Slot
      BY <2>1, <2>3, Picked
    <3>2. SumOn(f, Y) = f[p] + SumOn(f, Y \ {p})
      BY <2>1, <2>3, SumRule
    <3> HIDE DEF p
    <3>3. \A a \in 1 .. Depth : S(Y)[a] = Ages(buffer, p)[a] + S(Y \ {p})[a]
      <4> SUFFICES ASSUME NEW a \in 1 .. Depth
                   PROVE  Slice(buffer, Y, a) = Age(buffer, p, a) + Slice(buffer, Y \ {p}, a)
        BY <3>1, WindowWhole
      <4> DEFINE g == [c \in Slot |-> Age(buffer, c, a)]
      <4>1. Whole(g, Y) /\ g[p] = Age(buffer, p, a)
        BY <2>1, <3>1, SliceWhole
      <4>2. Slice(buffer, Y, a) = SumOn(g, Y) /\ Slice(buffer, Y \ {p}, a) = SumOn(g, Y \ {p})
        BY DEF Slice
      <4> HIDE DEF g
      <4> QED BY <3>1, <4>1, <4>2, SumTake
    <3>4. Whole(S(Y \ {p}), 1 .. Depth) /\ Whole(Ages(buffer, p), 1 .. Depth)
      <4>1. \A a \in 1 .. Depth : Slice(buffer, Y \ {p}, a) \in Int
        BY <3>1, SliceWhole
      <4> QED BY <3>1, <4>1, WindowWhole, Constants DEF Whole
    <3>5. SumOn(S(Y), 1 .. Depth) = SumOn(Ages(buffer, p), 1 .. Depth) + SumOn(S(Y \ {p}), 1 .. Depth)
      <4> DEFINE all == 1 .. Depth
                 sum == S(Y)
                 one == Ages(buffer, p)
                 rest == S(Y \ {p})
      <4>1. Whole(one, all) /\ Whole(rest, all) /\ \A a \in all : sum[a] = one[a] + rest[a]
        BY <3>3, <3>4
      <4> HIDE DEF all, sum, one, rest
      <4>2. SumOn(sum, all) = SumOn(one, all) + SumOn(rest, all)
        BY <4>1, SumPlus
      <4> QED BY <4>2 DEF all, sum, one, rest
    <3>6. f[p] = SumOn(Ages(buffer, p), 1 .. Depth)
      BY <3>1 DEF Held
    <3>7. SumOn(f, Y \ {p}) = SumOn(S(Y \ {p}), 1 .. Depth)
      BY <1>1, <3>1
    <3>8. SumOn(f, Y) = SumOn(S(Y), 1 .. Depth)
      <4> HIDE DEF f, S
      <4> QED BY <3>2, <3>5, <3>6, <3>7
    <3> QED BY <3>8
  <2> QED BY <2>2, <2>3
<1>2. Inductive(X, good)
  BY <1>1 DEF Inductive
<1>3. IsFiniteSet(X)
  BY Constants, FS_Subset
<1>4. X \in good
  <2> HIDE DEF good
  <2> QED BY <1>2, <1>3, SetInduction
<1> QED BY <1>4 DEF Pool

-----------------------------------------------------------------------------
\* reduce_values, which pools the samples of several windows, adds up their sums.
Readings(buffer) == [at \in Carrying(buffer, Slot) |-> buffer[at[1]][at[2]]]

LEMMA PlacesPart ==
  ASSUME NEW buffer, Leveled(buffer), NEW X \in SUBSET Slot
  PROVE  /\ Carrying(buffer, X) \subseteq X \X (1 .. Depth)
         /\ Carrying(buffer, X) \subseteq Carrying(buffer, Slot)
         /\ \A at \in Carrying(buffer, X) :
              /\ at = <<at[1], at[2]>> /\ at[1] \in X /\ at[2] \in DOMAIN buffer[at[1]]
              /\ Readings(buffer)[at] = buffer[at[1]][at[2]]
              /\ Readings(buffer)[at] \in 0 .. Top
         /\ Whole(Readings(buffer), Carrying(buffer, X))
         /\ Cardinality(Carrying(buffer, X)) \in Nat
         /\ Cardinality(Carrying(buffer, X)) <= Cardinality(X) * Depth
         /\ Cardinality(X) \in Nat
<1>1. \A at \in Carrying(buffer, X) :
        /\ at = <<at[1], at[2]>> /\ at[1] \in X /\ at[2] \in DOMAIN buffer[at[1]]
        /\ buffer[at[1]][at[2]] # NoReading
  BY DEF Carrying
<1>2. \A c \in X : DOMAIN buffer[c] \subseteq 1 .. Depth
  BY LeveledSeq, Constants
<1>3. Carrying(buffer, X) \subseteq X \X (1 .. Depth)
  BY <1>1, <1>2
<1>4. Carrying(buffer, X) \subseteq Carrying(buffer, Slot)
  BY DEF Carrying
<1>5. \A at \in Carrying(buffer, X) : Readings(buffer)[at] = buffer[at[1]][at[2]]
  BY <1>4 DEF Readings
<1>6. \A at \in Carrying(buffer, X) : Readings(buffer)[at] \in 0 .. Top
  <2>1. \A at \in Carrying(buffer, X) : buffer[at[1]][at[2]] \in Level
    BY <1>1, LeveledSeq
  <2> QED BY <1>1, <1>5, <2>1 DEF Level
<1>7. /\ IsFiniteSet(X) /\ Cardinality(X) \in Nat
      /\ IsFiniteSet(X \X (1 .. Depth)) /\ Cardinality(X \X (1 .. Depth)) = Cardinality(X) * Depth
  <2>1. IsFiniteSet(X) /\ Cardinality(X) \in Nat
    BY Constants, FS_Subset, FS_CardinalityType
  <2> QED BY <2>1, Constants, FS_Product
<1>8. /\ IsFiniteSet(Carrying(buffer, X)) /\ Cardinality(Carrying(buffer, X)) \in Nat
      /\ Cardinality(Carrying(buffer, X)) <= Cardinality(X) * Depth
  BY <1>3, <1>7, FS_Subset, FS_CardinalityType
<1>9. Whole(Readings(buffer), Carrying(buffer, X))
  BY <1>6, <1>8, Constants DEF Whole
<1> QED BY <1>1, <1>3, <1>4, <1>5, <1>6, <1>7, <1>8, <1>9

\* A window as long as it can be, with a reading in each place.
Full(buffer, c) ==
  Len(buffer[c]) = Depth /\ \A i \in 1 .. Depth : buffer[c][i] # NoReading

LEMMA PlacesFull ==
  ASSUME NEW buffer, Leveled(buffer), NEW X \in SUBSET Slot, \A c \in X : Full(buffer, c)
  PROVE  Cardinality(Carrying(buffer, X)) = Cardinality(X) * Depth
<1>1. \A c \in X : DOMAIN buffer[c] = 1 .. Depth
  BY LeveledSeq DEF Full
<1>2. Carrying(buffer, X) = X \X (1 .. Depth)
  <2>1. UNION {{c} \X DOMAIN buffer[c] : c \in X} = UNION {{c} \X (1 .. Depth) : c \in X}
    BY <1>1
  <2>2. \A at \in X \X (1 .. Depth) : buffer[at[1]][at[2]] # NoReading
    BY DEF Full
  <2>3. UNION {{c} \X (1 .. Depth) : c \in X} = X \X (1 .. Depth)
    OBVIOUS
  <2> QED BY <2>1, <2>2, <2>3 DEF Carrying
<1>3. IsFiniteSet(X)
  BY Constants, FS_Subset
<1> QED BY <1>2, <1>3, Constants, FS_Product

\* The readings in the window of one Connector.
LEMMA HeldIsPooled ==
  ASSUME NEW buffer, Leveled(buffer), NEW c \in Slot
  PROVE  SumOn(Readings(buffer), Carrying(buffer, {c})) = Held(buffer, c)
<1> DEFINE n == Len(buffer[c])
           A == {a \in 1 .. Depth : a <= n /\ buffer[c][n - a + 1] # NoReading}
           h == Ages(buffer, c)
           b == [a \in A |-> <<c, n - a + 1>>]
<1>1. n \in 0 .. Depth /\ DOMAIN buffer[c] = 1 .. n /\ \A i \in 1 .. n : buffer[c][i] \in Level
  BY LeveledSeq
<1>2. Whole(h, 1 .. Depth) /\ \A a \in 1 .. Depth : h[a] = Age(buffer, c, a) /\ h[a] \in Int
  BY WindowWhole, Constants
<1>3. {c} \in SUBSET Slot
  OBVIOUS
<1>4. \A a \in A : b[a] = <<c, n - a + 1>> /\ n - a + 1 \in 1 .. n /\ a \in Int
  <2> SUFFICES ASSUME NEW a \in A PROVE n - a + 1 \in 1 .. n /\ a \in Int
    OBVIOUS
  <2>1. a \in 1 .. Depth /\ a <= n /\ n \in 0 .. Depth /\ Depth \in Nat
    BY <1>1, Constants
  <2> HIDE DEF A, n
  <2> QED BY <2>1
<1>5. {b[a] : a \in A} = Carrying(buffer, {c})
  <2>1. \A a \in A : b[a] \in Carrying(buffer, {c})
    BY <1>1, <1>4 DEF Carrying
  <2>2. ASSUME NEW at \in Carrying(buffer, {c})
        PROVE  \E a \in A : b[a] = at
    <3>1. at = <<c, at[2]>> /\ at[2] \in 1 .. n /\ buffer[c][at[2]] # NoReading
      BY <1>1 DEF Carrying
    <3>2. n - at[2] + 1 \in 1 .. Depth /\ n - at[2] + 1 <= n /\ n - (n - at[2] + 1) + 1 = at[2]
      <4> DEFINE i == at[2]
      <4>1. n \in 0 .. Depth /\ i \in 1 .. n /\ Depth \in Nat
        BY <1>1, <3>1, Constants
      <4> HIDE DEF i, n
      <4> QED BY <4>1 DEF i
    <3>3. n - at[2] + 1 \in A
      BY <3>1, <3>2
    <3>4. b[n - at[2] + 1] = at
      BY <3>1, <3>2, <3>3
    <3> QED BY <3>3, <3>4
  <2> HIDE DEF b, A
  <2> QED BY <2>1, <2>2
<1>6. \A x, y \in A : b[x] = b[y] => x = y
  BY <1>1, <1>4
<1>7. \A a \in A : h[a] = Readings(buffer)[b[a]] /\ h[a] \in Int
  <2> SUFFICES ASSUME NEW a \in A PROVE h[a] = Readings(buffer)[b[a]]
    BY <1>2
  <2>1. h[a] = buffer[c][n - a + 1]
    BY <1>1, <1>2 DEF Age, Value
  <2>2. b[a] \in Carrying(buffer, {c})
    BY <1>5
  <2>3. Readings(buffer)[b[a]] = buffer[b[a][1]][b[a][2]]
    BY <1>3, <2>2, PlacesPart
  <2> QED BY <1>4, <2>1, <2>3
<1>8. \A a \in (1 .. Depth) \ A : h[a] = 0
  <2> SUFFICES ASSUME NEW a \in (1 .. Depth) \ A PROVE Age(buffer, c, a) = 0
    BY <1>2
  <2> QED BY <1>1, Constants DEF Age, Value
<1>9. A \in SUBSET (1 .. Depth)
  OBVIOUS
<1> HIDE DEF A, b, h
<1>10. IsFiniteSet(A) /\ Whole(h, A) /\ IsFiniteSet((1 .. Depth) \ A) /\ Whole(h, (1 .. Depth) \ A)
  <2>1. Whole(h, A) /\ Whole(h, (1 .. Depth) \ A)
    BY <1>2, <1>9, WholePart
  <2> QED BY <2>1 DEF Whole
<1>11. SumOn(h, A) = SumOn(Readings(buffer), Carrying(buffer, {c}))
  BY <1>5, <1>6, <1>7, <1>10, SumRenamed
<1>12. SumOn(h, (1 .. Depth) \ A) = 0
  <2>1. SumOn(h, (1 .. Depth) \ A) = 0 * Cardinality((1 .. Depth) \ A)
    BY <1>8, <1>10, SumConstant
  <2> QED BY <1>10, <2>1, FS_CardinalityType
<1>13. SumOn(h, 1 .. Depth) = SumOn(h, A) + SumOn(h, (1 .. Depth) \ A)
  <2> DEFINE others == (1 .. Depth) \ A
  <2>1. 1 .. Depth = A \cup others /\ A \cap others = {} /\ Whole(h, A) /\ Whole(h, others)
    BY <1>9, <1>10
  <2> HIDE DEF others
  <2>2. SumOn(h, A \cup others) = SumOn(h, A) + SumOn(h, others)
    BY <2>1, SumSplit
  <2> QED BY <2>1, <2>2 DEF others
<1>14. SumOn(h, A) \in Int
  BY <1>10, SumInt
<1> QED BY <1>11, <1>12, <1>13, <1>14 DEF Held, h

LEMMA PoolIsPooled ==
  ASSUME NEW buffer, Leveled(buffer), NEW X \in SUBSET Slot
  PROVE  SumOn(Readings(buffer), Carrying(buffer, X)) = Pool(buffer, X)
<1> DEFINE f == [c \in Slot |-> Held(buffer, c)]
           good == {Y \in SUBSET X : SumOn(Readings(buffer), Carrying(buffer, Y)) = SumOn(f, Y)}
<1>1. ASSUME NEW Y \in SUBSET X, \A c \in Y : Y \ {c} \in good
      PROVE  Y \in good
  <2>1. Y \in SUBSET Slot /\ IsFiniteSet(Y)
    BY Constants, FS_Subset
  <2>2. CASE Y = {}
    <3>1. Carrying(buffer, Y) = {} /\ IsFiniteSet({})
      BY <2>2, FS_EmptySet DEF Carrying
    <3>2. SumOn(f, Y) = 0 /\ SumOn(Readings(buffer), {}) = 0
      BY <2>1, <2>2, <3>1, SumRule
    <3> QED BY <3>1, <3>2
  <2>3. CASE Y # {}
    <3> DEFINE p == Pick(Y)
               mine == Carrying(buffer, {p})
               others == Carrying(buffer, Y \ {p})
    <3>1. p \in Y /\ p \in Slot
      BY <2>1, <2>3, Picked
    <3>2. SumOn(f, Y) = f[p] + SumOn(f, Y \ {p})
      BY <2>1, <2>3, SumRule
    <3> HIDE DEF p
    <3>3. Carrying(buffer, Y) = others \cup mine /\ others \cap mine = {}
      BY <3>1 DEF Carrying
    <3>4. {p} \in SUBSET Slot /\ Y \ {p} \in SUBSET Slot
      BY <2>1, <3>1
    <3>5. Whole(Readings(buffer), others) /\ Whole(Readings(buffer), mine)
      BY <3>4, PlacesPart
    <3>6. SumOn(Readings(buffer), others \cup mine)
            = SumOn(Readings(buffer), others) + SumOn(Readings(buffer), mine)
      <4> HIDE DEF others, mine
      <4> QED BY <3>3, <3>5, SumSplit
    <3>7. SumOn(Readings(buffer), mine) = Held(buffer, p)
      BY <3>1, HeldIsPooled
    <3>8. SumOn(Readings(buffer), others) = SumOn(f, Y \ {p})
      BY <1>1, <3>1
    <3>9. f[p] = Held(buffer, p) /\ Held(buffer, p) \in Int
      BY <3>1, WindowWhole
    <3>10. SumOn(f, Y \ {p}) \in Int
      BY <3>4, PoolWhole DEF Pool
    <3>11. SumOn(Readings(buffer), Carrying(buffer, Y))
             = SumOn(Readings(buffer), others) + SumOn(Readings(buffer), mine)
      BY <3>3, <3>6
    <3>12. SumOn(Readings(buffer), Carrying(buffer, Y)) = SumOn(f, Y)
      <4> HIDE DEF good, f, others, mine
      <4> QED BY <3>2, <3>7, <3>8, <3>9, <3>10, <3>11
    <3> QED BY <3>12
  <2> QED BY <2>2, <2>3
<1>2. Inductive(X, good)
  BY <1>1 DEF Inductive
<1>3. IsFiniteSet(X)
  BY Constants, FS_Subset
<1>4. X \in good
  <2> HIDE DEF good
  <2> QED BY <1>2, <1>3, SetInduction
<1> QED BY <1>4 DEF Pool

\* The sum Reduce takes is one of these.
AddsAt(g, buffer, S) ==
  g = [s \in SUBSET S |->
         IF s = {} THEN 0 ELSE buffer[Pick(s)[1]][Pick(s)[2]] + g[s \ {Pick(s)}]]

LEMMA PooledUnfolds ==
  ASSUME NEW buffer, NEW S
  PROVE  MapThenSumSet(LAMBDA at : buffer[at[1]][at[2]], S) = (CHOOSE g : AddsAt(g, buffer, S))[S]
BY Zenon DEF MapThenSumSet, MapThenFoldSet, AddsAt, Pick

LEMMA PooledSum ==
  ASSUME NEW buffer, Leveled(buffer), NEW X \in SUBSET Slot
  PROVE  MapThenSumSet(LAMBDA at : buffer[at[1]][at[2]], Carrying(buffer, X)) = Pool(buffer, X)
<1> DEFINE S == Carrying(buffer, X)
           f == Readings(buffer)
<1>1. IsFiniteSet(S) /\ \A at \in S : f[at] = buffer[at[1]][at[2]]
  BY PlacesPart DEF Whole
<1> HIDE DEF S, f
<1>2. ASSUME NEW g PROVE AddsAt(g, buffer, S) <=> Adds(g, f, S)
  <2>1. \A s \in SUBSET S : s # {} => f[Pick(s)] = buffer[Pick(s)[1]][Pick(s)[2]]
    <3>1. \A s \in SUBSET S : s # {} => Pick(s) \in S
      BY Picked
    <3> QED BY <1>1, <3>1
  <2>2. [s \in SUBSET S |-> IF s = {} THEN 0 ELSE f[Pick(s)] + g[s \ {Pick(s)}]]
          = [s \in SUBSET S |->
               IF s = {} THEN 0 ELSE buffer[Pick(s)[1]][Pick(s)[2]] + g[s \ {Pick(s)}]]
    BY <2>1
  <2> QED BY <2>2 DEF AddsAt, Adds
<1>3. PICK h : Adds(h, f, S)
  BY <1>1, AddsExist
<1> DEFINE k == CHOOSE g : AddsAt(g, buffer, S)
           l == CHOOSE g : Adds(g, f, S)
<1>4. Adds(k, f, S) /\ Adds(l, f, S)
  BY <1>2, <1>3
<1>5. k[S] = l[S]
  <2>1. S \subseteq S
    OBVIOUS
  <2> HIDE DEF k, l
  <2> QED BY <1>1, <1>4, <2>1, AddsAgree
<1>6. SumOn(f, S) = l[S]
  BY SumUnfolds
<1>7. MapThenSumSet(LAMBDA at : buffer[at[1]][at[2]], S) = k[S]
  BY PooledUnfolds
<1>8. SumOn(f, S) = Pool(buffer, X)
  BY PoolIsPooled DEF S, f
<1>9. MapThenSumSet(LAMBDA at : buffer[at[1]][at[2]], S) = Pool(buffer, X)
  <2> HIDE DEF k, l
  <2> QED BY <1>5, <1>6, <1>7, <1>8
<1> QED BY <1>9 DEF S

LEMMA ReduceAverage ==
  ASSUME NEW buffer, Leveled(buffer), NEW X \in SUBSET Slot, Agg = "avg"
  PROVE  \/ Carrying(buffer, X) = {} /\ Reduce(buffer, X) = Absent
         \/ /\ Carrying(buffer, X) # {}
            /\ Reduce(buffer, X) = [sum |-> Pool(buffer, X), n |-> Cardinality(Carrying(buffer, X))]
<1>1. CASE Carrying(buffer, X) = {}
  BY <1>1 DEF Reduce
<1>2. CASE Carrying(buffer, X) # {}
  <2>1. Reduce(buffer, X)
          = [sum |-> MapThenSumSet(LAMBDA at : buffer[at[1]][at[2]], Carrying(buffer, X)),
             n |-> Cardinality(Carrying(buffer, X))]
    BY <1>2, Zenon DEF Reduce
  <2> QED BY <1>2, <2>1, PooledSum
<1> QED BY <1>1, <1>2

-----------------------------------------------------------------------------
\* The readings of a cycle are shares of the demand: all of it, unless some
\* Connector is read for the first time.
LEMMA LoadCollected ==
  ASSUME FleetOK, ~MayMiss, NEW reading \in Collected
  PROVE  /\ reading \in [active -> Level]
         /\ \A c \in active : samples[c] # << >> => reading[c] # NoReading
         /\ SumOn([c \in active |-> Value(reading[c])], active) <= Lesser(demand, Top * Count)
         /\ (\A c \in active : samples[c] # << >>) =>
              SumOn([c \in active |-> Value(reading[c])], active) = Lesser(demand, Top * Count)
<1> DEFINE seen == [c \in active |-> Value(reading[c])]
<1>1. PICK s \in Spreads, failed \in (IF MayMiss THEN SUBSET active ELSE {{}}) :
        reading = [c \in active |-> IF c \in Unread \cup failed THEN NoReading ELSE s[c]]
  BY CollectedFrom
<1>2. s \in [active -> 0 .. Top] /\ IsFiniteSet(active) /\ Top \in Nat
  BY ActiveFinite, Constants DEF Spreads
<1>3. MapThenSumSet(LAMBDA c : s[c], active) = Lesser(demand, Top * Cardinality(active))
  BY Zenon DEF Spreads
<1>4. SumOn(s, active) = Lesser(demand, Top * Cardinality(active))
  BY <1>3, Zenon DEF SumOn
<1>5. failed = {}
  OBVIOUS
<1>6. \A c \in active : reading[c] = IF samples[c] = << >> THEN NoReading ELSE s[c]
  BY <1>1, <1>5 DEF Unread
<1>7. \A c \in active : samples[c] # << >> => reading[c] # NoReading
  BY <1>2, <1>6 DEF NoReading
<1>8. \A c \in active : seen[c] = IF samples[c] = << >> THEN 0 ELSE s[c]
  BY <1>2, <1>6 DEF Value, NoReading
<1>9. Whole(seen, active) /\ Whole(s, active) /\ \A c \in active : seen[c] <= s[c]
  BY <1>2, <1>8 DEF Whole
<1> HIDE DEF seen
<1>10. SumOn(seen, active) <= SumOn(s, active)
  BY <1>9, SumMonotone
<1>11. (\A c \in active : samples[c] # << >>) => SumOn(seen, active) = SumOn(s, active)
  BY <1>2, <1>8, SumSame
<1>12. reading \in [active -> Level]
  BY CollectedType
<1> QED BY <1>4, <1>7, <1>10, <1>11, <1>12 DEF seen, Count

LEMMA IngestTick ==
  ASSUME Leveled(samples), NEW reading \in [active -> Level], NEW c \in Slot, c \in active
  PROVE  /\ Ingest(reading)[c] \in Seq(Level)
         /\ Len(Ingest(reading)[c]) = Lesser(Len(samples[c]) + 1, Depth)
         /\ Ingest(reading)[c][Len(Ingest(reading)[c])] = reading[c]
         /\ \A i \in 1 .. Len(Ingest(reading)[c]) - 1 :
              Ingest(reading)[c][i]
                = IF Len(samples[c]) = Depth THEN samples[c][i + 1] ELSE samples[c][i]
<1> DEFINE old  == samples[c]
           kept == Append(old, reading[c])
           first == IF Len(kept) > Window + 1 THEN 2 ELSE 1
           new  == SubSeq(kept, first, Len(kept))
<1>1. Ingest(reading)[c] = new
  BY DEF Ingest
<1>2. old \in Seq(Level) /\ Len(old) \in 0 .. Depth /\ reading[c] \in Level
      /\ Depth = Window + 1 /\ Window \in Nat
  BY LeveledSeq, Constants DEF Depth
<1> HIDE DEF old
<1>3. /\ kept \in Seq(Level) /\ Len(kept) = Len(old) + 1
      /\ \A i \in 1 .. Len(old) : kept[i] = old[i]
      /\ kept[Len(old) + 1] = reading[c]
  BY <1>2, AppendProperties
<1> HIDE DEF kept
<1>4. first = (IF Len(old) = Depth THEN 2 ELSE 1)
  BY <1>2, <1>3
<1> HIDE DEF first
<1>5. first \in 1 .. Len(kept) + 1 /\ first \in 1 .. 2
  BY <1>2, <1>3, <1>4
<1>6. \A i \in first .. Len(kept) : kept[i] \in Level
  <2>1. \A i \in 1 .. Len(kept) : kept[i] \in Level
    BY <1>3, ElementOfSeq
  <2>2. \A i \in first .. Len(kept) : i \in 1 .. Len(kept)
    BY <1>2, <1>3, <1>5
  <2> QED BY <2>1, <2>2
<1>7. /\ new \in Seq(Level) /\ Len(new) = Len(kept) - first + 1
      /\ \A i \in 1 .. Len(kept) - first + 1 : new[i] = kept[first + i - 1]
  BY <1>2, <1>3, <1>5, <1>6, SubSeqProperties
<1> HIDE DEF new
<1>8. Len(new) = Lesser(Len(old) + 1, Depth) /\ Len(new) = Len(old) + 2 - first
  <2>1. Len(new) = Len(kept) - first + 1 /\ Len(kept) = Len(old) + 1
    BY <1>3, <1>7
  <2>2. Len(old) \in 0 .. Depth /\ Depth \in Nat /\ first \in 1 .. 2
    BY <1>2, <1>5, Constants
  <2>3. Len(new) = Len(old) + 2 - first
    BY <2>1, <2>2
  <2>4. CASE Len(old) = Depth
    BY <1>4, <2>2, <2>3, <2>4 DEF Lesser
  <2>5. CASE Len(old) # Depth
    <3>1. first = 1 /\ Len(new) = Len(old) + 1
      BY <1>4, <2>2, <2>3, <2>5
    <3>2. Len(old) + 1 <= Depth
      BY <2>2, <2>5
    <3> QED BY <3>1, <3>2 DEF Lesser
  <2> QED BY <2>4, <2>5
<1>9. new[Len(new)] = reading[c]
  <2>1. Len(new) \in 1 .. Len(kept) - first + 1 /\ first + Len(new) - 1 = Len(old) + 1
    <3>1. Len(new) = Len(kept) - first + 1 /\ Len(new) = Len(old) + 2 - first
      BY <1>7, <1>8
    <3>2. Len(old) \in Nat /\ first \in 1 .. 2 /\ (first = 2 => Len(old) > 0)
      BY <1>2, <1>4, <1>5, Constants
    <3> QED BY <3>1, <3>2
  <2> QED BY <1>3, <1>7, <2>1
<1>10. ASSUME NEW i \in 1 .. Len(new) - 1
       PROVE  new[i] = IF Len(old) = Depth THEN old[i + 1] ELSE old[i]
  <2>1. new[i] = kept[first + i - 1] /\ first + i - 1 \in 1 .. Len(old)
    <3>1. i \in 1 .. Len(kept) - first + 1 /\ first + i - 1 \in 1 .. Len(old)
      <4>1. Len(kept) - first + 1 = Len(new) /\ Len(old) \in Nat /\ Len(new) = Len(old) + 2 - first
        BY <1>2, <1>7, <1>8
      <4>2. i \in 1 .. Len(new) - 1 /\ first \in 1 .. 2
        BY <1>5
      <4> QED BY <4>1, <4>2
    <3> QED BY <1>7, <3>1
  <2>2. new[i] = old[first + i - 1]
    BY <1>3, <2>1
  <2>3. first + i - 1 = IF Len(old) = Depth THEN i + 1 ELSE i
    BY <1>4
  <2> QED BY <2>2, <2>3
<1> QED BY <1>1, <1>7, <1>8, <1>9, <1>10 DEF old

LEMMA IngestLeveled ==
  ASSUME Leveled(samples), NEW reading \in [active -> Level]
  PROVE  /\ Leveled(Ingest(reading))
         /\ \A c \in Slot \ active : Ingest(reading)[c] = << >>
<1>1. \A c \in Slot \ active : Ingest(reading)[c] = << >>
  BY DEF Ingest
<1>2. \A c \in Slot : Ingest(reading)[c] \in Seq(Level) /\ Len(Ingest(reading)[c]) <= Depth
  <2> SUFFICES ASSUME NEW c \in Slot
               PROVE  Ingest(reading)[c] \in Seq(Level) /\ Len(Ingest(reading)[c]) <= Depth
    OBVIOUS
  <2>1. CASE c \in active
    <3>1. Len(samples[c]) \in Nat /\ Depth \in Nat
      BY LeveledSeq, Constants
    <3>2. Lesser(Len(samples[c]) + 1, Depth) <= Depth
      BY <3>1 DEF Lesser
    <3> QED BY <2>1, <3>2, IngestTick
  <2>2. CASE c \notin active
    <3>1. Ingest(reading)[c] = << >>
      BY <1>1, <2>2
    <3> QED BY <3>1, EmptySeq, Constants
  <2> QED BY <2>1, <2>2
<1>3. DOMAIN Ingest(reading) = Slot /\ Ingest(reading) = [c \in Slot |-> Ingest(reading)[c]]
  BY DEF Ingest
<1> QED BY <1>1, <1>2, <1>3 DEF Leveled

LEMMA AgeTick ==
  ASSUME Leveled(samples), NEW reading \in [active -> Level], NEW c \in Slot, c \in active
  PROVE  /\ Age(Ingest(reading), c, 1) = Value(reading[c])
         /\ \A a \in 1 .. Depth - 1 : Age(Ingest(reading), c, a + 1) = Age(samples, c, a)
<1> DEFINE new == Ingest(reading)[c]
           old == samples[c]
<1>1. /\ Len(new) = Lesser(Len(old) + 1, Depth) /\ new[Len(new)] = reading[c]
      /\ \A i \in 1 .. Len(new) - 1 : new[i] = IF Len(old) = Depth THEN old[i + 1] ELSE old[i]
  BY IngestTick
<1>2. /\ Len(old) \in 0 .. Depth /\ Depth \in Nat /\ Depth > 1
      /\ Len(new) = Lesser(Len(old) + 1, Depth)
  BY <1>1, LeveledSeq, Constants
<1>3. Len(new) \in 1 .. Depth
  BY <1>2 DEF Lesser
<1>4. Age(Ingest(reading), c, 1) = Value(reading[c])
  <2>1. Len(new) - 1 + 1 = Len(new) /\ Len(new) >= 1
    BY <1>3
  <2> QED BY <1>1, <2>1 DEF Age
<1>5. ASSUME NEW a \in 1 .. Depth - 1
      PROVE  Age(Ingest(reading), c, a + 1) = Age(samples, c, a)
  <2> HIDE DEF new, old
  <2>1. /\ Age(Ingest(reading), c, a + 1) = IF Len(new) >= a + 1 THEN Value(new[Len(new) - (a + 1) + 1]) ELSE 0
        /\ Age(samples, c, a) = IF Len(old) >= a THEN Value(old[Len(old) - a + 1]) ELSE 0
    BY DEF Age, new, old
  <2>2. (Len(new) >= a + 1) <=> (Len(old) >= a)
    BY <1>2 DEF Lesser
  <2>3. ASSUME Len(old) >= a PROVE new[Len(new) - (a + 1) + 1] = old[Len(old) - a + 1]
    <3>1. Len(new) - (a + 1) + 1 \in 1 .. Len(new) - 1
      BY <1>2, <1>3, <2>2, <2>3
    <3>2. CASE Len(old) = Depth
      <4>1. Len(new) - (a + 1) + 1 + 1 = Len(old) - a + 1
        BY <1>2, <3>2 DEF Lesser
      <4>2. new[Len(new) - (a + 1) + 1] = old[Len(new) - (a + 1) + 1 + 1]
        BY <1>1, <3>1, <3>2
      <4> QED BY <4>1, <4>2
    <3>3. CASE Len(old) # Depth
      <4>1. Len(new) - (a + 1) + 1 = Len(old) - a + 1
        BY <1>2, <3>3 DEF Lesser
      <4>2. new[Len(new) - (a + 1) + 1] = old[Len(new) - (a + 1) + 1]
        BY <1>1, <3>1, <3>3
      <4> QED BY <4>1, <4>2
    <3> QED BY <3>2, <3>3
  <2> QED BY <2>1, <2>2, <2>3
<1> QED BY <1>4, <1>5

\* Every cycle grows one cycle older, and the readings make a new one.
LEMMA SliceTick ==
  ASSUME FleetOK, Leveled(samples), NEW reading \in [active -> Level]
  PROVE  /\ Slice(Ingest(reading), active, 1) = SumOn([c \in active |-> Value(reading[c])], active)
         /\ \A a \in 1 .. Depth - 1 :
              Slice(Ingest(reading), active, a + 1) = Slice(samples, active, a)
<1> DEFINE buffer == Ingest(reading)
           seen   == [c \in active |-> Value(reading[c])]
<1>1. active \in SUBSET Slot /\ IsFiniteSet(active)
  BY ActiveFinite DEF FleetOK
<1>2. \A a \in 1 .. Depth - 1 : Slice(buffer, active, a + 1) = Slice(samples, active, a)
  <2> SUFFICES ASSUME NEW a \in 1 .. Depth - 1
               PROVE  Slice(buffer, active, a + 1) = Slice(samples, active, a)
    OBVIOUS
  <2> DEFINE f == [c \in Slot |-> Age(buffer, c, a + 1)]
             h == [c \in Slot |-> Age(samples, c, a)]
  <2>1. \A c \in active : f[c] = h[c]
    BY <1>1, AgeTick
  <2>2. Slice(buffer, active, a + 1) = SumOn(f, active) /\ Slice(samples, active, a) = SumOn(h, active)
    BY DEF Slice
  <2> HIDE DEF f, h
  <2> QED BY <1>1, <2>1, <2>2, SumSame
<1>3. Slice(buffer, active, 1) = SumOn(seen, active)
  <2> DEFINE f == [c \in Slot |-> Age(buffer, c, 1)]
  <2>1. \A c \in active : f[c] = seen[c]
    BY <1>1, AgeTick
  <2>2. Slice(buffer, active, 1) = SumOn(f, active)
    BY DEF Slice
  <2> HIDE DEF f, seen
  <2> QED BY <1>1, <2>1, <2>2, SumSame
<1> QED BY <1>2, <1>3

LEMMA SliceBound ==
  ASSUME NEW buffer, Leveled(buffer), NEW X \in SUBSET Slot, NEW a \in 1 .. Depth
  PROVE  Slice(buffer, X, a) <= Top * Cardinality(X)
<1> DEFINE f == [c \in Slot |-> Age(buffer, c, a)]
           h == [c \in Slot |-> Top]
<1>1. IsFiniteSet(X) /\ Top \in Int
  BY Constants, FS_Subset
<1>2. Whole(f, X) /\ \A c \in X : f[c] \in 0 .. Top
  BY SliceWhole
<1>3. Whole(h, X) /\ \A c \in X : h[c] = Top
  BY <1>1 DEF Whole
<1>4. Slice(buffer, X, a) = SumOn(f, X)
  BY DEF Slice
<1> HIDE DEF f, h
<1>5. \A c \in X : f[c] <= h[c]
  BY <1>2, <1>3, Constants
<1>6. SumOn(f, X) <= SumOn(h, X)
  BY <1>2, <1>3, <1>5, SumMonotone
<1>7. SumOn(h, X) = Top * Cardinality(X)
  BY <1>1, <1>3, SumConstant
<1> QED BY <1>4, <1>6, <1>7

\* Connectors whose windows are empty add nothing.
LEMMA SliceGrown ==
  ASSUME NEW buffer, Leveled(buffer), NEW X \in SUBSET Slot, NEW Y \in SUBSET Slot,
         X \cap Y = {}, \A c \in Y : buffer[c] = << >>, NEW a \in 1 .. Depth
  PROVE  Slice(buffer, X \cup Y, a) = Slice(buffer, X, a)
<1> DEFINE f == [c \in Slot |-> Age(buffer, c, a)]
<1>1. Whole(f, X) /\ Whole(f, Y) /\ IsFiniteSet(Y)
  BY SliceWhole, Constants, FS_Subset
<1>2. \A c \in Y : f[c] = 0
  <2> SUFFICES ASSUME NEW c \in Y PROVE Age(buffer, c, a) = 0
    OBVIOUS
  <2>1. Len(buffer[c]) = 0
    OBVIOUS
  <2> QED BY <2>1, Constants DEF Age
<1>3. Slice(buffer, X \cup Y, a) = SumOn(f, X \cup Y) /\ Slice(buffer, X, a) = SumOn(f, X)
  BY DEF Slice
<1> HIDE DEF f
<1>4. SumOn(f, Y) = 0 * Cardinality(Y) /\ Cardinality(Y) \in Nat
  BY <1>1, <1>2, SumConstant, FS_CardinalityType
<1>5. SumOn(f, X \cup Y) = SumOn(f, X) + SumOn(f, Y) /\ SumOn(f, X) \in Int
  BY <1>1, SumSplit, SumInt
<1> QED BY <1>3, <1>4, <1>5

\* The rest of a fleet read no more than the fleet did.
LEMMA SliceShrunk ==
  ASSUME NEW buffer, Leveled(buffer), NEW rest, NEW Y \in SUBSET Slot, NEW X \in SUBSET Y,
         \A c \in X : rest[c] = buffer[c], NEW a \in 1 .. Depth
  PROVE  Slice(rest, X, a) <= Slice(buffer, Y, a)
<1> DEFINE f == [c \in Slot |-> Age(buffer, c, a)]
           h == [c \in Slot |-> Age(rest, c, a)]
<1>1. Whole(f, Y) /\ \A c \in Y : f[c] \in 0 .. Top
  BY SliceWhole
<1>2. \A c \in X : h[c] = f[c]
  BY DEF Age
<1>3. IsFiniteSet(X)
  BY Constants, FS_Subset
<1>4. Slice(rest, X, a) = SumOn(h, X) /\ Slice(buffer, Y, a) = SumOn(f, Y)
  BY DEF Slice
<1> HIDE DEF f, h
<1>5. SumOn(h, X) = SumOn(f, X)
  BY <1>2, <1>3, SumSame
<1>6. \A c \in Y : f[c] >= 0
  BY <1>1, Constants
<1>7. SumOn(f, X) <= SumOn(f, Y)
  BY <1>1, <1>6, SumPart
<1> QED BY <1>4, <1>5, <1>7
-----------------------------------------------------------------------------
LEMMA ScaledAtMost ==
  ASSUME NEW a \in Nat, NEW b \in Nat, NEW n \in Nat, a <= b
  PROVE  a * n <= b * n
<1>1. CASE a = b
  BY <1>1
<1>2. CASE n = 0
  BY <1>2
<1>3. CASE a < b /\ n > 0
  <2>1. a * n < b * n /\ a * n \in Nat /\ b * n \in Nat
    BY <1>3, ScaledLess
  <2> QED BY <2>1
<1> QED BY <1>1, <1>2, <1>3

\* What a fleet that is hot carries in one cycle outweighs, over a window but
\* for one cycle, the low watermark of the grown fleet over all of it.
LEMMA Outweighs ==
  ASSUME NEW p \in Int, NEW high \in Nat, NEW low \in Nat, NEW hot \in Nat, NEW over \in Nat,
         NEW size \in Nat, NEW d \in Nat,
         over >= hot, high * hot * Window > low * size * (Window + 1),
         p >= high * (over * Depth), p <= Depth * d
  PROVE  Window * d > low * (size * Depth)
<1>1. Depth \in Nat /\ Depth > 0 /\ Window \in Nat /\ Depth = Window + 1
  BY Constants
<1>2. /\ high * hot \in Nat /\ high * over \in Nat /\ low * size \in Nat
      /\ hot * high = high * hot /\ over * high = high * over
  OBVIOUS
<1>3. high * hot <= high * over
  <2>1. hot * high <= over * high
    BY ScaledAtMost
  <2> QED BY <1>2, <2>1
<1>4. high * over <= d
  <2> SUFFICES ASSUME d < high * over PROVE FALSE
    BY <1>2
  <2>1. d * Depth < (high * over) * Depth
    BY <1>1, <1>2, ScaledLess
  <2>2. (high * over) * Depth = high * (over * Depth) /\ d * Depth = Depth * d
    BY <1>1
  <2>3. (high * over) * Depth \in Nat /\ d * Depth \in Nat
    BY <1>1, <1>2
  <2> QED BY <2>1, <2>2, <2>3
<1>5. (high * hot) * Window <= d * Window
  <2>1. high * hot <= d
    BY <1>2, <1>3, <1>4
  <2> QED BY <1>1, <1>2, <2>1, ScaledAtMost
<1>6. /\ low * size * (Window + 1) = low * (size * Depth) /\ d * Window = Window * d
      /\ (high * hot) * Window \in Nat /\ d * Window \in Nat /\ low * (size * Depth) \in Nat
  BY <1>1, <1>2
<1> QED BY <1>5, <1>6

\* What the direction of a decision says of the load, on a fleet at its floor
\* or above.
LEMMA DecisionReads ==
  ASSUME FleetOK, NEW buffer, NEW up \in Nat, NEW down \in Nat, Count >= MinConnectors
  PROVE  /\ Decision(buffer, up, down).direction = "up" =>
              /\ ScaleUpTrigger(Policy, Count, Reduce(buffer, active), Absent,
                                [c \in active |-> Reduce(buffer, {c})], [c \in active |-> Absent])
              /\ Decision(buffer, up, down).count = ScaleUpCount(Policy, Count)
              /\ ScaleUpCount(Policy, Count) # 0
         /\ Decision(buffer, up, down).direction = "down" =>
              IsLowLoad(Policy, Reduce(buffer, active), Absent) /\ down = 0
<1> DEFINE high  == ScaleUpTrigger(Policy, Count, Reduce(buffer, active), Absent,
                                   [c \in active |-> Reduce(buffer, {c})],
                                   [c \in active |-> Absent])
           low   == IsLowLoad(Policy, Reduce(buffer, active), Absent)
           fill  == FloorFillCount(Policy, Count)
           more  == ScaleUpCount(Policy, Count)
           less  == ScaleDownCount(Policy, Count)
           d     == ScaleVerdict(Policy, Count, high, low, up, down, FALSE)
<1>1. Decision(buffer, up, down) = d
  BY DEF Decision, DecideScale, Count
<1>2. fill = 0
  BY PolicyAssumption, ActiveFinite DEF FloorFillCount, Policy
<1> HIDE DEF high, low, fill, more, less
<1>3. \/ d = NoAction
      \/ low /\ down = 0 /\ d = [direction |-> "down", count |-> less]
      \/ high /\ more # 0 /\ d = [direction |-> "up", count |-> more]
  BY <1>2 DEF ScaleVerdict, fill, more, less
<1> HIDE DEF d
<1>4. NoAction.direction = "none"
  BY DEF NoAction
<1>5. d.direction = "up" => high /\ d.count = more /\ more # 0
  BY <1>3, <1>4
<1>6. d.direction = "down" => low /\ down = 0
  BY <1>3, <1>4
<1> QED

  BY <1>1, <1>5, <1>6 DEF high, low, more

\* Connectors over their watermark carry that much each.
LEMMA HotPool ==
  ASSUME Agg = "avg", NEW buffer, Leveled(buffer), NEW Y \in SUBSET Slot, NEW X \in SUBSET Y,
         \A c \in X : Full(buffer, c) /\ CpuIsHigh(Policy, Reduce(buffer, {c}))
  PROVE  Pool(buffer, Y) >= High * (Cardinality(X) * Depth)
<1> DEFINE f == [c \in Slot |-> Held(buffer, c)]
           h == [c \in Slot |-> High * Depth]
<1>1. X \in SUBSET Slot /\ IsFiniteSet(X) /\ High * Depth \in Int /\ Depth \in Nat /\ High \in Nat
  BY Constants, FS_Subset
<1>2. ASSUME NEW c \in X PROVE Held(buffer, c) >= High * Depth
  <2>1. c \in Slot /\ {c} \in SUBSET Slot
    BY <1>1
  <2>2. Cardinality(Carrying(buffer, {c})) = Depth
    <3>1. \A x \in {c} : Full(buffer, x)
      BY <1>2
    <3>2. Cardinality(Carrying(buffer, {c})) = Cardinality({c}) * Depth
      BY <2>1, <3>1, PlacesFull
    <3>3. Cardinality({c}) = 1
      BY FS_Singleton
    <3> QED BY <1>1, <3>2, <3>3
  <2>3. Carrying(buffer, {c}) # {}
    <3>1. Cardinality({}) = 0 /\ Depth # 0
      BY FS_EmptySet, Constants
    <3> QED BY <2>2, <3>1
  <2>4. Reduce(buffer, {c}) = [sum |-> Pool(buffer, {c}), n |-> Depth]
    BY <2>1, <2>2, <2>3, ReduceAverage
  <2>5. Policy.cpuHigh = High
    BY DEF Policy
  <2>6. Pool(buffer, {c}) >= High * Depth
    <3>1. CpuIsHigh(Policy, Reduce(buffer, {c}))
      BY <1>2
    <3>2. Reduce(buffer, {c}).sum >= Policy.cpuHigh * Reduce(buffer, {c}).n
      BY <3>1 DEF CpuIsHigh
    <3>3. Reduce(buffer, {c}).sum = Pool(buffer, {c}) /\ Reduce(buffer, {c}).n = Depth
      <4> DEFINE q == Reduce(buffer, {c})
                 p == Pool(buffer, {c})
      <4>1. q = [sum |-> p, n |-> Depth]
        BY <2>4
      <4> HIDE DEF p, q
      <4>2. q.sum = p /\ q.n = Depth
        BY <4>1
      <4> QED BY <4>2 DEF p, q
    <3> QED BY <2>5, <3>2, <3>3
  <2>7. Pool(buffer, {c}) = Held(buffer, c)
    <3>1. {c} # {} /\ Pick({c}) = c /\ {c} \ {c} = {} /\ IsFiniteSet({c}) /\ IsFiniteSet({})
      BY Picked, FS_Singleton, FS_EmptySet
    <3>2. SumOn(f, {c}) = f[c] + SumOn(f, {}) /\ SumOn(f, {}) = 0
      <4> HIDE DEF f
      <4>1. SumOn(f, {c}) = f[Pick({c})] + SumOn(f, {c} \ {Pick({c})})
        BY <3>1, SumRule
      <4>2. SumOn(f, {}) = 0
        BY <3>1, SumRule
      <4> QED BY <3>1, <4>1, <4>2
    <3>3. f[c] = Held(buffer, c) /\ Held(buffer, c) \in Int
      BY <2>1, WindowWhole
    <3> QED BY <3>2, <3>3 DEF Pool
  <2> QED BY <2>6, <2>7
<1>3. Whole(f, Y) /\ Whole(f, X) /\ \A c \in Y : f[c] >= 0
  BY <1>1, PoolWhole, WindowWhole
<1>4. Whole(h, X) /\ \A c \in X : h[c] = High * Depth
  BY <1>1 DEF Whole
<1>5. \A c \in X : h[c] <= f[c]
  <2>1. \A c \in X : f[c] = Held(buffer, c) /\ Held(buffer, c) \in Int
    BY <1>1, WindowWhole
  <2> HIDE DEF f, h
  <2> QED BY <1>1, <1>2, <1>4, <2>1
<1>6. Pool(buffer, Y) = SumOn(f, Y)
  BY DEF Pool
<1> HIDE DEF f, h
<1>7. SumOn(h, X) <= SumOn(f, X)
  BY <1>3, <1>4, <1>5, SumMonotone
<1>8. SumOn(h, X) = (High * Depth) * Cardinality(X) /\ Cardinality(X) \in Nat
  BY <1>1, <1>4, SumConstant, FS_CardinalityType
<1>9. SumOn(f, X) <= SumOn(f, Y)
  BY <1>3, SumPart
<1>10. SumOn(f, X) \in Int /\ SumOn(f, Y) \in Int
  BY <1>3, SumInt
<1>11. (High * Depth) * Cardinality(X) = High * (Cardinality(X) * Depth)
  BY <1>1, <1>8
<1>12. High * (Cardinality(X) * Depth) <= SumOn(f, X)
  BY <1>7, <1>8, <1>11
<1>13. High * (Cardinality(X) * Depth) \in Int
  BY <1>1, <1>8
<1> DEFINE least == High * (Cardinality(X) * Depth)
<1> HIDE DEF least
<1>14. Pool(buffer, Y) >= least
  BY <1>6, <1>9, <1>10, <1>12, <1>13 DEF least
<1> QED BY <1>14 DEF least

\* A fleet that grows, with every window full of readings that are no more than
\* d a cycle, grows for a d that would not let the grown fleet shrink.
LEMMA HotGrowth ==
  ASSUME FleetOK, Prudent, NEW buffer, Leveled(buffer), NEW up \in Nat, NEW down \in Nat,
         Count >= MinConnectors, Count < MaxConnectors, \A c \in active : Full(buffer, c),
         Decision(buffer, up, down).direction = "up",
         NEW d \in Nat, Pool(buffer, active) <= Depth * d
  PROVE  Window * d > Low * ((Count + Decision(buffer, up, down).count) * Depth)
<1> DEFINE cpu   == Reduce(buffer, active)
           cpuBy == [c \in active |-> Reduce(buffer, {c})]
           none  == [c \in active |-> Absent]
           over  == OverHighWatermark(Policy, cpuBy, none)
           size  == Count + ScaleUpCount(Policy, Count)
<1>1. /\ ScaleUpTrigger(Policy, Count, cpu, Absent, cpuBy, none)
      /\ Decision(buffer, up, down).count = ScaleUpCount(Policy, Count)
  BY DecisionReads
<1>2. Agg = "avg" /\ WatermarksApart
  BY DEF Prudent
<1>3. /\ active \in SUBSET Slot /\ IsFiniteSet(active) /\ Count \in Nat
      /\ Depth \in Nat /\ Depth > 0 /\ High \in Nat /\ Low \in Nat
  BY ActiveFinite, Constants DEF FleetOK
<1>4. size \in Nat /\ Count \in MinConnectors .. MaxConnectors - 1
  BY <1>3, PolicyAssumption DEF ScaleUpCount, Policy, Lesser
<1>5. Pool(buffer, active) \in Int
  BY <1>3, PoolWhole
<1>6. \A c \in active : ~ThroughputIsHigh(Policy, Absent) /\ none[c] = Absent
  BY DEF ThroughputIsHigh, Absent
<1>7. over \subseteq active /\ \A c \in over : CpuIsHigh(Policy, Reduce(buffer, {c}))
  <2>1. over = {c \in active : CpuIsHigh(Policy, cpuBy[c]) \/ ThroughputIsHigh(Policy, none[c])}
    BY DEF OverHighWatermark
  <2>2. \A c \in active : cpuBy[c] = Reduce(buffer, {c})
    OBVIOUS
  <2> HIDE DEF over, cpuBy, none
  <2> QED BY <1>6, <2>1, <2>2
<1>8. Pool(buffer, active) >= High * (Cardinality(over) * Depth) /\ Cardinality(over) \in Nat
  <2> HIDE DEF over
  <2> QED BY <1>2, <1>3, <1>7, HotPool, FS_Subset, FS_CardinalityType
<1>9. CASE Trigger = "mean"
  <2>1. High * Count * Window > Low * size * (Window + 1)
    BY <1>2, <1>4, <1>9 DEF WatermarksApart
  <2>2. CpuIsHigh(Policy, cpu)
    <3>1. Policy.trigger = "mean"
      BY <1>9 DEF Policy
    <3>2. IsHighLoad(Policy, cpu, Absent)
      BY <1>1, <3>1 DEF ScaleUpTrigger
    <3> QED BY <3>2 DEF IsHighLoad, ThroughputIsHigh, Absent
  <2>3. Cardinality(Carrying(buffer, active)) = Count * Depth
    BY <1>3, PlacesFull DEF Count
  <2>4. cpu.n > 0 /\ cpu.sum >= High * cpu.n
    BY <2>2 DEF CpuIsHigh, Policy
  <2>5. cpu.sum = Pool(buffer, active) /\ cpu.n = Count * Depth
    <3>1. CASE cpu = Absent
      BY <2>4, <3>1 DEF Absent
    <3>2. CASE cpu = [sum |-> Pool(buffer, active), n |-> Cardinality(Carrying(buffer, active))]
      BY <2>3, <3>2
    <3> HIDE DEF cpu
    <3> QED BY <1>2, <1>3, <3>1, <3>2, ReduceAverage DEF cpu
  <2>6. Pool(buffer, active) >= High * (Count * Depth) /\ Count >= Count
    BY <1>3, <2>4, <2>5
  <2> HIDE DEF size
  <2>7. Window * d > Low * (size * Depth)
    BY <1>3, <1>4, <1>5, <2>1, <2>6, Outweighs
  <2> QED BY <1>1, <2>7 DEF size
<1>10. CASE Trigger = "any"
  <2>1. High * 1 * Window > Low * size * (Window + 1)
    BY <1>2, <1>4, <1>10 DEF WatermarksApart
  <2>2. Cardinality(over) >= 1
    <3>1. Policy.trigger = "any"
      BY <1>10 DEF Policy
    <3> QED BY <1>1, <3>1 DEF ScaleUpTrigger
  <2> HIDE DEF size, over
  <2>3. Window * d > Low * (size * Depth)
    BY <1>3, <1>4, <1>5, <1>8, <2>1, <2>2, Outweighs
  <2> QED BY <1>1, <2>3 DEF size
<1>11. CASE Trigger = "quorum"
  <2> DEFINE hot == QuorumThreshold(Policy, Count)
  <2>1. High * hot * Window > Low * size * (Window + 1)
    BY <1>2, <1>4, <1>11 DEF WatermarksApart
  <2>2. Cardinality(over) >= hot
    <3>1. Policy.trigger = "quorum"
      BY <1>11 DEF Policy
    <3> QED BY <1>1, <3>1 DEF ScaleUpTrigger
  <2>3. hot \in Nat
    <3>1. Policy.quorumDen \in Nat \ {0} /\ Policy.quorumNum \in 1 .. Policy.quorumDen
      BY PolicyAssumption DEF Policy
    <3>2. Count \in Nat \ {0}
      BY <1>4, PolicyAssumption
    <3>3. QuorumThreshold(Policy, Count) \in 1 .. Count
      BY <3>1, <3>2, QuorumReachable
    <3> QED BY <3>2, <3>3
  <2> HIDE DEF size, over, hot
  <2>4. Window * d > Low * (size * Depth)
    BY <1>3, <1>4, <1>5, <1>8, <2>1, <2>2, <2>3, Outweighs
  <2> QED BY <1>1, <2>4 DEF size
<1> QED BY <1>9, <1>10, <1>11, PolicyAssumption

\* A fleet that shrinks carries little.
LEMMA ColdShrink ==
  ASSUME FleetOK, Agg = "avg", NEW buffer, Leveled(buffer), NEW up \in Nat, NEW down \in Nat,
         Count >= MinConnectors, Decision(buffer, up, down).direction = "down"
  PROVE  Pool(buffer, active) <= Low * (Count * Depth)
<1> DEFINE cpu == Reduce(buffer, active)
           n   == Cardinality(Carrying(buffer, active))
<1>1. IsLowLoad(Policy, cpu, Absent)
  BY DecisionReads
<1>2. cpu.n > 0 /\ cpu.sum <= Low * cpu.n
  BY <1>1 DEF IsLowLoad, Absent, Policy
<1>3. /\ active \in SUBSET Slot /\ Count \in Nat /\ Depth \in Nat /\ Low \in Nat
  BY ActiveFinite, Constants DEF FleetOK
<1>4. cpu.sum = Pool(buffer, active) /\ cpu.n = n
  <2>1. CASE cpu = Absent
    BY <1>2, <2>1 DEF Absent
  <2>2. CASE cpu = [sum |-> Pool(buffer, active), n |-> n]
    BY <2>2
  <2> HIDE DEF cpu
  <2> QED BY <1>3, <2>1, <2>2, ReduceAverage DEF cpu
<1>5. n \in Nat /\ n <= Count * Depth
  BY <1>3, PlacesPart DEF Count
<1>6. Pool(buffer, active) \in Int
  BY <1>3, PoolWhole
<1> HIDE DEF n, cpu
<1>7. n * Low <= (Count * Depth) * Low
  <2>1. Count * Depth \in Nat
    BY <1>3
  <2> QED BY <1>3, <1>5, <2>1, ScaledAtMost
<1>8. n * Low = Low * n /\ (Count * Depth) * Low = Low * (Count * Depth)
      /\ Low * n \in Nat /\ Low * (Count * Depth) \in Nat
  BY <1>3, <1>5
<1>9. Pool(buffer, active) <= Low * n
  BY <1>2, <1>4
<1> QED BY <1>6, <1>7, <1>8, <1>9

-----------------------------------------------------------------------------
\* The windows of a fleet: of as many cycles as passed since the last scale-up,
\* each with a reading but for its first sample, and full once the cooldown of
\* that scale-up, of which up is left, is over.
Windows(buffer, fleet, up, since) ==
  /\ Leveled(buffer)
  /\ \A c \in Slot \ fleet : buffer[c] = << >>
  /\ \A c \in fleet : /\ Len(buffer[c]) >= since
                      /\ \A i \in 2 .. Len(buffer[c]) : buffer[c][i] # NoReading
                      /\ Full(buffer, c) \/ up + Len(buffer[c]) >= UpCooldown

\* The cycles of the last age ticks: none adds up to more than the load, and
\* each to all of it that was neither the first of a new Connector nor read by
\* one that is removed since.
Shares(buffer, fleet, load, up, down, age) ==
  \A a \in 1 .. Depth : a <= age =>
    /\ Slice(buffer, fleet, a) <= load
    /\ a + up < UpCooldown /\ a + down <= DownCooldown
         => Slice(buffer, fleet, a) = Lesser(load, Top * Cardinality(fleet))

\* The load made the fleet grow, since ticks ago: in any cycle but the one after
\* that it adds up to d, which is too much, over the others, for the fleet to
\* shrink.  Of the cycles before nothing is known when Connectors were removed.
Lasts(buffer, fleet, load, down, since, d) ==
  /\ d <= Lesser(load, Top * Cardinality(fleet))
  /\ Window * d > Low * (Cardinality(fleet) * Depth)
  /\ \A a \in 1 .. Depth :
       a # since /\ (a < since \/ since + down + Depth <= DownCooldown)
         => Slice(buffer, fleet, a) >= d

LoadInv ==
  /\ Windows(samples, active, upLeft, sinceUp)
  /\ Shares(samples, active, demand, upLeft, downLeft, steady)
  /\ grown => /\ steady = Depth
              /\ \E d \in Nat : Lasts(samples, active, demand, downLeft, sinceUp, d)

FlapInv ==
  /\ BoundsInv /\ PaceInv /\ LoadInv
  /\ demand \in Nat /\ grown \in BOOLEAN

LEMMA FlapParts ==
  ASSUME FlapInv
  PROVE  /\ FleetOK /\ BoundsInv /\ PaceInv /\ LoadInv /\ demand \in Nat /\ grown \in BOOLEAN
         /\ active \in SUBSET Slot /\ IsFiniteSet(active) /\ Count \in Nat
         /\ upLeft \in 0 .. UpCooldown /\ downLeft \in 0 .. DownCooldown
         /\ steady \in 0 .. Depth /\ sinceUp \in 0 .. Depth /\ Leveled(samples)
         /\ UpCooldown \in Nat /\ DownCooldown \in Nat
         /\ MinConnectors \in Nat /\ MaxConnectors \in Nat
<1>1. FleetOK
  BY DEF FlapInv, BoundsInv
<1> QED BY <1>1, ActiveFinite, PolicyAssumption
       DEF FlapInv, PaceInv, FleetOK, LoadInv, Windows, Depth

LEMMA InitFlap == Init => FlapInv
<1> SUFFICES ASSUME Init PROVE FlapInv
  OBVIOUS
<1>1. /\ samples = [c \in Slot |-> << >>] /\ active = {} /\ steady = 0 /\ grown = FALSE
      /\ demand \in Nat
  BY ModelAssumption DEF Init
<1>2. Leveled(samples)
  <2>1. << >> \in Seq(Level) /\ Len(<< >>) = 0 /\ 0 <= Depth
    BY EmptySeq, Constants
  <2> QED BY <1>1, <2>1 DEF Leveled
<1>3. \A a \in 1 .. Depth : ~(a <= steady)
  BY <1>1, Constants
<1>4. Windows(samples, active, upLeft, sinceUp)
  BY <1>1, <1>2 DEF Windows
<1>5. Shares(samples, active, demand, upLeft, downLeft, steady)
  BY <1>3 DEF Shares
<1> QED BY <1>1, <1>4, <1>5, InitBounds, InitPace DEF FlapInv, LoadInv

\* Some windows of the fleet are dropped.
LEMMA WindowsShrunk ==
  ASSUME NEW buffer, NEW fleet \in SUBSET Slot, NEW up, NEW since, Windows(buffer, fleet, up, since),
         NEW gone \in SUBSET Slot, NEW rest,
         rest = [c \in Slot |-> IF c \in gone THEN << >> ELSE buffer[c]]
  PROVE  Windows(rest, fleet \ gone, up, since)
<1>1. Leveled(buffer)
  BY DEF Windows
<1>2. \A c \in Slot : rest[c] = IF c \in gone THEN << >> ELSE buffer[c]
  OBVIOUS
<1>3. Leveled(rest)
  <2>1. << >> \in Seq(Level) /\ Len(<< >>) = 0 /\ 0 <= Depth
    BY Constants, EmptySeq
  <2>2. \A c \in Slot : buffer[c] \in Seq(Level) /\ Len(buffer[c]) <= Depth
    BY <1>1 DEF Leveled
  <2>3. \A c \in Slot : rest[c] \in Seq(Level) /\ Len(rest[c]) <= Depth
    BY <1>2, <2>1, <2>2
  <2> QED BY <2>3 DEF Leveled
<1>4. \A c \in Slot \ (fleet \ gone) : rest[c] = << >>
  BY <1>2 DEF Windows
<1>5. \A c \in fleet \ gone : rest[c] = buffer[c]
  BY <1>2
<1>6. ASSUME NEW c \in fleet \ gone
      PROVE  /\ Len(rest[c]) >= since
             /\ \A i \in 2 .. Len(rest[c]) : rest[c][i] # NoReading
             /\ Full(rest, c) \/ up + Len(rest[c]) >= UpCooldown
  BY <1>5 DEF Windows, Full
<1> QED BY <1>3, <1>4, <1>6 DEF Windows

LEMMA DisturbedFlap ==
  ASSUME FlapInv, DemandChanges \/ ConnectorLost PROVE FlapInv'
<1>1. BoundsInv' /\ PaceInv'
  BY DisturbedBounds, DisturbedPace DEF FlapInv
<1>2. /\ steady' = 0 /\ grown' = FALSE /\ demand' \in Nat
      /\ sinceUp' = sinceUp /\ upLeft' = upLeft
  BY ModelAssumption DEF DemandChanges, ConnectorLost, FlapInv
<1>3. Windows(samples, active, upLeft, sinceUp) /\ active \in SUBSET Slot /\ Leveled(samples)
  BY FlapParts DEF LoadInv
<1>4. Windows(samples', active', upLeft', sinceUp')
  <2>1. CASE DemandChanges
    BY <1>2, <1>3, <2>1 DEF DemandChanges
  <2>2. CASE ConnectorLost
    <3>1. PICK c \in active : active' = active \ {c} /\ samples' = [samples EXCEPT ![c] = << >>]
      BY <2>2 DEF ConnectorLost
    <3>2. samples' = [d \in Slot |-> IF d \in {c} THEN << >> ELSE samples[d]] /\ {c} \in SUBSET Slot
      BY <1>3, <3>1 DEF Leveled
    <3>3. Windows(samples', active \ {c}, upLeft, sinceUp)
      BY <1>3, <3>2, WindowsShrunk
    <3> QED BY <1>2, <3>1, <3>3
  <2> QED BY <2>1, <2>2
<1>5. Shares(samples', active', demand', upLeft', downLeft', steady')
  BY <1>2, Constants DEF Shares
<1>6. LoadInv'
  BY <1>2, <1>4, <1>5 DEF LoadInv
<1> QED BY <1>1, <1>2, <1>6 DEF FlapInv

-----------------------------------------------------------------------------
LEMMA SaturatingAge ==
  ASSUME NEW age \in 0 .. Depth
  PROVE  /\ Saturating(age) \in 1 .. Depth
         /\ Saturating(age) = IF age = Depth THEN Depth ELSE age + 1
BY Constants DEF Saturating, Lesser

LEMMA CooldownTick ==
  ASSUME NEW left \in Nat
  PROVE  /\ CooldownRemaining(left, 1) \in Nat
         /\ CooldownRemaining(left, 1) = IF left > 0 THEN left - 1 ELSE 0
BY DEF CooldownRemaining

\* What one cycle makes of the windows, before the fleet is changed.
LEMMA CycleWindows ==
  ASSUME FlapInv, Prudent, NEW reading \in Collected
  PROVE  Windows(Ingest(reading), active, CooldownRemaining(upLeft, 1), Saturating(sinceUp))
<1> DEFINE buffer == Ingest(reading)
           up     == CooldownRemaining(upLeft, 1)
<1>1. Windows(samples, active, upLeft, sinceUp) /\ UpCooldown > Depth
  BY DEF FlapInv, LoadInv, Prudent, Depth
<1>2. /\ reading \in [active -> Level]
      /\ \A c \in active : samples[c] # << >> => reading[c] # NoReading
  BY FlapParts, LoadCollected DEF Prudent
<1>3. Leveled(buffer) /\ \A c \in Slot \ active : buffer[c] = << >>
  BY <1>2, FlapParts, IngestLeveled
<1>4. ASSUME NEW c \in active
      PROVE  /\ Len(buffer[c]) >= Saturating(sinceUp)
             /\ \A i \in 2 .. Len(buffer[c]) : buffer[c][i] # NoReading
             /\ Full(buffer, c) \/ up + Len(buffer[c]) >= UpCooldown
  <2> DEFINE old == samples[c]
             new == buffer[c]
             n   == Len(old)
             m   == Len(new)
  <2>1. /\ m = Lesser(n + 1, Depth) /\ new[m] = reading[c]
        /\ \A i \in 1 .. m - 1 : new[i] = IF n = Depth THEN old[i + 1] ELSE old[i]
    BY <1>2, FlapParts, IngestTick
  <2>2. n \in 0 .. Depth /\ Depth \in Nat /\ Depth > 1 /\ Depth = Window + 1
    BY FlapParts, LeveledSeq, Constants
  <2>3. /\ n >= sinceUp /\ \A i \in 2 .. n : old[i] # NoReading
        /\ Full(samples, c) \/ upLeft + n >= UpCooldown
    BY <1>1 DEF Windows
  <2>4. n > 0 => reading[c] # NoReading
    <3>1. old = << >> => n = 0
      OBVIOUS
    <3> QED BY <1>2, <3>1
  <2>5. /\ sinceUp \in 0 .. Depth /\ upLeft \in Nat /\ UpCooldown \in Nat
        /\ up = IF upLeft > 0 THEN upLeft - 1 ELSE 0
    BY FlapParts DEF CooldownRemaining
  <2>6. Full(samples, c) <=> n = Depth /\ \A i \in 1 .. Depth : old[i] # NoReading
    BY DEF Full
  <2>7. Full(buffer, c) <=> m = Depth /\ \A i \in 1 .. Depth : new[i] # NoReading
    BY DEF Full
  <2> HIDE DEF old, new, n, m, up, buffer
  <2>8. m = (IF n = Depth THEN Depth ELSE n + 1)
    BY <2>1, <2>2 DEF Lesser
  <2>9. m >= Saturating(sinceUp)
    BY <2>2, <2>3, <2>5, <2>8 DEF Saturating, Lesser
  <2>10. ASSUME NEW i \in 2 .. m PROVE new[i] # NoReading
    <3>1. CASE i = m
      <4>1. n > 0
        BY <2>2, <2>8, <3>1
      <4> QED BY <2>1, <2>4, <3>1, <4>1
    <3>2. CASE i # m /\ n = Depth
      <4>1. i \in 1 .. m - 1 /\ i + 1 \in 2 .. n
        BY <2>2, <2>8, <3>2
      <4> QED BY <2>1, <2>3, <3>2, <4>1
    <3>3. CASE i # m /\ n # Depth
      <4>1. i \in 1 .. m - 1 /\ i \in 2 .. n
        BY <2>2, <2>8, <3>3
      <4> QED BY <2>1, <2>3, <3>3, <4>1
    <3> QED BY <3>1, <3>2, <3>3
  <2>11. Full(buffer, c) \/ up + m >= UpCooldown
    <3>1. CASE n = Depth
      <4>1. 1 \in 1 .. m - 1 /\ 2 \in 2 .. n
        BY <2>2, <2>8, <3>1
      <4>2. new[1] = old[1 + 1] /\ 1 + 1 = 2
        BY <2>1, <3>1, <4>1
      <4>3. new[1] # NoReading
        BY <2>3, <4>1, <4>2
      <4>4. \A i \in 1 .. m : i = 1 \/ i \in 2 .. m
        BY <2>2, <2>8
      <4> QED BY <2>7, <2>8, <2>10, <3>1, <4>3, <4>4
    <3>2. CASE n # Depth
      <4>1. upLeft + n >= UpCooldown
        BY <2>3, <2>6, <3>2
      <4> QED BY <1>1, <2>2, <2>5, <2>8, <3>2, <4>1
    <3> QED BY <3>1, <3>2
  <2> QED BY <2>9, <2>10, <2>11 DEF new, m
<1> QED BY <1>3, <1>4 DEF Windows

LEMMA CycleShares ==
  ASSUME FlapInv, Prudent, NEW reading \in Collected
  PROVE  /\ Shares(Ingest(reading), active, demand, CooldownRemaining(upLeft, 1),
                   CooldownRemaining(downLeft, 1), Saturating(steady))
         /\ sinceUp > 0 => Slice(Ingest(reading), active, 1) = Lesser(demand, Top * Count)
<1> DEFINE buffer == Ingest(reading)
           up     == CooldownRemaining(upLeft, 1)
           down   == CooldownRemaining(downLeft, 1)
           all    == Lesser(demand, Top * Count)
           seen   == [c \in active |-> Value(reading[c])]
<1>1. /\ Windows(samples, active, upLeft, sinceUp) /\ UpCooldown > Depth
      /\ Shares(samples, active, demand, upLeft, downLeft, steady)
  BY DEF FlapInv, LoadInv, Prudent, Depth
<1>2. /\ reading \in [active -> Level] /\ SumOn(seen, active) <= all
      /\ (\A c \in active : samples[c] # << >>) => SumOn(seen, active) = all
  BY FlapParts, LoadCollected DEF Prudent
<1>3. /\ Slice(buffer, active, 1) = SumOn(seen, active)
      /\ \A a \in 1 .. Depth - 1 : Slice(buffer, active, a + 1) = Slice(samples, active, a)
  BY <1>2, FlapParts, SliceTick
<1>4. /\ Depth \in Nat /\ Depth > 1 /\ Depth = Window + 1 /\ all \in Nat /\ all <= demand
      /\ demand \in Nat /\ 1 \in 1 .. Depth
  BY FlapParts, Constants DEF Lesser
<1>5. Slice(buffer, active, 1) \in Int
  <2>1. Leveled(buffer)
    BY <1>2, FlapParts, IngestLeveled
  <2> QED BY <1>4, <2>1, FlapParts, SliceWhole
<1>6. /\ upLeft \in Nat /\ UpCooldown \in Nat /\ upLeft <= UpCooldown
      /\ downLeft \in Nat /\ DownCooldown \in Nat
      /\ steady \in 0 .. Depth /\ sinceUp \in 0 .. Depth
      /\ up = (IF upLeft > 0 THEN upLeft - 1 ELSE 0)
      /\ down = (IF downLeft > 0 THEN downLeft - 1 ELSE 0)
  BY FlapParts DEF CooldownRemaining
<1>7. \A c \in active : samples[c] = << >> => sinceUp = 0 /\ upLeft = UpCooldown
  <2> SUFFICES ASSUME NEW c \in active, samples[c] = << >>
               PROVE  sinceUp = 0 /\ upLeft = UpCooldown
    OBVIOUS
  <2>1. Len(samples[c]) = 0
    OBVIOUS
  <2>2. Len(samples[c]) >= sinceUp /\ (Full(samples, c) \/ upLeft + Len(samples[c]) >= UpCooldown)
    BY <1>1 DEF Windows
  <2> QED BY <1>4, <1>6, <2>1, <2>2 DEF Full
<1> HIDE DEF buffer, up, down, all, seen
<1>8. sinceUp > 0 \/ 1 + up < UpCooldown => Slice(buffer, active, 1) = all
  <2>1. sinceUp > 0 \/ 1 + up < UpCooldown => \A c \in active : samples[c] # << >>
    BY <1>1, <1>4, <1>6, <1>7
  <2> QED BY <1>2, <1>3, <2>1
<1>9. ASSUME NEW a \in 1 .. Depth, a <= Saturating(steady)
      PROVE  /\ Slice(buffer, active, a) <= demand
             /\ a + up < UpCooldown /\ a + down <= DownCooldown => Slice(buffer, active, a) = all
  <2>1. CASE a = 1
    BY <1>2, <1>3, <1>4, <1>5, <1>8, <2>1
  <2>2. CASE a # 1
    <3> DEFINE b == a - 1
    <3>1. b \in 1 .. Depth - 1 /\ b \in 1 .. Depth /\ b + 1 = a
      BY <1>4, <2>2
    <3>2. b <= steady
      BY <1>4, <1>6, <1>9 DEF Saturating, Lesser
    <3>3. /\ Slice(samples, active, b) <= demand
          /\ b + upLeft < UpCooldown /\ b + downLeft <= DownCooldown => Slice(samples, active, b) = all
      BY <1>1, <3>1, <3>2 DEF Shares, all, Count
    <3>4. /\ a + up < UpCooldown => b + upLeft < UpCooldown
          /\ a + down <= DownCooldown => b + downLeft <= DownCooldown
      <4> HIDE DEF b
      <4> QED BY <1>6, <3>1
    <3>5. Slice(buffer, active, a) = Slice(samples, active, b)
      BY <1>3, <3>1
    <3> QED BY <3>3, <3>4, <3>5
  <2> QED BY <2>1, <2>2
<1> QED BY <1>8, <1>9 DEF Shares, buffer, up, down, all, Count

LEMMA CycleLasts ==
  ASSUME FlapInv, Prudent, NEW reading \in Collected, NEW d \in Nat,
         Lasts(samples, active, demand, downLeft, sinceUp, d)
  PROVE  Lasts(Ingest(reading), active, demand, CooldownRemaining(downLeft, 1),
               Saturating(sinceUp), d)
<1> DEFINE buffer == Ingest(reading)
           down   == CooldownRemaining(downLeft, 1)
           since  == Saturating(sinceUp)
           all    == Lesser(demand, Top * Count)
<1>1. /\ sinceUp > 0 => Slice(buffer, active, 1) = all
      /\ \A a \in 1 .. Depth - 1 : Slice(buffer, active, a + 1) = Slice(samples, active, a)
  <2>1. reading \in [active -> Level]
    BY CollectedType
  <2> QED BY <2>1, FlapParts, CycleShares, SliceTick
<1>2. /\ Depth \in Nat /\ Depth > 1 /\ Depth = Window + 1
      /\ sinceUp \in 0 .. Depth /\ downLeft \in Nat /\ DownCooldown \in Nat
      /\ since = (IF sinceUp = Depth THEN Depth ELSE sinceUp + 1)
      /\ down = (IF downLeft > 0 THEN downLeft - 1 ELSE 0)
      /\ all \in Nat
  <2>1. /\ sinceUp \in 0 .. Depth /\ downLeft \in Nat /\ DownCooldown \in Nat
        /\ Top * Count \in Nat /\ demand \in Nat
    BY FlapParts, Constants
  <2>2. all \in Nat
    BY <2>1 DEF Lesser
  <2> QED BY <2>1, <2>2, Constants, SaturatingAge, CooldownTick
<1>3. /\ d <= all /\ Window * d > Low * (Cardinality(active) * Depth)
      /\ \A a \in 1 .. Depth :
           a # sinceUp /\ (a < sinceUp \/ sinceUp + downLeft + Depth <= DownCooldown)
             => Slice(samples, active, a) >= d
  BY DEF Lasts, Count
<1> HIDE DEF buffer, down, since, all
<1>4. ASSUME NEW a \in 1 .. Depth, a # since, a < since \/ since + down + Depth <= DownCooldown
      PROVE  Slice(buffer, active, a) >= d
  <2>1. CASE a = 1
    <3>1. sinceUp > 0
      BY <1>2, <1>4, <2>1
    <3> QED BY <1>1, <1>2, <1>3, <2>1, <3>1
  <2>2. CASE a # 1
    <3> DEFINE b == a - 1
    <3>1. b \in 1 .. Depth - 1 /\ b \in 1 .. Depth /\ b + 1 = a
      BY <1>2, <2>2
    <3>2. b # sinceUp /\ (b < sinceUp \/ sinceUp + downLeft + Depth <= DownCooldown)
      <4> HIDE DEF b
      <4> QED BY <1>2, <1>4, <3>1
    <3> QED BY <1>1, <1>3, <3>1, <3>2
  <2> QED BY <2>1, <2>2
<1> QED BY <1>3, <1>4 DEF Lasts, buffer, down, since, all, Count


-----------------------------------------------------------------------------
\* What the pool is, from what it is cycle by cycle.
LEMMA PoolAtMost ==
  ASSUME NEW buffer, Leveled(buffer), NEW X \in SUBSET Slot, NEW d \in Nat,
         \A a \in 1 .. Depth : Slice(buffer, X, a) <= d
  PROVE  Pool(buffer, X) <= Depth * d
<1> DEFINE f == [a \in 1 .. Depth |-> Slice(buffer, X, a)]
           h == [a \in 1 .. Depth |-> d]
           all == 1 .. Depth
<1>1. Whole(f, all) /\ Whole(h, all)
  <2>1. \A a \in 1 .. Depth : Slice(buffer, X, a) \in Int
    BY SliceWhole
  <2> QED BY <2>1, Constants DEF Whole
<1>2. (\A a \in all : f[a] <= h[a]) /\ (\A a \in all : h[a] = d)
  OBVIOUS
<1>3. IsFiniteSet(all) /\ Cardinality(all) = Depth /\ Depth \in Nat
  BY Constants
<1>4. Pool(buffer, X) = SumOn(f, all)
  BY PoolSliced
<1> HIDE DEF f, h, all
<1>5. SumOn(f, all) <= SumOn(h, all)
  BY <1>1, <1>2, SumMonotone
<1>6. SumOn(h, all) = d * Cardinality(all)
  BY <1>2, <1>3, SumConstant
<1> QED BY <1>3, <1>4, <1>5, <1>6

LEMMA PoolAtLeast ==
  ASSUME NEW buffer, Leveled(buffer), NEW X \in SUBSET Slot, NEW d \in Nat, NEW b \in 1 .. Depth,
         \A a \in 1 .. Depth : a # b => Slice(buffer, X, a) >= d
  PROVE  Pool(buffer, X) >= Window * d
<1> DEFINE f == [a \in 1 .. Depth |-> Slice(buffer, X, a)]
           h == [a \in 1 .. Depth |-> d]
           all == 1 .. Depth
           most == all \ {b}
<1>1. Whole(f, all) /\ Whole(h, most) /\ Whole(f, most) /\ \A a \in all : f[a] >= 0
  <2>1. Whole(f, all) /\ Whole(h, all) /\ \A a \in all : f[a] >= 0
    <3>1. \A a \in 1 .. Depth : Slice(buffer, X, a) \in Int /\ Slice(buffer, X, a) >= 0
      BY SliceWhole
    <3> QED BY <3>1, Constants DEF Whole
  <2> HIDE DEF f, h
  <2>2. Whole(f, most) /\ Whole(h, most)
    BY <2>1, WholePart
  <2> QED BY <2>1, <2>2
<1>2. (\A a \in most : h[a] <= f[a]) /\ (\A a \in most : h[a] = d)
  <2>1. \A a \in most : Slice(buffer, X, a) \in Int
    BY SliceWhole
  <2> QED BY <2>1
<1>3. IsFiniteSet(most) /\ Cardinality(most) = Window /\ Window \in Nat
  <2>1. IsFiniteSet(all) /\ Cardinality(all) = Depth /\ b \in all
    BY Constants
  <2>2. IsFiniteSet(most) /\ Cardinality(most) = Cardinality(all) - 1
    <3> HIDE DEF all
    <3> QED BY <2>1, FS_RemoveElement
  <2> QED BY <2>1, <2>2, Constants
<1>4. Pool(buffer, X) = SumOn(f, all) /\ most \in SUBSET all
  BY PoolSliced
<1> HIDE DEF f, h, all, most
<1>5. SumOn(h, most) <= SumOn(f, most) /\ SumOn(f, most) <= SumOn(f, all)
  BY <1>1, <1>2, <1>4, SumMonotone, SumPart
<1>6. SumOn(h, most) = d * Cardinality(most)
  BY <1>2, <1>3, SumConstant
<1>7. SumOn(f, most) \in Int /\ SumOn(f, all) \in Int
  BY <1>1, SumInt
<1> QED BY <1>3, <1>4, <1>5, <1>6, <1>7

\* A fleet that grows, on full windows of one demand, starts what lasts.
LEMMA GrowthStarts ==
  ASSUME FleetOK, Prudent, demand \in Nat, NEW buffer, NEW up \in Nat, NEW down \in Nat,
         NEW since, Windows(buffer, active, up, since),
         Shares(buffer, active, demand, up, down, Depth),
         Count >= MinConnectors, Count < MaxConnectors,
         Decision(buffer, up, down).direction = "up",
         NEW fleet \in SUBSET Slot,
         Cardinality(fleet) = Count + Decision(buffer, up, down).count,
         Decision(buffer, up, down).count \in Nat,
         \A a \in 1 .. Depth : Slice(buffer, fleet, a) = Slice(buffer, active, a)
  PROVE  \E d \in Nat : Lasts(buffer, fleet, demand, down, 0, d)
<1> DEFINE d == Lesser(demand, Top * Count)
<1>1. /\ Leveled(buffer) /\ active \in SUBSET Slot /\ Count \in Nat
      /\ Depth \in Nat /\ Depth > 1 /\ Top \in Nat /\ UpCooldown > Depth
      /\ UpCooldown \in Nat /\ DownCooldown \in Nat
  BY ActiveFinite, Constants, PolicyAssumption DEF Windows, FleetOK, Prudent, Depth
<1>2. up = 0
  BY GrowthIsCooled
<1>3. \A c \in active : Full(buffer, c)
  <2> SUFFICES ASSUME NEW c \in active, up + Len(buffer[c]) >= UpCooldown PROVE FALSE
    BY DEF Windows
  <2>1. Len(buffer[c]) \in 0 .. Depth
    BY <1>1, LeveledSeq
  <2> QED BY <1>1, <1>2, <2>1
<1>4. Top * Count \in Nat /\ d \in Nat
  BY <1>1 DEF Lesser
<1>5. \A a \in 1 .. Depth : Slice(buffer, active, a) <= d
  <2> SUFFICES ASSUME NEW a \in 1 .. Depth PROVE Slice(buffer, active, a) <= d
    OBVIOUS
  <2>1. Slice(buffer, active, a) <= demand
    BY <1>1 DEF Shares
  <2>2. Slice(buffer, active, a) <= Top * Count
    BY <1>1, SliceBound DEF Count
  <2> QED BY <2>1, <2>2 DEF Lesser
<1>6. d <= Lesser(demand, Top * Cardinality(fleet))
  <2>1. Count * Top <= Cardinality(fleet) * Top
    BY <1>1, ScaledAtMost
  <2>2. Top * Count = Count * Top /\ Top * Cardinality(fleet) = Cardinality(fleet) * Top
        /\ Top * Cardinality(fleet) \in Nat
    BY <1>1
  <2> HIDE DEF d
  <2> QED BY <1>4, <2>1, <2>2 DEF d, Lesser
<1>7. ASSUME NEW a \in 1 .. Depth, a < 0 \/ 0 + down + Depth <= DownCooldown
      PROVE  Slice(buffer, fleet, a) >= d
  <2>1. a <= Depth /\ a + up < UpCooldown /\ a + down <= DownCooldown
    BY <1>1, <1>2, <1>7
  <2>2. Slice(buffer, active, a) = Lesser(demand, Top * Cardinality(active))
    BY <2>1 DEF Shares
  <2>3. Slice(buffer, fleet, a) = d
    BY <2>2 DEF Count
  <2> QED BY <1>4, <2>3
<1> HIDE DEF d
<1>8. Pool(buffer, active) <= Depth * d
  BY <1>1, <1>4, <1>5, PoolAtMost
<1>9. Window * d > Low * (Cardinality(fleet) * Depth)
  BY <1>1, <1>3, <1>4, <1>8, HotGrowth
<1> QED BY <1>4, <1>6, <1>7, <1>9 DEF Lasts

\* Under the demand it grew for, a fleet does not shrink.
LEMMA NoShrink ==
  ASSUME FleetOK, Prudent, NEW buffer, Leveled(buffer), NEW up \in Nat, NEW down \in Nat,
         Count >= MinConnectors, Decision(buffer, up, down).direction = "down",
         NEW since \in 1 .. Depth, NEW d \in Nat,
         Lasts(buffer, active, demand, down, since, d)
  PROVE  FALSE
<1>1. active \in SUBSET Slot /\ Count \in Nat /\ Depth = Window + 1 /\ Window \in Nat
      /\ Low \in Nat /\ DownCooldown \in Nat /\ Depth \in Nat
  BY ActiveFinite, Constants, PolicyAssumption DEF FleetOK
<1>2. down = 0 /\ DownCooldown > 2 * Window /\ Agg = "avg"
  BY DecisionReads DEF Prudent
<1>3. \A a \in 1 .. Depth : a # since => Slice(buffer, active, a) >= d
  <2> SUFFICES ASSUME NEW a \in 1 .. Depth, a # since PROVE Slice(buffer, active, a) >= d
    OBVIOUS
  <2>1. a < since \/ since + down + Depth <= DownCooldown
    BY <1>1, <1>2
  <2> QED BY <2>1 DEF Lasts
<1>4. Pool(buffer, active) >= Window * d
  BY <1>1, <1>3, PoolAtLeast
<1>5. Pool(buffer, active) <= Low * (Count * Depth)
  BY <1>2, ColdShrink
<1>6. Window * d > Low * (Count * Depth)
  BY DEF Lasts, Count
<1>7. Pool(buffer, active) \in Int /\ Window * d \in Nat /\ Low * (Count * Depth) \in Nat
  <2>1. Pool(buffer, active) \in Int
    BY <1>1, PoolWhole
  <2>2. Window * d \in Nat /\ Count * Depth \in Nat
    BY <1>1
  <2> QED BY <1>1, <2>1, <2>2
<1> QED BY <1>4, <1>5, <1>6, <1>7

LEMMA CycleFlap ==
  ASSUME FlapInv, Prudent, Cycle
  PROVE  FlapInv' /\ (Cardinality(active') < Count => ~grown)
<1> DEFINE up    == CooldownRemaining(upLeft, 1)
           down  == CooldownRemaining(downLeft, 1)
           since == Saturating(sinceUp)
<1>1. PICK reading \in Collected :
        /\ steady' = Saturating(steady) /\ demand' = demand
        /\ \/ /\ Decision(Ingest(reading), up, down).direction = "up"
              /\ \E new \in kSubset(Decision(Ingest(reading), up, down).count, Slot \ active) :
                   active' = active \cup new
              /\ samples' = Ingest(reading)
              /\ upLeft' = UpCooldown /\ downLeft' = down /\ sinceUp' = 0
              /\ grown' = (grown \/ (steady > Window /\ Cardinality(active) >= MinConnectors))
           \/ /\ Decision(Ingest(reading), up, down).direction = "down"
              /\ \E old \in kSubset(Decision(Ingest(reading), up, down).count, active) :
                   /\ active' = active \ old
                   /\ samples' = [c \in Slot |-> IF c \in old THEN << >> ELSE Ingest(reading)[c]]
              /\ upLeft' = up /\ downLeft' = DownCooldown /\ sinceUp' = since /\ grown' = grown
           \/ /\ Decision(Ingest(reading), up, down).direction = "none"
              /\ samples' = Ingest(reading) /\ active' = active
              /\ upLeft' = up /\ downLeft' = down /\ sinceUp' = since /\ grown' = grown
  BY Zenon DEF Cycle
<1> DEFINE buffer   == Ingest(reading)
           decision == Decision(buffer, up, down)
<1>2. BoundsInv' /\ PaceInv'
  BY CycleBounds, CyclePace DEF FlapInv
<1>3. /\ up \in Nat /\ down \in Nat
      /\ since \in 1 .. Depth /\ Saturating(steady) \in 1 .. Depth
      /\ steady = Depth => Saturating(steady) = Depth
  BY FlapParts, SaturatingAge, CooldownTick
<1>4. Windows(buffer, active, up, since)
  BY CycleWindows
<1>5. Shares(buffer, active, demand, up, down, Saturating(steady))
  BY CycleShares
<1>6. grown => /\ steady = Depth /\ Count >= MinConnectors
               /\ \E d \in Nat : Lasts(buffer, active, demand, down, since, d)
  <2> SUFFICES ASSUME grown
               PROVE  /\ steady = Depth /\ Count >= MinConnectors
                      /\ \E d \in Nat : Lasts(buffer, active, demand, down, since, d)
    OBVIOUS
  <2>1. PICK d \in Nat : steady = Depth /\ Lasts(samples, active, demand, downLeft, sinceUp, d)
    BY FlapParts DEF LoadInv
  <2>2. Lasts(buffer, active, demand, down, since, d)
    BY <2>1, CycleLasts
  <2>3. Count >= MinConnectors
    BY <2>1, FlapParts, Constants DEF BoundsInv, BoundsHold
  <2> QED BY <2>1, <2>2, <2>3
<1>7. Leveled(buffer)
  BY <1>4 DEF Windows
<1> HIDE DEF up, down, since, buffer
<1>8. CASE decision.direction = "up"
  <2>1. PICK new \in kSubset(decision.count, Slot \ active) : active' = active \cup new
    BY <1>1, <1>8 DEF buffer
  <2>2. /\ samples' = buffer /\ upLeft' = UpCooldown /\ downLeft' = down /\ sinceUp' = 0
        /\ steady' = Saturating(steady) /\ demand' = demand
        /\ grown' = (grown \/ (steady > Window /\ Count >= MinConnectors))
    BY <1>1, <1>8 DEF buffer, Count
  <2>3. decision.count \in Nat /\ new \subseteq Slot \ active
        /\ Count + decision.count <= MaxConnectors
    BY <1>3, <1>8, <2>1, FlapParts, DecisionInBounds DEF kSubset
  <2>4. Cardinality(active') = Count + decision.count
    BY <2>1, <2>3, FlapParts, GrownBy
  <2>5. \A a \in 1 .. Depth : Slice(buffer, active', a) = Slice(buffer, active, a)
    <3>1. active \in SUBSET Slot /\ new \in SUBSET Slot /\ active \cap new = {}
      BY <2>3, FlapParts
    <3>2. \A c \in new : buffer[c] = << >>
      BY <1>4, <2>3 DEF Windows
    <3> QED BY <1>7, <2>1, <3>1, <3>2, SliceGrown
  <2>6. active' \in SUBSET Slot
    BY <2>1, <2>3, FlapParts
  <2>7. Windows(samples', active', upLeft', sinceUp')
    <3>1. \A c \in Slot : Len(buffer[c]) \in Nat
      BY <1>7, LeveledSeq, Constants
    <3>2. \A c \in Slot \ active' : buffer[c] = << >>
      BY <1>4, <2>1 DEF Windows
    <3>3. \A c \in active' : /\ Len(buffer[c]) >= 0 /\ UpCooldown + Len(buffer[c]) >= UpCooldown
                             /\ \A i \in 2 .. Len(buffer[c]) : buffer[c][i] # NoReading
      <4> SUFFICES ASSUME NEW c \in active'
                   PROVE  /\ Len(buffer[c]) >= 0 /\ UpCooldown + Len(buffer[c]) >= UpCooldown
                          /\ \A i \in 2 .. Len(buffer[c]) : buffer[c][i] # NoReading
        OBVIOUS
      <4>1. Len(buffer[c]) \in Nat /\ UpCooldown \in Nat
        BY <2>6, <3>1, FlapParts
      <4>2. c \in active \/ c \in new
        BY <2>1
      <4>3. CASE c \in active
        BY <1>4, <4>1, <4>3 DEF Windows
      <4>4. CASE c \in new
        <5>1. buffer[c] = << >>
          BY <1>4, <2>3, <4>4 DEF Windows
        <5> QED BY <4>1, <5>1
      <4> QED BY <4>2, <4>3, <4>4
    <3> QED BY <1>7, <2>2, <3>2, <3>3 DEF Windows
  <2>8. Shares(samples', active', demand', upLeft', downLeft', steady')
    <3>1. \A a \in 1 .. Depth : ~(a + UpCooldown < UpCooldown)
      BY FlapParts, Constants
    <3>2. \A a \in 1 .. Depth : a <= Saturating(steady) => Slice(buffer, active, a) <= demand
      BY <1>5 DEF Shares
    <3> QED BY <2>2, <2>5, <3>1, <3>2 DEF Shares
  <2>9. ASSUME grown'
        PROVE  steady' = Depth /\ \E d \in Nat : Lasts(buffer, active', demand, down, 0, d)
    <3>1. steady = Depth /\ Count >= MinConnectors
      <4>1. grown \/ (steady > Window /\ Count >= MinConnectors)
        BY <2>2, <2>9
      <4>2. steady > Window => steady = Depth
        BY FlapParts, Constants
      <4> QED BY <1>6, <4>1, <4>2
    <3>2. decision.count = ScaleUpCount(Policy, Count) /\ ScaleUpCount(Policy, Count) # 0
      BY <1>3, <1>8, <3>1, FlapParts, DecisionReads
    <3>3. Count < MaxConnectors
      BY <2>3, <3>2, FlapParts
    <3>4. Shares(buffer, active, demand, up, down, Depth)
      BY <1>3, <1>5, <3>1
    <3>5. \E d \in Nat : Lasts(buffer, active', demand, down, 0, d)
      BY <1>3, <1>4, <1>8, <2>3, <2>4, <2>5, <2>6, <3>1, <3>3, <3>4, FlapParts, GrowthStarts
    <3> QED BY <1>3, <2>2, <3>1, <3>5
  <2>10. LoadInv'
    BY <2>2, <2>7, <2>8, <2>9 DEF LoadInv
  <2>11. ~(Cardinality(active') < Count)
    BY <2>3, <2>4, FlapParts
  <2>12. grown' \in BOOLEAN /\ demand' \in Nat
    BY <2>2, FlapParts
  <2> QED BY <1>2, <2>10, <2>11, <2>12 DEF FlapInv
<1>9. CASE decision.direction = "down"
  <2>1. PICK old \in kSubset(decision.count, active) :
          /\ active' = active \ old
          /\ samples' = [c \in Slot |-> IF c \in old THEN << >> ELSE buffer[c]]
    BY <1>1, <1>9 DEF buffer
  <2>2. /\ upLeft' = up /\ downLeft' = DownCooldown /\ sinceUp' = since /\ grown' = grown
        /\ steady' = Saturating(steady) /\ demand' = demand
    BY <1>1, <1>9 DEF buffer
  <2>3. old \in SUBSET Slot /\ old \in SUBSET active
    BY <2>1, FlapParts DEF kSubset
  <2>4. ~grown
    <3> SUFFICES ASSUME grown PROVE FALSE
      OBVIOUS
    <3>1. PICK d \in Nat : Lasts(buffer, active, demand, down, since, d)
      BY <1>6
    <3>2. Count >= MinConnectors
      BY <1>6
    <3> QED BY <1>3, <1>7, <1>9, <3>1, <3>2, FlapParts, NoShrink
  <2>5. Windows(samples', active', upLeft', sinceUp')
    <3>1. Windows(samples', active \ old, up, since)
      BY <1>4, <2>1, <2>3, FlapParts, WindowsShrunk
    <3> QED BY <2>1, <2>2, <3>1
  <2>6. Shares(samples', active', demand', upLeft', downLeft', steady')
    <3> SUFFICES ASSUME NEW a \in 1 .. Depth, a <= steady'
                 PROVE  /\ Slice(samples', active', a) <= demand
                        /\ ~(a + DownCooldown <= DownCooldown)
      BY <2>2 DEF Shares
    <3>1. Slice(buffer, active, a) <= demand
      BY <1>5, <2>2 DEF Shares
    <3>2. active' \in SUBSET active /\ active \in SUBSET Slot /\ \A c \in active' : samples'[c] = buffer[c]
      BY <2>1, FlapParts
    <3>3. Slice(samples', active', a) <= Slice(buffer, active, a)
      BY <1>7, <3>2, SliceShrunk
    <3>4. Slice(samples', active', a) \in Int /\ Slice(buffer, active, a) \in Int
      <4>1. Leveled(samples') /\ active' \in SUBSET Slot
        BY <2>5, <3>2 DEF Windows
      <4> QED BY <1>7, <3>2, <4>1, SliceWhole
    <3> QED BY <3>1, <3>3, <3>4, FlapParts, Constants
  <2>7. LoadInv'
    BY <2>2, <2>4, <2>5, <2>6 DEF LoadInv
  <2>8. grown' \in BOOLEAN /\ demand' \in Nat
    BY <2>2, FlapParts
  <2> QED BY <1>2, <2>4, <2>7, <2>8 DEF FlapInv
<1>10. CASE decision.direction = "none"
  <2>1. /\ samples' = buffer /\ active' = active
        /\ upLeft' = up /\ downLeft' = down /\ sinceUp' = since /\ grown' = grown
        /\ steady' = Saturating(steady) /\ demand' = demand
    BY <1>1, <1>10 DEF buffer
  <2>2. ~(Cardinality(active') < Count)
    BY <2>1, FlapParts DEF Count
  <2>3. LoadInv'
    BY <1>3, <1>4, <1>5, <1>6, <2>1 DEF LoadInv
  <2>4. grown' \in BOOLEAN /\ demand' \in Nat
    BY <2>1, FlapParts
  <2> QED BY <1>2, <2>2, <2>3, <2>4 DEF FlapInv
<1> QED BY <1>1, <1>8, <1>9, <1>10 DEF buffer

\* Capacity added for a demand, on readings of that demand alone, is not removed
\* again while the demand lasts: for every trigger mode, quorum, step and window
\* of a prudent policy, however the demand spreads over the fleet, and although
\* a new Connector is in use for a cycle before it is read.
THEOREM GrowthLasts == Spec => NoFlapping
<1> DEFINE Kept == Prudent /\ Cardinality(active') < Count => ~grown \/ steady' = 0
<1>1. NoFlapping <=> [][Kept]_vars
  BY DEF NoFlapping
<1>2. Prudent \in BOOLEAN
  BY DEF Prudent, WatermarksApart
<1>3. CASE Prudent
  <2>1. FlapInv /\ [Next]_vars => FlapInv'
    <3> SUFFICES ASSUME FlapInv, [Next]_vars PROVE FlapInv'
      OBVIOUS
    <3>1. CASE Cycle
      BY <1>3, <3>1, CycleFlap
    <3>2. CASE DemandChanges \/ ConnectorLost
      BY <3>2, DisturbedFlap
    <3>3. CASE UNCHANGED vars
      BY <3>3 DEF vars, FlapInv, BoundsInv, BoundsHold, PaceInv, FleetOK, LoadInv, Count
    <3> QED BY <3>1, <3>2, <3>3 DEF Next
  <2>2. FlapInv /\ [Next]_vars => [Kept]_vars
    <3> SUFFICES ASSUME FlapInv, Next PROVE Kept
      BY DEF vars
    <3>1. CASE Cycle
      BY <1>3, <3>1, CycleFlap
    <3>2. CASE DemandChanges \/ ConnectorLost
      BY <3>2 DEF DemandChanges, ConnectorLost
    <3> QED BY <3>1, <3>2 DEF Next
  <2> HIDE DEF Kept
  <2> QED BY <1>1, <2>1, <2>2, InitFlap, PTL DEF Spec
<1>4. CASE ~Prudent
  <2>1. [Next]_vars => [Kept]_vars
    BY <1>4
  <2> HIDE DEF Kept
  <2> QED BY <1>1, <2>1, PTL DEF Spec
<1> QED BY <1>2, <1>3, <1>4
=============================================================================
