------------------------------ MODULE Autoscaler ------------------------------
(***************************************************************************)
(* The scale decision in closed loop with the load it reacts to: collect,  *)
(* aggregate over the sliding window, decide_scale, act, cool down.        *)
(* Actuation is ideal (FleetLoop has its failures); what is left is the    *)
(* control behaviour: bounds, over-reaction to stale samples, flapping.    *)
(*                                                                         *)
(* One tick is one poll interval.  The CPU signal is modelled, throughput  *)
(* is absent (None).  The tenant's demand is the sum of the CPU levels of  *)
(* the fleet, spread over it in any way, as traffic sticks to Connectors.  *)
(***************************************************************************)
EXTENDS Decider, Sequences, FiniteSetsExt

CONSTANTS
  Slot,                 \* pool of connector ids
  MinConnectors, MaxConnectors, ScaleStep,
  Trigger,              \* scale_up_trigger: "mean", "any" or "quorum"
  QuorumNum, QuorumDen, \* quorum_fraction
  High, Low,            \* cpu.high_pct, cpu.low_pct, in levels
  Top,                  \* the highest CPU level
  Window,               \* cpu.window_seconds, in ticks
  Agg,                  \* cpu.agg: "avg" or "min"
  UpCooldown, DownCooldown,
  Demands,              \* the demands the tenant may have
  MayMiss               \* reads of a container may fail

\* What config.py validates.
ASSUME PolicyAssumption ==
  /\ MinConnectors \in Nat /\ MinConnectors >= 2
  /\ MaxConnectors \in Nat /\ MaxConnectors >= MinConnectors
  /\ ScaleStep \in Nat \ {0}
  /\ Trigger \in {"mean", "any", "quorum"}
  /\ QuorumDen \in Nat \ {0} /\ QuorumNum \in 1 .. QuorumDen
  /\ High \in Nat /\ Low \in Nat /\ Low < High
  /\ Window \in Nat \ {0}
  /\ Agg \in {"avg", "min"}
  /\ UpCooldown \in Nat /\ DownCooldown \in Nat

ASSUME ModelAssumption ==
  /\ IsFiniteSet(Slot) /\ Cardinality(Slot) >= MaxConnectors
  /\ Top \in Nat /\ High <= Top
  /\ Demands \subseteq Nat /\ Demands # {}
  /\ MayMiss \in BOOLEAN

VARIABLES
  active,    \* the running Connectors
  samples,   \* the Aggregator's buffer: readings inside the window, oldest first
  upLeft,    \* what is left of the scale-up cooldown
  downLeft,  \* what is left of the scale-down cooldown
  demand,    \* the load the tenant offers
  \* history, read by the properties only
  steady,    \* cycles since the demand changed, up to Window + 1
  sinceUp,   \* cycles since the last scale-up, up to Window + 1
  grown      \* a scale-up was made on samples of the present demand

vars == <<active, samples, upLeft, downLeft, demand, steady, sinceUp, grown>>

-----------------------------------------------------------------------------
Policy == [min |-> MinConnectors, max |-> MaxConnectors, step |-> ScaleStep,
           trigger |-> Trigger, quorumNum |-> QuorumNum, quorumDen |-> QuorumDen,
           cpuHigh |-> High, cpuLow |-> Low, tputHigh |-> 1, tputLow |-> 0]

NoReading == -1
Absent    == [sum |-> 0, n |-> 0]
Saturating(age) == Lesser(age + 1, Window + 1)

\* The ways the demand may show up as levels; an overload saturates.
Spreads ==
  {s \in [active -> 0 .. Top] :
     MapThenSumSet(LAMBDA c : s[c], active) = Lesser(demand, Top * Cardinality(active))}

\* The Connectors docker_stats has not read yet: it has no CPU for them (_prev).
Unread == {c \in active : samples[c] = << >>}

\* What docker_stats returns: a reading for every other Connector whose read
\* does not fail.  One whose first read has failed is unread for longer: then it
\* is among the failed again.
Collected ==
  {[c \in active |-> IF c \in Unread \cup failed THEN NoReading ELSE s[c]] :
     s \in Spreads, failed \in IF MayMiss THEN SUBSET active ELSE {{}}}

\* Seeded bug: the window reaches one sample too far back.
IngestLonger(reading) ==
  [c \in Slot |->
     IF c \notin active THEN << >>
     ELSE LET kept == Append(samples[c], reading[c])
          IN  SubSeq(kept, IF Len(kept) > Window + 2 THEN 2 ELSE 1, Len(kept))]

\* ingest, and the window's cutoff (ts >= now - window: Window + 1 ticks).
Ingest(reading) ==
  [c \in Slot |->
     IF c \notin active THEN << >>
     ELSE LET kept == Append(samples[c], reading[c])
          IN  SubSeq(kept, IF Len(kept) > Window + 1 THEN 2 ELSE 1, Len(kept))]

\* The places in the buffer whose samples carry the signal.
Carrying(buffer, cs) ==
  {at \in UNION {{c} \X DOMAIN buffer[c] : c \in cs} : buffer[at[1]][at[2]] # NoReading}

\* reduce_values over the pooled in-window readings of the Connectors cs.
Reduce(buffer, cs) ==
  LET places    == Carrying(buffer, cs)
      Value(at) == buffer[at[1]][at[2]]
  IN  CASE places = {} -> Absent
        [] places # {} /\ Agg = "avg" ->
             [sum |-> MapThenSumSet(Value, places), n |-> Cardinality(places)]
        [] places # {} /\ Agg = "min" ->
             [sum |-> Min({Value(at) : at \in places}), n |-> 1]

\* decide_scale over the reduced fleet value and the per-connector ones.
Decision(buffer, up, down) ==
  DecideScale(Policy, Cardinality(active),
              Reduce(buffer, active), Absent,
              [c \in active |-> Reduce(buffer, {c})], [c \in active |-> Absent],
              up, down, FALSE)

Init ==
  /\ active = {}
  /\ samples = [c \in Slot |-> << >>]
  /\ upLeft = 0 /\ downLeft = 0
  /\ demand \in Demands
  /\ steady = 0 /\ sinceUp = Window + 1 /\ grown = FALSE

\* One cycle of run_cycle, one tick after the last.
Cycle ==
  \E reading \in Collected :
    LET up       == CooldownRemaining(upLeft, 1)
        down     == CooldownRemaining(downLeft, 1)
        buffer   == Ingest(reading)
        decision == Decision(buffer, up, down)
        n        == decision.count
    IN  /\ steady' = Saturating(steady)
        /\ UNCHANGED demand
        /\ \/ /\ decision.direction = "up"
              /\ \E new \in kSubset(n, Slot \ active) : active' = active \cup new
              /\ samples' = buffer
              /\ upLeft' = UpCooldown /\ downLeft' = down
              /\ sinceUp' = 0
              /\ grown' = (grown \/ (steady > Window /\ Cardinality(active) >= MinConnectors))
           \/ /\ decision.direction = "down"
              /\ \E old \in kSubset(n, active) :
                   /\ active' = active \ old
                   /\ samples' = [c \in Slot |-> IF c \in old THEN << >> ELSE buffer[c]]
              /\ upLeft' = up /\ downLeft' = DownCooldown
              /\ sinceUp' = Saturating(sinceUp)
              /\ UNCHANGED grown
           \/ /\ decision.direction = "none"
              /\ samples' = buffer
              /\ upLeft' = up /\ downLeft' = down
              /\ sinceUp' = Saturating(sinceUp)
              /\ UNCHANGED <<active, grown>>

\* The load on the tenant changes.
DemandChanges ==
  /\ demand' \in Demands \ {demand}
  /\ steady' = 0
  /\ grown' = FALSE
  /\ UNCHANGED <<active, samples, upLeft, downLeft, sinceUp>>

\* A Connector disappears (crashed host, removed by hand).
ConnectorLost ==
  /\ Cardinality(active) = MinConnectors
  /\ \E c \in active : /\ active' = active \ {c}
                       /\ samples' = [samples EXCEPT ![c] = << >>]
  /\ steady' = 0
  /\ grown' = FALSE
  /\ UNCHANGED <<upLeft, downLeft, demand, sinceUp>>

Next == Cycle \/ DemandChanges \/ ConnectorLost

Spec == Init /\ [][Next]_vars

\* The poll interval expires again and again.
FairSpec == Spec /\ WF_vars(Cycle)

-----------------------------------------------------------------------------
Count == Cardinality(active)

TypeOK ==
  /\ active \in SUBSET Slot
  /\ samples \in [Slot -> Seq(0 .. Top \cup {NoReading})]
  /\ \A c \in Slot : Len(samples[c]) <= Window + 1
  /\ upLeft \in 0 .. UpCooldown
  /\ downLeft \in 0 .. DownCooldown
  /\ demand \in Demands
  /\ steady \in 0 .. Window + 1
  /\ sinceUp \in 0 .. Window + 1
  /\ grown \in BOOLEAN

\* The fleet never exceeds max_connectors, and no decision takes it below
\* min_connectors or leaves it there: one cycle restores the floor.
BoundsHold ==
  /\ Count <= MaxConnectors
  /\ steady > 0 => Count >= MinConnectors

\* With a scale-up cooldown longer than the window, a load-driven scale-up
\* judges the present fleet: no sample in the window is from before the previous
\* scale-up.  With one longer by another cycle it judges all of that fleet: none
\* is from the cycle in which the Connectors added last gave no reading.
FreshEvidence ==
  [][/\ Cardinality(active') > Count
     /\ Count >= MinConnectors
     => /\ UpCooldown > Window     => sinceUp >= Window
        /\ UpCooldown > Window + 1 => sinceUp > Window]_vars

\* From every size a scale-up may start at, the load that triggers it stays
\* above the low watermark on the grown fleet, seen in all cycles of the window
\* but one: in the first after the scale-up the new Connectors give no reading.
WatermarksApart ==
  \A n \in MinConnectors .. MaxConnectors - 1 :
    LET hot == CASE Trigger = "mean" -> n
                 [] Trigger = "any" -> 1
                 [] Trigger = "quorum" -> QuorumThreshold(Policy, n)
    IN  High * hot * Window > Low * (n + ScaleUpCount(Policy, n)) * (Window + 1)

\* Readings are averaged and no read fails.  A scale-up waits until the window
\* holds readings of the whole fleet only, and a scale-down is rare enough for
\* the readings that went with the removed Connectors to be forgotten.
Prudent ==
  /\ Agg = "avg" /\ ~MayMiss
  /\ UpCooldown > Window + 1
  /\ DownCooldown > 2 * Window
  /\ WatermarksApart

\* Capacity added for a demand is not removed again while that demand lasts,
\* under a prudent policy, although the new Connectors may take over the load
\* before they are read for the first time (docker_stats, _prev).
NoFlapping ==
  [][Prudent /\ Cardinality(active') < Count => ~grown \/ steady' = 0]_vars

\* Under a demand that stays, scaling comes to rest.
Settles ==
  <>[](steady = Window + 1) => <>[][active' = active]_vars

\* Under a demand that stays, an overloaded fleet grows until it is no longer
\* over the high watermark on average, or is at its ceiling.
Relieves ==
  <>[](steady = Window + 1) => <>(Count = MaxConnectors \/ demand < High * Count)
=============================================================================
