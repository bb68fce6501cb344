---------------------------- MODULE FleetLoopProofs ----------------------------
(***************************************************************************)
(* Proofs about FleetLoop, for every pool of connector ids, every policy   *)
(* config.py accepts, every set of commands and failures and every bound   *)
(* on their number.                                                        *)
(***************************************************************************)
EXTENDS FleetLoop, DeciderProofs

(***************************************************************************)
(* What TypeOK and ActionsSerialized lean on: an idle job is blank, a      *)
(* provision under way has an id, a restart is planned only for a          *)
(* Connector that has one left, and the holder of the lock is who it says. *)
(***************************************************************************)
JobOK ==
  /\ job.stage = "idle" => job.step = "none" /\ job.target = NoCid
  /\ job.step # "none" => job.fresh \in Cid
  /\ job.stage = "health" =>
       \A c \in job.todo \ job.replace : restarts[c] < MaxRestarts

\* The inductive invariant.
IInv == TypeOK /\ JobOK /\ DrainingIsUnrouted /\ ActionsSerialized

-----------------------------------------------------------------------------
\* The pool is finite, so every set of Connectors is, and the fleet has a size.
LEMMA FleetFinite ==
  ASSUME TypeOK
  PROVE  /\ IsFiniteSet(Fleet) /\ Cardinality(Fleet) \in Nat
         /\ IsFiniteSet(containers) /\ Cardinality(containers) \in Nat
<1>1. Fleet \subseteq Cid /\ containers \subseteq Cid
  BY DEF TypeOK, Fleet
<1> QED
  BY <1>1, ModelAssumption, FS_Subset, FS_CardinalityType

LEMMA PolicyBounds == BoundsOK(Policy)
BY PolicyAssumption DEF BoundsOK, Policy

\* What decide_scale decides about the fleet.
LEMMA VerdictsOK ==
  ASSUME TypeOK, NEW v \in Verdicts
  PROVE  /\ v.direction \in {"up", "down", "none"}
         /\ v.count \in Nat
         /\ v.direction = "up" => v.count > 0 /\ Cardinality(Fleet) + v.count <= Max
         /\ v.direction = "down" => v.count > 0 /\ Cardinality(Fleet) - v.count >= Min
<1>1. PICK load \in {"high", "low", "normal"} :
        v = ScaleVerdict(Policy, Cardinality(Fleet), load = "high", load = "low",
                         upLeft, downLeft, PendingOld # {})
  BY DEF Verdicts
<1>2. upLeft \in Nat /\ downLeft \in Nat
  BY PolicyAssumption DEF TypeOK
<1>3. Cardinality(Fleet) \in Nat
  BY FleetFinite
<1>4. Policy.min = Min /\ Policy.max = Max
  BY DEF Policy
<1> DEFINE high    == load = "high"
           low     == load = "low"
           replace == PendingOld # {}
<1>5. high \in BOOLEAN /\ low \in BOOLEAN /\ replace \in BOOLEAN
  OBVIOUS
<1>6. v = ScaleVerdict(Policy, Cardinality(Fleet), high, low, upLeft, downLeft, replace)
  BY <1>1
<1> HIDE DEF high, low, replace
<1>7. VerdictProper(Policy, Cardinality(Fleet), v)
  BY <1>2, <1>3, <1>5, <1>6, PolicyBounds, VerdictInBounds
<1> QED
  BY <1>4, <1>7 DEF VerdictProper

LEMMA DiscoveriesType ==
  ASSUME NEW found \in Discoveries
  PROVE  found \in [Cid -> Reading \cup {"absent"}]
BY DEF Discoveries

LEMMA AgesType ==
  ASSUME TypeOK, NEW found \in Discoveries
  PROVE  /\ FirstSeen(found) \in [Cid -> {Untracked} \cup 0 .. StartupGrace]
         /\ FirstUnhealthy(found) \in [Cid -> {Untracked} \cup 0 .. UnhealthyThreshold]
<1> USE PolicyAssumption DEF Untracked
<1>1. FirstSeen(found) \in [Cid -> {Untracked} \cup 0 .. StartupGrace]
  BY DEF TypeOK, FirstSeen
<1>2. FirstUnhealthy(found) \in [Cid -> {Untracked} \cup 0 .. UnhealthyThreshold]
  BY DEF TypeOK, FirstUnhealthy
<1> QED BY <1>1, <1>2

-----------------------------------------------------------------------------
LEMMA InitIInv == Init => IInv
<1> SUFFICES ASSUME Init PROVE IInv
  OBVIOUS
<1>1. TypeOK
  <2>1. job \in JobType
    BY DEF Init, JobType, IdleJob, NoView
  <2>2. override \in [kind : {"none"} \cup CommandKinds, arg : Cid \cup {NoCid}]
    BY DEF Init, NoOverride
  <2>3. /\ upLeft \in 0 .. UpCooldown /\ downLeft \in 0 .. DownCooldown
        /\ faults \in 0 .. MaxFaults
    BY PolicyAssumption, ModelAssumption DEF Init
  <2>4. /\ restarts \in [Cid -> 0 .. MaxRestarts]
        /\ seenFor \in [Cid -> {Untracked} \cup 0 .. StartupGrace]
        /\ unhealthyFor \in [Cid -> {Untracked} \cup 0 .. UnhealthyThreshold]
        /\ pendingNew \in [Cid -> Cid \cup {NoCid}]
        /\ pendingFor \in [Cid -> 0 .. ReplaceTimeout]
        /\ drain \in [Cid -> {"none", "grace", "stop", "record"}]
    BY PolicyAssumption DEF Init
  <2> QED BY <2>1, <2>2, <2>3, <2>4 DEF Init, TypeOK
<1>2. JobOK
  BY DEF Init, JobOK, IdleJob
<1>3. DrainingIsUnrouted
  BY DEF Init, DrainingIsUnrouted
<1>4. ActionsSerialized
  BY DEF Init, ActionsSerialized, IdleJob
<1> QED
  BY <1>1, <1>2, <1>3, <1>4 DEF IInv

LEMMA BeginCycleTypes ==
  ASSUME IInv, BeginCycle PROVE TypeOK' /\ JobOK'
<1>1. PICK found \in Discoveries, verdict \in Verdicts :
        LET start == [IdleJob EXCEPT !.view = ExcludeDraining(found)]
        IN  /\ seenFor' = FirstSeen(found)
            /\ unhealthyFor' = FirstUnhealthy(found)
            /\ \/ /\ verdict.direction = "up"
                  /\ job' = [start EXCEPT !.stage = "scale_up", !.left = verdict.count]
               \/ /\ verdict.direction = "down"
                  /\ \E v \in PickVictims(Eligible(seenFor'), verdict.count) :
                       job' = [start EXCEPT !.stage = "scale_down", !.todo = v]
               \/ /\ verdict.direction = "none"
                  /\ job' = [start EXCEPT !.stage = "pending", !.todo = PendingOld]
  BY DEF BeginCycle
<1>2. TypeOK
  BY DEF IInv
<1>3. ExcludeDraining(found) \in [Cid -> Reading \cup {"absent"}]
  BY DiscoveriesType DEF ExcludeDraining
<1>4. /\ seenFor' \in [Cid -> {Untracked} \cup 0 .. StartupGrace]
      /\ unhealthyFor' \in [Cid -> {Untracked} \cup 0 .. UnhealthyThreshold]
  BY <1>1, <1>2, AgesType
<1>5. verdict.count \in Nat
  BY <1>2, VerdictsOK
<1>6. \A v \in PickVictims(Eligible(seenFor'), verdict.count) : v \subseteq Cid
  BY <1>2 DEF PickVictims, Eligible, Fleet, TypeOK
<1>7. PendingOld \subseteq Cid
  BY DEF PendingOld
<1>8. /\ job'.stage \in {"scale_up", "scale_down", "pending"}
      /\ job' \in JobType
      /\ job'.step = "none"
  <2> HIDE DEF Reading
  <2> DEFINE view == ExcludeDraining(found)
             Start(stage, todo, left) ==
               [stage |-> stage, view |-> view, todo |-> todo, replace |-> {},
                left |-> left, acted |-> FALSE, target |-> NoCid,
                step |-> "none", fresh |-> NoCid]
  <2>1. CASE verdict.direction = "up"
    <3>1. job' = Start("scale_up", {}, verdict.count)
      BY <1>1, <2>1 DEF IdleJob
    <3> QED BY <3>1, <1>3, <1>5 DEF CycleStages, JobType
  <2>2. CASE verdict.direction = "down"
    <3>1. PICK v \in PickVictims(Eligible(seenFor'), verdict.count) :
            job' = Start("scale_down", v, 0)
      BY <1>1, <2>2 DEF IdleJob
    <3> QED BY <3>1, <1>3, <1>6 DEF CycleStages, JobType
  <2>3. CASE verdict.direction = "none"
    <3>1. job' = Start("pending", PendingOld, 0)
      BY <1>1, <2>3 DEF IdleJob
    <3> QED BY <3>1, <1>3, <1>7 DEF CycleStages, JobType
  <2> QED BY <1>1, <2>1, <2>2, <2>3
<1>9. JobOK'
  BY <1>8 DEF JobOK
<1>10. TypeOK'
  BY <1>2, <1>4, <1>8 DEF TypeOK, BeginCycle, external, durable
<1> QED
  BY <1>9, <1>10

-----------------------------------------------------------------------------
\* The provision steps.
LEMMA UnusedType == Unused \subseteq Cid
BY DEF Unused

LEMMA MintTypes ==
  ASSUME TypeOK, NEW new \in SUBSET Cid, Mint(new)
  PROVE  /\ logical' \in SUBSET Cid
         /\ restarts' \in [Cid -> 0 .. MaxRestarts]
         /\ seenFor' \in [Cid -> {Untracked} \cup 0 .. StartupGrace]
         /\ unhealthyFor' \in [Cid -> {Untracked} \cup 0 .. UnhealthyThreshold]
         /\ \A d \in Cid : restarts'[d] <= restarts[d]
BY PolicyAssumption DEF TypeOK, Mint

\* A provision that ends leaves a job of the right type, blank if it is idle.
LEMMA ProvisionFailedTypes ==
  ASSUME TypeOK, JobOK, ProvisionFailed, job.stage # "idle"
  PROVE  /\ job' \in JobType
         /\ lock' \in {"free", "cycle", "override", "drain"}
         /\ override' \in [kind : {"none"} \cup CommandKinds, arg : Cid \cup {NoCid}]
         /\ job'.stage = "idle" => job'.step = "none" /\ job'.target = NoCid
         /\ job'.step = "none"
         /\ job'.stage = "health" => /\ job.stage = "health"
                                     /\ job'.todo = job.todo
                                     /\ job'.replace = job.replace
<1>1. CASE job.stage \in OverrideStages
  <2>1. job' = IdleJob /\ lock' = "free" /\ override' = NoOverride
    BY <1>1 DEF ProvisionFailed
  <2>2. IdleJob \in JobType
    BY DEF IdleJob, NoView, JobType
  <2> QED BY <2>1, <2>2 DEF IdleJob, NoOverride
<1>2. CASE job.stage \notin OverrideStages
  <2>1. /\ job' = [job EXCEPT !.step = "none", !.fresh = NoCid, !.target = NoCid,
                              !.left = IF @ > 0 THEN @ - 1 ELSE 0]
        /\ UNCHANGED <<lock, override>>
    BY <1>2 DEF ProvisionFailed
  <2> DEFINE rest == IF job.left > 0 THEN job.left - 1 ELSE 0
  <2>2. rest \in Nat /\ job \in JobType
    BY DEF TypeOK, JobType
  <2>3. job' = [job EXCEPT !.step = "none", !.fresh = NoCid, !.target = NoCid,
                           !.left = rest]
    BY <2>1, <2>2 DEF JobType
  <2> HIDE DEF rest
  <2>4. job' \in JobType
    BY <2>2, <2>3 DEF JobType
  <2>5. /\ job'.step = "none" /\ job'.target = NoCid /\ job'.stage = job.stage
        /\ job'.todo = job.todo /\ job'.replace = job.replace
    BY <2>2, <2>3 DEF JobType
  <2> QED BY <2>1, <2>4, <2>5 DEF TypeOK
<1> QED BY <1>1, <1>2

LEMMA WantsProvisionBusy ==
  ASSUME JobOK, WantsProvision PROVE job.stage # "idle"
BY DEF JobOK, WantsProvision

LEMMA ProvisionTypes ==
  ASSUME IInv,
         \/ CreateConnector \/ CreateConnectorFails
         \/ StartContainer \/ StartContainerFails
         \/ RecordProvision
  PROVE  TypeOK' /\ JobOK'
<1> USE DEF IInv
<1>1. CASE CreateConnector
  <2>1. PICK c \in Unused, new \in SUBSET Unused :
          /\ Mint(new)
          /\ job' = [job EXCEPT !.step = "created", !.fresh = c]
    BY <1>1 DEF CreateConnector
  <2>2. c \in Cid /\ new \in SUBSET Cid
    BY UnusedType
  <2>7. UNCHANGED faults \/ ApiFails
    BY <1>1 DEF CreateConnector
  <2>8. faults' \in 0 .. MaxFaults
    BY <2>7, ModelAssumption DEF ApiFails, Fault, TypeOK
  <2>3. job' \in JobType /\ job'.fresh \in Cid /\ job'.stage = job.stage
        /\ job'.todo = job.todo /\ job'.replace = job.replace
    BY <2>1, <2>2 DEF TypeOK, JobType
  <2>4. job.stage # "idle"
    BY <1>1, WantsProvisionBusy DEF CreateConnector
  <2>5. TypeOK'
    BY <1>1, <2>1, <2>2, <2>3, <2>8, MintTypes DEF TypeOK, CreateConnector
  <2>6. JobOK'
    <3>1. \A d \in Cid : restarts'[d] <= restarts[d] /\ restarts[d] \in Nat /\ restarts'[d] \in Nat
      BY <2>1, <2>2, <2>5, MintTypes, PolicyAssumption DEF TypeOK
    <3>2. job.todo \subseteq Cid
      BY DEF TypeOK, JobType
    <3> QED BY <2>3, <2>4, <3>1, <3>2, PolicyAssumption DEF JobOK
  <2> QED BY <2>5, <2>6
<1>2. CASE CreateConnectorFails
  <2>1. job.stage # "idle"
    BY <1>2, WantsProvisionBusy DEF CreateConnectorFails
  <2>2. \/ NoMint
        \/ \E new \in SUBSET Cid : Mint(new)
    BY <1>2, UnusedType DEF CreateConnectorFails
  <2>3. /\ logical' \in SUBSET Cid
        /\ restarts' \in [Cid -> 0 .. MaxRestarts]
        /\ seenFor' \in [Cid -> {Untracked} \cup 0 .. StartupGrace]
        /\ unhealthyFor' \in [Cid -> {Untracked} \cup 0 .. UnhealthyThreshold]
        /\ \A d \in Cid : restarts'[d] <= restarts[d]
    <3>1. CASE NoMint
      BY <3>1, PolicyAssumption DEF NoMint, TypeOK
    <3>2. CASE \E new \in SUBSET Cid : Mint(new)
      BY <3>2, MintTypes
    <3> QED BY <2>2, <3>1, <3>2
  <2>4. faults' \in 0 .. MaxFaults
    BY <1>2, ModelAssumption DEF CreateConnectorFails, ApiFails, Fault, TypeOK
  <2>5. TypeOK'
    BY <1>2, <2>1, <2>3, <2>4, ProvisionFailedTypes DEF TypeOK, CreateConnectorFails
  <2>6. JobOK'
    <3>1. \A d \in Cid : restarts'[d] <= restarts[d] /\ restarts[d] \in Nat /\ restarts'[d] \in Nat
      BY <2>3, PolicyAssumption DEF TypeOK
    <3>2. job.todo \subseteq Cid
      BY DEF TypeOK, JobType
    <3> QED BY <1>2, <2>1, <3>1, <3>2, ProvisionFailedTypes, PolicyAssumption
            DEF JobOK, CreateConnectorFails
  <2> QED BY <2>5, <2>6
<1>3. CASE StartContainer
  <2>1. job.fresh \in Cid
    BY <1>3 DEF JobOK, StartContainer
  <2>2. job' \in JobType /\ job'.fresh = job.fresh /\ job'.stage = job.stage
        /\ job'.todo = job.todo /\ job'.replace = job.replace
    BY <1>3 DEF TypeOK, JobType, StartContainer
  <2>3. TypeOK'
    BY <1>3, <2>1, <2>2 DEF TypeOK, StartContainer, durable, memory
  <2>4. JobOK'
    BY <1>3, <2>1, <2>2 DEF JobOK, StartContainer, durable
  <2> QED BY <2>3, <2>4
<1>4. CASE StartContainerFails
  <2>1. job.fresh \in Cid /\ job.stage # "idle"
    BY <1>4 DEF JobOK, StartContainerFails
  <2>2. containers' \in SUBSET Cid /\ faults' \in 0 .. MaxFaults
    BY <1>4, <2>1, ModelAssumption
       DEF TypeOK, StartContainerFails, ApiFails, PlatformFails, Fault
  <2>3. TypeOK'
    BY <1>4, <2>1, <2>2, ProvisionFailedTypes DEF TypeOK, StartContainerFails, durable, memory
  <2>4. JobOK'
    BY <1>4, <2>1, ProvisionFailedTypes DEF JobOK, StartContainerFails, durable
  <2> QED BY <2>3, <2>4
<1>5. CASE RecordProvision
  <2>1. job.fresh \in Cid /\ job.stage # "idle"
    BY <1>5 DEF JobOK, RecordProvision
  <2>2. /\ pendingNew' \in [Cid -> Cid \cup {NoCid}]
        /\ pendingFor' \in [Cid -> 0 .. ReplaceTimeout]
        /\ upLeft' \in 0 .. UpCooldown
    BY <1>5, <2>1, PolicyAssumption DEF TypeOK, JobType, RecordProvision, Cooldown
  <2>3. /\ job' \in JobType
        /\ lock' \in {"free", "cycle", "override", "drain"}
        /\ override' \in [kind : {"none"} \cup CommandKinds, arg : Cid \cup {NoCid}]
        /\ job'.step = "none"
        /\ job'.stage = "idle" => job'.target = NoCid
        /\ job'.stage = "health" => /\ job.stage = "health"
                                    /\ job'.todo = job.todo
                                    /\ job'.replace = job.replace
    <3>1. CASE job.stage \in OverrideStages
      <4>1. job' = IdleJob /\ lock' = "free" /\ override' = NoOverride
        BY <1>5, <3>1 DEF RecordProvision
      <4>2. IdleJob \in JobType
        BY DEF IdleJob, NoView, JobType
      <4> QED BY <4>1, <4>2 DEF IdleJob, NoOverride
    <3>2. CASE job.stage \notin OverrideStages
      <4>1. /\ job' = [job EXCEPT !.step = "none", !.fresh = NoCid, !.target = NoCid,
                                  !.acted = job.stage = "scale_up",
                                  !.left = IF @ > 0 THEN @ - 1 ELSE 0]
            /\ UNCHANGED <<lock, override>>
        BY <1>5, <3>2 DEF RecordProvision
      <4> DEFINE rest  == IF job.left > 0 THEN job.left - 1 ELSE 0
                 acted == job.stage = "scale_up"
      <4>2. rest \in Nat /\ acted \in BOOLEAN /\ job \in JobType
        BY DEF TypeOK, JobType
      <4>3. job' = [job EXCEPT !.step = "none", !.fresh = NoCid, !.target = NoCid,
                               !.acted = acted, !.left = rest]
        BY <4>1, <4>2 DEF JobType
      <4> HIDE DEF rest, acted
      <4>4. job' \in JobType
        BY <4>2, <4>3 DEF JobType
      <4>5. /\ job'.step = "none" /\ job'.target = NoCid /\ job'.stage = job.stage
            /\ job'.todo = job.todo /\ job'.replace = job.replace
        BY <4>2, <4>3 DEF JobType
      <4> QED BY <4>1, <4>4, <4>5 DEF TypeOK
    <3> QED BY <3>1, <3>2
  <2>4. TypeOK'
    BY <1>5, <2>2, <2>3 DEF TypeOK, RecordProvision, external
  <2>5. JobOK'
    BY <1>5, <2>3 DEF JobOK, RecordProvision
  <2> QED BY <2>4, <2>5
<1> QED BY <1>1, <1>2, <1>3, <1>4, <1>5

-----------------------------------------------------------------------------
\* Scale-down, pending replaces and health.
LEMMA IdleJobOK == IdleJob \in JobType /\ IdleJob.stage = "idle"
                   /\ IdleJob.step = "none" /\ IdleJob.target = NoCid
BY DEF IdleJob, NoView, JobType

LEMMA DeprovisionTypes ==
  ASSUME TypeOK, NEW c \in Cid, DeprovisionStarts(c) \/ DeprovisionFails(c)
  PROVE  /\ logical' \in SUBSET Cid
         /\ drain' \in [Cid -> {"none", "grace", "stop", "record"}]
         /\ faults' \in 0 .. MaxFaults
BY ModelAssumption
   DEF TypeOK, DeprovisionStarts, DeprovisionFails, DeleteConnector, ApiFails, Fault

LEMMA ScaleTypes ==
  ASSUME IInv, FinishScale \/ \E c \in Cid : ScaleDownVictim(c)
  PROVE  TypeOK' /\ JobOK'
<1> USE DEF IInv
<1>1. CASE FinishScale
  <2>1. /\ job' = [job EXCEPT !.stage = "pending", !.todo = PendingOld, !.acted = FALSE]
        /\ PendingOld \subseteq Cid
    BY <1>1 DEF FinishScale, PendingOld
  <2>2. job' \in JobType /\ job'.stage = "pending" /\ job'.step = job.step
        /\ job'.fresh = job.fresh
    BY <2>1 DEF TypeOK, JobType, CycleStages
  <2>3. upLeft' \in 0 .. UpCooldown /\ downLeft' \in 0 .. DownCooldown
    BY <1>1, PolicyAssumption DEF TypeOK, FinishScale, Cooldown
  <2>4. TypeOK'
    BY <1>1, <2>2, <2>3 DEF TypeOK, FinishScale, external, memory
  <2>5. JobOK'
    BY <2>2 DEF JobOK
  <2> QED BY <2>4, <2>5
<1>2. CASE \E c \in Cid : ScaleDownVictim(c)
  <2>1. PICK c \in Cid : ScaleDownVictim(c)
    BY <1>2
  <2>2. /\ job' \in JobType /\ job'.stage = job.stage /\ job'.step = job.step
        /\ job'.fresh = job.fresh
    <3>1. \/ job' = [job EXCEPT !.todo = @ \ {c}, !.acted = TRUE]
          \/ job' = [job EXCEPT !.todo = @ \ {c}]
      BY <2>1 DEF ScaleDownVictim
    <3>2. CASE job' = [job EXCEPT !.todo = @ \ {c}, !.acted = TRUE]
      BY <3>2 DEF TypeOK, JobType
    <3>3. CASE job' = [job EXCEPT !.todo = @ \ {c}]
      BY <3>3 DEF TypeOK, JobType
    <3> QED BY <3>1, <3>2, <3>3
  <2>3. TypeOK'
    BY <2>1, <2>2, DeprovisionTypes DEF TypeOK, ScaleDownVictim, durable, memory
  <2>4. JobOK'
    BY <2>1, <2>2 DEF JobOK, ScaleDownVictim
  <2> QED BY <2>3, <2>4
<1> QED BY <1>1, <1>2

LEMMA PendingTypes ==
  ASSUME IInv, NEW o \in Cid, ProcessPending(o)
  PROVE  TypeOK' /\ JobOK'
<1> USE DEF IInv
<1>1. InView(o) => o \in Cid /\ pendingNew[o] \in Cid \cup {NoCid}
  BY DEF TypeOK
<1>2. /\ pendingNew' \in [Cid -> Cid \cup {NoCid}]
      /\ pendingFor' \in [Cid -> 0 .. ReplaceTimeout]
  BY PolicyAssumption
     DEF TypeOK, ProcessPending, PendingOldGone, PendingCompletes, PendingTimesOut,
         PendingWaits, ForgetPending
<1>3. /\ logical' \in SUBSET Cid
      /\ drain' \in [Cid -> {"none", "grace", "stop", "record"}]
      /\ faults' \in 0 .. MaxFaults
  <2>1. CASE PendingOldGone(o) \/ PendingWaits(o)
    BY <2>1 DEF TypeOK, PendingOldGone, PendingWaits
  <2>2. CASE PendingCompletes(o)
    BY <2>2, DeprovisionTypes DEF PendingCompletes
  <2>3. CASE PendingTimesOut(o)
    <3>1. CASE pendingNew[o] \in Cid
      BY <2>3, <3>1, DeprovisionTypes DEF TypeOK, PendingTimesOut
    <3>2. CASE pendingNew[o] = NoCid
      BY <2>3, <3>2, ModelAssumption
         DEF TypeOK, PendingTimesOut, DeprovisionStarts, DeprovisionFails,
             DeleteConnector, ApiFails, Fault
    <3> QED BY <1>1, <2>3, <3>1, <3>2 DEF PendingTimesOut
  <2> QED BY <2>1, <2>2, <2>3 DEF ProcessPending
<1>4. /\ job' \in JobType /\ job'.stage = "pending" /\ job'.step = job.step
      /\ job'.fresh = job.fresh
  BY DEF TypeOK, JobType, ProcessPending
<1>5. TypeOK'
  BY <1>2, <1>3, <1>4 DEF TypeOK, ProcessPending, durable
<1>6. JobOK'
  BY <1>4 DEF JobOK
<1> QED BY <1>5, <1>6

LEMMA HealthTypes ==
  ASSUME IInv,
         DecideHealth \/ EndCycle \/ \E c \in Cid : RestartOne(c) \/ BeginReplace(c)
  PROVE  TypeOK' /\ JobOK'
<1> USE DEF IInv
<1>1. CASE DecideHealth
  <2> DEFINE replace == {c \in Remedies : RemedyKind(restarts[c], MaxRestarts) = "replace"}
  <2>1. job' = [job EXCEPT !.stage = "health", !.todo = Remedies, !.view = NoView,
                           !.replace = replace]
    BY <1>1 DEF DecideHealth
  <2>2. Remedies \subseteq Cid /\ replace \subseteq Cid
        /\ NoView \in [Cid -> Reading \cup {"absent"}]
    BY DEF Remedies, NoView
  <2> HIDE DEF replace
  <2>3. /\ job' \in JobType /\ job'.stage = "health" /\ job'.step = job.step
        /\ job'.fresh = job.fresh /\ job'.todo = Remedies /\ job'.replace = replace
    BY <2>1, <2>2 DEF TypeOK, JobType, CycleStages
  <2>4. \A c \in Remedies \ replace : restarts[c] < MaxRestarts
    BY <2>2, PolicyAssumption DEF replace, RemedyKind, TypeOK
  <2>5. TypeOK'
    BY <1>1, <2>3 DEF TypeOK, DecideHealth, external, durable, memory
  <2>6. JobOK'
    BY <1>1, <2>3, <2>4 DEF JobOK, DecideHealth, durable
  <2> QED BY <2>5, <2>6
<1>2. CASE EndCycle
  <2>1. TypeOK'
    BY <1>2, IdleJobOK DEF TypeOK, EndCycle, external, durable, memory
  <2>2. JobOK'
    BY <1>2, IdleJobOK DEF JobOK, EndCycle
  <2> QED BY <2>1, <2>2
<1>3. CASE \E c \in Cid : RestartOne(c)
  <2>1. PICK c \in Cid : RestartOne(c)
    BY <1>3
  <2>2. /\ job' \in JobType /\ job'.stage = job.stage /\ job'.step = "none"
        /\ job'.todo = job.todo \ {c} /\ job'.replace = job.replace
    BY <2>1 DEF TypeOK, JobType, RestartOne
  <2>3. restarts[c] < MaxRestarts /\ job.stage = "health"
    BY <2>1 DEF JobOK, RestartOne
  <2>4. /\ restarts' \in [Cid -> 0 .. MaxRestarts]
        /\ \A d \in Cid \ {c} : restarts'[d] = restarts[d]
    BY <2>1, <2>3, PolicyAssumption DEF TypeOK, RestartOne, RecordRestart
  <2>5. TypeOK'
    BY <2>1, <2>2, <2>4 DEF TypeOK, RestartOne, external, memory
  <2>6. JobOK'
    <3>1. job.todo \subseteq Cid
      BY DEF TypeOK, JobType
    <3> QED BY <2>2, <2>3, <2>4, <3>1 DEF JobOK
  <2> QED BY <2>5, <2>6
<1>4. CASE \E c \in Cid : BeginReplace(c)
  <2>1. PICK c \in Cid : BeginReplace(c)
    BY <1>4
  <2>2. /\ job' \in JobType /\ job'.stage = job.stage /\ job'.step = "none"
        /\ job'.todo = job.todo \ {c} /\ job'.replace = job.replace \ {c}
    BY <2>1 DEF TypeOK, JobType, BeginReplace
  <2>3. TypeOK'
    BY <2>1, <2>2 DEF TypeOK, BeginReplace, external, durable, memory
  <2>4. JobOK'
    BY <2>1, <2>2 DEF JobOK, BeginReplace, durable
  <2> QED BY <2>3, <2>4
<1> QED BY <1>1, <1>2, <1>3, <1>4

-----------------------------------------------------------------------------
\* The drains, the overrides and the life of the process.
LEMMA DrainTypes ==
  ASSUME IInv, NEW c \in Cid, DrainGraceOver(c) \/ DrainStep(c)
  PROVE  TypeOK' /\ JobOK'
<1> USE DEF IInv
<1>1. /\ drain' \in [Cid -> {"none", "grace", "stop", "record"}]
      /\ lock' \in {"free", "cycle", "override", "drain"}
      /\ faults' \in 0 .. MaxFaults
      /\ cordoned' \in SUBSET Cid /\ containers' \in SUBSET Cid
  BY ModelAssumption
     DEF TypeOK, DrainGraceOver, DrainStep, DrainStop, DrainStopFails, DrainRecord,
         PlatformFails, StoreFails, Fault, Uncordon, external, durable, control
<1>2. UNCHANGED <<logical, restarts, upLeft, downLeft, seenFor, unhealthyFor, pendingNew,
                  pendingFor, job, override, stopping>>
  BY DEF DrainGraceOver, DrainStep, DrainStop, DrainStopFails, DrainRecord,
         external, durable, memory, control
<1>3. TypeOK'
  BY <1>1, <1>2 DEF TypeOK
<1>4. JobOK'
  BY <1>2 DEF JobOK
<1> QED BY <1>3, <1>4

LEMMA OverrideTypes ==
  ASSUME IInv,
         \/ RequestOverride \/ StartOverride \/ OverrideDiscoveryFails
         \/ FinishManualDown
  PROVE  TypeOK' /\ JobOK'
<1> USE DEF IInv
<1>1. CASE RequestOverride
  <2>1. override' \in [kind : {"none"} \cup CommandKinds, arg : Cid \cup {NoCid}]
    BY <1>1, ModelAssumption DEF RequestOverride
  <2>2. TypeOK'
    BY <1>1, <2>1 DEF TypeOK, RequestOverride, external, durable, memory
  <2>3. JobOK'
    BY <1>1 DEF JobOK, RequestOverride, durable
  <2> QED BY <2>2, <2>3
<1>2. CASE OverrideDiscoveryFails
  <2>1. NoOverride \in [kind : {"none"} \cup CommandKinds, arg : Cid \cup {NoCid}]
    BY DEF NoOverride
  <2>2. faults' \in 0 .. MaxFaults
    BY <1>2, ModelAssumption
       DEF OverrideDiscoveryFails, ApiFails, PlatformFails, StoreFails, Fault, TypeOK
  <2>3. TypeOK'
    BY <1>2, <2>1, <2>2
       DEF TypeOK, OverrideDiscoveryFails, EndOverride, external, durable, memory
  <2>4. JobOK'
    BY <1>2 DEF JobOK, OverrideDiscoveryFails, EndOverride, durable
  <2> QED BY <2>3, <2>4
<1>3. CASE StartOverride
  <2>1. \/ EndOverride
        \/ \E stage \in OverrideStages, todo \in SUBSET Cid, target \in Cid \cup {NoCid} :
             RunOverride(stage, todo, target)
    <3>1. CASE ManualScaleUp
      BY <3>1 DEF ManualScaleUp, OverrideStages
    <3>2. CASE ManualScaleDown
      BY <3>2 DEF ManualScaleDown, OverrideStages, Eligible, Fleet, TypeOK
    <3>3. CASE ManualCordon
      BY <3>3 DEF ManualCordon
    <3>4. CASE ManualReplace
      BY <3>4 DEF ManualReplace, OverrideStages, TypeOK
    <3> QED BY <1>3, <3>1, <3>2, <3>3, <3>4 DEF StartOverride
  <2>2. cordoned' \in SUBSET Cid
    BY <1>3 DEF StartOverride, ManualScaleUp, ManualScaleDown, ManualCordon, ManualReplace,
                TypeOK
  <2>3. /\ job' \in JobType
        /\ lock' \in {"free", "cycle", "override", "drain"}
        /\ override' \in [kind : {"none"} \cup CommandKinds, arg : Cid \cup {NoCid}]
        /\ JobOK'
    <3>1. CASE EndOverride
      BY <3>1, <1>3 DEF EndOverride, NoOverride, TypeOK, JobOK, StartOverride
    <3>2. ASSUME NEW stage \in OverrideStages, NEW todo \in SUBSET Cid,
                 NEW target \in Cid \cup {NoCid}, RunOverride(stage, todo, target)
          PROVE  /\ job' \in JobType
                 /\ lock' \in {"free", "cycle", "override", "drain"}
                 /\ override' \in [kind : {"none"} \cup CommandKinds, arg : Cid \cup {NoCid}]
                 /\ JobOK'
      <4>1. job' = [stage |-> stage, view |-> NoView, todo |-> todo, replace |-> {},
                    left |-> 0, acted |-> FALSE, target |-> target,
                    step |-> "none", fresh |-> NoCid]
        BY <3>2 DEF RunOverride, IdleJob
      <4>2. NoView \in [Cid -> Reading \cup {"absent"}]
        BY DEF NoView
      <4>3. job' \in JobType
        BY <4>1, <4>2 DEF JobType
      <4>4. JobOK'
        BY <4>1 DEF JobOK, OverrideStages
      <4> QED BY <3>2, <4>3, <4>4 DEF RunOverride, TypeOK
    <3> QED BY <2>1, <3>1, <3>2
  <2>4. TypeOK'
    BY <1>3, <2>2, <2>3 DEF TypeOK, StartOverride, external, memory
  <2> QED BY <2>3, <2>4
<1>4. CASE FinishManualDown
  <2>1. downLeft' \in 0 .. DownCooldown
    BY <1>4, PolicyAssumption DEF TypeOK, FinishManualDown, Cooldown
  <2>2. TypeOK'
    BY <1>4, <2>1, IdleJobOK DEF TypeOK, FinishManualDown, NoOverride, external, memory
  <2>3. JobOK'
    BY <1>4, IdleJobOK DEF JobOK, FinishManualDown
  <2> QED BY <2>2, <2>3
<1> QED BY <1>1, <1>2, <1>3, <1>4

LEMMA ProcessTypes ==
  ASSUME IInv,
         \/ StoreError \/ Crash \/ RequestStop \/ GracefulRestart \/ Tick
         \/ \E c \in Cid : RestartRowExpires(c) \/ ContainerLost(c)
  PROVE  TypeOK' /\ JobOK'
<1> USE DEF IInv
<1>1. CASE StoreError
  <2>1. /\ override' \in [kind : {"none"} \cup CommandKinds, arg : Cid \cup {NoCid}]
        /\ faults' \in 0 .. MaxFaults
    BY <1>1, ModelAssumption DEF TypeOK, StoreError, StoreFails, Fault, NoOverride
  <2>2. TypeOK'
    BY <1>1, <2>1, IdleJobOK DEF TypeOK, StoreError, external, durable, memory
  <2>3. JobOK'
    BY <1>1, IdleJobOK DEF JobOK, StoreError
  <2> QED BY <2>2, <2>3
<1>2. ASSUME ForgetMemory, UNCHANGED <<external, durable>>, faults' \in 0 .. MaxFaults
      PROVE  TypeOK' /\ JobOK'
  <2>1. NoOverride \in [kind : {"none"} \cup CommandKinds, arg : Cid \cup {NoCid}]
    BY DEF NoOverride
  <2>2. /\ seenFor' \in [Cid -> {Untracked} \cup 0 .. StartupGrace]
        /\ unhealthyFor' \in [Cid -> {Untracked} \cup 0 .. UnhealthyThreshold]
        /\ pendingNew' \in [Cid -> Cid \cup {NoCid}]
        /\ pendingFor' \in [Cid -> 0 .. ReplaceTimeout]
        /\ drain' \in [Cid -> {"none", "grace", "stop", "record"}]
    BY <1>2, PolicyAssumption DEF ForgetMemory
  <2>3. TypeOK'
    BY <1>2, <2>1, <2>2, IdleJobOK DEF TypeOK, ForgetMemory, external, durable
  <2>4. JobOK'
    BY <1>2, IdleJobOK DEF JobOK, ForgetMemory
  <2> QED BY <2>3, <2>4
<1>3. CASE Crash
  <2>1. faults' \in 0 .. MaxFaults
    BY <1>3, ModelAssumption DEF TypeOK, Crash, Fault
  <2> QED BY <1>2, <1>3, <2>1 DEF Crash
<1>4. CASE GracefulRestart
  <2>1. faults' \in 0 .. MaxFaults
    BY <1>4 DEF TypeOK, GracefulRestart
  <2> QED BY <1>2, <1>4, <2>1 DEF GracefulRestart
<1>5. CASE RequestStop
  BY <1>5 DEF TypeOK, JobOK, RequestStop, external, durable, memory
<1>6. CASE Tick
  <2>1. /\ seenFor' \in [Cid -> {Untracked} \cup 0 .. StartupGrace]
        /\ unhealthyFor' \in [Cid -> {Untracked} \cup 0 .. UnhealthyThreshold]
    BY <1>6, PolicyAssumption DEF TypeOK, Tick, Older, Untracked
  <2>2. pendingFor' \in [Cid -> 0 .. ReplaceTimeout]
    BY <1>6, PolicyAssumption DEF TypeOK, Tick, Older, Untracked
  <2>3. upLeft' \in 0 .. UpCooldown /\ downLeft' \in 0 .. DownCooldown
    BY <1>6, PolicyAssumption DEF TypeOK, Tick, CooldownRemaining
  <2>4. TypeOK'
    BY <1>6, <2>1, <2>2, <2>3 DEF TypeOK, Tick, external, control
  <2>5. JobOK'
    BY <1>6 DEF JobOK, Tick, control
  <2> QED BY <2>4, <2>5
<1>7. CASE \E c \in Cid : RestartRowExpires(c)
  <2>1. PICK c \in Cid : RestartRowExpires(c)
    BY <1>7
  <2>2. /\ restarts' \in [Cid -> 0 .. MaxRestarts]
        /\ \A d \in Cid : restarts'[d] <= restarts[d] /\ restarts[d] \in Nat
    BY <2>1, PolicyAssumption DEF TypeOK, RestartRowExpires
  <2>3. TypeOK'
    BY <2>1, <2>2 DEF TypeOK, RestartRowExpires, external, memory, control
  <2>4. JobOK'
    <3>1. job.todo \subseteq Cid
      BY DEF TypeOK, JobType
    <3> QED BY <2>1, <2>2, <3>1, PolicyAssumption DEF TypeOK, JobOK, RestartRowExpires, control
  <2> QED BY <2>3, <2>4
<1>8. CASE \E c \in Cid : ContainerLost(c)
  <2>1. faults' \in 0 .. MaxFaults
    BY <1>8, ModelAssumption DEF TypeOK, ContainerLost, Fault
  <2>2. TypeOK'
    BY <1>8, <2>1 DEF TypeOK, ContainerLost, durable, memory, control
  <2>3. JobOK'
    BY <1>8 DEF JobOK, ContainerLost, durable, control
  <2> QED BY <2>2, <2>3
<1> QED BY <1>1, <1>3, <1>4, <1>5, <1>6, <1>7, <1>8

-----------------------------------------------------------------------------
\* The step of type correctness: one case per action of Next.
LEMMA NextTypes ==
  ASSUME IInv, [Next]_vars PROVE TypeOK' /\ JobOK'
<1>1. CASE BeginCycle
  BY <1>1, BeginCycleTypes
<1>2. CASE JobStep
  <2>1. CASE CreateConnector \/ CreateConnectorFails \/ StartContainer
             \/ StartContainerFails \/ RecordProvision
    BY <2>1, ProvisionTypes
  <2>2. CASE FinishScale \/ \E c \in Cid : ScaleDownVictim(c)
    BY <2>2, ScaleTypes
  <2>3. CASE \E c \in Cid : ProcessPending(c)
    BY <2>3, PendingTypes
  <2>4. CASE DecideHealth \/ EndCycle \/ \E c \in Cid : RestartOne(c) \/ BeginReplace(c)
    BY <2>4, HealthTypes
  <2>5. CASE FinishManualDown
    BY <2>5, OverrideTypes
  <2> QED BY <1>2, <2>1, <2>2, <2>3, <2>4, <2>5 DEF JobStep
<1>3. CASE StartOverride \/ OverrideDiscoveryFails
  BY <1>3, OverrideTypes
<1>4. CASE \E c \in Cid : DrainGraceOver(c) \/ DrainStep(c)
  BY <1>4, DrainTypes
<1>5. CASE GracefulRestart \/ Tick
  BY <1>5, ProcessTypes
<1>6. CASE Environment
  BY <1>6, OverrideTypes, ProcessTypes DEF Environment
<1>7. CASE UNCHANGED vars
  BY <1>7 DEF IInv, TypeOK, JobOK, vars
<1> QED BY <1>1, <1>2, <1>3, <1>4, <1>5, <1>6, <1>7 DEF Next

-----------------------------------------------------------------------------
\* A drain and routing exclude each other: minting avoids draining ids, and a
\* drain starts only in the step in which connectorDelete took effect.
LEMMA DeprovisionUnroutes ==
  ASSUME TypeOK, DrainingIsUnrouted, NEW c \in Cid \cup {NoCid},
         DeprovisionStarts(c) \/ DeprovisionFails(c)
  PROVE  DrainingIsUnrouted'
BY DEF TypeOK, DrainingIsUnrouted, Draining, DeprovisionStarts, DeprovisionFails,
       DeleteConnector

\* connectorCreate adds nothing to the tenant but ids nobody uses.
LEMMA UnusedMinted ==
  ASSUME CreateConnector \/ CreateConnectorFails
  PROVE  \E new \in SUBSET Unused : logical' = logical \cup new
<1>1. ASSUME NEW new \in SUBSET Unused, Mint(new)
      PROVE  \E m \in SUBSET Unused : logical' = logical \cup m
  BY <1>1 DEF Mint
<1>2. CASE NoMint
  <2>1. logical' = logical \cup {} /\ {} \in SUBSET Unused
    BY <1>2 DEF NoMint
  <2> QED BY <2>1
<1>3. CASE CreateConnector
  <2>1. PICK c \in Unused : Mint({c}) \/ \E d \in Unused \ {c} : Mint({c, d})
    BY <1>3 DEF CreateConnector
  <2> QED BY <1>1, <2>1
<1>4. CASE CreateConnectorFails
  <2>1. NoMint \/ \E c \in Unused : Mint({c})
    BY <1>4 DEF CreateConnectorFails
  <2> QED BY <1>1, <1>2, <2>1
<1> QED BY <1>3, <1>4

LEMMA NextUnrouted ==
  ASSUME IInv, [Next]_vars PROVE DrainingIsUnrouted'
<1> USE DEF IInv
<1>1. CASE UNCHANGED <<logical, drain>>
  BY <1>1 DEF DrainingIsUnrouted, Draining
<1>2. CASE CreateConnector \/ CreateConnectorFails
  <2>1. drain' = drain
    BY <1>2 DEF CreateConnector, CreateConnectorFails
  <2>2. PICK new \in SUBSET Unused : logical' = logical \cup new
    BY <1>2, UnusedMinted
  <2>3. Draining' = Draining /\ Draining \cap new = {}
    BY <2>1, <2>2 DEF Unused, Draining
  <2> QED BY <2>2, <2>3 DEF DrainingIsUnrouted
<1>3. CASE \E c \in Cid : ScaleDownVictim(c)
  BY <1>3, DeprovisionUnroutes DEF ScaleDownVictim
<1>4. CASE \E o \in Cid : ProcessPending(o)
  <2>1. PICK o \in Cid : ProcessPending(o)
    BY <1>4
  <2>2. pendingNew[o] \in Cid \cup {NoCid}
    BY DEF TypeOK
  <2>3. CASE PendingOldGone(o) \/ PendingWaits(o)
    BY <1>1, <2>3 DEF PendingOldGone, PendingWaits
  <2>4. CASE PendingCompletes(o)
    BY <2>4, DeprovisionUnroutes DEF PendingCompletes
  <2>5. CASE PendingTimesOut(o)
    BY <1>1, <2>2, <2>5, DeprovisionUnroutes DEF PendingTimesOut
  <2> QED BY <2>1, <2>3, <2>4, <2>5 DEF ProcessPending
<1>5. CASE FinishManualDown
  BY <1>1, <1>5 DEF FinishManualDown, external
<1>6. CASE \E c \in Cid : DrainGraceOver(c) \/ DrainStep(c)
  BY <1>6 DEF DrainGraceOver, DrainStep, DrainStop, DrainStopFails, DrainRecord, external,
              DrainingIsUnrouted, Draining, TypeOK
<1>7. CASE Crash \/ GracefulRestart
  BY <1>7 DEF Crash, GracefulRestart, ForgetMemory, external, DrainingIsUnrouted, Draining
<1>8. CASE BeginCycle
  BY <1>1, <1>8 DEF BeginCycle, external
<1>9. CASE \/ StartContainer \/ StartContainerFails \/ RecordProvision
           \/ FinishScale \/ DecideHealth \/ EndCycle
           \/ \E c \in Cid : RestartOne(c) \/ BeginReplace(c)
  BY <1>1, <1>9 DEF StartContainer, StartContainerFails, RecordProvision, FinishScale,
                    DecideHealth, EndCycle, RestartOne, BeginReplace, external
<1>10. CASE StartOverride \/ OverrideDiscoveryFails \/ RequestOverride
  BY <1>1, <1>10 DEF StartOverride, OverrideDiscoveryFails, RequestOverride, external
<1>11. CASE \/ StoreError \/ RequestStop \/ Tick
            \/ \E c \in Cid : RestartRowExpires(c) \/ ContainerLost(c)
  BY <1>1, <1>11 DEF StoreError, RequestStop, Tick, RestartRowExpires, ContainerLost, external
<1>12. CASE UNCHANGED vars
  BY <1>1, <1>12 DEF vars
<1> QED
  BY <1>2, <1>3, <1>4, <1>5, <1>6, <1>7, <1>8, <1>9, <1>10, <1>11, <1>12
     DEF Next, JobStep, Environment

-----------------------------------------------------------------------------
Removing == {c \in Cid : drain[c] \in {"stop", "record"}}

\* While a cycle or an override runs, no drain is in its stop/remove part.
LEMMA BusyNotRemoving ==
  ASSUME ActionsSerialized, job.stage # "idle" \/ lock # "drain"
  PROVE  Removing = {}
BY DEF ActionsSerialized, Removing

LEMMA DeprovisionRemovesNone ==
  ASSUME TypeOK, Removing = {}, NEW c \in Cid \cup {NoCid},
         DeprovisionStarts(c) \/ DeprovisionFails(c)
  PROVE  Removing' = {}
BY DEF TypeOK, Removing, DeprovisionStarts, DeprovisionFails

LEMMA SerializedIfIdle ==
  ASSUME Removing' = {}, job'.stage # "idle" => lock' \in {"cycle", "override"}
  PROVE  ActionsSerialized'
BY DEF ActionsSerialized, Removing

LEMMA NextSerialized ==
  ASSUME IInv, [Next]_vars PROVE ActionsSerialized'
<1> USE DEF IInv
<1>1. CASE UNCHANGED <<drain, lock, job>>
  BY <1>1 DEF ActionsSerialized
<1>2. ASSUME UNCHANGED drain, Removing = {},
             job'.stage # "idle" => lock' \in {"cycle", "override"}
      PROVE  ActionsSerialized'
  BY <1>2, SerializedIfIdle DEF Removing
<1>3. CASE BeginCycle
  BY <1>2, <1>3, BusyNotRemoving DEF BeginCycle
<1>4. CASE JobStep
  <2>1. job.stage # "idle" /\ lock \in {"cycle", "override"} /\ Removing = {}
    <3>1. job.stage # "idle"
      BY <1>4 DEF JobStep, CreateConnector, CreateConnectorFails, StartContainer,
                  StartContainerFails, RecordProvision, ScaleDownVictim, FinishScale,
                  ProcessPending, DecideHealth, RestartOne, BeginReplace, EndCycle,
                  FinishManualDown, WantsProvision, JobOK
    <3> QED BY <3>1, BusyNotRemoving DEF ActionsSerialized
  <2>2. CASE UNCHANGED lock
    <3>1. Removing' = {}
      <4>1. CASE UNCHANGED drain
        BY <2>1, <4>1 DEF Removing
      <4>2. CASE \E c \in Cid \cup {NoCid} : DeprovisionStarts(c) \/ DeprovisionFails(c)
        BY <2>1, <4>2, DeprovisionRemovesNone
      <4>3. UNCHANGED drain
            \/ \E c \in Cid \cup {NoCid} : DeprovisionStarts(c) \/ DeprovisionFails(c)
        BY <1>4 DEF JobStep, CreateConnector, CreateConnectorFails, StartContainer,
                  StartContainerFails, RecordProvision, ScaleDownVictim, FinishScale,
                  ProcessPending, PendingOldGone, PendingCompletes, PendingTimesOut,
                  PendingWaits, DecideHealth, RestartOne, BeginReplace, EndCycle,
                  FinishManualDown, TypeOK
      <4> QED BY <4>1, <4>2, <4>3
    <3> QED BY <2>1, <2>2, <3>1, SerializedIfIdle
  <2>3. CASE job' = IdleJob
    <3>1. Removing' = {}
      <4>1. CASE UNCHANGED drain
        BY <2>1, <4>1 DEF Removing
      <4>2. CASE \E c \in Cid \cup {NoCid} : DeprovisionStarts(c) \/ DeprovisionFails(c)
        BY <2>1, <4>2, DeprovisionRemovesNone
      <4>3. UNCHANGED drain
            \/ \E c \in Cid \cup {NoCid} : DeprovisionStarts(c) \/ DeprovisionFails(c)
        BY <1>4 DEF JobStep, CreateConnector, CreateConnectorFails, StartContainer,
                  StartContainerFails, RecordProvision, ScaleDownVictim, FinishScale,
                  ProcessPending, PendingOldGone, PendingCompletes, PendingTimesOut,
                  PendingWaits, DecideHealth, RestartOne, BeginReplace, EndCycle,
                  FinishManualDown, TypeOK
      <4> QED BY <4>1, <4>2, <4>3
    <3> QED BY <2>3, <3>1, SerializedIfIdle, IdleJobOK
  <2> QED
    BY <1>4, <2>2, <2>3
       DEF JobStep, CreateConnector, CreateConnectorFails, StartContainer,
           StartContainerFails, RecordProvision, ProvisionFailed, ScaleDownVictim, FinishScale,
           ProcessPending, DecideHealth, RestartOne, BeginReplace, EndCycle, FinishManualDown
<1>5. CASE StartOverride
  <2>1. \/ EndOverride
        \/ \E stage, todo, target : RunOverride(stage, todo, target)
    BY <1>5 DEF StartOverride, ManualScaleUp, ManualScaleDown, ManualCordon, ManualReplace
  <2>2. Removing = {} /\ lock = "free" /\ UNCHANGED drain
    BY <1>5, BusyNotRemoving DEF StartOverride
  <2>3. CASE EndOverride
    BY <1>1, <2>2, <2>3 DEF EndOverride
  <2>4. CASE \E stage, todo, target : RunOverride(stage, todo, target)
    BY <1>2, <2>2, <2>4 DEF RunOverride
  <2> QED BY <2>1, <2>3, <2>4
<1>6. CASE \E c \in Cid : DrainGraceOver(c)
  BY <1>6 DEF DrainGraceOver, ActionsSerialized, TypeOK
<1>7. CASE \E c \in Cid : DrainStop(c)
  BY <1>7 DEF DrainStop, ActionsSerialized, control, TypeOK
<1>8. CASE \E c \in Cid : DrainStopFails(c) \/ DrainRecord(c)
  <2>1. PICK c \in Cid : DrainStopFails(c) \/ DrainRecord(c)
    BY <1>8
  <2>2. c \in Removing /\ drain' = [drain EXCEPT ![c] = "none"] /\ UNCHANGED job
    BY <2>1 DEF DrainStopFails, DrainRecord, Removing
  <2>3. lock = "drain" /\ job.stage = "idle" /\ Removing \subseteq {c}
    BY <2>2 DEF ActionsSerialized, Removing
  <2>4. Removing' = {}
    BY <2>2, <2>3 DEF Removing, TypeOK
  <2> QED BY <2>2, <2>3, <2>4, SerializedIfIdle
<1>9. CASE Crash \/ GracefulRestart
  <2>1. Removing' = {} /\ job' = IdleJob
    BY <1>9 DEF Crash, GracefulRestart, ForgetMemory, Removing
  <2> QED BY <2>1, SerializedIfIdle, IdleJobOK
<1>10. CASE StoreError
  BY <1>2, <1>10, BusyNotRemoving, IdleJobOK DEF StoreError
<1>11. CASE \/ OverrideDiscoveryFails \/ RequestOverride \/ RequestStop \/ Tick
            \/ \E c \in Cid : RestartRowExpires(c) \/ ContainerLost(c)
  BY <1>1, <1>11 DEF OverrideDiscoveryFails, EndOverride, RequestOverride, RequestStop, Tick,
                     RestartRowExpires, ContainerLost, control
<1>12. CASE UNCHANGED vars
  BY <1>1, <1>12 DEF vars
<1> QED
  BY <1>3, <1>4, <1>5, <1>6, <1>7, <1>8, <1>9, <1>10, <1>11, <1>12
     DEF Next, Environment, DrainStep

-----------------------------------------------------------------------------
\* The invariant is inductive.
THEOREM Invariance == Spec => []IInv
<1>1. Init => IInv
  BY InitIInv
<1>2. IInv /\ [Next]_vars => IInv'
  BY NextTypes, NextUnrouted, NextSerialized DEF IInv
<1> QED
  BY <1>1, <1>2, PTL DEF Spec

\* The state of the manager, of its database and of the two systems it drives
\* is well typed, for every fleet size: no counter passes its threshold.
THEOREM TypeCorrect == Spec => []TypeOK
<1>1. IInv => TypeOK
  BY DEF IInv
<1> QED
  BY <1>1, Invariance, PTL

\* Drain before delete (_deprovision_one): whatever fails, crashes or is
\* requested by an operator, the container being drained is never routable.
THEOREM DrainSafety == Spec => []DrainingIsUnrouted
<1>1. IInv => DrainingIsUnrouted
  BY DEF IInv
<1> QED
  BY <1>1, Invariance, PTL

\* _action_lock does its work: cycles, overrides and the removals of drains
\* exclude each other, and at most one removal runs.
THEOREM Serialization == Spec => []ActionsSerialized
<1>1. IInv => ActionsSerialized
  BY DEF IInv
<1> QED
  BY <1>1, Invariance, PTL

-----------------------------------------------------------------------------
\* Victims chosen under the lock stay uncordoned until they are drained, and the
\* replaces a cycle still has to process are pending.
CordonInv ==
  /\ job.stage \in {"scale_down", "manual_down"} => job.todo \cap cordoned = {}
  /\ job.stage = "pending" => job.todo \subseteq PendingOld

\* Steps that do not touch what CordonInv is about.
LEMMA CordonFrame ==
  ASSUME CordonInv, UNCHANGED <<job, pendingNew>>, cordoned' \subseteq cordoned
  PROVE  CordonInv'
BY DEF CordonInv, PendingOld

LEMMA CordonOtherStage ==
  ASSUME job'.stage \notin {"scale_down", "manual_down", "pending"}
  PROVE  CordonInv'
BY DEF CordonInv

LEMMA EligibleUncordoned ==
  ASSUME NEW seen PROVE Eligible(seen) \cap cordoned = {}
BY DEF Eligible

\* The fields an EXCEPT may change.
LEMMA JobFields ==
  ASSUME TypeOK
  PROVE  DOMAIN job = {"stage", "view", "todo", "replace", "left", "acted", "target",
                       "step", "fresh"}
BY DEF TypeOK, JobType

\* The stages the rest of a cycle's steps lead to.
LEMMA LaterStages ==
  ASSUME TypeOK,
         \/ FinishScale \/ DecideHealth \/ EndCycle \/ FinishManualDown \/ StoreError
         \/ Crash \/ GracefulRestart
         \/ \E c \in Cid : ProcessPending(c) \/ RestartOne(c) \/ BeginReplace(c)
  PROVE  job'.stage \in {"idle", "pending", "health"}
<1>1. CASE FinishScale
  BY <1>1, JobFields DEF FinishScale
<1>2. CASE DecideHealth
  BY <1>2, JobFields DEF DecideHealth
<1>3. CASE EndCycle \/ FinishManualDown \/ StoreError \/ Crash \/ GracefulRestart
  <2>1. job' = IdleJob
    BY <1>3 DEF EndCycle, FinishManualDown, StoreError, Crash, GracefulRestart, ForgetMemory
  <2> QED BY <2>1, IdleJobOK
<1>4. ASSUME NEW c \in Cid, ProcessPending(c) \/ RestartOne(c) \/ BeginReplace(c)
      PROVE  job'.stage \in {"idle", "pending", "health"}
  <2>1. CASE ProcessPending(c)
    BY <2>1, JobFields DEF ProcessPending
  <2>2. CASE RestartOne(c)
    BY <2>2, JobFields DEF RestartOne
  <2>3. CASE BeginReplace(c)
    BY <2>3, JobFields DEF BeginReplace
  <2> QED BY <1>4, <2>1, <2>2, <2>3
<1> QED BY <1>1, <1>2, <1>3, <1>4

\* A provision step leaves the job's stage and list alone, or ends the job.
LEMMA ProvisionKeepsTodo ==
  ASSUME TypeOK,
         \/ CreateConnector \/ CreateConnectorFails
         \/ StartContainer \/ StartContainerFails
         \/ RecordProvision
  PROVE  job'.stage = "idle" \/ (job'.stage = job.stage /\ job'.todo = job.todo)
<1>1. CASE CreateConnector \/ StartContainer
  BY <1>1 DEF CreateConnector, StartContainer, TypeOK, JobType
<1>2. ASSUME NEW rest, NEW acted,
             \/ job' = [job EXCEPT !.step = "none", !.fresh = NoCid, !.target = NoCid,
                                   !.left = rest]
             \/ job' = [job EXCEPT !.step = "none", !.fresh = NoCid, !.target = NoCid,
                                   !.acted = acted, !.left = rest]
      PROVE  job'.stage = job.stage /\ job'.todo = job.todo
  BY <1>2, JobFields
<1>3. CASE ProvisionFailed
  <2>1. \/ job' = IdleJob
        \/ \E rest : job' = [job EXCEPT !.step = "none", !.fresh = NoCid, !.target = NoCid,
                                        !.left = rest]
    BY <1>3 DEF ProvisionFailed
  <2> QED BY <1>2, <2>1, IdleJobOK
<1>4. CASE RecordProvision
  <2>1. \/ job' = IdleJob
        \/ \E rest, acted :
             job' = [job EXCEPT !.step = "none", !.fresh = NoCid, !.target = NoCid,
                                !.acted = acted, !.left = rest]
    BY <1>4 DEF RecordProvision
  <2> QED BY <1>2, <2>1, IdleJobOK
<1> QED BY <1>1, <1>3, <1>4 DEF CreateConnectorFails, StartContainerFails

\* What the start of a cycle decides, whichever way it goes.
LEMMA BeginDecides ==
  ASSUME IInv, BeginCycle
  PROVE  \E found \in Discoveries, v \in Verdicts :
           /\ job'.view = ExcludeDraining(found)
           /\ \/ job'.stage = "scale_up" /\ job'.left = v.count /\ job'.todo = {}
                 /\ v.direction = "up"
              \/ /\ job'.stage = "scale_down" /\ v.direction = "down"
                 /\ job'.todo \in PickVictims(Eligible(seenFor'), v.count)
              \/ job'.stage = "pending" /\ job'.todo = PendingOld /\ v.direction = "none"
           /\ job'.step = "none" /\ job'.target = NoCid
           /\ UNCHANGED <<external, durable, pendingNew, drain, faults>>
<1>1. PICK found \in Discoveries, v \in Verdicts :
        LET start == [IdleJob EXCEPT !.view = ExcludeDraining(found)]
        IN  \/ /\ v.direction = "up"
               /\ job' = [start EXCEPT !.stage = "scale_up", !.left = v.count]
            \/ /\ v.direction = "down"
               /\ \E victims \in PickVictims(Eligible(seenFor'), v.count) :
                    job' = [start EXCEPT !.stage = "scale_down", !.todo = victims]
            \/ /\ v.direction = "none"
               /\ job' = [start EXCEPT !.stage = "pending", !.todo = PendingOld]
  BY DEF BeginCycle
<1>2. /\ job'.view = ExcludeDraining(found) /\ job'.step = "none" /\ job'.target = NoCid
      /\ \/ job'.stage = "scale_up" /\ job'.left = v.count /\ job'.todo = {}
            /\ v.direction = "up"
         \/ /\ job'.stage = "scale_down" /\ v.direction = "down"
            /\ job'.todo \in PickVictims(Eligible(seenFor'), v.count)
         \/ job'.stage = "pending" /\ job'.todo = PendingOld /\ v.direction = "none"
  BY <1>1 DEF IdleJob
<1>3. UNCHANGED <<external, durable, pendingNew, drain, faults>>
  BY DEF BeginCycle
<1> QED BY <1>2, <1>3

LEMMA NextCordonInv ==
  ASSUME IInv, CordonInv, [Next]_vars PROVE CordonInv'
<1> USE DEF IInv
<1>1. CASE BeginCycle
  <2>1. UNCHANGED <<cordoned, pendingNew>>
    BY <1>1 DEF BeginCycle, durable
  <2>2. \/ job'.stage = "scale_up"
        \/ job'.stage = "scale_down" /\ job'.todo \subseteq Eligible(seenFor')
        \/ job'.stage = "pending" /\ job'.todo = PendingOld
    BY <1>1, BeginDecides DEF PickVictims
  <2>3. CASE job'.stage = "scale_up"
    BY <2>3, CordonOtherStage
  <2>4. CASE job'.stage = "scale_down" /\ job'.todo \subseteq Eligible(seenFor')
    BY <2>1, <2>4, EligibleUncordoned DEF CordonInv
  <2>5. CASE job'.stage = "pending" /\ job'.todo = PendingOld
    BY <2>1, <2>5 DEF CordonInv, PendingOld
  <2> QED BY <2>2, <2>3, <2>4, <2>5
<1>2. CASE CreateConnector \/ CreateConnectorFails \/ StartContainer \/ StartContainerFails
  <2>1. UNCHANGED <<cordoned, pendingNew>>
    BY <1>2 DEF CreateConnector, CreateConnectorFails, StartContainer, StartContainerFails,
                durable, memory
  <2>2. job'.stage = "idle" \/ (job'.stage = job.stage /\ job'.todo = job.todo)
    BY <1>2, ProvisionKeepsTodo
  <2> QED BY <2>1, <2>2 DEF CordonInv, PendingOld
<1>3. CASE RecordProvision
  <2>1. UNCHANGED cordoned /\ PendingOld \subseteq PendingOld'
    BY <1>3, ModelAssumption DEF RecordProvision, PendingOld, TypeOK, JobOK
  <2>2. job'.stage = "idle" \/ (job'.stage = job.stage /\ job'.todo = job.todo)
    BY <1>3, ProvisionKeepsTodo
  <2> QED BY <2>1, <2>2 DEF CordonInv
<1>4. CASE \E c \in Cid : ScaleDownVictim(c)
  <2>1. UNCHANGED cordoned /\ job'.stage = job.stage
        /\ job.stage \in {"scale_down", "manual_down"} /\ job'.todo \subseteq job.todo
    <3>1. PICK c \in Cid : ScaleDownVictim(c)
      BY <1>4
    <3>2. CASE job' = [job EXCEPT !.todo = @ \ {c}, !.acted = TRUE]
      BY <3>1, <3>2 DEF ScaleDownVictim, TypeOK, JobType, durable
    <3>3. CASE job' = [job EXCEPT !.todo = @ \ {c}]
      BY <3>1, <3>3 DEF ScaleDownVictim, TypeOK, JobType, durable
    <3> QED BY <3>1, <3>2, <3>3 DEF ScaleDownVictim
  <2> QED BY <2>1 DEF CordonInv
<1>5. CASE FinishScale
  <2>1. job' = [job EXCEPT !.stage = "pending", !.todo = PendingOld, !.acted = FALSE]
        /\ UNCHANGED pendingNew
    BY <1>5 DEF FinishScale, memory
  <2>2. job'.stage = "pending" /\ job'.todo = PendingOld /\ PendingOld' = PendingOld
    BY <2>1 DEF TypeOK, JobType, PendingOld
  <2> QED BY <2>2 DEF CordonInv
<1>6. CASE \E o \in Cid : ProcessPending(o)
  <2>1. PICK o \in Cid : ProcessPending(o)
    BY <1>6
  <2>2. job.stage = "pending" /\ job'.stage = "pending" /\ job'.todo = job.todo \ {o}
    BY <2>1 DEF ProcessPending, TypeOK, JobType
  <2>3. \A p \in Cid \ {o} : pendingNew'[p] = pendingNew[p]
    BY <2>1 DEF ProcessPending, PendingOldGone, PendingCompletes, PendingTimesOut,
                PendingWaits, ForgetPending, TypeOK
  <2> QED BY <2>2, <2>3 DEF CordonInv, PendingOld
<1>7. CASE \/ DecideHealth \/ EndCycle \/ FinishManualDown \/ StoreError
           \/ Crash \/ GracefulRestart
           \/ \E c \in Cid : RestartOne(c) \/ BeginReplace(c)
  <2>1. CASE DecideHealth \/ \E c \in Cid : RestartOne(c) \/ BeginReplace(c)
    <3>1. job'.stage \in {"health", "idle"}
      BY <2>1, JobFields, IdleJobOK DEF DecideHealth, RestartOne, BeginReplace
    <3> QED BY <3>1, CordonOtherStage
  <2>2. CASE EndCycle \/ FinishManualDown \/ StoreError \/ Crash \/ GracefulRestart
    <3>1. job' = IdleJob
      BY <2>2 DEF EndCycle, FinishManualDown, StoreError, Crash, GracefulRestart, ForgetMemory
    <3> QED BY <3>1, IdleJobOK, CordonOtherStage
  <2> QED BY <1>7, <2>1, <2>2
<1>8. CASE StartOverride
  <2>1. job.stage = "idle" /\ UNCHANGED pendingNew
    BY <1>8 DEF ActionsSerialized, StartOverride, memory
  <2>2. CASE EndOverride
    BY <2>1, <2>2, CordonOtherStage DEF EndOverride
  <2>3. CASE ManualScaleUp \/ ManualReplace
    <3>1. \/ EndOverride
          \/ \E target : \/ RunOverride("manual_up", {}, target)
                         \/ RunOverride("manual_foreign", {}, target)
                         \/ RunOverride("manual_replace", {}, target)
      BY <2>3 DEF ManualScaleUp, ManualReplace
    <3>2. job'.stage \in {"idle", "manual_up", "manual_foreign", "manual_replace"}
      BY <2>1, <3>1 DEF EndOverride, RunOverride, IdleJob
    <3> QED BY <3>2, CordonOtherStage
  <2>4. CASE ManualScaleDown
    <3>1. \/ EndOverride
          \/ \E c \in Eligible(seenFor) : RunOverride("manual_down", {c}, NoCid)
      BY <2>4 DEF ManualScaleDown
    <3>2. CASE \E c \in Eligible(seenFor) : RunOverride("manual_down", {c}, NoCid)
      <4>1. PICK c \in Eligible(seenFor) : RunOverride("manual_down", {c}, NoCid)
        BY <3>2
      <4>2. job'.stage = "manual_down" /\ job'.todo = {c}
        BY <4>1 DEF RunOverride, IdleJob
      <4>3. c \notin cordoned /\ UNCHANGED cordoned
        BY <2>4, EligibleUncordoned DEF ManualScaleDown
      <4> QED BY <4>2, <4>3 DEF CordonInv
    <3> QED BY <2>2, <3>1, <3>2
  <2>5. CASE ManualCordon
    BY <2>2, <2>5 DEF ManualCordon
  <2> QED BY <1>8, <2>3, <2>4, <2>5 DEF StartOverride
<1>9. CASE \E c \in Cid : DrainGraceOver(c) \/ DrainStep(c)
  BY <1>9, CordonFrame
     DEF DrainGraceOver, DrainStep, DrainStop, DrainStopFails, DrainRecord, Uncordon,
         durable, memory, control
<1>10. CASE \/ OverrideDiscoveryFails \/ RequestOverride \/ RequestStop \/ Tick
            \/ \E c \in Cid : RestartRowExpires(c) \/ ContainerLost(c)
  BY <1>10, CordonFrame
     DEF OverrideDiscoveryFails, EndOverride, RequestOverride, RequestStop, Tick,
         RestartRowExpires, ContainerLost, durable, memory, control
<1>11. CASE UNCHANGED vars
  BY <1>11, CordonFrame DEF vars
<1> QED
  BY <1>1, <1>2, <1>3, <1>4, <1>5, <1>6, <1>7, <1>8, <1>9, <1>10, <1>11
     DEF Next, JobStep, Environment

\* Where a drain can start at all: a victim of a scale-down, the old Connector
\* of a replace that completes, the replacement of one that times out.
DrainsVictim(c) == \E v \in Cid : ScaleDownVictim(v) /\ c = v

DrainsOld(c) ==
  \E o \in Cid : /\ ProcessPending(o) /\ c = o
                  /\ PendingCompletes(o) /\ DeprovisionStarts(o) /\ ForgetPending(o)

DrainsNew(c) ==
  \E o \in Cid : /\ ProcessPending(o) /\ c = pendingNew[o]
                  /\ PendingTimesOut(o) /\ DeprovisionStarts(c) /\ ForgetPending(o)

LEMMA DrainsStartBy ==
  ASSUME IInv, [Next]_vars, NEW c \in Draining' \ Draining
  PROVE  c \in logical /\ (DrainsVictim(c) \/ DrainsOld(c) \/ DrainsNew(c))
<1> USE DEF IInv
<1>1. ASSUME NEW d \in Cid \cup {NoCid}, DeprovisionStarts(d) \/ DeprovisionFails(d)
      PROVE  c = d /\ c \in logical /\ DeprovisionStarts(d)
  BY <1>1 DEF DeprovisionStarts, DeprovisionFails, Draining, TypeOK
<1>2. Draining' \subseteq Draining => FALSE
  OBVIOUS
<1>3. CASE \E v \in Cid : ScaleDownVictim(v)
  <2>1. PICK v \in Cid : ScaleDownVictim(v)
    BY <1>3
  <2>2. c = v /\ c \in logical
    BY <1>1, <2>1 DEF ScaleDownVictim
  <2> QED BY <2>1, <2>2 DEF DrainsVictim
<1>4. CASE FinishManualDown
  BY <1>2, <1>4 DEF FinishManualDown, Draining
<1>5. CASE \E o \in Cid : ProcessPending(o)
  <2>1. PICK o \in Cid : ProcessPending(o)
    BY <1>5
  <2>2. job.stage = "pending" /\ o \in job.todo /\ pendingNew[o] \in Cid \cup {NoCid}
    BY <2>1 DEF ProcessPending, TypeOK
  <2>3. CASE UNCHANGED drain
    BY <1>2, <2>3 DEF Draining
  <2>4. CASE PendingCompletes(o)
    <3>1. CASE DeprovisionStarts(o) /\ ForgetPending(o)
      <4>1. c = o /\ c \in logical
        BY <1>1, <3>1
      <4> QED BY <2>1, <2>4, <3>1, <4>1 DEF DrainsOld
    <3>2. CASE DeprovisionFails(o)
      BY <2>3, <3>2 DEF DeprovisionFails
    <3> QED BY <2>4, <3>1, <3>2 DEF PendingCompletes
  <2>5. CASE PendingTimesOut(o)
    <3>1. CASE DeprovisionStarts(pendingNew[o])
      <4>1. c = pendingNew[o] /\ c \in logical
        BY <1>1, <2>2, <3>1
      <4>2. ForgetPending(o)
        BY <2>5 DEF PendingTimesOut
      <4> QED BY <2>1, <2>5, <3>1, <4>1, <4>2 DEF DrainsNew
    <3>2. CASE DeprovisionFails(pendingNew[o])
      BY <2>3, <3>2 DEF DeprovisionFails
    <3> QED BY <2>3, <2>5, <3>1, <3>2 DEF PendingTimesOut
  <2> QED BY <2>1, <2>3, <2>4, <2>5 DEF ProcessPending, PendingOldGone, PendingWaits
<1>6. CASE \E d \in Cid : DrainGraceOver(d) \/ DrainStep(d)
  BY <1>2, <1>6 DEF DrainGraceOver, DrainStep, DrainStop, DrainStopFails, DrainRecord,
                    Draining, TypeOK
<1>7. CASE Crash \/ GracefulRestart
  BY <1>2, <1>7 DEF Crash, GracefulRestart, ForgetMemory, Draining
<1>8. CASE UNCHANGED drain
  BY <1>2, <1>8 DEF Draining
<1>9. CASE \/ CreateConnector \/ CreateConnectorFails \/ StartContainer
           \/ StartContainerFails \/ RecordProvision \/ FinishScale \/ DecideHealth
           \/ EndCycle \/ BeginCycle
           \/ \E d \in Cid : RestartOne(d) \/ BeginReplace(d)
  BY <1>8, <1>9
     DEF CreateConnector, CreateConnectorFails, StartContainer, StartContainerFails,
         RecordProvision, FinishScale, DecideHealth, EndCycle, BeginCycle, RestartOne,
         BeginReplace
<1>10. CASE \/ StartOverride \/ OverrideDiscoveryFails \/ RequestOverride \/ StoreError
            \/ RequestStop \/ Tick
            \/ \E d \in Cid : RestartRowExpires(d) \/ ContainerLost(d)
  BY <1>8, <1>10
     DEF StartOverride, OverrideDiscoveryFails, RequestOverride, StoreError, RequestStop,
         Tick, RestartRowExpires, ContainerLost
<1>11. CASE UNCHANGED vars
  BY <1>8, <1>11 DEF vars
<1> QED
  BY <1>3, <1>4, <1>5, <1>6, <1>7, <1>9, <1>10, <1>11 DEF Next, JobStep, Environment

\* So connectorDelete came first, and the Connector was on the list of the job.
LEMMA DrainsStartIn ==
  ASSUME IInv, [Next]_vars, NEW c \in Draining' \ Draining
  PROVE  /\ c \in logical
         /\ \/ job.stage \in {"scale_down", "manual_down"} /\ c \in job.todo
            \/ job.stage = "pending" /\ c \in job.todo
            \/ job.stage = "pending" /\ \E o \in job.todo : c = pendingNew[o]
<1>1. c \in logical /\ (DrainsVictim(c) \/ DrainsOld(c) \/ DrainsNew(c))
  BY DrainsStartBy
<1>2. DrainsVictim(c) => job.stage \in {"scale_down", "manual_down"} /\ c \in job.todo
  BY DEF DrainsVictim, ScaleDownVictim
<1>3. DrainsOld(c) => job.stage = "pending" /\ c \in job.todo
  BY DEF DrainsOld, ProcessPending
<1>4. DrainsNew(c) => job.stage = "pending" /\ \E o \in job.todo : c = pendingNew[o]
  BY DEF DrainsNew, ProcessPending
<1> QED BY <1>1, <1>2, <1>3, <1>4

\* A cordon is respected: whatever cycle or override runs, a Connector whose
\* cordon was acknowledged is drained only as part of a pending replace.
THEOREM CordonKept == Spec => CordonRespected
<1>1. Init => CordonInv
  BY IdleJobOK DEF Init, CordonInv
<1>2. IInv /\ CordonInv /\ [Next]_vars => CordonInv'
  BY NextCordonInv
<1>3. IInv /\ CordonInv /\ [Next]_vars
      => [\A c \in cordoned : c \in Draining' \ Draining => c \in PendingPair]_vars
  <2> SUFFICES ASSUME IInv, CordonInv, [Next]_vars,
                      NEW c \in cordoned, c \in Draining' \ Draining
               PROVE  c \in PendingPair
    OBVIOUS
  <2>1. job.stage \in {"scale_down", "manual_down"} => c \notin job.todo
    BY DEF CordonInv
  <2>2. job.stage = "pending" => job.todo \subseteq PendingOld
    BY DEF CordonInv
  <2> QED BY <2>1, <2>2, DrainsStartIn DEF PendingPair
<1> QED
  BY <1>1, <1>2, <1>3, Invariance, PTL DEF Spec, CordonRespected

-----------------------------------------------------------------------------
(***************************************************************************)
(* The ceiling.  A scale-up is decided on one count and executed over many *)
(* awaits; what keeps it within max_connectors is that the provisions      *)
(* still to make always fit above the fleet as it is now.                  *)
(***************************************************************************)
CeilingInv ==
  job.stage = "scale_up" =>
    /\ job.target = NoCid
    /\ job.step # "none" => job.left > 0
    /\ Cardinality(Fleet) + job.left <= Max + (IF job.step = "started" THEN 1 ELSE 0)

\* A fleet that gains at most one Connector grows by at most one.
LEMMA FleetGrowth ==
  ASSUME TypeOK, NEW c, Fleet' \subseteq Fleet \cup {c}
  PROVE  Cardinality(Fleet') \in Nat /\ Cardinality(Fleet') <= Cardinality(Fleet) + 1
<1>1. IsFiniteSet(Fleet) /\ Cardinality(Fleet) \in Nat
  BY FleetFinite
<1>2. /\ IsFiniteSet(Fleet \cup {c})
      /\ Cardinality(Fleet \cup {c}) \in Nat
      /\ Cardinality(Fleet \cup {c}) <= Cardinality(Fleet) + 1
  BY <1>1, FS_AddElement, FS_CardinalityType
<1>3. /\ IsFiniteSet(Fleet')
      /\ Cardinality(Fleet') <= Cardinality(Fleet \cup {c})
  BY <1>2, FS_Subset
<1>4. Cardinality(Fleet') \in Nat
  BY <1>3, FS_CardinalityType
<1> QED
  BY <1>1, <1>2, <1>3, <1>4

\* A fleet that loses Connectors does not grow.
LEMMA FleetShrinks ==
  ASSUME TypeOK, Fleet' \subseteq Fleet
  PROVE  Cardinality(Fleet') \in Nat /\ Cardinality(Fleet') <= Cardinality(Fleet)
<1>1. IsFiniteSet(Fleet) /\ Cardinality(Fleet) \in Nat
  BY FleetFinite
<1>2. IsFiniteSet(Fleet') /\ Cardinality(Fleet') <= Cardinality(Fleet)
  BY <1>1, FS_Subset
<1> QED
  BY <1>1, <1>2, FS_CardinalityType

\* The invariant is about nothing but the job and the fleet.
LEMMA CeilingFrame ==
  ASSUME TypeOK, CeilingInv, UNCHANGED <<job, drain>>, containers' \subseteq containers
  PROVE  CeilingInv'
<1>1. Fleet' \subseteq Fleet
  BY DEF Fleet, Draining
<1>2. Cardinality(Fleet) \in Nat
  BY FleetFinite
<1>3. job.left \in Nat /\ Max \in Nat
  BY PolicyAssumption DEF TypeOK, JobType
<1> QED
  BY <1>1, <1>2, <1>3, FleetShrinks DEF CeilingInv

\* A provision that ends, in a scale-up, takes one from what is left of it.
LEMMA ProvisionCountsDown ==
  ASSUME TypeOK, job.stage = "scale_up", job.left > 0, ProvisionFailed \/ RecordProvision
  PROVE  /\ job'.stage = "scale_up" /\ job'.target = NoCid /\ job'.step = "none"
         /\ job'.left = job.left - 1
<1>1. job.stage \notin OverrideStages
  BY DEF OverrideStages
<1>2. job.left \in Nat
  BY DEF TypeOK, JobType
<1>3. \/ job' = [job EXCEPT !.step = "none", !.fresh = NoCid, !.target = NoCid,
                           !.left = IF @ > 0 THEN @ - 1 ELSE 0]
      \/ \E acted : job' = [job EXCEPT !.step = "none", !.fresh = NoCid, !.target = NoCid,
                                        !.acted = acted, !.left = IF @ > 0 THEN @ - 1 ELSE 0]
  BY <1>1 DEF ProvisionFailed, RecordProvision
<1> QED
  BY <1>2, <1>3, JobFields

LEMMA ProvisionKeepsCeiling ==
  ASSUME IInv, CeilingInv,
         \/ CreateConnector \/ CreateConnectorFails
         \/ StartContainer \/ StartContainerFails
         \/ RecordProvision
  PROVE  CeilingInv'
<1> USE DEF IInv
<1>1. CASE job.stage # "scale_up"
  <2>1. job'.stage # "scale_up"
    BY <1>1, ProvisionKeepsTodo
  <2> QED BY <2>1 DEF CeilingInv
<1>2. CASE job.stage = "scale_up"
  <2>1. Max \in Nat /\ job.left \in Nat /\ Cardinality(Fleet) \in Nat
    BY PolicyAssumption, FleetFinite DEF TypeOK, JobType
  <2>2. job.left > 0
    BY <1>2, <2>1 DEF CeilingInv, CreateConnector, CreateConnectorFails, WantsProvision,
                      StartContainer, StartContainerFails, RecordProvision
  <2>3. CASE CreateConnector
    <3>1. UNCHANGED <<containers, drain>> /\ job.step = "none"
      BY <2>3 DEF CreateConnector, WantsProvision
    <3>2. /\ job'.stage = "scale_up" /\ job'.target = job.target
          /\ job'.left = job.left /\ job'.step = "created"
      <4>1. PICK c \in Unused : job' = [job EXCEPT !.step = "created", !.fresh = c]
        BY <2>3 DEF CreateConnector
      <4> QED BY <1>2, <4>1, JobFields
    <3> QED BY <1>2, <2>1, <2>2, <3>1, <3>2 DEF CeilingInv, Fleet, Draining
  <2>4. CASE CreateConnectorFails
    <3>1. UNCHANGED <<containers, drain>> /\ job.step = "none" /\ ProvisionFailed
      BY <2>4 DEF CreateConnectorFails, WantsProvision
    <3> QED BY <1>2, <2>1, <2>2, <3>1, ProvisionCountsDown DEF CeilingInv, Fleet, Draining
  <2>5. CASE StartContainer
    <3>1. Fleet' \subseteq Fleet \cup {job.fresh} /\ job.step = "created"
      BY <2>5 DEF StartContainer, Fleet, Draining
    <3>2. /\ job'.stage = "scale_up" /\ job'.target = job.target
          /\ job'.left = job.left /\ job'.step = "started"
      BY <1>2, <2>5 DEF StartContainer, TypeOK, JobType
    <3> QED BY <1>2, <2>1, <2>2, <3>1, <3>2, FleetGrowth DEF CeilingInv
  <2>6. CASE StartContainerFails
    <3>1. Fleet' \subseteq Fleet \cup {job.fresh} /\ job.step = "created" /\ ProvisionFailed
      BY <2>6 DEF StartContainerFails, Fleet, Draining
    <3>2. /\ job'.stage = "scale_up" /\ job'.target = NoCid /\ job'.step = "none"
          /\ job'.left = job.left - 1
      BY <1>2, <2>2, <3>1, ProvisionCountsDown
    <3>3. /\ Cardinality(Fleet') \in Nat
          /\ Cardinality(Fleet') <= Cardinality(Fleet) + 1
      BY <3>1, FleetGrowth
    <3>4. Cardinality(Fleet) + job.left <= Max
      BY <1>2, <2>1, <3>1 DEF CeilingInv
    <3> QED BY <2>1, <2>2, <3>2, <3>3, <3>4 DEF CeilingInv
  <2>7. CASE RecordProvision
    <3>1. UNCHANGED <<containers, drain>> /\ job.step = "started"
      BY <2>7 DEF RecordProvision, external
    <3> QED BY <1>2, <2>1, <2>2, <2>7, <3>1, ProvisionCountsDown
            DEF CeilingInv, Fleet, Draining
  <2> QED BY <2>3, <2>4, <2>5, <2>6, <2>7
<1> QED
  BY <1>1, <1>2

LEMMA NextCeilingInv ==
  ASSUME IInv, CeilingInv, [Next]_vars
  PROVE  CeilingInv'
<1> USE DEF IInv
<1>1. CASE BeginCycle
  <2>1. PICK verdict \in Verdicts, found \in Discoveries :
          LET start == [IdleJob EXCEPT !.view = ExcludeDraining(found)]
          IN  \/ /\ verdict.direction = "up"
                 /\ job' = [start EXCEPT !.stage = "scale_up", !.left = verdict.count]
              \/ \E v : job' = [start EXCEPT !.stage = "scale_down", !.todo = v]
              \/ job' = [start EXCEPT !.stage = "pending", !.todo = PendingOld]
    BY <1>1 DEF BeginCycle
  <2>2. CASE job'.stage # "scale_up"
    BY <2>2 DEF CeilingInv
  <2>3. CASE job'.stage = "scale_up"
    <3>1. /\ verdict.direction = "up" /\ job'.left = verdict.count
          /\ job'.target = NoCid /\ job'.step = "none"
      BY <2>1, <2>3 DEF IdleJob
    <3>2. Fleet' = Fleet
      BY <1>1 DEF BeginCycle, Fleet, Draining, external
    <3>3. Max \in Nat /\ Cardinality(Fleet) \in Nat
      BY PolicyAssumption, FleetFinite
    <3> QED BY <3>1, <3>2, <3>3, VerdictsOK DEF CeilingInv
  <2> QED BY <2>2, <2>3
<1>2. CASE \/ CreateConnector \/ CreateConnectorFails
           \/ StartContainer \/ StartContainerFails \/ RecordProvision
  BY <1>2, ProvisionKeepsCeiling
<1>3. CASE \/ FinishScale \/ DecideHealth \/ EndCycle \/ FinishManualDown \/ StoreError
           \/ Crash \/ GracefulRestart
           \/ \E c \in Cid : \/ ScaleDownVictim(c) \/ ProcessPending(c)
                             \/ RestartOne(c) \/ BeginReplace(c)
  <2>1. ASSUME NEW c \in Cid, ScaleDownVictim(c) PROVE job'.stage # "scale_up"
    BY <2>1, JobFields DEF ScaleDownVictim, memory
  <2>2. job'.stage # "scale_up"
    BY <1>3, <2>1, LaterStages
  <2> QED BY <2>2 DEF CeilingInv
<1>4. CASE StartOverride
  <2>1. CASE UNCHANGED job
    BY <1>4, <2>1, CeilingFrame DEF StartOverride, external
  <2>2. CASE \E stage \in OverrideStages : \E todo, target : RunOverride(stage, todo, target)
    <3>1. job'.stage \in OverrideStages
      BY <2>2 DEF RunOverride, IdleJob
    <3> QED BY <3>1 DEF CeilingInv, OverrideStages
  <2> QED BY <1>4, <2>1, <2>2
          DEF StartOverride, ManualScaleUp, ManualScaleDown, ManualCordon, ManualReplace,
              EndOverride, OverrideStages
<1>5. CASE \E c \in Cid : DrainGraceOver(c) \/ DrainStep(c)
  <2>1. job'.stage = "idle"
    BY <1>5 DEF DrainGraceOver, DrainStep, DrainStop, DrainStopFails, DrainRecord,
                ActionsSerialized, control
  <2> QED BY <2>1 DEF CeilingInv
<1>6. CASE \/ OverrideDiscoveryFails \/ RequestOverride \/ RequestStop \/ Tick
           \/ \E c \in Cid : RestartRowExpires(c) \/ ContainerLost(c)
  BY <1>6, CeilingFrame
     DEF OverrideDiscoveryFails, EndOverride, RequestOverride, RequestStop, Tick,
         RestartRowExpires, ContainerLost, external, control
<1>7. CASE UNCHANGED vars
  BY <1>7, CeilingFrame DEF vars
<1> QED
  BY <1>1, <1>2, <1>3, <1>4, <1>5, <1>6, <1>7 DEF Next, JobStep, Environment

\* Where the containers of a running scale-up can change: it starts one, or one
\* is lost from outside.
LEMMA ScaleUpContainers ==
  ASSUME IInv, [Next]_vars, job.stage = "scale_up", containers' # containers
  PROVE  /\ UNCHANGED drain
         /\ \/ job.step = "created" /\ containers' \subseteq containers \cup {job.fresh}
            \/ containers' \subseteq containers
<1> USE DEF IInv
<1>1. CASE StartContainer \/ StartContainerFails
  BY <1>1 DEF StartContainer, StartContainerFails
<1>2. CASE \E c \in Cid : ContainerLost(c)
  BY <1>2 DEF ContainerLost
<1>3. CASE \E c \in Cid : DrainGraceOver(c) \/ DrainStep(c)
  BY <1>3 DEF DrainGraceOver, DrainStep, DrainStop, DrainStopFails, DrainRecord,
              ActionsSerialized
<1>4. ASSUME \/ BeginCycle \/ StartOverride \/ OverrideDiscoveryFails \/ GracefulRestart
             \/ Tick \/ RequestOverride \/ RequestStop \/ StoreError \/ Crash
             \/ CreateConnector \/ CreateConnectorFails \/ RecordProvision
             \/ FinishScale \/ DecideHealth \/ EndCycle \/ FinishManualDown
             \/ UNCHANGED vars
      PROVE  FALSE
  BY <1>4
     DEF BeginCycle, StartOverride, OverrideDiscoveryFails, GracefulRestart, Tick,
         RequestOverride, RequestStop, StoreError, Crash, CreateConnector,
         CreateConnectorFails, RecordProvision, FinishScale, DecideHealth, EndCycle,
         FinishManualDown, vars, external
<1>5. ASSUME NEW c \in Cid,
             \/ ScaleDownVictim(c) \/ ProcessPending(c) \/ RestartOne(c)
             \/ BeginReplace(c) \/ RestartRowExpires(c)
      PROVE  FALSE
  BY <1>5 DEF ScaleDownVictim, ProcessPending, RestartOne, BeginReplace,
              RestartRowExpires, external
<1> QED
  BY <1>1, <1>2, <1>3, <1>4, <1>5 DEF Next, JobStep, Environment

\* No provision of the autoscaler's scale-up takes the fleet beyond
\* max_connectors, however its calls interleave with failures and losses.
THEOREM CeilingKept == Spec => ScaleUpWithinCeiling
<1>1. Init => CeilingInv
  BY DEF Init, CeilingInv, IdleJob
<1>2. IInv /\ CeilingInv /\ [Next]_vars => CeilingInv'
  BY NextCeilingInv
<1>3. IInv /\ CeilingInv /\ [Next]_vars
      => [job.stage = "scale_up" /\ containers' # containers =>
            Cardinality(Fleet') <= Max]_vars
  <2> SUFFICES ASSUME IInv, CeilingInv, [Next]_vars,
                      job.stage = "scale_up", containers' # containers
               PROVE  Cardinality(Fleet') <= Max
    OBVIOUS
  <2>1. TypeOK
    BY DEF IInv
  <2>2. Max \in Nat /\ job.left \in Nat /\ Cardinality(Fleet) \in Nat
    BY <2>1, PolicyAssumption, FleetFinite DEF TypeOK, JobType
  <2>3. CASE job.step = "created" /\ Fleet' \subseteq Fleet \cup {job.fresh}
    BY <2>1, <2>2, <2>3, FleetGrowth DEF CeilingInv
  <2>4. CASE Fleet' \subseteq Fleet
    BY <2>1, <2>2, <2>4, FleetShrinks DEF CeilingInv
  <2> QED BY <2>3, <2>4, ScaleUpContainers DEF Fleet, Draining
<1> QED
  BY <1>1, <1>2, <1>3, Invariance, PTL DEF Spec, ScaleUpWithinCeiling
=============================================================================
