-------------------------- MODULE AvailabilityProofs --------------------------
(***************************************************************************)
(* Proofs about what FleetLoop keeps in service.                           *)
(*                                                                         *)
(* Pending replaces: a replacement is given up only with its replace, and  *)
(* unless containers vanish from outside, the old Connector of a replace   *)
(* is drained only while its replacement serves, however old the discovery *)
(* is that the cycle acts on.                                              *)
(*                                                                         *)
(* min_connectors, for a manager that is left to itself (the operator      *)
(* stops, cordons and uncordons, but issues no scale or replace command)   *)
(* and whose containers do not vanish from outside:                        *)
(*   - a fleet that has reached the floor keeps one Connector in reserve   *)
(*     for every pending replace, so no drain takes it below (Filled);     *)
(*   - a fleet that has not reached it yet starts no drain, unless three   *)
(*     failures make it replace a Connector first (Filling).               *)
(***************************************************************************)
EXTENDS LifecycleProofs

\* No two pending replaces share a replacement, the Connector a provision works
\* on belongs to none, and no victim of a scale-down does.
Injective == \A o, p \in PendingOld : pendingNew[o] = pendingNew[p] => o = p

FreshApart == job.step # "none" => job.fresh \notin PendingPair

VictimsApart ==
  job.stage \in {"scale_down", "manual_down"} => job.todo \cap PendingPair = {}

ReplaceInv == LifeInv /\ CordonInv /\ Injective /\ FreshApart /\ VictimsApart

ProvisionStep ==
  \/ CreateConnector \/ CreateConnectorFails
  \/ StartContainer \/ StartContainerFails
  \/ RecordProvision

-----------------------------------------------------------------------------
(***************************************************************************)
(* What a step can do to the pending replaces.                             *)
(***************************************************************************)

\* One entry less, or the same entries.
Forgets(o) == pendingNew' = [pendingNew EXCEPT ![o] = NoCid]

LEMMA ProcessSteps ==
  ASSUME TypeOK, NEW o \in Cid, ProcessPending(o)
  PROVE  /\ UNCHANGED pendingNew \/ Forgets(o)
         /\ job'.stage = "pending" /\ job'.todo = job.todo \ {o} /\ job'.view = job.view
         /\ job'.target = job.target /\ job'.step = job.step
         /\ \/ UNCHANGED <<logical, drain>>
            \/ DeprovisionStarts(o) \/ DeprovisionFails(o)
            \/ DeprovisionStarts(pendingNew[o]) \/ DeprovisionFails(pendingNew[o])
<1>1. /\ job'.stage = "pending" /\ job'.todo = job.todo \ {o} /\ job'.view = job.view
      /\ job'.target = job.target /\ job'.step = job.step
  BY DEF ProcessPending, TypeOK, JobType
<1>2. PendingOldGone(o) \/ PendingCompletes(o) \/ PendingTimesOut(o) \/ PendingWaits(o)
  BY DEF ProcessPending
<1>3. UNCHANGED pendingNew \/ Forgets(o)
  BY <1>2 DEF PendingOldGone, PendingCompletes, PendingTimesOut, PendingWaits, ForgetPending,
              Forgets
<1>4. \/ UNCHANGED <<logical, drain>>
      \/ DeprovisionStarts(o) \/ DeprovisionFails(o)
      \/ DeprovisionStarts(pendingNew[o]) \/ DeprovisionFails(pendingNew[o])
  BY <1>2 DEF PendingOldGone, PendingCompletes, PendingTimesOut, PendingWaits
<1> QED BY <1>1, <1>3, <1>4

LEMMA PendingSteps ==
  ASSUME TypeOK, [Next]_vars
  PROVE  \/ UNCHANGED pendingNew
         \/ \E o \in Cid : ProcessPending(o) /\ Forgets(o)
         \/ /\ RecordProvision /\ job.target # NoCid
            /\ pendingNew' = [pendingNew EXCEPT ![job.target] = job.fresh]
         \/ PendingOld' = {}
<1>1. CASE \E o \in Cid : ProcessPending(o)
  BY <1>1, ProcessSteps
<1>2. CASE RecordProvision
  BY <1>2 DEF RecordProvision
<1>3. CASE Crash \/ GracefulRestart
  BY <1>3 DEF Crash, GracefulRestart, ForgetMemory, PendingOld
<1>4. CASE \/ BeginCycle \/ CreateConnector \/ CreateConnectorFails
           \/ StartContainer \/ StartContainerFails
           \/ FinishScale \/ DecideHealth \/ EndCycle \/ FinishManualDown
           \/ StartOverride \/ OverrideDiscoveryFails \/ RequestOverride \/ RequestStop
           \/ StoreError \/ Tick \/ UNCHANGED vars
  BY <1>4
     DEF BeginCycle, CreateConnector, CreateConnectorFails, StartContainer,
         StartContainerFails, FinishScale, DecideHealth, EndCycle, FinishManualDown,
         StartOverride, OverrideDiscoveryFails, RequestOverride, RequestStop, StoreError,
         Tick, memory, vars
<1>5. CASE \E c \in Cid : \/ ScaleDownVictim(c) \/ RestartOne(c) \/ BeginReplace(c)
                          \/ DrainGraceOver(c) \/ DrainStep(c)
                          \/ RestartRowExpires(c) \/ ContainerLost(c)
  BY <1>5
     DEF ScaleDownVictim, RestartOne, BeginReplace, DrainGraceOver, DrainStep, DrainStop,
         DrainStopFails, DrainRecord, RestartRowExpires, ContainerLost, memory
<1> QED
  BY <1>1, <1>2, <1>3, <1>4, <1>5 DEF Next, JobStep, Environment

\* Entries are only added by the registration of a replacement.
LEMMA PairsShrink ==
  ASSUME TypeOK, [Next]_vars, ~(RecordProvision /\ job.target # NoCid)
  PROVE  /\ PendingOld' \subseteq PendingOld
         /\ \A o \in PendingOld' : pendingNew'[o] = pendingNew[o]
         /\ PendingPair' \subseteq PendingPair
<1>1. /\ PendingOld' \subseteq PendingOld
      /\ \A o \in PendingOld' : pendingNew'[o] = pendingNew[o]
  BY PendingSteps DEF Forgets, PendingOld, TypeOK
<1> QED BY <1>1 DEF PendingPair

LEMMA NextInjective ==
  ASSUME ReplaceInv, [Next]_vars PROVE Injective'
<1> USE DEF ReplaceInv, LifeInv, IInv
<1>1. CASE ~(RecordProvision /\ job.target # NoCid)
  BY <1>1, PairsShrink DEF Injective
<1>2. CASE RecordProvision /\ job.target # NoCid
  <2>1. pendingNew' = [pendingNew EXCEPT ![job.target] = job.fresh]
    BY <1>2 DEF RecordProvision
  <2>2. job.fresh \notin PendingPair
    BY <1>2 DEF RecordProvision, FreshApart
  <2>3. \A o \in PendingOld : pendingNew[o] # job.fresh
    BY <2>2 DEF PendingPair
  <2>4. \A o \in PendingOld' : /\ o # job.target => /\ o \in PendingOld
                                                    /\ pendingNew'[o] = pendingNew[o]
                               /\ o = job.target => pendingNew'[o] = job.fresh
    BY <2>1 DEF PendingOld, TypeOK
  <2> QED BY <2>3, <2>4 DEF Injective
<1> QED BY <1>1, <1>2

LEMMA NextFreshApart ==
  ASSUME ReplaceInv, [Next]_vars PROVE FreshApart'
<1> USE DEF ReplaceInv, LifeInv, IInv
<1>1. CASE job'.step = "none"
  BY <1>1 DEF FreshApart
<1>2. CASE RecordProvision \/ StartContainerFails
  BY <1>1, <1>2, RecordProvisionBlank, ProvisionFailedBlank DEF StartContainerFails
<1>3. CASE UNCHANGED job
  <2>1. CASE RecordProvision
    BY <1>2, <2>1
  <2>2. CASE ~RecordProvision
    BY <1>3, <2>2, PairsShrink DEF FreshApart
  <2> QED BY <2>1, <2>2
<1>4. CASE CreateConnector
  <2>1. job'.fresh \in Unused
    BY <1>4, CreateSteps
  <2>2. PendingPair' = PendingPair
    BY <1>4 DEF CreateConnector, PendingPair, PendingOld
  <2> QED BY <2>1, <2>2 DEF FreshApart, Unused
<1>5. CASE StartContainer
  <2>1. job'.fresh = job.fresh /\ job.step # "none"
    BY <1>5 DEF StartContainer, TypeOK, JobType
  <2>2. PendingPair' = PendingPair
    BY <1>5 DEF StartContainer, PendingPair, PendingOld, memory
  <2> QED BY <2>1, <2>2 DEF FreshApart
<1>6. CASE Crash
  BY <1>1, <1>6, IdleJobOK DEF Crash, ForgetMemory
<1> QED BY <1>1, <1>2, <1>3, <1>4, <1>5, <1>6, JobSteps

-----------------------------------------------------------------------------
(***************************************************************************)
(* How a step arrives in a stage of the cycle whose list or view matters.  *)
(***************************************************************************)
DecidedStages == {"scale_up", "scale_down", "pending", "manual_down"}

\* The holder of the lock does not move; only a container may vanish.
Waits ==
  /\ UNCHANGED <<job, logical, pendingNew, drain>>
  /\ containers' = containers \/ \E c \in Cid : ContainerLost(c)

\* A scale-up provisions.
Provisions ==
  /\ ProvisionStep
  /\ job.stage = "scale_up" /\ job'.stage = "scale_up"
  /\ job'.view = job.view /\ job'.todo = job.todo
  /\ UNCHANGED <<pendingNew, drain>>
  /\ logical \subseteq logical' /\ containers \subseteq containers'

PicksManually ==
  /\ StartOverride
  /\ job'.stage = "manual_down"
  /\ \E c \in Eligible(seenFor) : job'.todo = {c}

LEMMA ProvisionDecided ==
  ASSUME LifeInv, ProvisionStep, job'.stage \in DecidedStages
  PROVE  Provisions
<1> USE DEF LifeInv, IInv
<1>1. job.stage \in ProvisionStages
  BY DEF ProvisionStep, CreateConnector, CreateConnectorFails, WantsProvision, StartContainer,
         StartContainerFails, RecordProvision, ProvisionOK, ProvisionStages
<1>2. job'.stage = job.stage /\ job'.todo = job.todo
  BY ProvisionKeepsTodo DEF DecidedStages, ProvisionStep
<1>3. job.stage = "scale_up"
  BY <1>1, <1>2 DEF ProvisionStages, DecidedStages
<1>4. job.target = NoCid
  BY <1>3 DEF ProvisionOK
<1>5. UNCHANGED <<pendingNew, drain>>
  BY <1>4 DEF ProvisionStep, CreateConnector, CreateConnectorFails, StartContainer,
              StartContainerFails, RecordProvision, memory
<1>6. logical \subseteq logical' /\ containers \subseteq containers'
  BY DEF ProvisionStep, CreateConnector, CreateConnectorFails, Mint, NoMint, StartContainer,
         StartContainerFails, RecordProvision, external
<1>7. job'.view = job.view
  <2>1. CASE CreateConnector \/ StartContainer
    <3>1. (\E c : job' = [job EXCEPT !.step = "created", !.fresh = c])
          \/ job' = [job EXCEPT !.step = "started"]
      BY <2>1 DEF CreateConnector, StartContainer
    <3> QED BY <3>1, JobFields
  <2>2. ASSUME ProvisionFailed \/ RecordProvision
        PROVE  \E rest, acted :
                 \/ job' = [job EXCEPT !.step = "none", !.fresh = NoCid, !.target = NoCid,
                                       !.left = rest]
                 \/ job' = [job EXCEPT !.step = "none", !.fresh = NoCid, !.target = NoCid,
                                       !.acted = acted, !.left = rest]
    BY <1>3, <2>2 DEF ProvisionFailed, RecordProvision, OverrideStages
  <2>3. ASSUME NEW rest, NEW acted,
               \/ job' = [job EXCEPT !.step = "none", !.fresh = NoCid, !.target = NoCid,
                                     !.left = rest]
               \/ job' = [job EXCEPT !.step = "none", !.fresh = NoCid, !.target = NoCid,
                                     !.acted = acted, !.left = rest]
        PROVE  job'.view = job.view
    BY <2>3 DEF TypeOK, JobType
  <2> QED
    BY <2>1, <2>2, <2>3 DEF ProvisionStep, CreateConnectorFails, StartContainerFails
<1> QED BY <1>2, <1>3, <1>5, <1>6, <1>7 DEF Provisions

LEMMA DecidedSteps ==
  ASSUME LifeInv, [Next]_vars, job'.stage \in DecidedStages
  PROVE  \/ Waits \/ BeginCycle \/ PicksManually \/ Provisions \/ FinishScale
         \/ \E c \in Cid : ScaleDownVictim(c) \/ ProcessPending(c)
<1> USE DEF LifeInv, IInv
<1>1. CASE ProvisionStep
  BY <1>1, ProvisionDecided
<1>2. job'.stage # "idle"
  BY DEF DecidedStages
<1>3. CASE \/ DecideHealth \/ EndCycle \/ FinishManualDown \/ StoreError
           \/ Crash \/ GracefulRestart
           \/ \E c \in Cid : RestartOne(c) \/ BeginReplace(c)
  <2>1. CASE DecideHealth \/ \E c \in Cid : RestartOne(c) \/ BeginReplace(c)
    <3>1. job'.stage = "health"
      BY <2>1, JobFields DEF DecideHealth, RestartOne, BeginReplace
    <3> QED BY <3>1 DEF DecidedStages
  <2>2. CASE \/ EndCycle \/ FinishManualDown \/ StoreError \/ Crash \/ GracefulRestart
    <3>1. job' = IdleJob
      BY <2>2 DEF EndCycle, FinishManualDown, StoreError, Crash, GracefulRestart, ForgetMemory
    <3> QED BY <1>2, <3>1, IdleJobOK
  <2> QED BY <1>3, <2>1, <2>2
<1>4. CASE StartOverride
  <2>1. job.stage = "idle"
    BY <1>4, FreeMeansQuiet DEF StartOverride
  <2>2. CASE EndOverride
    BY <1>2, <2>1, <2>2 DEF EndOverride
  <2>3. CASE ManualScaleUp \/ ManualReplace
    <3>1. \/ EndOverride
          \/ \E target : \/ RunOverride("manual_up", {}, target)
                         \/ RunOverride("manual_foreign", {}, target)
                         \/ RunOverride("manual_replace", {}, target)
      BY <2>3 DEF ManualScaleUp, ManualReplace
    <3> QED BY <2>2, <3>1 DEF RunOverride, IdleJob, DecidedStages
  <2>4. CASE ManualScaleDown
    <3>1. \/ EndOverride
          \/ \E c \in Eligible(seenFor) : RunOverride("manual_down", {c}, NoCid)
      BY <2>4 DEF ManualScaleDown
    <3>2. CASE \E c \in Eligible(seenFor) : RunOverride("manual_down", {c}, NoCid)
      BY <1>4, <3>2 DEF RunOverride, IdleJob, PicksManually
    <3> QED BY <2>2, <3>1, <3>2
  <2>5. CASE ManualCordon
    BY <2>2, <2>5 DEF ManualCordon
  <2> QED BY <1>4, <2>3, <2>4, <2>5 DEF StartOverride
<1>5. CASE \/ OverrideDiscoveryFails \/ RequestOverride \/ RequestStop \/ Tick
           \/ \E c \in Cid : RestartRowExpires(c)
  BY <1>5 DEF OverrideDiscoveryFails, EndOverride, RequestOverride, RequestStop, Tick,
              RestartRowExpires, external, memory, control, Waits
<1>6. CASE \E c \in Cid : ContainerLost(c)
  BY <1>6 DEF ContainerLost, memory, control, Waits
<1>7. CASE UNCHANGED vars
  BY <1>7 DEF vars, Waits
<1>8. CASE \E c \in Cid : DrainGraceOver(c) \/ DrainStep(c)
  <2>1. UNCHANGED job
    BY <1>8 DEF DrainGraceOver, DrainStep, DrainStop, DrainStopFails, DrainRecord, control
  <2>2. job.stage = "idle"
    <3>1. CASE lock = "free"
      BY <3>1, FreeMeansQuiet
    <3>2. CASE Removing # {}
      BY <3>2, BusyNotRemoving
    <3>3. lock = "free" \/ Removing # {}
      BY <1>8 DEF DrainGraceOver, DrainStep, DrainStop, DrainStopFails, DrainRecord, Removing
    <3> QED BY <3>1, <3>2, <3>3
  <2> QED BY <1>2, <2>1, <2>2
<1> QED
  BY <1>1, <1>3, <1>4, <1>5, <1>6, <1>7, <1>8 DEF Next, JobStep, Environment, ProvisionStep

LEMMA NextVictimsApart ==
  ASSUME ReplaceInv, [Next]_vars PROVE VictimsApart'
<1> USE DEF ReplaceInv, LifeInv, IInv
<1>1. CASE job'.stage \notin {"scale_down", "manual_down"}
  BY <1>1 DEF VictimsApart
<1>2. CASE job'.stage \in {"scale_down", "manual_down"}
  <2>1. CASE UNCHANGED pendingNew /\ \E seen : job'.todo \subseteq Eligible(seen)
    BY <2>1 DEF Eligible, VictimsApart, PendingPair, PendingOld
  <2>2. CASE /\ UNCHANGED pendingNew /\ job.stage \in {"scale_down", "manual_down"}
             /\ job'.todo \subseteq job.todo
    BY <2>2 DEF VictimsApart, PendingPair, PendingOld
  <2>3. CASE Waits
    BY <1>2, <2>2, <2>3 DEF Waits
  <2>4. CASE BeginCycle
    BY <1>2, <2>1, <2>4, BeginDecides DEF PickVictims
  <2>5. CASE PicksManually
    BY <2>1, <2>5 DEF PicksManually, StartOverride, memory
  <2>6. CASE \E c \in Cid : ScaleDownVictim(c)
    <3>1. PICK c \in Cid : ScaleDownVictim(c)
      BY <2>6
    <3>2. \/ job' = [job EXCEPT !.todo = @ \ {c}, !.acted = TRUE]
          \/ job' = [job EXCEPT !.todo = @ \ {c}]
      BY <3>1 DEF ScaleDownVictim
    <3>3. job'.todo \subseteq job.todo
      BY <3>2, JobFields
    <3>4. UNCHANGED pendingNew /\ job.stage \in {"scale_down", "manual_down"}
      BY <3>1 DEF ScaleDownVictim, memory
    <3> QED BY <2>2, <3>3, <3>4
  <2>7. job'.stage \in DecidedStages
    BY <1>2 DEF DecidedStages
  <2>8. ~Provisions
    BY <1>2 DEF Provisions
  <2>9. ~FinishScale
    BY <1>2, JobFields DEF FinishScale
  <2>10. \A c \in Cid : ~ProcessPending(c)
    BY <1>2, ProcessSteps
  <2> QED BY <2>3, <2>4, <2>5, <2>6, <2>7, <2>8, <2>9, <2>10, DecidedSteps
<1> QED BY <1>1, <1>2

LEMMA NextReplaceInv ==
  ASSUME ReplaceInv, [Next]_vars PROVE ReplaceInv'
<1>1. LifeInv'
  BY NextTypes, NextUnrouted, NextSerialized, NextProvisionOK, NextFreshOK,
     NextRecordedIsGone DEF ReplaceInv, LifeInv, IInv
<1>2. CordonInv'
  BY NextCordonInv DEF ReplaceInv, LifeInv
<1> QED BY <1>1, <1>2, NextInjective, NextFreshApart, NextVictimsApart DEF ReplaceInv

LEMMA InitReplaceInv == Init => ReplaceInv
BY InitLifeInv, IdleJobOK
   DEF Init, ReplaceInv, CordonInv, Injective, FreshApart, VictimsApart, PendingOld

LEMMA ReplaceInvariance == Spec => []ReplaceInv
<1>1. Init => ReplaceInv
  BY InitReplaceInv
<1>2. ReplaceInv /\ [Next]_vars => ReplaceInv'
  BY NextReplaceInv
<1> QED BY <1>1, <1>2, PTL DEF Spec

-----------------------------------------------------------------------------
LEMMA DrainsNeedEntry ==
  ASSUME ReplaceInv, [Next]_vars, NEW o \in PendingOld
  PROVE  /\ pendingNew[o] \in Cid
         /\ ~DrainsVictim(o) /\ ~DrainsVictim(pendingNew[o])
<1>1. pendingNew[o] \in Cid
  BY DEF ReplaceInv, LifeInv, IInv, TypeOK, PendingOld
<1>2. o \in PendingPair /\ pendingNew[o] \in PendingPair
  BY DEF PendingPair
<1> QED BY <1>1, <1>2 DEF DrainsVictim, ScaleDownVictim, ReplaceInv, VictimsApart

\* ReplacementKept holds for every pool, policy and set of failures: the
\* replacement of a pending replace is drained only as that replace is given up
\* or as the replace of the replacement itself completes.
THEOREM ReplacementsKept == Spec => ReplacementKept
<1>1. ReplaceInv /\ [Next]_vars
      => [\A o \in PendingOld :
            pendingNew[o] \in Draining' \ Draining =>
              \/ pendingNew'[o] = NoCid
              \/ pendingNew[o] \in PendingOld /\ pendingNew'[pendingNew[o]] = NoCid]_vars
  <2> SUFFICES ASSUME ReplaceInv, [Next]_vars, NEW o \in PendingOld,
                      pendingNew[o] \in Draining' \ Draining
               PROVE  \/ pendingNew'[o] = NoCid
                      \/ /\ pendingNew[o] \in PendingOld
                         /\ pendingNew'[pendingNew[o]] = NoCid
    OBVIOUS
  <2> USE DEF ReplaceInv, LifeInv, IInv
  <2> DEFINE n == pendingNew[o]
  <2>1. DrainsOld(n) \/ DrainsNew(n)
    BY DrainsStartBy, DrainsNeedEntry
  <2>2. CASE DrainsOld(n)
    <3>1. ProcessPending(n) /\ ForgetPending(n) /\ n \in Cid
      BY <2>2 DEF DrainsOld
    <3>2. n \in PendingOld
      BY <3>1 DEF ProcessPending, CordonInv
    <3> QED BY <3>1, <3>2 DEF ForgetPending, TypeOK
  <2>3. CASE DrainsNew(n)
    <3>1. PICK p \in Cid : n = pendingNew[p] /\ ForgetPending(p)
      BY <2>3 DEF DrainsNew
    <3>2. p = o
      BY <3>1, DrainsNeedEntry, ModelAssumption DEF Injective, PendingOld
    <3> QED BY <3>1, <3>2 DEF ForgetPending, TypeOK
  <2> QED BY <2>1, <2>2, <2>3
<1> QED BY <1>1, ReplaceInvariance, PTL DEF Spec, ReplacementKept

-----------------------------------------------------------------------------
(***************************************************************************)
(* Make before break.  A cycle reads the health of the fleet once and acts *)
(* on it call by call.  ServeInv says what keeps that reading good enough: *)
(* a replacement it found alive still serves when its replace comes up,    *)
(* although the same cycle may have scaled down and completed other        *)
(* replaces meanwhile.                                                     *)
(***************************************************************************)
Serves(n) == n \in logical /\ n \in Fleet

\* The pending replaces this cycle has still to go through.
Ahead ==
  IF job.stage \in {"scale_up", "scale_down"} THEN PendingOld
  ELSE IF job.stage = "pending" THEN job.todo
  ELSE {}

ServeInv == \A o \in Ahead : ReplacementHealthy(pendingNew[o]) => Serves(pendingNew[o])

LEMMA AheadPending ==
  ASSUME ReplaceInv, NEW o \in Ahead
  PROVE  o \in PendingOld /\ pendingNew[o] \in Cid /\ job.stage \in DecidedStages
BY DEF Ahead, ReplaceInv, LifeInv, IInv, CordonInv, TypeOK, PendingOld, DecidedStages

\* A replacement that discovery reads as alive serves.
LEMMA AliveServes ==
  ASSUME IInv, NEW found \in Discoveries, NEW n \in Cid,
         ExcludeDraining(found)[n] = "alive"
  PROVE  Serves(n)
<1>1. n \notin Draining /\ found[n] = "alive"
  BY DEF ExcludeDraining
<1>2. PICK r \in {f \in [containers -> Reading] : \A c \in containers : f[c] \in Readings(c)} :
        found = [c \in Cid |-> IF c \in containers THEN r[c] ELSE "absent"]
  BY DEF Discoveries
<1>3. n \in containers /\ "alive" \in Readings(n)
  BY <1>1, <1>2
<1>4. n \in logical
  BY <1>3 DEF Readings
<1> QED BY <1>1, <1>3, <1>4 DEF Serves, Fleet

\* Only a victim, or a Connector of the entry being processed, stops serving.
LEMMA DeprovisionSpares ==
  ASSUME TypeOK, NEW c \in Cid \cup {NoCid}, NEW n \in Cid \ {c},
         DeprovisionStarts(c) \/ DeprovisionFails(c), UNCHANGED containers, Serves(n)
  PROVE  Serves(n)'
BY DEF DeprovisionStarts, DeprovisionFails, DeleteConnector, Serves, Fleet, Draining, TypeOK

LEMMA NextServeInv ==
  ASSUME ReplaceInv, ServeInv, [Next]_vars, "loss" \notin FaultKinds
  PROVE  ServeInv'
<1> USE DEF ReplaceInv, LifeInv, IInv
<1> SUFFICES ASSUME NEW o \in Ahead', ReplacementHealthy(pendingNew[o])'
             PROVE  Serves(pendingNew[o])'
  BY DEF ServeInv
<1>1. /\ o \in PendingOld' /\ pendingNew'[o] \in Cid
      /\ job'.stage \in {"scale_up", "scale_down", "pending"}
      /\ job'.view[pendingNew'[o]] = "alive"
  <2>1. TypeOK' /\ CordonInv'
    BY NextTypes, NextCordonInv
  <2>2. o \in PendingOld'
    BY <2>1 DEF Ahead, CordonInv
  <2>3. pendingNew'[o] \in Cid
    BY <2>1, <2>2 DEF TypeOK, PendingOld
  <2>4. job'.stage \in {"scale_up", "scale_down", "pending"}
    BY DEF Ahead
  <2>5. job'.view[pendingNew'[o]] = "alive"
    BY DEF ReplacementHealthy
  <2> QED BY <2>2, <2>3, <2>4, <2>5
<1>2. job'.stage \in DecidedStages
  BY <1>1 DEF DecidedStages
<1>3. CASE BeginCycle
  <2>1. PICK found \in Discoveries :
          job'.view = ExcludeDraining(found) /\ UNCHANGED <<external, drain>>
    BY <1>3, BeginDecides
  <2>2. Serves(pendingNew'[o])
    BY <1>1, <2>1, AliveServes
  <2> QED BY <2>1, <2>2 DEF Serves, Fleet, Draining, external
\* The same entry was ahead before, with the same reading, and still serves.
<1>4. ASSUME o \in Ahead, pendingNew'[o] = pendingNew[o], job'.view = job.view
      PROVE  Serves(pendingNew[o])
  BY <1>1, <1>4 DEF ServeInv, ReplacementHealthy
<1>5. CASE Waits
  <2>1. UNCHANGED <<job, external, pendingNew, drain>>
    BY <1>5 DEF Waits, ContainerLost, Fault, external
  <2>2. o \in Ahead
    BY <2>1 DEF Ahead, PendingOld
  <2> QED BY <1>4, <2>1, <2>2 DEF Serves, Fleet, Draining, external
<1>6. CASE Provisions
  <2>1. o \in Ahead /\ pendingNew'[o] = pendingNew[o] /\ job'.view = job.view
    BY <1>1, <1>6 DEF Provisions, Ahead, PendingOld
  <2> QED BY <1>4, <1>6, <2>1 DEF Provisions, Serves, Fleet, Draining
<1>7. CASE FinishScale
  <2>1. job'.view = job.view /\ job.stage \in {"scale_up", "scale_down"}
    BY <1>7 DEF FinishScale, TypeOK, JobType
  <2>2. UNCHANGED <<external, pendingNew, drain>>
    BY <1>7 DEF FinishScale, memory
  <2>3. o \in Ahead
    BY <1>1, <2>1, <2>2 DEF Ahead, PendingOld
  <2> QED BY <1>4, <2>1, <2>2, <2>3 DEF Serves, Fleet, Draining, external
<1>8. CASE \E c \in Cid : ScaleDownVictim(c)
  <2>1. PICK c \in Cid : ScaleDownVictim(c)
    BY <1>8
  <2>2. job'.view = job.view /\ job'.stage = job.stage
    <3>1. CASE job' = [job EXCEPT !.todo = @ \ {c}, !.acted = TRUE]
      BY <3>1 DEF TypeOK, JobType
    <3>2. CASE job' = [job EXCEPT !.todo = @ \ {c}]
      BY <3>2 DEF TypeOK, JobType
    <3> QED BY <2>1, <3>1, <3>2 DEF ScaleDownVictim
  <2>3. /\ c \in job.todo /\ job.stage \in {"scale_down", "manual_down"}
        /\ UNCHANGED <<pendingNew, containers>>
        /\ DeprovisionStarts(c) \/ DeprovisionFails(c)
    BY <2>1 DEF ScaleDownVictim, memory
  <2>4. o \in Ahead /\ o \in PendingOld
    BY <1>1, <2>2, <2>3 DEF Ahead, PendingOld
  <2>5. pendingNew[o] \in PendingPair /\ c \notin PendingPair
    BY <2>3, <2>4 DEF PendingPair, VictimsApart
  <2> QED BY <1>1, <1>4, <2>2, <2>3, <2>4, <2>5, DeprovisionSpares
<1>9. CASE \E c \in Cid : ProcessPending(c)
  <2>1. PICK c \in Cid : ProcessPending(c)
    BY <1>9
  <2>2. /\ job.stage = "pending" /\ c \in job.todo /\ OldestFirst(c)
        /\ UNCHANGED containers
    BY <2>1 DEF ProcessPending
  <2>3. /\ job'.stage = "pending" /\ job'.todo = job.todo \ {c} /\ job'.view = job.view
        /\ UNCHANGED pendingNew \/ Forgets(c)
        /\ \/ UNCHANGED <<logical, drain>>
           \/ DeprovisionStarts(c) \/ DeprovisionFails(c)
           \/ DeprovisionStarts(pendingNew[c]) \/ DeprovisionFails(pendingNew[c])
    BY <2>1, ProcessSteps
  <2>4. o \in job.todo \ {c} /\ o \in Ahead
    BY <2>2, <2>3 DEF Ahead
  <2>5. o \in PendingOld /\ c \in PendingOld
    BY <2>2, <2>4 DEF CordonInv
  <2>6. pendingNew'[o] = pendingNew[o]
    BY <2>3, <2>4, <2>5 DEF Forgets, PendingOld, TypeOK
  <2>7. Serves(pendingNew[o])
    BY <1>4, <2>3, <2>4, <2>6
  <2>8. pendingNew[o] # c /\ pendingNew[o] # pendingNew[c]
    BY <2>2, <2>4, <2>5 DEF OldestFirst, Injective
  <2>9. pendingNew[o] \in Cid /\ pendingNew[c] \in Cid
    BY <2>5 DEF PendingOld, TypeOK
  <2>10. CASE UNCHANGED <<logical, drain>>
    BY <2>2, <2>6, <2>7, <2>10 DEF Serves, Fleet, Draining
  <2>11. CASE DeprovisionStarts(c) \/ DeprovisionFails(c)
    BY <2>2, <2>6, <2>7, <2>8, <2>9, <2>11, DeprovisionSpares
  <2>12. CASE DeprovisionStarts(pendingNew[c]) \/ DeprovisionFails(pendingNew[c])
    BY <2>2, <2>6, <2>7, <2>8, <2>9, <2>12, DeprovisionSpares
  <2> QED BY <2>3, <2>10, <2>11, <2>12
<1>10. ~PicksManually
  BY <1>1 DEF PicksManually
<1> QED BY <1>2, <1>3, <1>5, <1>6, <1>7, <1>8, <1>9, <1>10, DecidedSteps

\* ReplacementServesFirst holds for every pool and policy as long as containers
\* do not vanish from outside between a discovery and the drain it justifies.
THEOREM MakeBeforeBreak ==
  ASSUME "loss" \notin FaultKinds
  PROVE  Spec => ReplacementServesFirst
<1>1. Init => ServeInv
  BY IdleJobOK DEF Init, ServeInv, Ahead
<1>2. ReplaceInv /\ ServeInv /\ [Next]_vars => ServeInv'
  BY NextServeInv
<1>3. ReplaceInv /\ ServeInv /\ [Next]_vars
      => [\A o \in PendingOld :
            o \in Draining' \ Draining =>
              \/ pendingNew[o] \in logical' \cap Fleet'
              \/ \E p \in PendingOld : pendingNew[p] = o /\ pendingNew'[p] = NoCid]_vars
  <2> SUFFICES ASSUME ReplaceInv, ServeInv, [Next]_vars, NEW o \in PendingOld,
                      o \in Draining' \ Draining
               PROVE  \/ pendingNew[o] \in logical' \cap Fleet'
                      \/ \E p \in PendingOld : pendingNew[p] = o /\ pendingNew'[p] = NoCid
    OBVIOUS
  <2> USE DEF ReplaceInv, LifeInv, IInv
  <2>1. DrainsOld(o) \/ DrainsNew(o)
    BY DrainsStartBy, DrainsNeedEntry
  <2>2. CASE DrainsOld(o)
    <3>1. ProcessPending(o) /\ PendingCompletes(o) /\ DeprovisionStarts(o)
      BY <2>2 DEF DrainsOld
    <3>2. /\ o \in Ahead /\ ReplacementHealthy(pendingNew[o]) /\ pendingNew[o] # o
          /\ UNCHANGED containers
      BY <3>1 DEF ProcessPending, Ahead, PendingCompletes, OldestFirst
    <3>3. Serves(pendingNew[o]) /\ pendingNew[o] \in Cid
      BY <3>2, AheadPending DEF ServeInv
    <3>4. Serves(pendingNew[o])
          /\ logical' = logical \ {o} /\ Fleet \ {o} \subseteq Fleet'
      BY <3>1, <3>2, <3>3
         DEF DeprovisionStarts, DeleteConnector, Fleet, Draining, TypeOK
    <3> QED BY <3>2, <3>4 DEF Serves
  <2>3. CASE DrainsNew(o)
    <3>1. PICK p \in Cid : o = pendingNew[p] /\ ForgetPending(p)
      BY <2>3 DEF DrainsNew
    <3>2. p \in PendingOld /\ pendingNew'[p] = NoCid
      BY <3>1, ModelAssumption DEF ForgetPending, PendingOld, TypeOK
    <3> QED BY <3>1, <3>2
  <2> QED BY <2>1, <2>2, <2>3
<1> QED BY <1>1, <1>2, <1>3, ReplaceInvariance, PTL DEF Spec, ReplacementServesFirst

-----------------------------------------------------------------------------
(***************************************************************************)
(* The floor.                                                              *)
(***************************************************************************)
Unattended ==
  /\ Commands \subseteq {"stop", "cordon", "uncordon"}
  /\ "loss" \notin FaultKinds

\* The jobs and overrides an unattended manager runs.
QuietInv ==
  /\ job.stage \in {"idle"} \cup CycleStages
  /\ override.kind \in {"none", "cordon", "uncordon"}

AloneInv == ReplaceInv /\ QuietInv

FleetSize    == Cardinality(Fleet)
PendingCount == Cardinality(PendingOld)

\* A replacement has a container but is not registered yet.
Unregistered == job.step = "started" /\ job.target # NoCid

\* The Connectors that a pending replace, or one about to be, may cost.
Extra   == IF Unregistered THEN 1 ELSE 0
Reserve == PendingCount + Extra

Filled ==
  /\ FleetSize >= Min + Reserve
  /\ job.stage = "scale_down" =>
       PendingOld = {} /\ FleetSize >= Min + Cardinality(job.todo)

-----------------------------------------------------------------------------
LEMMA NextQuietInv ==
  ASSUME LifeInv, QuietInv, [Next]_vars, Unattended
  PROVE  QuietInv'
<1> USE DEF LifeInv, IInv
<1>1. CASE ProvisionStep
  <2>1. job'.stage = "idle" \/ job'.stage = job.stage
    BY <1>1, ProvisionKeepsTodo DEF ProvisionStep
  <2>2. UNCHANGED override
    BY <1>1 DEF ProvisionStep, CreateConnector, CreateConnectorFails, StartContainer,
                StartContainerFails, RecordProvision, ProvisionFailed, QuietInv, CycleStages,
                OverrideStages
  <2> QED BY <2>1, <2>2 DEF QuietInv
<1>2. CASE \/ BeginCycle \/ FinishScale \/ DecideHealth
           \/ \E c \in Cid : ProcessPending(c) \/ RestartOne(c) \/ BeginReplace(c)
  <2>1. CASE BeginCycle
    BY <2>1, BeginDecides DEF BeginCycle, QuietInv, CycleStages
  <2>2. CASE FinishScale
    BY <2>2 DEF FinishScale, TypeOK, JobType, QuietInv, CycleStages
  <2>3. CASE DecideHealth
    BY <2>3 DEF DecideHealth, TypeOK, JobType, QuietInv, CycleStages
  <2>4. CASE \E c \in Cid : ProcessPending(c)
    BY <2>4, ProcessSteps DEF ProcessPending, QuietInv, CycleStages
  <2>5. CASE \E c \in Cid : RestartOne(c) \/ BeginReplace(c)
    <3>1. job'.stage \in {"idle", "pending", "health"} /\ UNCHANGED override
      BY <2>5, LaterStages DEF RestartOne, BeginReplace
    <3> QED BY <3>1 DEF QuietInv, CycleStages
  <2> QED BY <1>2, <2>1, <2>2, <2>3, <2>4, <2>5
<1>3. CASE \E c \in Cid : ScaleDownVictim(c)
  <2>1. PICK c \in Cid : ScaleDownVictim(c)
    BY <1>3
  <2>2. CASE job' = [job EXCEPT !.todo = @ \ {c}, !.acted = TRUE]
    BY <2>1, <2>2 DEF ScaleDownVictim, TypeOK, JobType, QuietInv
  <2>3. CASE job' = [job EXCEPT !.todo = @ \ {c}]
    BY <2>1, <2>3 DEF ScaleDownVictim, TypeOK, JobType, QuietInv
  <2> QED BY <2>1, <2>2, <2>3 DEF ScaleDownVictim
<1>4. CASE EndCycle \/ FinishManualDown \/ StoreError \/ Crash \/ GracefulRestart
  <2>1. job' = IdleJob /\ override' \in {override, NoOverride}
    BY <1>4 DEF EndCycle, FinishManualDown, StoreError, Crash, GracefulRestart, ForgetMemory
  <2> QED BY <2>1, IdleJobOK DEF QuietInv, NoOverride
<1>5. CASE StartOverride
  <2>1. EndOverride
    BY <1>5 DEF StartOverride, ManualScaleUp, ManualScaleDown, ManualReplace, ManualCordon,
                QuietInv
  <2> QED BY <2>1 DEF EndOverride, QuietInv, NoOverride
<1>6. CASE OverrideDiscoveryFails
  BY <1>6 DEF OverrideDiscoveryFails, EndOverride, QuietInv, NoOverride
<1>7. CASE RequestOverride
  <2>1. PICK k \in Commands \ {"stop"} :
          \/ override' = [kind |-> k, arg |-> NoCid]
          \/ \E c \in Cid : override' = [kind |-> k, arg |-> c]
    BY <1>7 DEF RequestOverride
  <2>2. override'.kind = k
    BY <2>1
  <2>3. k \in {"cordon", "uncordon"}
    BY DEF Unattended
  <2> QED BY <1>7, <2>2, <2>3 DEF RequestOverride, QuietInv
<1>8. CASE \/ RequestStop \/ Tick \/ UNCHANGED vars
           \/ \E c \in Cid : \/ DrainGraceOver(c) \/ DrainStep(c)
                             \/ RestartRowExpires(c) \/ ContainerLost(c)
  BY <1>8 DEF RequestStop, Tick, DrainGraceOver, DrainStep, DrainStop, DrainStopFails,
              DrainRecord, RestartRowExpires, ContainerLost, control, vars, QuietInv
<1> QED
  BY <1>1, <1>2, <1>3, <1>4, <1>5, <1>6, <1>7, <1>8
     DEF Next, JobStep, Environment, ProvisionStep

LEMMA NextAloneInv ==
  ASSUME AloneInv, [Next]_vars, Unattended PROVE AloneInv'
BY NextReplaceInv, NextQuietInv DEF AloneInv, ReplaceInv

-----------------------------------------------------------------------------
(***************************************************************************)
(* What a step does to the sizes Filled relates.                           *)
(***************************************************************************)
LEMMA Sizes ==
  ASSUME TypeOK
  PROVE  /\ FleetSize \in Nat /\ PendingCount \in Nat /\ Cardinality(job.todo) \in Nat
         /\ IsFiniteSet(PendingOld) /\ IsFiniteSet(job.todo)
<1>1. PendingOld \subseteq Cid /\ job.todo \subseteq Cid
  BY DEF PendingOld, TypeOK, JobType
<1> QED
  BY <1>1, ModelAssumption, FS_Subset, FS_CardinalityType, FleetFinite
     DEF FleetSize, PendingCount

\* Unless it starts a drain, a step takes no Connector from the fleet.
LEMMA FleetStays ==
  ASSUME LifeInv, [Next]_vars, Unattended
  PROVE  Fleet \subseteq Fleet' \cup (Draining' \ Draining)
<1> USE DEF LifeInv, IInv
<1>1. CASE CreateConnector
  BY <1>1, CreateSteps DEF Fleet, Draining
<1>2. CASE StartContainer \/ StartContainerFails
  BY <1>2, StartSteps DEF Fleet, Draining
<1>3. CASE OtherStep
  <2>1. CASE UNCHANGED containers
    BY <2>1 DEF Fleet
  <2>2. CASE \E c \in Cid : DrainGraceOver(c) \/ DrainStep(c)
    BY <2>2 DEF DrainGraceOver, DrainStep, DrainStop, DrainStopFails, DrainRecord, external,
                Fleet, Draining, TypeOK
  <2>3. CASE \E c \in Cid : ContainerLost(c)
    BY <2>3 DEF ContainerLost, Fault, Unattended
  <2>4. CASE Crash \/ GracefulRestart
    BY <2>1, <2>4 DEF Crash, GracefulRestart, external
  <2> QED BY <1>3, <2>1, <2>2, <2>3, <2>4 DEF OtherStep, external
<1> QED BY <1>1, <1>2, <1>3, StepKinds

LEMMA FleetNoSmaller ==
  ASSUME AloneInv, [Next]_vars, Unattended, Draining' \subseteq Draining
  PROVE  FleetSize' >= FleetSize
<1>1. Fleet \subseteq Fleet'
  BY FleetStays DEF AloneInv, ReplaceInv
<1>2. TypeOK'
  BY NextAloneInv DEF AloneInv, ReplaceInv, LifeInv, IInv
<1>3. IsFiniteSet(Fleet')
  BY <1>2, ModelAssumption, FS_Subset DEF TypeOK, Fleet
<1> QED BY <1>1, <1>3, FS_Subset, FS_CardinalityType DEF FleetSize

\* One drain takes at most one.
LEMMA FleetOneLess ==
  ASSUME AloneInv, [Next]_vars, Unattended, NEW c, Draining' \subseteq Draining \cup {c}
  PROVE  FleetSize' >= FleetSize - 1
<1>1. Fleet \subseteq Fleet' \cup {c}
  BY FleetStays DEF AloneInv, ReplaceInv
<1>2. TypeOK'
  BY NextAloneInv DEF AloneInv, ReplaceInv, LifeInv, IInv
<1>3. Fleet' \in SUBSET Cid
  BY <1>2 DEF TypeOK, Fleet
<1>4. Cardinality(Fleet') \in Nat /\ Cardinality(Fleet) <= Cardinality(Fleet') + 1
  <2>1. IsFiniteSet(Fleet')
    BY <1>3, ModelAssumption, FS_Subset
  <2>2. /\ IsFiniteSet(Fleet' \cup {c})
        /\ Cardinality(Fleet' \cup {c}) \in {Cardinality(Fleet'), Cardinality(Fleet') + 1}
    BY <2>1, FS_AddElement
  <2>3. Cardinality(Fleet) <= Cardinality(Fleet' \cup {c}) /\ Cardinality(Fleet) \in Nat
    BY <1>1, <2>2, FS_Subset, FS_CardinalityType
  <2> QED BY <2>1, <2>2, <2>3, FS_CardinalityType
<1>5. FleetSize \in Nat
  BY Sizes DEF AloneInv, ReplaceInv, LifeInv, IInv
<1> QED BY <1>4, <1>5 DEF FleetSize

\* The Connector of a provision that has just started is new to the fleet.
LEMMA StartAddsOne ==
  ASSUME LifeInv, StartContainer
  PROVE  FleetSize' = FleetSize + 1
<1> USE DEF LifeInv, IInv
<1>1. /\ job.fresh \notin Fleet /\ Fleet' = Fleet \cup {job.fresh}
  BY StartSteps DEF Fleet, Draining
<1> QED BY <1>1, FleetFinite, FS_AddElement DEF FleetSize

\* Unregistered replacements become pending replaces one for one, and arise only
\* together with a container.
LEMMA ReserveSteps ==
  ASSUME AloneInv, [Next]_vars
  PROVE  \/ /\ PendingOld' \subseteq PendingOld
            /\ Unregistered' => Unregistered \/ StartContainer
         \/ /\ Unregistered /\ ~Unregistered'
            /\ PendingOld' \subseteq PendingOld \cup {job.target}
<1> USE DEF AloneInv, ReplaceInv, LifeInv, IInv
<1>1. CASE RecordProvision /\ job.target # NoCid
  <2>1. Unregistered /\ ~Unregistered'
    BY <1>1, RecordProvisionBlank DEF RecordProvision, Unregistered
  <2>2. PendingOld' \subseteq PendingOld \cup {job.target}
    BY <1>1 DEF RecordProvision, PendingOld, TypeOK
  <2> QED BY <2>1, <2>2
<1>2. CASE ~(RecordProvision /\ job.target # NoCid)
  <2>1. PendingOld' \subseteq PendingOld
    BY <1>2, PairsShrink
  <2>2. Unregistered' => Unregistered \/ StartContainer
    <3>1. CASE UNCHANGED job
      BY <3>1 DEF Unregistered
    <3>2. CASE job'.step = "none" \/ job'.step = "created"
      BY <3>2 DEF Unregistered
    <3>3. CASE StartContainerFails
      BY <3>2, <3>3, ProvisionFailedBlank DEF StartContainerFails
    <3>4. CASE CreateConnector
      BY <3>2, <3>4, CreateSteps
    <3>5. CASE Crash
      BY <3>2, <3>5, IdleJobOK DEF Crash, ForgetMemory
    <3> QED BY <3>1, <3>2, <3>3, <3>4, <3>5, JobSteps
  <2> QED BY <2>1, <2>2
<1> QED BY <1>1, <1>2

LEMMA ReserveGrows ==
  ASSUME AloneInv, [Next]_vars
  PROVE  /\ Reserve \in Nat /\ Reserve' \in Nat
         /\ Reserve' <= Reserve + 1
         /\ ~StartContainer => Reserve' <= Reserve
<1>0. PendingCount + Extra = Reserve /\ PendingCount' + Extra' = Reserve'
  BY DEF Reserve
<1>1. IsFiniteSet(PendingOld) /\ PendingCount \in Nat
  BY Sizes DEF AloneInv, ReplaceInv, LifeInv, IInv
<1>2. CASE PendingOld' \subseteq PendingOld /\ (Unregistered' => Unregistered \/ StartContainer)
  <2>1. PendingCount' \in Nat /\ PendingCount' <= PendingCount
    BY <1>1, <1>2, FS_Subset, FS_CardinalityType DEF PendingCount
  <2>2. Extra \in {0, 1} /\ Extra' \in {0, 1} /\ (~StartContainer => Extra' <= Extra)
    BY <1>2 DEF Extra
  <2> QED BY <1>0, <1>1, <2>1, <2>2
<1>3. CASE /\ Unregistered /\ ~Unregistered'
           /\ PendingOld' \subseteq PendingOld \cup {job.target}
  <2>1. /\ IsFiniteSet(PendingOld \cup {job.target})
        /\ Cardinality(PendingOld \cup {job.target}) \in {PendingCount, PendingCount + 1}
    BY <1>1, FS_AddElement DEF PendingCount
  <2>2. PendingCount' \in Nat /\ PendingCount' <= PendingCount + 1
    BY <1>1, <1>3, <2>1, FS_Subset, FS_CardinalityType DEF PendingCount
  <2>3. Extra = 1 /\ Extra' = 0
    BY <1>3 DEF Extra
  <2> QED BY <1>0, <1>1, <2>2, <2>3
<1> QED BY <1>2, <1>3, ReserveSteps

\* A drain that starts in the pending stage releases its replace.
LEMMA DrainReleases ==
  ASSUME AloneInv, [Next]_vars, NEW c \in Draining' \ Draining, ~DrainsVictim(c)
  PROVE  /\ Draining' \subseteq Draining \cup {c}
         /\ Reserve' = Reserve - 1
         /\ job'.stage = "pending"
<1> USE DEF AloneInv, ReplaceInv, LifeInv, IInv
<1>1. PICK o \in Cid : ProcessPending(o) /\ DeprovisionStarts(c) /\ ForgetPending(o)
  BY DrainsStartBy DEF DrainsOld, DrainsNew
<1>2. c \in Cid
  BY DEF Draining
<1>3. Draining' \subseteq Draining \cup {c}
  BY <1>1, <1>2 DEF DeprovisionStarts, Draining, TypeOK
<1>4. /\ job.stage = "pending" /\ job'.stage = "pending"
      /\ job'.step = job.step /\ job'.target = job.target
  BY <1>1, ProcessSteps DEF ProcessPending
<1>5. o \in PendingOld
  BY <1>1, <1>4 DEF ProcessPending, CordonInv
<1>6. PendingOld' = PendingOld \ {o}
  BY <1>1 DEF ForgetPending, PendingOld, TypeOK
<1>7. PendingCount' = PendingCount - 1
  BY <1>5, <1>6, Sizes, FS_RemoveElement DEF PendingCount
<1>8. ~Unregistered /\ ~Unregistered'
  BY <1>4 DEF Unregistered, ProvisionOK, ProvisionStages
<1>9. PendingCount \in Nat
  BY Sizes
<1>10. Extra = 0 /\ Extra' = 0
  BY <1>8 DEF Extra
<1>11. PendingCount + Extra = Reserve /\ PendingCount' + Extra' = Reserve'
  BY DEF Reserve
<1> QED BY <1>3, <1>4, <1>7, <1>9, <1>10, <1>11

LEMMA VictimSteps ==
  ASSUME TypeOK, NEW c \in Cid, ScaleDownVictim(c)
  PROVE  /\ job'.stage = job.stage /\ job'.todo = job.todo \ {c}
         /\ job'.step = job.step /\ job'.target = job.target
         /\ Draining' \subseteq Draining \cup {c}
         /\ UNCHANGED <<containers, pendingNew>>
<1>1. /\ job'.stage = job.stage /\ job'.todo = job.todo \ {c}
      /\ job'.step = job.step /\ job'.target = job.target
  <2>1. CASE job' = [job EXCEPT !.todo = @ \ {c}, !.acted = TRUE]
    BY <2>1 DEF TypeOK, JobType
  <2>2. CASE job' = [job EXCEPT !.todo = @ \ {c}]
    BY <2>2 DEF TypeOK, JobType
  <2> QED BY <2>1, <2>2 DEF ScaleDownVictim
<1>2. /\ Draining' \subseteq Draining \cup {c}
      /\ UNCHANGED <<containers, pendingNew>>
  BY DEF ScaleDownVictim, DeprovisionStarts, DeprovisionFails, Draining, TypeOK, memory
<1> QED BY <1>1, <1>2

\* decide_scale shrinks a fleet only down to the floor, and never while a
\* replace is pending; a fleet below the floor it fills up exactly.
LEMMA VerdictsKeepFloor ==
  ASSUME TypeOK, NEW v \in Verdicts
  PROVE  /\ v.count \in Nat
         /\ v.direction = "down" => PendingOld = {} /\ FleetSize - v.count >= Min
         /\ FleetSize < Min => v.direction = "up" /\ FleetSize + v.count = Min
<1>1. PICK load \in {"high", "low", "normal"} :
        v = ScaleVerdict(Policy, FleetSize, load = "high", load = "low",
                         upLeft, downLeft, PendingOld # {})
  BY DEF Verdicts, FleetSize
<1>2. upLeft \in Nat /\ downLeft \in Nat /\ FleetSize \in Nat
  BY PolicyAssumption, Sizes DEF TypeOK
<1>3. Policy.min = Min
  BY DEF Policy
<1> DEFINE high    == load = "high"
           low     == load = "low"
           replace == PendingOld # {}
<1>4. high \in BOOLEAN /\ low \in BOOLEAN /\ replace \in BOOLEAN
  OBVIOUS
<1>5. v = ScaleVerdict(Policy, FleetSize, high, low, upLeft, downLeft, replace)
  BY <1>1
<1>6. v.direction = "down" => PendingOld = {}
  <2>1. CASE PendingOld # {}
    <3>1. \/ v = NoAction
          \/ \E n : v = [direction |-> "up", count |-> n]
      BY <1>1, <2>1 DEF ScaleVerdict
    <3> QED BY <3>1 DEF NoAction
  <2> QED BY <2>1
<1> HIDE DEF high, low, replace
<1> DEFINE w == ScaleVerdict(Policy, FleetSize, high, low, upLeft, downLeft, replace)
<1>7. VerdictProper(Policy, FleetSize, w)
  BY <1>2, <1>4, PolicyBounds, VerdictInBounds
<1> HIDE DEF w
<1>8. /\ w.count \in Nat
      /\ w.direction = "down" => FleetSize - w.count >= Policy.min
      /\ FleetSize < Policy.min => w.direction = "up" /\ FleetSize + w.count = Policy.min
  BY <1>7 DEF VerdictProper
<1> QED BY <1>3, <1>5, <1>6, <1>8 DEF w

LEMMA PickedVictims ==
  ASSUME TypeOK, NEW seen, NEW n \in Nat, NEW v \in PickVictims(Eligible(seen), n)
  PROVE  Cardinality(v) \in Nat /\ Cardinality(v) <= n
<1>1. Eligible(seen) \in SUBSET Cid
  BY DEF Eligible, Fleet, TypeOK
<1>2. Cardinality(Eligible(seen)) \in Nat
  BY <1>1, ModelAssumption, FS_Subset, FS_CardinalityType
<1> QED BY <1>2 DEF PickVictims, Lesser

-----------------------------------------------------------------------------
\* A fleet that grows with what it holds in reserve keeps its margin.
LEMMA MarginKept ==
  ASSUME NEW f \in Nat, NEW g \in Nat, NEW m \in Nat, NEW r \in Nat, NEW s \in Nat,
         f >= m + r,
         (g >= f /\ s <= r) \/ (g >= f + 1 /\ s <= r + 1)
  PROVE  g >= m + s
OBVIOUS

\* A filled fleet stays filled.
LEMMA NextFilled ==
  ASSUME AloneInv, Filled, [Next]_vars, Unattended
  PROVE  Filled'
<1> USE DEF AloneInv, ReplaceInv, LifeInv, IInv
<1>1. /\ FleetSize \in Nat /\ FleetSize' \in Nat /\ Min \in Nat
      /\ Cardinality(job.todo) \in Nat /\ IsFiniteSet(job.todo)
      /\ Reserve \in Nat /\ Reserve' \in Nat
  <2>1. TypeOK'
    BY NextTypes
  <2>2. Fleet' \in SUBSET Cid
    BY <2>1 DEF TypeOK, Fleet
  <2>3. Cardinality(Fleet') \in Nat
    BY <2>2, ModelAssumption, FS_Subset, FS_CardinalityType
  <2> QED BY <2>3, Sizes, ReserveGrows, PolicyAssumption DEF FleetSize
<1>2. ASSUME NEW c \in Draining' \ Draining, DrainsVictim(c)
      PROVE  Filled'
  <2>1. c \in Cid /\ ScaleDownVictim(c)
    BY <1>2 DEF DrainsVictim, Draining
  <2>2. job.stage = "scale_down" /\ c \in job.todo
    BY <2>1 DEF ScaleDownVictim, QuietInv, CycleStages
  <2>3. /\ job'.stage = "scale_down" /\ job'.todo = job.todo \ {c}
        /\ Draining' \subseteq Draining \cup {c}
        /\ UNCHANGED pendingNew
    BY <2>1, <2>2, VictimSteps
  <2>4. PendingOld = {} /\ FleetSize >= Min + Cardinality(job.todo)
    BY <2>2 DEF Filled
  <2>5. PendingOld' = {}
    BY <2>3, <2>4 DEF PendingOld
  <2>6. Cardinality(job'.todo) \in Nat /\ Cardinality(job'.todo) = Cardinality(job.todo) - 1
    BY <1>1, <2>2, <2>3, FS_RemoveElement, FS_CardinalityType
  <2>7. FleetSize' >= FleetSize - 1
    BY <2>3, FleetOneLess
  <2>8. Reserve' = 0
    <3>1. ~Unregistered'
      <4>1. job'.step = job.step /\ job.step = "none"
        BY <2>1, <2>2, VictimSteps DEF ProvisionOK, ProvisionStages
      <4> QED BY <4>1 DEF Unregistered
    <3>2. PendingCount' = 0 /\ Extra' = 0
      BY <2>5, <3>1, FS_EmptySet DEF PendingCount, Extra
    <3>3. PendingCount' + Extra' = Reserve'
      BY DEF Reserve
    <3> QED BY <3>2, <3>3
  <2>9. FleetSize' >= Min + Cardinality(job'.todo) /\ FleetSize' >= Min + Reserve'
    BY <1>1, <2>4, <2>6, <2>7, <2>8
  <2> QED BY <2>5, <2>9 DEF Filled
<1>3. ASSUME NEW c \in Draining' \ Draining, ~DrainsVictim(c)
      PROVE  Filled'
  <2>1. /\ Draining' \subseteq Draining \cup {c}
        /\ Reserve' = Reserve - 1 /\ job'.stage = "pending"
    BY <1>3, DrainReleases
  <2>2. FleetSize' >= FleetSize - 1
    BY <2>1, FleetOneLess
  <2>3. FleetSize' >= Min + Reserve'
    BY <1>1, <2>1, <2>2 DEF Filled
  <2> QED BY <2>1, <2>3 DEF Filled
<1>4. ASSUME Draining' \subseteq Draining
      PROVE  Filled'
  <2>1. FleetSize' >= FleetSize
    BY <1>4, FleetNoSmaller
  <2>2. FleetSize' >= Min + Reserve'
    <3>1. FleetSize >= Min + Reserve
      BY DEF Filled
    <3>2. CASE StartContainer
      <4>1. FleetSize' = FleetSize + 1 /\ Reserve' <= Reserve + 1
        BY <3>2, StartAddsOne, ReserveGrows
      <4>2. FleetSize' >= FleetSize + 1
        BY <1>1, <4>1
      <4> QED BY <1>1, <3>1, <4>1, <4>2, MarginKept
    <3>3. CASE ~StartContainer
      <4>1. Reserve' <= Reserve
        BY <3>3, ReserveGrows
      <4> QED BY <1>1, <2>1, <3>1, <4>1, MarginKept
    <3> QED BY <3>2, <3>3
  <2>3. ASSUME job'.stage = "scale_down"
        PROVE  PendingOld' = {} /\ FleetSize' >= Min + Cardinality(job'.todo)
    <3>1. CASE Waits
      <4>1. PendingOld' = PendingOld /\ job' = job
        BY <3>1 DEF Waits, PendingOld
      <4> QED BY <1>1, <2>1, <2>3, <4>1 DEF Filled
    <3>2. CASE BeginCycle
      <4>1. PICK v \in Verdicts :
              /\ v.direction = "down"
              /\ job'.todo \in PickVictims(Eligible(seenFor'), v.count)
              /\ UNCHANGED pendingNew
        BY <2>3, <3>2, BeginDecides
      <4>2. /\ v.count \in Nat /\ PendingOld = {} /\ FleetSize - v.count >= Min
            /\ Cardinality(job'.todo) \in Nat /\ Cardinality(job'.todo) <= v.count
        BY <4>1, VerdictsKeepFloor, PickedVictims
      <4>3. PendingOld' = {}
        BY <4>1, <4>2 DEF PendingOld
      <4>4. FleetSize' >= Min + Cardinality(job'.todo)
        BY <1>1, <2>1, <4>2
      <4> QED BY <4>3, <4>4
    <3>3. CASE \E c \in Cid : ScaleDownVictim(c)
      <4>1. PICK c \in Cid : ScaleDownVictim(c)
        BY <3>3
      <4>2. /\ job.stage = "scale_down" /\ job'.todo = job.todo \ {c}
            /\ UNCHANGED pendingNew
        BY <2>3, <4>1, VictimSteps
      <4>3. PendingOld' = {} /\ FleetSize >= Min + Cardinality(job.todo)
        BY <4>2 DEF PendingOld, Filled
      <4>4. Cardinality(job'.todo) \in Nat
            /\ Cardinality(job'.todo) <= Cardinality(job.todo)
        BY <1>1, <4>2, FS_Subset, FS_CardinalityType
      <4>5. FleetSize' >= Min + Cardinality(job'.todo)
        BY <1>1, <2>1, <4>3, <4>4
      <4> QED BY <4>3, <4>5
    <3>4. job'.stage \in DecidedStages /\ ~PicksManually /\ ~Provisions
      BY <2>3 DEF DecidedStages, PicksManually, Provisions
    <3>5. ~FinishScale
      BY <2>3 DEF FinishScale, TypeOK, JobType
    <3>6. \A c \in Cid : ~ProcessPending(c)
      BY <2>3, ProcessSteps
    <3> QED BY <3>1, <3>2, <3>3, <3>4, <3>5, <3>6, DecidedSteps
  <2> QED BY <2>2, <2>3 DEF Filled
<1> QED BY <1>2, <1>3, <1>4

-----------------------------------------------------------------------------
(***************************************************************************)
(* A fleet that has never been filled.  A cycle that finds it below the    *)
(* floor provisions what is missing, so every cycle that ends without      *)
(* filling it has had a failure of its own.  To replace a Connector, and   *)
(* so to drain one, takes three such cycles: one that leaves a Connector   *)
(* behind, one that restarts it, one that gives it up.                     *)
(***************************************************************************)
FewFailures == MaxFaults <= 2

\* The pool of ids, a bound of the model, is not what stops a provision.
PoolSuffices == Cardinality(Cid) > Min + MaxFaults

Seen      == {c \in Cid : InView(c)}
Restarted == \E c \in Cid : restarts[c] > 0
PoolUsed  == Cardinality(containers \cup logical)
Making    == IF job.step = "created" THEN 1 ELSE 0
Started   == IF job.step = "started" THEN 1 ELSE 0

\* Every id in use belongs to a container, or was lost to a failed call.
Fits(used, size, failed, making) == used <= size + failed + making

\* The provisions this cycle still has to make reach the floor.
Reaches(size, left, started) == size + left >= Min + started

\* This cycle will not reach the floor.
Behind ==
  /\ faults >= 1
  /\ Seen # {} => faults >= 2
  /\ Restarted => faults >= 3

Spent ==
  /\ Restarted => faults >= 2
  /\ job.stage = "idle" => (containers # {} => faults >= 1)
  /\ job.stage = "scale_up" =>
       /\ Seen # {} => faults >= 1
       /\ Behind \/ Reaches(FleetSize, job.left, Started)
  /\ job.stage = "pending" => Behind
  /\ job.stage = "health" =>
       /\ faults >= 1
       /\ job.todo # {} => faults >= 2
       /\ job.replace # {} => faults >= 3

Filling ==
  /\ Draining = {} /\ PendingOld = {} /\ job.target = NoCid
  /\ job.stage \in {"idle", "scale_up", "pending", "health"}
  /\ job.step # "none" => job.stage = "scale_up"
  /\ Seen \cup job.todo \cup cordoned \subseteq containers
  /\ Fits(PoolUsed, FleetSize, faults, Making)
  /\ Spent

FloorInv == Filled \/ Filling

LEMMA FillingBelow ==
  ASSUME TypeOK, Filling, ~Filled
  PROVE  FleetSize < Min
<1>1. PendingCount = 0 /\ Extra = 0
  BY FS_EmptySet DEF Filling, PendingCount, Extra, Unregistered
<1>2. Reserve = 0
  BY <1>1 DEF Reserve
<1>3. FleetSize \in Nat /\ Min \in Nat
  BY Sizes, PolicyAssumption
<1> QED BY <1>2, <1>3 DEF Filled, Filling

LEMMA FillingTypes ==
  ASSUME AloneInv, [Next]_vars
  PROVE  /\ FleetSize \in Nat /\ FleetSize' \in Nat /\ Min \in Nat
         /\ PoolUsed \in Nat /\ PoolUsed' \in Nat
         /\ faults \in Nat /\ faults' \in Nat
         /\ Making \in {0, 1} /\ Making' \in {0, 1}
         /\ Started \in {0, 1} /\ Started' \in {0, 1}
         /\ job.left \in Nat /\ job'.left \in Nat
<1> USE DEF AloneInv, ReplaceInv, LifeInv, IInv
<1>1. TypeOK'
  BY NextTypes
<1>2. Fleet \in SUBSET Cid /\ Fleet' \in SUBSET Cid
  BY <1>1 DEF TypeOK, Fleet
<1>3. containers \cup logical \in SUBSET Cid /\ containers' \cup logical' \in SUBSET Cid
  BY <1>1 DEF TypeOK
<1>4. /\ FleetSize \in Nat /\ FleetSize' \in Nat
      /\ PoolUsed \in Nat /\ PoolUsed' \in Nat
  BY <1>2, <1>3, ModelAssumption, FS_Subset, FS_CardinalityType DEF FleetSize, PoolUsed
<1>5. /\ faults \in Nat /\ faults' \in Nat /\ Min \in Nat
      /\ job.left \in Nat /\ job'.left \in Nat
  BY <1>1, PolicyAssumption, ModelAssumption DEF TypeOK, JobType
<1> QED BY <1>4, <1>5 DEF Making, Started

\* While the fleet fills, no drain starts and no entry appears.
LEMMA FillingFrame ==
  ASSUME AloneInv, Filling, UNCHANGED drain
  PROVE  Draining' = {} /\ Fleet = containers /\ Fleet' = containers'
BY DEF Filling, Fleet, Draining, AloneInv, ReplaceInv, LifeInv, IInv, TypeOK

LEMMA FitsFailed ==
  ASSUME NEW u \in Nat, NEW f \in Nat, NEW g \in Nat, NEW n \in Nat, NEW d \in {0, 1},
         Fits(u, f, n, d), g >= f
  PROVE  Fits(u, g, n + 1, 0)
BY DEF Fits

LEMMA FitsMore ==
  ASSUME NEW u \in Nat, NEW f \in Nat, NEW n \in Nat, NEW m \in Nat,
         NEW d \in {0, 1}, Fits(u, f, n, d), m >= n
  PROVE  Fits(u, f, m, d)
BY DEF Fits

LEMMA FitsWithoutMaking ==
  ASSUME NEW u \in Nat, NEW f \in Nat, NEW n \in Nat, NEW d \in {0, 1},
         Fits(u, f, n, d), NEW m \in Nat, (m = n + 1) \/ (m >= n /\ d = 0)
  PROVE  Fits(u, f, m, 0)
BY DEF Fits

\* Steps that leave the Connectors, the job and the replaces as they are.
LEMMA FillingSame ==
  ASSUME AloneInv, [Next]_vars, Filling,
         UNCHANGED <<external, job, pendingNew, drain>>,
         cordoned' \subseteq containers, Restarted' => Restarted,
         faults' = faults \/ faults' = faults + 1
  PROVE  Filling'
<1>1. /\ Draining' = {} /\ PendingOld' = {} /\ UNCHANGED <<external, job>>
      /\ Fleet' = Fleet
  BY FillingFrame DEF Filling, PendingOld, external
<1>2. Seen' = Seen
  BY DEF Seen, InView
<1>3. /\ FleetSize' = FleetSize /\ PoolUsed' = PoolUsed
      /\ Making' = Making /\ Started' = Started
  <2>1. containers' = containers /\ logical' = logical
    BY <1>1 DEF external
  <2> QED BY <1>1, <2>1 DEF FleetSize, PoolUsed, Making, Started
<1>4. faults \in Nat /\ faults' \in Nat /\ faults' >= faults
  BY FillingTypes
<1>5. Behind => Behind'
  BY <1>2, <1>4 DEF Behind
<1>6. Spent'
  BY <1>1, <1>2, <1>3, <1>4, <1>5 DEF Spent, Filling, external
<1>7. Fits(PoolUsed', FleetSize', faults', Making')
  <2>1. Fits(PoolUsed, FleetSize, faults, Making)
    BY DEF Filling
  <2>2. FleetSize \in Nat /\ PoolUsed \in Nat /\ Making \in {0, 1}
    BY FillingTypes
  <2>3. Fits(PoolUsed, FleetSize, faults', Making)
    BY <1>4, <2>1, <2>2, FitsMore
  <2> QED BY <1>3, <2>3
<1> QED BY <1>1, <1>2, <1>6, <1>7 DEF Filling, external

\* Steps that end the job: with a failure, or without one once it has spent one.
LEMMA FillingEnds ==
  ASSUME AloneInv, [Next]_vars, Filling, UNCHANGED external, job' = IdleJob,
         UNCHANGED cordoned, Restarted' => Restarted,
         Draining' = {}, PendingOld' = {},
         \/ faults' = faults + 1
         \/ /\ UNCHANGED faults
            /\ job.step # "created" /\ (containers # {} => faults >= 1)
  PROVE  Filling'
<1>1. Fleet' = Fleet /\ UNCHANGED external
  BY DEF Filling, Fleet, external
<1>2. /\ Seen' = {} /\ job'.todo = {} /\ job'.target = NoCid /\ job'.stage = "idle"
      /\ job'.step = "none"
  BY DEF Seen, InView, IdleJob, NoView
<1>3. FleetSize' = FleetSize /\ PoolUsed' = PoolUsed /\ Making' = 0
  <2>1. containers' = containers /\ logical' = logical
    BY DEF external
  <2> QED BY <1>1, <1>2, <2>1 DEF FleetSize, PoolUsed, Making
<1>4. faults \in Nat /\ faults' \in Nat /\ faults' >= faults
  BY FillingTypes
<1>5. containers' # {} => faults' >= 1
  BY <1>1, <1>4 DEF external
<1>6. Spent'
  BY <1>2, <1>4, <1>5 DEF Spent, Filling
<1>7. Fits(PoolUsed', FleetSize', faults', Making')
  <2>1. Fits(PoolUsed, FleetSize, faults, Making)
    BY DEF Filling
  <2>2. FleetSize \in Nat /\ PoolUsed \in Nat /\ Making \in {0, 1}
    BY FillingTypes
  <2>3. faults' = faults + 1 \/ Making = 0
    BY <1>3 DEF Making
  <2>4. Fits(PoolUsed, FleetSize, faults', 0)
    BY <1>4, <2>1, <2>2, <2>3, FitsWithoutMaking
  <2> QED BY <1>3, <2>4
<1> QED BY <1>1, <1>2, <1>6, <1>7 DEF Filling, external

LEMMA ReachesStarted ==
  ASSUME NEW f \in Nat, NEW n \in Nat, Reaches(f, n, 0)
  PROVE  Reaches(f + 1, n, 1)
BY PolicyAssumption DEF Reaches

LEMMA ReachesRecorded ==
  ASSUME NEW f \in Nat, NEW n \in Nat, n > 0, Reaches(f, n, 1)
  PROVE  Reaches(f, n - 1, 0)
BY PolicyAssumption DEF Reaches

LEMMA ReachesNeeds ==
  ASSUME NEW f \in Nat, NEW n \in Nat, NEW d \in {0, 1}, f < Min, Reaches(f, n, d)
  PROVE  n > 0
BY PolicyAssumption DEF Reaches

\* A cycle finds the fleet below the floor and sets out to fill it.
LEMMA FillingBegins ==
  ASSUME AloneInv, [Next]_vars, Filling, ~Filled, BeginCycle
  PROVE  Filling'
<1> USE DEF AloneInv, ReplaceInv, LifeInv, IInv
<1>1. PICK found \in Discoveries, v \in Verdicts :
        /\ job'.view = ExcludeDraining(found)
        /\ \/ job'.stage = "scale_up" /\ job'.left = v.count /\ job'.todo = {}
              /\ v.direction = "up"
           \/ /\ job'.stage = "scale_down" /\ v.direction = "down"
              /\ job'.todo \in PickVictims(Eligible(seenFor'), v.count)
           \/ job'.stage = "pending" /\ job'.todo = PendingOld /\ v.direction = "none"
        /\ job'.step = "none" /\ job'.target = NoCid
        /\ UNCHANGED <<external, durable, pendingNew, drain, faults>>
  BY BeginDecides
<1>2. v.count \in Nat /\ v.direction = "up" /\ FleetSize + v.count = Min
  BY FillingBelow, VerdictsKeepFloor
<1>3. job'.stage = "scale_up" /\ job'.left = v.count /\ job'.todo = {}
  BY <1>1, <1>2
<1>4. job.stage = "idle" /\ job.step = "none"
  BY FreeMeansQuiet DEF BeginCycle
<1>5. /\ Draining' = {} /\ PendingOld' = {} /\ Fleet' = Fleet
      /\ containers' = containers /\ logical' = logical
      /\ cordoned' = cordoned /\ restarts' = restarts /\ faults' = faults
  BY <1>1 DEF external, durable, Filling, Draining, PendingOld, Fleet
<1>6. Seen' \subseteq containers
  <2>1. \A c \in Cid : found[c] # "absent" => c \in containers
    BY DEF Discoveries
  <2>2. \A c \in Cid : ExcludeDraining(found)[c] # "absent" => found[c] # "absent"
    BY DEF ExcludeDraining
  <2> QED BY <1>1, <2>1, <2>2 DEF Seen, InView
<1>7. FleetSize' = FleetSize /\ PoolUsed' = PoolUsed
  BY <1>5 DEF FleetSize, PoolUsed
<1>8. Making = 0 /\ Making' = 0 /\ Started' = 0
  BY <1>1, <1>4 DEF Making, Started
<1>9. Fits(PoolUsed', FleetSize', faults', Making')
  BY <1>5, <1>7, <1>8 DEF Filling
<1>10. Reaches(FleetSize', job'.left, Started')
  BY <1>2, <1>3, <1>7, <1>8, FillingTypes DEF Reaches
<1>11. Restarted' <=> Restarted
  BY <1>5 DEF Restarted
<1>12. Seen' # {} => faults >= 1
  BY <1>4, <1>6 DEF Filling, Spent
<1>13. Spent'
  BY <1>3, <1>5, <1>10, <1>11, <1>12 DEF Filling, Spent
<1> QED BY <1>1, <1>3, <1>5, <1>6, <1>9, <1>13 DEF Filling

\* Where a provision of a filling fleet runs, and what it leaves alone.
LEMMA FillingProvisions ==
  ASSUME AloneInv, [Next]_vars, Filling, ProvisionStep
  PROVE  /\ job.stage = "scale_up" /\ job'.stage = "scale_up"
         /\ job'.target = NoCid /\ job'.todo = job.todo
         /\ Seen' = Seen /\ (Restarted' => Restarted)
         /\ Draining' = {} /\ PendingOld' = {} /\ cordoned' = cordoned
         /\ containers \subseteq containers'
         /\ WantsProvision => job.left > 0
<1> USE DEF AloneInv, ReplaceInv, LifeInv, IInv
<1>1. WantsProvision \/ job.step # "none"
  BY DEF ProvisionStep, CreateConnector, CreateConnectorFails, StartContainer,
         StartContainerFails, RecordProvision
<1>2. job.stage = "scale_up" /\ (WantsProvision => job.left > 0)
  BY <1>1 DEF Filling, WantsProvision
<1>3. job'.stage = "scale_up" /\ job'.target = NoCid
  <2>1. job.stage \notin OverrideStages
    BY <1>2 DEF OverrideStages
  <2>2. CASE CreateConnector \/ StartContainer
    <3>1. (\E c : job' = [job EXCEPT !.step = "created", !.fresh = c])
          \/ job' = [job EXCEPT !.step = "started"]
      BY <2>2 DEF CreateConnector, StartContainer
    <3> QED BY <1>2, <3>1, JobFields DEF Filling
  <2>3. CASE ProvisionFailed \/ RecordProvision
    <3>1. \/ \E rest : job' = [job EXCEPT !.step = "none", !.fresh = NoCid, !.target = NoCid,
                                          !.left = rest]
          \/ \E rest, acted :
               job' = [job EXCEPT !.step = "none", !.fresh = NoCid, !.target = NoCid,
                                  !.acted = acted, !.left = rest]
      BY <2>1, <2>3 DEF ProvisionFailed, RecordProvision
    <3> QED BY <1>2, <3>1, JobFields
  <2> QED BY <2>2, <2>3 DEF ProvisionStep, CreateConnectorFails, StartContainerFails
<1>4. Provisions
  BY <1>3, ProvisionDecided DEF DecidedStages
<1>5. Draining' = {} /\ PendingOld' = {} /\ Seen' = Seen
  BY <1>4 DEF Provisions, Filling, Draining, PendingOld, Seen, InView
<1>6. cordoned' = cordoned
  BY DEF ProvisionStep, CreateConnector, CreateConnectorFails, StartContainer,
         StartContainerFails, RecordProvision, durable
<1>7. \A c \in Cid : restarts'[c] \in Nat /\ restarts[c] \in Nat /\ restarts'[c] <= restarts[c]
  <2>1. UNCHANGED restarts \/ \E new \in SUBSET Cid : Mint(new)
    BY UnusedType
       DEF ProvisionStep, CreateConnector, CreateConnectorFails, StartContainer,
           StartContainerFails, RecordProvision, NoMint, durable
  <2>2. \A c \in Cid : restarts[c] \in Nat
    BY PolicyAssumption DEF TypeOK
  <2>3. ASSUME NEW new \in SUBSET Cid, Mint(new), NEW c \in Cid
        PROVE  restarts'[c] \in Nat /\ restarts'[c] <= restarts[c]
    BY <2>2, <2>3 DEF Mint
  <2> QED BY <2>1, <2>2, <2>3
<1>8. Restarted' => Restarted
  BY <1>7 DEF Restarted
<1> QED BY <1>2, <1>3, <1>4, <1>5, <1>6, <1>8 DEF Provisions

\* A provision that fails: this cycle will not fill the fleet.
LEMMA FillingFails ==
  ASSUME AloneInv, [Next]_vars, Filling, ProvisionStep, job'.step = "none",
         faults' = faults + 1, containers' \cup logical' = containers \cup logical,
         FleetSize' >= FleetSize
  PROVE  Filling'
<1> USE FillingProvisions
<1>1. PoolUsed' = PoolUsed
  BY DEF PoolUsed
<1>2. Making' = 0
  BY DEF Making
<1>3. Fits(PoolUsed', FleetSize', faults', Making')
  <2>1. Fits(PoolUsed, FleetSize, faults, Making)
    BY DEF Filling
  <2>2. /\ PoolUsed \in Nat /\ PoolUsed' \in Nat /\ faults \in Nat /\ faults' \in Nat
        /\ FleetSize \in Nat /\ FleetSize' \in Nat
        /\ Making \in {0, 1} /\ Making' \in {0, 1}
    BY FillingTypes
  <2>3. Fits(PoolUsed, FleetSize', faults + 1, 0)
    BY <2>1, <2>2, FitsFailed
  <2> QED BY <1>1, <1>2, <2>3
<1>4. Behind' /\ Spent'
  BY FillingTypes DEF Filling, Spent, Behind
<1> QED BY <1>3, <1>4 DEF Filling

LEMMA FillingMints ==
  ASSUME TypeOK, NEW c \in Cid, UNCHANGED containers, logical' = logical \cup {c}
  PROVE  PoolUsed' <= PoolUsed + 1
<1>1. containers' \cup logical' \in SUBSET ((containers \cup logical) \cup {c})
  OBVIOUS
<1>2. containers \cup logical \in SUBSET Cid
  BY DEF TypeOK
<1> QED BY <1>1, <1>2, OneMore DEF PoolUsed

LEMMA FillingMintsTwice ==
  ASSUME TypeOK, NEW c \in Cid, NEW d \in Cid, UNCHANGED containers,
         logical' = logical \cup {c, d}
  PROVE  PoolUsed' <= PoolUsed + 2
<1> DEFINE U == containers \cup logical
           V == U \cup {c}
<1>1. U \in SUBSET Cid /\ V \in SUBSET (U \cup {c}) /\ V \in SUBSET Cid
  BY DEF TypeOK
<1>2. Cardinality(V) <= Cardinality(U) + 1 /\ Cardinality(U) \in Nat
  BY <1>1, OneMore
<1>3. containers' \cup logical' \in SUBSET (V \cup {d})
  OBVIOUS
<1>4. /\ Cardinality(containers' \cup logical') <= Cardinality(V) + 1
      /\ Cardinality(containers' \cup logical') \in Nat /\ Cardinality(V) \in Nat
  BY <1>1, <1>3, OneMore
<1> QED BY <1>2, <1>4 DEF PoolUsed

LEMMA FillingCreates ==
  ASSUME AloneInv, [Next]_vars, Filling, CreateConnector
  PROVE  Filling'
<1> USE DEF AloneInv, ReplaceInv, LifeInv, IInv
<1>1. ProvisionStep
  BY DEF ProvisionStep
<1>2. /\ job.step = "none" /\ job'.step = "created" /\ job'.left = job.left
      /\ containers' = containers /\ drain' = drain
  BY DEF CreateConnector, WantsProvision, TypeOK, JobType
<1>3. PICK c \in Unused :
        \/ logical' = logical \cup {c} /\ faults' = faults
        \/ faults' = faults + 1 /\ \E d \in Unused : logical' = logical \cup {c, d}
  BY DEF CreateConnector, Mint, ApiFails, Fault
<1>4. \/ PoolUsed' <= PoolUsed + 1 /\ faults' = faults
      \/ PoolUsed' <= PoolUsed + 2 /\ faults' = faults + 1
  BY <1>2, <1>3, UnusedType, FillingMints, FillingMintsTwice
<1>5. Making = 0 /\ Making' = 1 /\ Started = 0 /\ Started' = 0
  BY <1>2 DEF Making, Started
<1>6. FleetSize' = FleetSize
  BY <1>2 DEF FleetSize, Fleet, Draining
<1>7. Fits(PoolUsed', FleetSize', faults', Making')
  <2>1. Fits(PoolUsed, FleetSize, faults, Making)
    BY DEF Filling
  <2>2. /\ PoolUsed \in Nat /\ PoolUsed' \in Nat /\ faults \in Nat /\ faults' \in Nat
        /\ FleetSize \in Nat /\ FleetSize' \in Nat
        /\ Making \in {0, 1} /\ Making' \in {0, 1}
    BY FillingTypes
  <2>3. CASE PoolUsed' <= PoolUsed + 1 /\ faults' = faults
    BY ONLY <1>5, <1>6, <2>1, <2>2, <2>3 DEF Fits
  <2>4. CASE PoolUsed' <= PoolUsed + 2 /\ faults' = faults + 1
    BY ONLY <1>5, <1>6, <2>1, <2>2, <2>4 DEF Fits
  <2> QED BY <1>4, <2>3, <2>4
<1>8. Behind => Behind'
  BY <1>1, <1>4, FillingTypes, FillingProvisions DEF Behind
<1>9. Spent'
  BY <1>1, <1>2, <1>4, <1>5, <1>6, <1>8, FillingTypes, FillingProvisions DEF Filling, Spent
<1> QED BY <1>1, <1>2, <1>7, <1>9, FillingProvisions DEF Filling

\* The pool has an id for every provision a filling fleet makes.
LEMMA FillingFindsId ==
  ASSUME AloneInv, [Next]_vars, Filling, ~Filled, PoolSuffices, job.step = "none"
  PROVE  Unused # {}
<1> USE DEF AloneInv, ReplaceInv, LifeInv, IInv
<1> DEFINE U == containers \cup logical
<1>1. U \in SUBSET Cid /\ Cardinality(U) \in Nat
  BY ModelAssumption, FS_Subset, FS_CardinalityType DEF TypeOK
<1>2. Cardinality(U) <= FleetSize + faults
  BY FillingTypes DEF Filling, Fits, Making, PoolUsed
<1>3. Cardinality(U) + 1 <= Min + MaxFaults
  BY <1>1, <1>2, FillingBelow, FillingTypes, ModelAssumption DEF TypeOK
<1>4. ~(Cid \subseteq U \cup {override.arg})
  <2> SUFFICES ASSUME Cid \subseteq U \cup {override.arg} PROVE FALSE
    OBVIOUS
  <2>1. Cardinality(Cid) <= Cardinality(U) + 1 /\ Cardinality(Cid) \in Nat
    BY <1>1, OneMore
  <2> QED BY <1>1, <1>3, <2>1, PolicyAssumption, ModelAssumption DEF PoolSuffices
<1>5. PICK c \in Cid : c \notin U /\ c # override.arg
  BY <1>4
<1>6. /\ Draining = {} /\ PendingPair = {} /\ job.target # c
      /\ Seen \cup job.todo \cup cordoned \subseteq containers
  BY ModelAssumption DEF Filling, PendingPair
<1>7. ~InView(c)
  BY <1>5, <1>6 DEF Seen
<1> QED BY <1>5, <1>6, <1>7 DEF Unused

LEMMA FillingCreateFails ==
  ASSUME AloneInv, [Next]_vars, Filling, ~Filled, PoolSuffices, CreateConnectorFails
  PROVE  Filling'
<1> USE DEF AloneInv, ReplaceInv, LifeInv, IInv
<1>1. ProvisionStep
  BY DEF ProvisionStep
<1>2. job.step = "none" /\ job'.step = "none"
  BY ProvisionFailedBlank DEF CreateConnectorFails, WantsProvision
<1>3. /\ containers' = containers /\ drain' = drain /\ faults' = faults + 1
      /\ logical' = logical \/ \E c \in Unused : logical' = logical \cup {c}
  BY <1>2, FillingFindsId DEF CreateConnectorFails, ApiFails, Fault, Mint, NoMint
<1>4. FleetSize' = FleetSize
  BY <1>3 DEF FleetSize, Fleet, Draining
<1>5. PoolUsed' <= PoolUsed + 1
  <2>1. CASE logical' = logical
    BY <1>3, <2>1, FillingTypes DEF PoolUsed
  <2>2. CASE \E c \in Unused : logical' = logical \cup {c}
    BY <1>3, <2>2, UnusedType, FillingMints
  <2> QED BY <1>3, <2>1, <2>2
<1>6. Making = 0 /\ Making' = 0
  BY <1>2 DEF Making
<1>7. Fits(PoolUsed', FleetSize', faults', Making')
  <2>1. Fits(PoolUsed, FleetSize, faults, Making)
    BY DEF Filling
  <2>2. /\ PoolUsed \in Nat /\ PoolUsed' \in Nat /\ faults \in Nat /\ faults' \in Nat
        /\ FleetSize \in Nat /\ FleetSize' \in Nat
        /\ Making \in {0, 1} /\ Making' \in {0, 1}
    BY FillingTypes
  <2> QED BY ONLY <1>3, <1>4, <1>5, <1>6, <2>1, <2>2 DEF Fits
<1>8. Behind' /\ Spent'
  BY <1>1, <1>3, FillingTypes, FillingProvisions DEF Filling, Spent, Behind
<1> QED BY <1>1, <1>2, <1>3, <1>7, <1>8, FillingProvisions DEF Filling

LEMMA FillingStarts ==
  ASSUME AloneInv, [Next]_vars, Filling, Unattended, StartContainer \/ StartContainerFails
  PROVE  Filling'
<1> USE DEF AloneInv, ReplaceInv, LifeInv, IInv
<1>1. ProvisionStep
  BY DEF ProvisionStep
<1>2. /\ job.step = "created" /\ containers' \cup logical' = containers \cup logical
      /\ drain' = drain
  BY StartSteps
<1>3. CASE StartContainerFails
  <2>1. faults' = faults + 1
    BY <1>3, StartSteps
  <2>2. job'.step = "none"
    BY <1>3, ProvisionFailedBlank DEF StartContainerFails
  <2>3. FleetSize' >= FleetSize
    BY <1>2, FleetNoSmaller DEF Draining
  <2> QED BY <1>1, <1>2, <2>1, <2>2, <2>3, FillingFails
<1>4. CASE StartContainer
  <2>1. job'.step = "started" /\ job'.left = job.left /\ faults' = faults
    BY <1>4 DEF StartContainer, TypeOK, JobType
  <2>2. /\ Making = 1 /\ Making' = 0 /\ Started = 0 /\ Started' = 1
        /\ PoolUsed' = PoolUsed
    BY <1>2, <2>1 DEF Making, Started, PoolUsed
  <2>3. FleetSize + 1 = FleetSize'
    BY <1>4, StartAddsOne
  <2>4. Fits(PoolUsed', FleetSize', faults', Making')
    <3>1. Fits(PoolUsed, FleetSize, faults, Making)
      BY DEF Filling
    <3>2. FleetSize' = FleetSize + 1 /\ FleetSize' >= FleetSize
      BY <2>3, FillingTypes
    <3>3. /\ PoolUsed \in Nat /\ PoolUsed' \in Nat /\ faults \in Nat /\ faults' \in Nat
          /\ FleetSize \in Nat /\ FleetSize' \in Nat
          /\ Making \in {0, 1} /\ Making' \in {0, 1}
      BY FillingTypes
    <3> QED BY ONLY <2>1, <2>2, <3>1, <3>2, <3>3 DEF Fits
  <2>5. Reaches(FleetSize, job.left, Started) => Reaches(FleetSize', job'.left, Started')
    BY <2>1, <2>2, <2>3, FillingTypes, ReachesStarted
  <2>6. Behind => Behind'
    BY <1>1, <2>1, FillingProvisions DEF Behind
  <2>7. Spent'
    BY <1>1, <2>1, <2>5, <2>6, FillingProvisions DEF Filling, Spent
  <2> QED BY <1>1, <2>1, <2>4, <2>7, FillingProvisions DEF Filling
<1> QED BY <1>3, <1>4

LEMMA FillingRecords ==
  ASSUME AloneInv, [Next]_vars, Filling, ~Filled, RecordProvision
  PROVE  Filling'
<1> USE DEF AloneInv, ReplaceInv, LifeInv, IInv
<1>1. ProvisionStep
  BY DEF ProvisionStep
<1>2. /\ job.step = "started" /\ job'.step = "none"
      /\ containers' = containers /\ logical' = logical /\ drain' = drain
      /\ faults' = faults
  BY RecordProvisionBlank DEF RecordProvision, external
<1>3. /\ Making = 0 /\ Making' = 0 /\ Started = 1 /\ Started' = 0
      /\ FleetSize' = FleetSize /\ PoolUsed' = PoolUsed
  BY <1>2 DEF Making, Started, FleetSize, PoolUsed, Fleet, Draining
<1>4. Fits(PoolUsed', FleetSize', faults', Making')
  BY <1>2, <1>3 DEF Filling
<1>5. Behind => Behind'
  BY <1>1, <1>2, FillingProvisions DEF Behind
<1>6. Reaches(FleetSize, job.left, Started) => Reaches(FleetSize', job'.left, Started')
  <2> SUFFICES ASSUME Reaches(FleetSize, job.left, 1)
               PROVE  Reaches(FleetSize, job'.left, 0)
    BY <1>3
  <2>1. job.left > 0
    BY FillingBelow, FillingTypes, ReachesNeeds
  <2>2. job'.left = job.left - 1
    BY <1>1, <2>1, FillingProvisions, ProvisionCountsDown
  <2> QED BY <2>1, <2>2, FillingTypes, ReachesRecorded
<1>7. Spent'
  BY <1>1, <1>2, <1>5, <1>6, FillingProvisions DEF Filling, Spent
<1> QED BY <1>1, <1>2, <1>4, <1>7, FillingProvisions DEF Filling

\* The job moves on; the Connectors, the replaces and the failures stay.
LEMMA FillingMoves ==
  ASSUME AloneInv, [Next]_vars, Filling,
         UNCHANGED <<external, cordoned, pendingNew, drain, faults>>,
         job'.target = NoCid, job.step = "none", job'.step = "none",
         job'.stage \in {"pending", "health"},
         Seen' \cup job'.todo \subseteq containers, Spent'
  PROVE  Filling'
<1>1. /\ containers' = containers /\ logical' = logical /\ Fleet' = Fleet
      /\ Draining' = {} /\ PendingOld' = {}
  BY FillingFrame DEF external, Filling, PendingOld
<1>2. /\ PoolUsed' = PoolUsed /\ FleetSize' = FleetSize
      /\ Making = 0 /\ Making' = 0 /\ faults' = faults
  BY <1>1 DEF PoolUsed, FleetSize, Making
<1>3. Fits(PoolUsed', FleetSize', faults', Making')
  BY <1>2 DEF Filling
<1> QED BY <1>1, <1>3 DEF Filling

\* A scale-up that had no failure has filled the fleet.
LEMMA FillingFinishes ==
  ASSUME AloneInv, [Next]_vars, Filling, ~Filled, FinishScale
  PROVE  Filling'
<1> USE DEF AloneInv, ReplaceInv, LifeInv, IInv
<1>1. job.stage = "scale_up" /\ job.left = 0 /\ job.step = "none"
  BY DEF FinishScale, Filling
<1>2. /\ job'.stage = "pending" /\ job'.todo = {} /\ job'.step = "none"
      /\ job'.target = NoCid /\ job'.view = job.view
  BY <1>1 DEF FinishScale, Filling, TypeOK, JobType
<1>3. /\ UNCHANGED <<external, cordoned, pendingNew, drain, faults>>
      /\ Seen' = Seen /\ restarts' = restarts
  BY <1>2 DEF FinishScale, memory, Seen, InView
<1>4. ~Reaches(FleetSize, job.left, Started)
  BY <1>1, FillingBelow, FillingTypes, ReachesNeeds
<1>5. Behind
  BY <1>1, <1>4 DEF Filling, Spent
<1>6. Behind' /\ (Restarted' <=> Restarted)
  BY <1>3, <1>5 DEF Behind, Restarted
<1>7. Spent'
  BY <1>2, <1>3, <1>5, <1>6, FillingTypes DEF Spent, Behind
<1> QED BY <1>1, <1>2, <1>3, <1>7, FillingMoves DEF Filling

\* It takes a restart, and so three failures, before a Connector is replaced.
LEMMA FillingDecidesHealth ==
  ASSUME AloneInv, [Next]_vars, Filling, DecideHealth
  PROVE  Filling'
<1> USE DEF AloneInv, ReplaceInv, LifeInv, IInv
<1>1. job.stage = "pending" /\ job.step = "none"
  BY DEF DecideHealth, Filling
<1>2. /\ job'.stage = "health" /\ job'.todo = Remedies /\ job'.step = "none"
      /\ job'.target = NoCid /\ job'.view = NoView
      /\ job'.replace = {c \in Remedies : RemedyKind(restarts[c], MaxRestarts) = "replace"}
  BY <1>1 DEF DecideHealth, Filling, TypeOK, JobType
<1>3. /\ UNCHANGED <<external, cordoned, pendingNew, drain, faults>>
      /\ restarts' = restarts
  BY DEF DecideHealth, memory, durable
<1>4. Seen' = {} /\ Remedies \subseteq Seen
  BY <1>2 DEF Seen, InView, NoView, Remedies
<1>5. job'.replace # {} => Restarted
  <2> SUFFICES ASSUME NEW c \in Remedies, RemedyKind(restarts[c], MaxRestarts) = "replace"
               PROVE  restarts[c] > 0
    BY <1>2 DEF Restarted, Remedies
  <2>1. restarts[c] >= MaxRestarts /\ restarts[c] \in 0 .. MaxRestarts
    BY DEF RemedyKind, Remedies, TypeOK
  <2> QED BY <2>1, PolicyAssumption
<1>6. Behind
  BY <1>1 DEF Filling, Spent
<1>7. Seen # {} => faults >= 2
  BY <1>6 DEF Behind
<1>8. Restarted => faults >= 3
  BY <1>6 DEF Behind
<1>9. job'.todo # {} => faults' >= 2
  BY <1>2, <1>3, <1>4, <1>7
<1>10. (job'.replace # {} => faults' >= 3) /\ faults' >= 1
  BY <1>3, <1>5, <1>6, <1>8 DEF Behind
<1>11. Restarted' => faults' >= 2
  BY <1>3, <1>8, FillingTypes DEF Restarted
<1>12. Spent'
  BY <1>2, <1>9, <1>10, <1>11 DEF Spent
<1> QED BY <1>1, <1>2, <1>3, <1>4, <1>12, FillingMoves DEF Filling

LEMMA FillingRestarts ==
  ASSUME AloneInv, [Next]_vars, Filling, NEW c \in Cid, RestartOne(c)
  PROVE  Filling'
<1> USE DEF AloneInv, ReplaceInv, LifeInv, IInv
<1>1. job.stage = "health" /\ job.step = "none" /\ job.todo # {} /\ faults >= 2
  BY DEF RestartOne, Filling, Spent
<1>2. /\ job'.stage = "health" /\ job'.todo = job.todo \ {c} /\ job'.step = "none"
      /\ job'.target = NoCid /\ job'.view = job.view /\ job'.replace = job.replace
  BY DEF RestartOne, Filling, TypeOK, JobType
<1>3. UNCHANGED <<external, cordoned, pendingNew, drain, faults>> /\ Seen' = Seen
  BY <1>2 DEF RestartOne, memory, Seen, InView
<1>4. Spent'
  BY <1>1, <1>2, <1>3, FillingTypes DEF Filling, Spent
<1> QED BY <1>1, <1>2, <1>3, <1>4, FillingMoves DEF Filling

\* The steps that end a cycle, and those of the other actors.
LEMMA FillingStops ==
  ASSUME AloneInv, [Next]_vars, Filling,
         EndCycle \/ StoreError \/ Crash \/ GracefulRestart
  PROVE  Filling'
<1> USE DEF AloneInv, ReplaceInv, LifeInv, IInv
<1>1. UNCHANGED <<external, cordoned, restarts>> /\ job' = IdleJob
  BY DEF EndCycle, StoreError, Crash, GracefulRestart, ForgetMemory, durable
<1>2. Draining' = {} /\ PendingOld' = {}
  BY DEF EndCycle, StoreError, Crash, GracefulRestart, ForgetMemory, memory, Filling, Draining,
         PendingOld
<1>3. Restarted' => Restarted
  BY <1>1 DEF Restarted
<1>4. CASE EndCycle
  BY <1>1, <1>2, <1>3, <1>4, FillingEnds DEF EndCycle, Filling, Spent
<1>5. CASE StoreError
  BY <1>1, <1>2, <1>3, <1>5, FillingEnds DEF StoreError, StoreFails, Fault
<1>6. CASE Crash
  BY <1>1, <1>2, <1>3, <1>6, FillingEnds DEF Crash, Fault
<1>7. CASE GracefulRestart
  <2>1. job.stage = "idle" /\ job.step = "none"
    BY <1>7, FreeMeansQuiet DEF GracefulRestart
  <2> QED BY <1>1, <1>2, <1>3, <1>7, <2>1, FillingEnds DEF GracefulRestart, Filling, Spent
<1> QED BY <1>4, <1>5, <1>6, <1>7

LEMMA FillingOthers ==
  ASSUME AloneInv, [Next]_vars, Filling,
         \/ StartOverride \/ OverrideDiscoveryFails \/ RequestOverride \/ RequestStop
         \/ Tick \/ UNCHANGED vars
         \/ \E c \in Cid : RestartRowExpires(c)
  PROVE  Filling'
<1> USE DEF AloneInv, ReplaceInv, LifeInv, IInv
<1>1. CASE StartOverride
  <2>1. ManualCordon
    BY <1>1 DEF StartOverride, ManualScaleUp, ManualScaleDown, ManualReplace, QuietInv
  <2>2. cordoned' \subseteq cordoned \cup containers
    BY <2>1 DEF ManualCordon
  <2> QED
    BY <1>1, <2>1, <2>2, FillingSame
       DEF StartOverride, ManualCordon, EndOverride, memory, Restarted, Filling
<1>2. CASE \E c \in Cid : RestartRowExpires(c)
  <2>1. PICK c \in Cid : RestartRowExpires(c)
    BY <1>2
  <2>2. Restarted
    BY <2>1 DEF RestartRowExpires, Restarted
  <2> QED BY <2>1, <2>2, FillingSame DEF RestartRowExpires, memory, control, Filling
<1>3. CASE \/ OverrideDiscoveryFails \/ RequestOverride \/ RequestStop \/ Tick
           \/ UNCHANGED vars
  BY <1>3, FillingSame
     DEF OverrideDiscoveryFails, ApiFails, PlatformFails, StoreFails, Fault, EndOverride,
         RequestOverride, RequestStop, Tick, vars, external, durable, memory, control,
         Restarted, Filling
<1> QED BY <1>1, <1>2, <1>3

LEMMA NextFilling ==
  ASSUME AloneInv, [Next]_vars, Filling, ~Filled, Unattended, FewFailures, PoolSuffices
  PROVE  Filling'
<1> USE DEF AloneInv, ReplaceInv, LifeInv, IInv
<1>1. CASE ProvisionStep
  BY <1>1, FillingCreates, FillingCreateFails, FillingStarts, FillingRecords DEF ProvisionStep
<1>2. CASE BeginCycle
  BY <1>2, FillingBegins
<1>3. CASE \/ FinishScale \/ DecideHealth \/ \E c \in Cid : RestartOne(c)
  BY <1>3, FillingFinishes, FillingDecidesHealth, FillingRestarts
<1>4. CASE EndCycle \/ StoreError \/ Crash \/ GracefulRestart
  BY <1>4, FillingStops
<1>5. CASE \/ StartOverride \/ OverrideDiscoveryFails \/ RequestOverride \/ RequestStop
           \/ Tick \/ UNCHANGED vars
           \/ \E c \in Cid : RestartRowExpires(c)
  BY <1>5, FillingOthers
<1>6. \A c \in Cid : ~ScaleDownVictim(c)
  BY DEF ScaleDownVictim, Filling
<1>7. \A c \in Cid : ~ProcessPending(c)
  BY DEF ProcessPending, Filling, CordonInv
<1>8. \A c \in Cid : ~BeginReplace(c)
  <2>1. faults <= 2 /\ faults \in Nat
    BY ModelAssumption DEF FewFailures, TypeOK
  <2> QED BY <2>1 DEF BeginReplace, Filling, Spent
<1>9. ~FinishManualDown
  BY DEF FinishManualDown, Filling
<1>10. \A c \in Cid : ~DrainGraceOver(c) /\ ~DrainStep(c)
  BY DEF DrainGraceOver, DrainStep, DrainStop, DrainStopFails, DrainRecord, Filling, Draining
<1>11. \A c \in Cid : ~ContainerLost(c)
  BY DEF ContainerLost, Fault, Unattended
<1> QED
  BY <1>1, <1>2, <1>3, <1>4, <1>5, <1>6, <1>7, <1>8, <1>9, <1>10, <1>11
     DEF Next, JobStep, Environment, ProvisionStep

LEMMA NextFloorInv ==
  ASSUME AloneInv, FloorInv, [Next]_vars, Unattended, FewFailures, PoolSuffices
  PROVE  FloorInv'
BY NextFilled, NextFilling DEF FloorInv

LEMMA InitFilling == Init => Filling
<1> SUFFICES ASSUME Init PROVE Filling
  OBVIOUS
<1>1. /\ Draining = {} /\ PendingOld = {} /\ job.target = NoCid /\ job.stage = "idle"
      /\ job.step = "none" /\ job.todo = {} /\ cordoned = {}
  BY DEF Init, Draining, PendingOld, IdleJob
<1>2. Seen = {} /\ ~Restarted
  BY DEF Init, Seen, InView, IdleJob, NoView, Restarted
<1>3. containers = {} /\ logical = {} /\ faults = 0 /\ Fleet = {}
  BY DEF Init, Fleet
<1>4. PoolUsed = 0 /\ FleetSize = 0 /\ Making = 0
  BY <1>1, <1>3, FS_EmptySet DEF PoolUsed, FleetSize, Making
<1>5. Fits(PoolUsed, FleetSize, faults, Making)
  BY <1>3, <1>4 DEF Fits
<1>6. Spent
  BY <1>1, <1>2, <1>3 DEF Spent
<1> QED BY <1>1, <1>2, <1>5, <1>6 DEF Filling

LEMMA InitAloneInv == Init => AloneInv
<1> SUFFICES ASSUME Init PROVE AloneInv
  OBVIOUS
<1>1. ReplaceInv
  BY InitReplaceInv
<1>2. QuietInv
  BY DEF Init, QuietInv, IdleJob, NoOverride
<1> QED BY <1>1, <1>2 DEF AloneInv

LEMMA AloneInvariance == ASSUME Unattended PROVE Spec => []AloneInv
<1>1. AloneInv /\ [Next]_vars => AloneInv'
  BY NextAloneInv
<1> QED BY <1>1, InitAloneInv, PTL DEF Spec

LEMMA FilledReachesMin == ASSUME AloneInv, Filled PROVE FleetSize >= Min
<1>1. FleetSize \in Nat /\ PendingCount \in Nat /\ Extra \in {0, 1}
  BY Sizes DEF AloneInv, ReplaceInv, LifeInv, IInv, Extra
<1> QED BY <1>1, PolicyAssumption DEF Filled, Reserve

-----------------------------------------------------------------------------
\* Once a fleet stands at min_connectors with one Connector in reserve for each
\* pending replace, it never stands below min_connectors again, whatever number
\* of calls fail, crashes and restarts there are: for every pool, policy and
\* number of failures, if no operator scales or replaces and no container
\* vanishes from outside.
THEOREM FilledForGood ==
  ASSUME Unattended PROVE Spec => [](Filled => [](FleetSize >= Min))
<1>1. AloneInv /\ Filled /\ [Next]_vars => Filled'
  BY NextFilled
<1>2. AloneInv /\ Filled => FleetSize >= Min
  BY FilledReachesMin
<1> QED BY <1>1, <1>2, AloneInvariance, PTL DEF Spec

\* No drain takes the fleet below min_connectors, from the empty fleet on: for
\* every pool and policy, if no operator scales or replaces, no container
\* vanishes from outside, and at most two failures occur.  Three can make the
\* health check replace a Connector of a fleet that has never been filled, and
\* complete the replace below the floor.
THEOREM DrainsKeepFloor ==
  ASSUME Unattended, FewFailures, PoolSuffices PROVE Spec => FloorKept
<1>1. Init => FloorInv
  BY InitFilling DEF FloorInv
<1>2. AloneInv /\ FloorInv /\ [Next]_vars => FloorInv'
  BY NextFloorInv
<1>3. AloneInv /\ AloneInv' /\ FloorInv /\ [Next]_vars
        => [Draining' \ Draining # {} => Cardinality(Fleet') >= Min]_vars
  <2> SUFFICES ASSUME AloneInv, AloneInv', FloorInv, [Next]_vars, Draining' \ Draining # {}
               PROVE  Cardinality(Fleet') >= Min
    OBVIOUS
  <2>1. Filled
    <3>1. CASE ~Filled
      BY <3>1, NextFilling DEF FloorInv, Filling
    <3> QED BY <3>1
  <2>2. Filled'
    BY <2>1, NextFilled
  <2>3. (AloneInv /\ Filled => FleetSize >= Min)'
    BY FilledReachesMin, PTL
  <2> QED BY <2>2, <2>3 DEF FleetSize
<1> QED BY <1>1, <1>2, <1>3, AloneInvariance, PTL DEF Spec, FloorKept

=============================================================================
