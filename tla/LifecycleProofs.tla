--------------------------- MODULE LifecycleProofs ---------------------------
(***************************************************************************)
(* Proofs about the life of a Connector in FleetLoop: the loop implements  *)
(* ConnectorLifecycle, and what failures leave behind is bounded by their  *)
(* number.                                                                 *)
(***************************************************************************)
EXTENDS FleetLoopProofs

(***************************************************************************)
(* Where a provision can be under way, and that the Connector it has just  *)
(* made is routable, without a container and not mid-drain.  A drain that  *)
(* is past its stop has no container.                                      *)
(***************************************************************************)
ProvisionStages == {"scale_up", "health", "manual_up", "manual_foreign", "manual_replace"}

FreshOK ==
  job.step = "created" => /\ job.fresh \in logical
                          /\ job.fresh \notin containers
                          /\ job.fresh \notin Draining

ProvisionOK ==
  /\ job.target # NoCid => job.stage \in {"health", "manual_replace"}
  /\ job.step # "none" => job.stage \in ProvisionStages

RecordedIsGone == \A c \in Cid : drain[c] = "record" => c \notin containers

LifeInv == IInv /\ ProvisionOK /\ FreshOK /\ RecordedIsGone

-----------------------------------------------------------------------------
LEMMA InitLifeInv == Init => LifeInv
BY InitIInv, IdleJobOK DEF Init, LifeInv, ProvisionOK, FreshOK, RecordedIsGone

\* A free lock means that no provision is under way and no drain is removing.
LEMMA FreeMeansQuiet ==
  ASSUME IInv, lock = "free"
  PROVE  job.stage = "idle" /\ job.step = "none" /\ job.target = NoCid /\ Removing = {}
BY BusyNotRemoving DEF IInv, JobOK, ActionsSerialized

\* A provision that ends leaves no trace in the job.
LEMMA ProvisionFailedBlank ==
  ASSUME TypeOK, ProvisionFailed
  PROVE  job'.step = "none" /\ job'.target = NoCid
<1>1. ASSUME NEW rest,
             job' = [job EXCEPT !.step = "none", !.fresh = NoCid, !.target = NoCid, !.left = rest]
      PROVE  job'.step = "none" /\ job'.target = NoCid
  BY <1>1 DEF TypeOK, JobType
<1>2. \/ job' = IdleJob
      \/ \E rest : job' = [job EXCEPT !.step = "none", !.fresh = NoCid, !.target = NoCid,
                                      !.left = rest]
  BY DEF ProvisionFailed
<1> QED BY <1>1, <1>2, IdleJobOK

LEMMA RecordProvisionBlank ==
  ASSUME TypeOK, RecordProvision
  PROVE  job'.step = "none" /\ job'.target = NoCid
<1>1. ASSUME NEW rest, NEW acted,
             job' = [job EXCEPT !.step = "none", !.fresh = NoCid, !.target = NoCid,
                                !.acted = acted, !.left = rest]
      PROVE  job'.step = "none" /\ job'.target = NoCid
  BY <1>1 DEF TypeOK, JobType
<1>2. \/ job' = IdleJob
      \/ \E rest, acted :
           job' = [job EXCEPT !.step = "none", !.fresh = NoCid, !.target = NoCid,
                              !.acted = acted, !.left = rest]
  BY DEF RecordProvision
<1> QED BY <1>1, <1>2, IdleJobOK

\* The provision under way, if any, was not in its "created" step before or after.
NotCreated == job.step # "created" /\ job'.step # "created"

\* What each step does to the job's provision.
LEMMA JobSteps ==
  ASSUME LifeInv, [Next]_vars
  PROVE  \/ /\ UNCHANGED <<job, logical>>
            /\ containers' \subseteq containers /\ Draining' \subseteq Draining
         \/ /\ NotCreated
            /\ job'.step = "none" /\ job'.target = NoCid
         \/ /\ NotCreated
            /\ job'.step = "none" /\ job'.stage \in {"health", "manual_replace"}
            /\ UNCHANGED <<external, faults, drain>>
         \/ CreateConnector
         \/ StartContainer
         \/ StartContainerFails
         \/ Crash
<1> USE DEF LifeInv, IInv
<1>1. CASE BeginCycle
  <2>1. job'.step = "none" /\ job'.target = NoCid
    BY <1>1 DEF BeginCycle, IdleJob
  <2> QED BY <1>1, <2>1, FreeMeansQuiet DEF BeginCycle, NotCreated
<1>2. CASE CreateConnectorFails
  BY <1>2, ProvisionFailedBlank DEF CreateConnectorFails, NotCreated, WantsProvision
<1>3. CASE RecordProvision
  BY <1>3, RecordProvisionBlank DEF RecordProvision, NotCreated
<1>4. CASE \E c \in Cid : ScaleDownVictim(c)
  <2>1. PICK c \in Cid : ScaleDownVictim(c)
    BY <1>4
  <2>2. job'.step = job.step /\ job'.target = job.target
    <3>1. \/ job' = [job EXCEPT !.todo = @ \ {c}, !.acted = TRUE]
          \/ job' = [job EXCEPT !.todo = @ \ {c}]
      BY <2>1 DEF ScaleDownVictim
    <3>2. CASE job' = [job EXCEPT !.todo = @ \ {c}, !.acted = TRUE]
      BY <3>2 DEF TypeOK, JobType
    <3>3. CASE job' = [job EXCEPT !.todo = @ \ {c}]
      BY <3>3 DEF TypeOK, JobType
    <3> QED BY <3>1, <3>2, <3>3
  <2>3. job.step = "none" /\ job.target = NoCid
    BY <2>1 DEF ScaleDownVictim, ProvisionOK, ProvisionStages
  <2> QED BY <2>2, <2>3 DEF NotCreated
<1>5. CASE FinishScale
  <2>1. job'.step = job.step /\ job'.target = job.target
    BY <1>5 DEF FinishScale, TypeOK, JobType
  <2>2. job.step = "none" /\ job.target = NoCid
    BY <1>5 DEF FinishScale, ProvisionOK, ProvisionStages
  <2> QED BY <2>1, <2>2 DEF NotCreated
<1>6. CASE DecideHealth \/ \E c \in Cid : ProcessPending(c) \/ RestartOne(c)
  <2>1. job'.step = job.step /\ job'.target = job.target
    BY <1>6 DEF DecideHealth, ProcessPending, RestartOne, TypeOK, JobType
  <2>2. job.step = "none" /\ job.target = NoCid
    BY <1>6 DEF DecideHealth, ProcessPending, RestartOne, ProvisionOK, ProvisionStages
  <2> QED BY <2>1, <2>2 DEF NotCreated
<1>7. CASE \E c \in Cid : BeginReplace(c)
  <2>1. job'.step = "none" /\ job'.stage = "health" /\ job.step = "none"
    BY <1>7 DEF BeginReplace, TypeOK, JobType
  <2> QED BY <1>7, <2>1 DEF NotCreated, BeginReplace
<1>8. CASE EndCycle \/ FinishManualDown \/ StoreError \/ GracefulRestart
  <2>1. job' = IdleJob
    BY <1>8 DEF EndCycle, FinishManualDown, StoreError, GracefulRestart, ForgetMemory
  <2>2. job.step # "created"
    BY <1>8, FreeMeansQuiet
       DEF EndCycle, FinishManualDown, StoreError, GracefulRestart, ProvisionOK, ProvisionStages
  <2> QED BY <2>1, <2>2, IdleJobOK DEF NotCreated
<1>9. CASE StartOverride
  <2>1. job.step = "none"
    BY <1>9, FreeMeansQuiet DEF StartOverride
  <2>2. \/ EndOverride
        \/ \E stage, todo : RunOverride(stage, todo, NoCid)
        \/ \E target : RunOverride("manual_replace", {}, target)
    BY <1>9 DEF StartOverride, ManualScaleUp, ManualScaleDown, ManualCordon, ManualReplace
  <2>3. CASE EndOverride
    BY <1>9, <2>3 DEF EndOverride, StartOverride, external, Draining
  <2>4. CASE \E stage, todo : RunOverride(stage, todo, NoCid)
    BY <2>1, <2>4 DEF RunOverride, IdleJob, NotCreated
  <2>5. CASE \E target : RunOverride("manual_replace", {}, target)
    BY <1>9, <2>1, <2>5 DEF RunOverride, IdleJob, NotCreated, StartOverride
  <2> QED BY <2>2, <2>3, <2>4, <2>5
<1>10. CASE \/ OverrideDiscoveryFails \/ RequestOverride \/ RequestStop \/ Tick
            \/ \E c \in Cid : \/ DrainGraceOver(c) \/ DrainStep(c)
                              \/ RestartRowExpires(c) \/ ContainerLost(c)
            \/ UNCHANGED vars
  BY <1>10
     DEF OverrideDiscoveryFails, EndOverride, RequestOverride, RequestStop, Tick, DrainGraceOver,
         DrainStep, DrainStop, DrainStopFails, DrainRecord, RestartRowExpires, ContainerLost,
         Draining, TypeOK, vars, external, control
<1> QED
  BY <1>1, <1>2, <1>3, <1>4, <1>5, <1>6, <1>7, <1>8, <1>9, <1>10
     DEF Next, JobStep, Environment

-----------------------------------------------------------------------------
\* The provision steps: who is made, who gets a container, what may fail.
LEMMA CreateSteps ==
  ASSUME LifeInv, CreateConnector
  PROVE  \E c \in Unused :
           /\ job.step = "none"
           /\ job'.step = "created" /\ job'.fresh = c
           /\ job'.stage = job.stage /\ job'.target = job.target
           /\ job.stage \in ProvisionStages
           /\ UNCHANGED <<containers, cordoned, drain>>
           /\ \/ logical' = logical \cup {c} /\ UNCHANGED faults
              \/ \E d \in Unused \ {c} :
                   logical' = logical \cup {c, d} /\ faults' = faults + 1
<1> USE DEF LifeInv, IInv
<1>1. PICK c \in Unused :
        /\ \/ Mint({c}) /\ UNCHANGED faults
           \/ ApiFails /\ \E d \in Unused \ {c} : Mint({c, d})
        /\ job' = [job EXCEPT !.step = "created", !.fresh = c]
  BY DEF CreateConnector
<1>2. /\ job'.step = "created" /\ job'.fresh = c
      /\ job'.stage = job.stage /\ job'.target = job.target
  BY <1>1 DEF TypeOK, JobType
<1>3. job.step = "none" /\ job.stage \in ProvisionStages
  BY DEF CreateConnector, WantsProvision, ProvisionOK, ProvisionStages
<1>4. \/ logical' = logical \cup {c} /\ UNCHANGED faults
      \/ \E d \in Unused \ {c} : logical' = logical \cup {c, d} /\ faults' = faults + 1
  BY <1>1 DEF Mint, ApiFails, Fault
<1> QED BY <1>2, <1>3, <1>4 DEF CreateConnector

LEMMA StartSteps ==
  ASSUME LifeInv, StartContainer \/ StartContainerFails
  PROVE  /\ job.step = "created" /\ job'.step # "created"
         /\ containers' = containers \/ containers' = containers \cup {job.fresh}
         /\ job.fresh \in logical \ containers /\ job.fresh \notin Draining
         /\ UNCHANGED <<logical, cordoned, drain>>
         /\ Removing = {}
         /\ StartContainer => /\ UNCHANGED faults
                              /\ containers' = containers \cup {job.fresh}
         /\ StartContainerFails => faults' = faults + 1
<1> USE DEF LifeInv, IInv
<1>1. job.step = "created" /\ job.stage # "idle"
  BY DEF StartContainer, StartContainerFails, ProvisionOK, ProvisionStages
<1>2. job'.step # "created"
  <2>1. CASE StartContainer
    BY <2>1 DEF StartContainer, TypeOK, JobType
  <2>2. CASE StartContainerFails
    BY <2>2, ProvisionFailedBlank DEF StartContainerFails
  <2> QED BY <2>1, <2>2
<1>3. job.fresh \in logical \ containers /\ job.fresh \notin Draining
  BY <1>1 DEF FreshOK
<1>4. Removing = {}
  BY <1>1, BusyNotRemoving
<1> QED
  BY <1>1, <1>2, <1>3, <1>4
     DEF StartContainer, StartContainerFails, ApiFails, PlatformFails, Fault, durable

-----------------------------------------------------------------------------
LEMMA NextProvisionOK ==
  ASSUME LifeInv, [Next]_vars PROVE ProvisionOK'
<1> USE DEF LifeInv, IInv
<1>1. CASE UNCHANGED job
  BY <1>1 DEF ProvisionOK
<1>2. CASE job'.step = "none" /\ (job'.target = NoCid \/ job'.stage \in {"health", "manual_replace"})
  BY <1>2 DEF ProvisionOK
<1>3. CASE CreateConnector
  BY <1>3, CreateSteps DEF ProvisionOK
<1>4. CASE StartContainer
  <2>1. /\ job'.stage = job.stage /\ job'.target = job.target
        /\ job.step # "none"
    BY <1>4 DEF StartContainer, TypeOK, JobType
  <2> QED BY <2>1 DEF ProvisionOK
<1>5. CASE StartContainerFails
  BY <1>5, ProvisionFailedBlank DEF StartContainerFails, ProvisionOK
<1>6. CASE Crash
  BY <1>6, IdleJobOK DEF Crash, ForgetMemory, ProvisionOK
<1> QED BY <1>1, <1>2, <1>3, <1>4, <1>5, <1>6, JobSteps

(***************************************************************************)
(* What a step does outside the manager and to the drains, when it is no   *)
(* provision: nothing is minted but by a failed call, a container appears  *)
(* only for a provision, and one leaves only by its drain or by a loss.    *)
(***************************************************************************)
OtherStep ==
  \/ /\ UNCHANGED <<external, drain>>
     /\ faults' = faults \/ faults' = faults + 1
  \/ /\ \E c \in Unused : logical' = logical \cup {c}
     /\ faults' = faults + 1
     /\ UNCHANGED <<containers, drain>>
  \/ \E c \in Cid : DeprovisionStarts(c) /\ UNCHANGED containers /\ Removing = {}
  \/ \E c \in Cid : /\ logical' = logical \ {c}
                     /\ faults' = faults + 1
                     /\ UNCHANGED <<containers, drain>>
  \/ \E c \in Cid : DrainGraceOver(c) \/ DrainStep(c) \/ ContainerLost(c)
  \/ Crash \/ GracefulRestart

LEMMA DeprovisionIsOther ==
  ASSUME IInv, NEW c \in Cid \cup {NoCid}, DeprovisionStarts(c) \/ DeprovisionFails(c),
         UNCHANGED containers, Removing = {}
  PROVE  OtherStep
<1>1. CASE c = NoCid
  <2>1. c \notin logical
    BY <1>1, ModelAssumption DEF IInv, TypeOK
  <2>2. UNCHANGED <<external, drain>> /\ (faults' = faults \/ faults' = faults + 1)
    BY <2>1 DEF DeprovisionStarts, DeprovisionFails, DeleteConnector, ApiFails, Fault, external
  <2> QED BY <2>2 DEF OtherStep
<1>2. CASE c \in Cid
  BY <1>2 DEF DeprovisionStarts, DeprovisionFails, DeleteConnector, ApiFails, Fault, external,
              OtherStep
<1> QED BY <1>1, <1>2

LEMMA StepKinds ==
  ASSUME LifeInv, [Next]_vars
  PROVE  CreateConnector \/ StartContainer \/ StartContainerFails \/ OtherStep
<1> USE DEF LifeInv, IInv
<1>1. CASE CreateConnectorFails
  BY <1>1 DEF CreateConnectorFails, ApiFails, Fault, NoMint, Mint, OtherStep, external
<1>2. CASE \E c \in Cid : ScaleDownVictim(c)
  <2>1. PICK c \in Cid : ScaleDownVictim(c)
    BY <1>2
  <2>2. Removing = {}
    BY <2>1, BusyNotRemoving DEF ScaleDownVictim
  <2> QED BY <2>1, <2>2, DeprovisionIsOther DEF ScaleDownVictim
<1>3. CASE \E o \in Cid : ProcessPending(o)
  <2>1. PICK o \in Cid : ProcessPending(o)
    BY <1>3
  <2>2. Removing = {} /\ pendingNew[o] \in Cid \cup {NoCid} /\ UNCHANGED containers
    BY <2>1, BusyNotRemoving DEF ProcessPending, TypeOK
  <2>3. CASE PendingOldGone(o) \/ PendingWaits(o)
    BY <2>2, <2>3 DEF PendingOldGone, PendingWaits, OtherStep, external
  <2>4. CASE PendingCompletes(o)
    BY <2>2, <2>4, DeprovisionIsOther DEF PendingCompletes
  <2>5. CASE PendingTimesOut(o)
    <3>1. CASE UNCHANGED <<logical, drain, faults>>
      BY <2>2, <3>1 DEF OtherStep, external
    <3> QED BY <2>2, <2>5, <3>1, DeprovisionIsOther DEF PendingTimesOut
  <2> QED BY <2>1, <2>3, <2>4, <2>5 DEF ProcessPending
<1>4. CASE \/ BeginCycle \/ RecordProvision \/ FinishScale \/ DecideHealth \/ EndCycle
           \/ FinishManualDown \/ StartOverride \/ Tick \/ RequestOverride \/ RequestStop
           \/ \E c \in Cid : RestartOne(c) \/ BeginReplace(c) \/ RestartRowExpires(c)
           \/ UNCHANGED vars
  BY <1>4 DEF BeginCycle, RecordProvision, FinishScale, DecideHealth, EndCycle,
              FinishManualDown, StartOverride, Tick, RequestOverride, RequestStop, RestartOne,
              BeginReplace, RestartRowExpires, vars, external, OtherStep
<1>5. CASE StoreError \/ OverrideDiscoveryFails
  BY <1>5 DEF StoreError, OverrideDiscoveryFails, ApiFails, PlatformFails, StoreFails, Fault,
              external, OtherStep
<1>6. CASE \/ \E c \in Cid : DrainGraceOver(c) \/ DrainStep(c) \/ ContainerLost(c)
           \/ Crash \/ GracefulRestart
  BY <1>6 DEF OtherStep
<1> QED
  BY <1>1, <1>2, <1>3, <1>4, <1>5, <1>6 DEF Next, JobStep, Environment

-----------------------------------------------------------------------------
LEMMA NextFreshOK ==
  ASSUME LifeInv, [Next]_vars PROVE FreshOK'
<1> USE DEF LifeInv, IInv
<1>1. CASE CreateConnector
  BY <1>1, CreateSteps DEF FreshOK, Unused, Draining
<1>2. CASE job'.step # "created"
  BY <1>2 DEF FreshOK
<1>3. CASE /\ UNCHANGED <<job, logical>>
           /\ containers' \subseteq containers /\ Draining' \subseteq Draining
  BY <1>3 DEF FreshOK
<1>4. CASE StartContainer \/ StartContainerFails
  BY <1>2, <1>4, StartSteps
<1>5. CASE Crash
  BY <1>2, <1>5, IdleJobOK DEF Crash, ForgetMemory
<1> QED BY <1>1, <1>2, <1>3, <1>4, <1>5, JobSteps

LEMMA NextRecordedIsGone ==
  ASSUME LifeInv, [Next]_vars PROVE RecordedIsGone'
<1> USE DEF LifeInv, IInv
<1>1. CASE CreateConnector
  BY <1>1, CreateSteps DEF RecordedIsGone
<1>2. CASE StartContainer \/ StartContainerFails
  BY <1>2, StartSteps DEF RecordedIsGone, Removing
<1>3. CASE OtherStep
  <2>1. CASE UNCHANGED <<containers, drain>>
    BY <2>1 DEF RecordedIsGone
  <2>2. CASE \E c \in Cid : DeprovisionStarts(c) /\ UNCHANGED containers
    BY <2>2 DEF DeprovisionStarts, RecordedIsGone, TypeOK
  <2>3. CASE \E c \in Cid : DrainGraceOver(c) \/ DrainStep(c) \/ ContainerLost(c)
    BY <2>3 DEF RecordedIsGone, DrainGraceOver, DrainStep, DrainStop, DrainStopFails,
                DrainRecord, ContainerLost, external, memory, TypeOK
  <2>4. CASE Crash \/ GracefulRestart
    BY <2>4 DEF RecordedIsGone, Crash, GracefulRestart, ForgetMemory
  <2> QED BY <1>3, <2>1, <2>2, <2>3, <2>4 DEF OtherStep, external
<1> QED BY <1>1, <1>2, <1>3, StepKinds

LEMMA LifeInvariance == Spec => []LifeInv
<1>1. LifeInv /\ [Next]_vars => LifeInv'
  BY NextTypes, NextUnrouted, NextSerialized, NextProvisionOK, NextFreshOK, NextRecordedIsGone
     DEF LifeInv, IInv
<1> QED BY <1>1, InitLifeInv, PTL DEF Spec

-----------------------------------------------------------------------------
(***************************************************************************)
(* The loop implements the abstract life of a Connector.                   *)
(***************************************************************************)

\* One Connector changes its phase and no other does.
LEMMA OnePhase ==
  ASSUME NEW c \in Cid, NEW from, NEW to,
         PhaseOf(c) = from, PhaseOf(c)' = to,
         \A d \in Cid \ {c} : PhaseOf(d)' = PhaseOf(d)
  PROVE  Lifecycle!Move(c, from, to)
BY DEF Lifecycle!Move

LEMMA SamePhases ==
  ASSUME UNCHANGED external, faults' = faults \/ faults' = faults + 1
  PROVE  [Lifecycle!Next]_(Lifecycle!vars)
BY DEF external, PhaseOf, Lifecycle!Next, Lifecycle!Mishap, Lifecycle!vars

LEMMA RegularMove ==
  ASSUME NEW c \in Cid, Lifecycle!OnPath(c), faults' = faults \/ faults' = faults + 1
  PROVE  Lifecycle!Next
BY DEF Lifecycle!Next, Lifecycle!Regular, Lifecycle!Mishap

\* connectorCreate, whichever of its outcomes.
LEMMA MakesOne ==
  ASSUME TypeOK, NEW c \in Unused, logical' = logical \cup {c}, UNCHANGED containers
  PROVE  c \in Cid /\ Lifecycle!OnPath(c)
BY OnePhase DEF PhaseOf, Unused, Lifecycle!OnPath

LEMMA MakesTwo ==
  ASSUME TypeOK, NEW c \in Unused, NEW d \in Unused, logical' = logical \cup {c, d},
         UNCHANGED containers
  PROVE  Lifecycle!MadeTwice(c, d)
BY DEF PhaseOf, Unused, Lifecycle!MadeTwice

\* connectorDelete, if it takes effect.
LEMMA Unroutes ==
  ASSUME TypeOK, NEW c \in logical, logical' = logical \ {c}, UNCHANGED containers
  PROVE  Lifecycle!OnPath(c)
BY OnePhase DEF TypeOK, PhaseOf, Lifecycle!OnPath

LEMMA StepRefines ==
  ASSUME LifeInv, [Next]_vars PROVE [Lifecycle!Next]_(Lifecycle!vars)
<1> USE DEF LifeInv, IInv
<1>1. CASE CreateConnector
  <2>1. PICK c \in Unused :
          /\ UNCHANGED containers
          /\ \/ logical' = logical \cup {c} /\ UNCHANGED faults
             \/ \E d \in Unused \ {c} : logical' = logical \cup {c, d} /\ faults' = faults + 1
    BY <1>1, CreateSteps
  <2>2. CASE logical' = logical \cup {c} /\ UNCHANGED faults
    BY <2>1, <2>2, MakesOne, RegularMove
  <2>3. CASE \E d \in Unused \ {c} : logical' = logical \cup {c, d} /\ faults' = faults + 1
    <3>1. PICK d \in Unused : Lifecycle!MadeTwice(c, d)
      BY <2>1, <2>3, MakesTwo
    <3> QED BY <2>3, <3>1, UnusedType DEF Lifecycle!Next, Lifecycle!Mishap
  <2> QED BY <2>1, <2>2, <2>3
<1>2. CASE StartContainer \/ StartContainerFails
  <2>1. /\ job.fresh \in logical \ containers /\ job.fresh \in Cid
        /\ UNCHANGED logical /\ (faults' = faults \/ faults' = faults + 1)
        /\ containers' = containers \/ containers' = containers \cup {job.fresh}
    BY <1>2, StartSteps DEF TypeOK
  <2>2. CASE containers' = containers
    BY <2>1, <2>2, SamePhases DEF external
  <2>3. CASE containers' = containers \cup {job.fresh}
    <3>1. Lifecycle!OnPath(job.fresh)
      BY <2>1, <2>3, OnePhase DEF PhaseOf, Lifecycle!OnPath
    <3> QED BY <2>1, <3>1, RegularMove
  <2> QED BY <2>1, <2>2, <2>3
<1>3. CASE OtherStep
  <2>1. CASE UNCHANGED external /\ (faults' = faults \/ faults' = faults + 1)
    BY <2>1, SamePhases
  <2>2. CASE /\ \E c \in Unused : logical' = logical \cup {c}
             /\ faults' = faults + 1 /\ UNCHANGED containers
    BY <2>2, MakesOne, RegularMove
  <2>3. CASE \E c \in Cid : /\ logical' = logical \ {c} /\ UNCHANGED containers
                            /\ faults' = faults \/ faults' = faults + 1
    <3>1. PICK c \in Cid : /\ logical' = logical \ {c} /\ UNCHANGED containers
                           /\ faults' = faults \/ faults' = faults + 1
      BY <2>3
    <3>2. CASE c \in logical
      BY <3>1, <3>2, Unroutes, RegularMove
    <3>3. CASE c \notin logical
      BY <3>1, <3>3, SamePhases DEF external
    <3> QED BY <3>2, <3>3
  <2>4. CASE \E c \in Cid : DrainStop(c)
    <3>1. PICK c \in Cid : DrainStop(c)
      BY <2>4
    <3>2. c \in containers \ logical
      BY <3>1 DEF DrainStop, DrainingIsUnrouted, Draining
    <3>3. Lifecycle!OnPath(c)
      BY <3>1, <3>2, OnePhase DEF DrainStop, PhaseOf, Lifecycle!OnPath
    <3> QED BY <3>1, <3>3, RegularMove DEF DrainStop
  <2>5. CASE \E c \in Cid : ContainerLost(c)
    <3>1. PICK c \in Cid : ContainerLost(c)
      BY <2>5
    <3>2. CASE c \in logical
      <4>1. Lifecycle!Breaks(c)
        BY <3>1, <3>2, OnePhase DEF ContainerLost, PhaseOf, Lifecycle!Breaks
      <4> QED BY <3>1, <4>1 DEF ContainerLost, Fault, Lifecycle!Next, Lifecycle!Mishap
    <3>3. CASE c \notin logical
      <4>1. Lifecycle!OnPath(c)
        BY <3>1, <3>3, OnePhase DEF ContainerLost, PhaseOf, Lifecycle!OnPath
      <4> QED BY <3>1, <4>1, RegularMove DEF ContainerLost, Fault
    <3> QED BY <3>2, <3>3
  <2>6. CASE \E c \in Cid : DrainStopFails(c)
    <3>1. PICK c \in Cid : DrainStopFails(c)
      BY <2>6
    <3>2. /\ c \notin logical /\ UNCHANGED logical /\ (faults' = faults \/ faults' = faults + 1)
          /\ containers' = containers \/ (c \in containers /\ containers' = containers \ {c})
      BY <3>1 DEF DrainStopFails, DrainingIsUnrouted, Draining, PlatformFails, Fault
    <3>3. CASE containers' = containers
      BY <3>2, <3>3, SamePhases DEF external
    <3>4. CASE c \in containers /\ containers' = containers \ {c}
      <4>1. Lifecycle!OnPath(c)
        BY <3>2, <3>4, OnePhase DEF PhaseOf, Lifecycle!OnPath
      <4> QED BY <3>2, <4>1, RegularMove
    <3> QED BY <3>2, <3>3, <3>4
  <2>7. CASE \/ \E c \in Cid : DrainGraceOver(c) \/ DrainRecord(c)
             \/ Crash \/ GracefulRestart
    <3>1. UNCHANGED external /\ (faults' = faults \/ faults' = faults + 1)
      BY <2>7 DEF DrainGraceOver, DrainRecord, Crash, GracefulRestart, StoreFails, Fault
    <3> QED BY <3>1, SamePhases
  <2> QED
    BY <1>3, <2>1, <2>2, <2>3, <2>4, <2>5, <2>6, <2>7
       DEF OtherStep, DeprovisionStarts, DeleteConnector, DrainStep
<1> QED BY <1>1, <1>2, <1>3, StepKinds

\* The loop, with all its handlers, failures and restarts, implements the
\* abstract life of a Connector: made, served, unrouted, stopped, in this
\* order, and off it only where something failed.
THEOREM LifecycleRefined == Spec => LifecycleKept
<1>1. Init => Lifecycle!Init
  BY DEF Init, PhaseOf, Lifecycle!Init
<1>2. LifeInv /\ [Next]_vars => [Lifecycle!Next]_(Lifecycle!vars)
  BY StepRefines
<1> QED
  BY <1>1, <1>2, LifeInvariance, PTL DEF Spec, LifecycleKept, Lifecycle!Spec

-----------------------------------------------------------------------------
(***************************************************************************)
(* What failures leave behind.                                             *)
(***************************************************************************)

\* What nobody will give a container, and what nobody will stop.
Unmade == (logical \ containers) \ {c \in {job.fresh} : job.step = "created"}
Unstopped == (containers \ logical) \ Draining

LeakInv == Cardinality(Unmade) + Cardinality(Unstopped) <= faults

\* Cordons that no drain is about to drop.
Phantoms == {c \in cordoned : c \notin containers /\ drain[c] # "record"}

PhantomInv == Cardinality(Phantoms) <= faults

\* A set of Connectors grows by nothing, or by one element.
LEMMA NoneMore ==
  ASSUME NEW S \in SUBSET Cid, NEW T \in SUBSET S
  PROVE  Cardinality(T) \in Nat /\ Cardinality(S) \in Nat /\ Cardinality(T) <= Cardinality(S)
BY ModelAssumption, FS_Subset, FS_CardinalityType

LEMMA OneMore ==
  ASSUME NEW S \in SUBSET Cid, NEW x, NEW T \in SUBSET (S \cup {x})
  PROVE  /\ Cardinality(T) \in Nat /\ Cardinality(S) \in Nat
         /\ Cardinality(T) <= Cardinality(S) + 1
<1>1. IsFiniteSet(S)
  BY ModelAssumption, FS_Subset
<1>2. IsFiniteSet(S \cup {x}) /\ Cardinality(S \cup {x}) \in {Cardinality(S), Cardinality(S) + 1}
  BY <1>1, FS_AddElement
<1>3. IsFiniteSet(T) /\ Cardinality(T) <= Cardinality(S \cup {x})
  BY <1>2, FS_Subset
<1> QED BY <1>1, <1>2, <1>3, FS_CardinalityType

LEMMA LeakTypes ==
  ASSUME TypeOK
  PROVE  /\ Unmade \in SUBSET Cid /\ Unstopped \in SUBSET Cid /\ Phantoms \in SUBSET Cid
         /\ faults \in Nat
BY ModelAssumption DEF TypeOK, Unmade, Unstopped, Phantoms

\* The three ways a step may treat the two sets.
NoLeak == Unmade' \subseteq Unmade /\ Unstopped' \subseteq Unstopped
LeaksUnmade(x) == Unmade' \subseteq Unmade \cup {x} /\ Unstopped' \subseteq Unstopped
LeaksUnstopped(x) == Unmade' \subseteq Unmade /\ Unstopped' \subseteq Unstopped \cup {x}

LeakStep ==
  \/ NoLeak /\ (faults' = faults \/ faults' = faults + 1)
  \/ faults' = faults + 1 /\ \E x \in Cid : LeaksUnmade(x) \/ LeaksUnstopped(x)

LEMMA LeakStepKeepsInv ==
  ASSUME TypeOK, TypeOK', LeakInv, LeakStep PROVE LeakInv'
<1>1. CASE NoLeak /\ (faults' = faults \/ faults' = faults + 1)
  <2>1. /\ Cardinality(Unmade') <= Cardinality(Unmade)
        /\ Cardinality(Unmade) \in Nat /\ Cardinality(Unmade') \in Nat
    BY <1>1, LeakTypes, NoneMore DEF NoLeak
  <2>2. /\ Cardinality(Unstopped') <= Cardinality(Unstopped)
        /\ Cardinality(Unstopped) \in Nat /\ Cardinality(Unstopped') \in Nat
    BY <1>1, LeakTypes, NoneMore DEF NoLeak
  <2> QED BY <1>1, <2>1, <2>2, LeakTypes DEF LeakInv
<1>2. ASSUME NEW x \in Cid, faults' = faults + 1, LeaksUnmade(x) PROVE LeakInv'
  <2>1. /\ Cardinality(Unmade') <= Cardinality(Unmade) + 1
        /\ Cardinality(Unmade) \in Nat /\ Cardinality(Unmade') \in Nat
    BY <1>2, LeakTypes, OneMore DEF LeaksUnmade
  <2>2. /\ Cardinality(Unstopped') <= Cardinality(Unstopped)
        /\ Cardinality(Unstopped) \in Nat /\ Cardinality(Unstopped') \in Nat
    BY <1>2, LeakTypes, NoneMore DEF LeaksUnmade
  <2> QED BY <1>2, <2>1, <2>2, LeakTypes DEF LeakInv
<1>3. ASSUME NEW x \in Cid, faults' = faults + 1, LeaksUnstopped(x) PROVE LeakInv'
  <2>1. /\ Cardinality(Unstopped') <= Cardinality(Unstopped) + 1
        /\ Cardinality(Unstopped) \in Nat /\ Cardinality(Unstopped') \in Nat
    BY <1>3, LeakTypes, OneMore DEF LeaksUnstopped
  <2>2. /\ Cardinality(Unmade') <= Cardinality(Unmade)
        /\ Cardinality(Unmade) \in Nat /\ Cardinality(Unmade') \in Nat
    BY <1>3, LeakTypes, NoneMore DEF LeaksUnstopped
  <2> QED BY <1>3, <2>1, <2>2, LeakTypes DEF LeakInv
<1> QED BY <1>1, <1>2, <1>3 DEF LeakStep

\* Outside the start of a container, only the two systems decide what is unmade.
LEMMA UnmadeFollows ==
  ASSUME LifeInv, [Next]_vars, ~Crash, ~StartContainer, ~StartContainerFails, NEW X,
         logical' \ containers' \subseteq (logical \ containers) \cup X
  PROVE  Unmade' \subseteq Unmade \cup X
<1>1. CASE UNCHANGED job
  BY <1>1 DEF Unmade
<1>2. CASE NotCreated
  BY <1>2 DEF Unmade, NotCreated
<1>3. CASE CreateConnector
  <2>1. job'.step = "created" /\ job.step = "none"
    BY <1>3, CreateSteps
  <2> QED BY <2>1 DEF Unmade
<1> QED BY <1>1, <1>2, <1>3, JobSteps

LEMMA CreateLeaks ==
  ASSUME LifeInv, CreateConnector PROVE LeakStep
<1>1. PICK c \in Unused :
        /\ job.step = "none" /\ job'.step = "created" /\ job'.fresh = c
        /\ UNCHANGED <<containers, drain>>
        /\ \/ logical' = logical \cup {c} /\ UNCHANGED faults
           \/ \E d \in Unused \ {c} : logical' = logical \cup {c, d} /\ faults' = faults + 1
  BY CreateSteps
<1>2. CASE logical' = logical \cup {c} /\ UNCHANGED faults
  BY <1>1, <1>2 DEF LeakStep, NoLeak, Unmade, Unstopped, Draining
<1>3. CASE \E d \in Unused \ {c} : logical' = logical \cup {c, d} /\ faults' = faults + 1
  <2>1. PICK d \in Cid : logical' = logical \cup {c, d} /\ faults' = faults + 1
    BY <1>3, UnusedType
  <2>2. LeaksUnmade(d)
    BY <1>1, <2>1 DEF LeaksUnmade, Unmade, Unstopped, Draining
  <2> QED BY <2>1, <2>2 DEF LeakStep
<1> QED BY <1>1, <1>2, <1>3

LEMMA StartLeaks ==
  ASSUME LifeInv, StartContainer \/ StartContainerFails PROVE LeakStep
<1>1. /\ job.step = "created" /\ job'.step # "created"
      /\ containers' = containers \/ containers' = containers \cup {job.fresh}
      /\ job.fresh \in logical \ containers /\ job.fresh \in Cid
      /\ UNCHANGED <<logical, drain>>
      /\ \/ faults' = faults /\ containers' = containers \cup {job.fresh}
         \/ faults' = faults + 1
  BY StartSteps DEF LifeInv, IInv, TypeOK
<1>2. Unstopped' \subseteq Unstopped
  BY <1>1 DEF Unstopped, Draining
<1>3. CASE containers' = containers
  <2>1. LeaksUnmade(job.fresh)
    BY <1>1, <1>2, <1>3 DEF LeaksUnmade, Unmade
  <2> QED BY <1>1, <1>3, <2>1 DEF LeakStep
<1>4. CASE containers' = containers \cup {job.fresh}
  BY <1>1, <1>2, <1>4 DEF LeakStep, NoLeak, Unmade
<1> QED BY <1>1, <1>3, <1>4

LEMMA OtherLeaks ==
  ASSUME LifeInv, [Next]_vars, ~Crash, ~StartContainer, ~StartContainerFails, OtherStep
  PROVE  LeakStep
<1> USE DEF LifeInv, IInv
<1>1. ASSUME NEW X, logical' \ containers' \subseteq (logical \ containers) \cup X
      PROVE  Unmade' \subseteq Unmade \cup X
  BY <1>1, UnmadeFollows
<1>2. ASSUME logical' \ containers' \subseteq logical \ containers
      PROVE  Unmade' \subseteq Unmade
  <2>1. Unmade' \subseteq Unmade \cup {}
    BY <1>1, <1>2
  <2> QED BY <2>1
<1>3. CASE UNCHANGED <<external, drain>> /\ (faults' = faults \/ faults' = faults + 1)
  BY <1>2, <1>3 DEF LeakStep, NoLeak, Unstopped, Draining, external
<1>4. CASE /\ \E c \in Unused : logical' = logical \cup {c}
           /\ faults' = faults + 1
           /\ UNCHANGED <<containers, drain>>
  <2>1. PICK c \in Cid : logical' = logical \cup {c}
    BY <1>4, UnusedType
  <2>2. Unmade' \subseteq Unmade \cup {c}
    BY <1>1, <1>4, <2>1
  <2>3. Unstopped' \subseteq Unstopped
    BY <1>4, <2>1 DEF Unstopped, Draining
  <2> QED BY <1>4, <2>2, <2>3 DEF LeakStep, LeaksUnmade
<1>5. CASE \E c \in Cid : DeprovisionStarts(c) /\ UNCHANGED containers
  <2>1. PICK c \in Cid : DeprovisionStarts(c) /\ UNCHANGED containers
    BY <1>5
  <2>2. Unstopped' \subseteq Unstopped
    BY <2>1 DEF Unstopped, Draining, DeprovisionStarts, DeleteConnector, TypeOK
  <2> QED BY <1>2, <2>1, <2>2 DEF LeakStep, NoLeak, DeprovisionStarts, DeleteConnector
<1>6. CASE \E c \in Cid : /\ logical' = logical \ {c}
                          /\ faults' = faults + 1
                          /\ UNCHANGED <<containers, drain>>
  <2>1. PICK c \in Cid : logical' = logical \ {c}
    BY <1>6
  <2>2. Unstopped' \subseteq Unstopped \cup {c}
    BY <1>6, <2>1 DEF Unstopped, Draining
  <2> QED BY <1>2, <1>6, <2>1, <2>2 DEF LeakStep, LeaksUnstopped
<1>7. CASE \E c \in Cid : DrainGraceOver(c) \/ DrainStep(c)
  <2>1. PICK c \in Cid : DrainGraceOver(c) \/ DrainStep(c)
    BY <1>7
  <2>2. UNCHANGED logical /\ containers' \subseteq containers /\ drain[c] # "none"
        /\ logical' \ containers' \subseteq logical \ containers
        /\ \A d \in Cid \ {c} : drain'[d] = drain[d]
    BY <2>1 DEF DrainGraceOver, DrainStep, DrainStop, DrainStopFails, DrainRecord, external,
                DrainingIsUnrouted, Draining, TypeOK
  <2>3. Unmade' \subseteq Unmade
    BY <1>2, <2>2
  <2>4. CASE DrainGraceOver(c) \/ DrainStop(c)
    <3>1. Draining' = Draining /\ UNCHANGED faults
      BY <2>4 DEF Draining, DrainGraceOver, DrainStop, TypeOK
    <3> QED BY <2>2, <2>3, <3>1 DEF LeakStep, NoLeak, Unstopped
  <2>5. CASE DrainStopFails(c)
    <3>1. Unstopped' \subseteq Unstopped \cup {c}
      BY <2>2, <2>5 DEF Unstopped, Draining
    <3>2. CASE c \notin containers /\ UNCHANGED faults
      <4>1. Unstopped' \subseteq Unstopped
        BY <2>2, <3>1, <3>2 DEF Unstopped
      <4> QED BY <2>3, <3>2, <4>1 DEF LeakStep, NoLeak
    <3>3. CASE PlatformFails
      BY <2>3, <3>1, <3>3 DEF LeakStep, LeaksUnstopped, PlatformFails, Fault
    <3> QED BY <2>5, <3>2, <3>3 DEF DrainStopFails
  <2>6. CASE DrainRecord(c)
    <3>1. c \notin containers' /\ (faults' = faults \/ faults' = faults + 1)
      BY <2>6 DEF DrainRecord, RecordedIsGone, StoreFails, Fault, external
    <3>2. Unstopped' \subseteq Unstopped
      BY <2>2, <3>1 DEF Unstopped, Draining
    <3> QED BY <2>3, <3>1, <3>2 DEF LeakStep, NoLeak
  <2> QED BY <2>1, <2>4, <2>5, <2>6 DEF DrainStep
<1>8. CASE \E c \in Cid : ContainerLost(c)
  <2>1. PICK c \in Cid : ContainerLost(c)
    BY <1>8
  <2>2. Unmade' \subseteq Unmade \cup {c}
    BY <1>1, <2>1 DEF ContainerLost
  <2>3. Unstopped' \subseteq Unstopped
    BY <2>1 DEF ContainerLost, Unstopped, Draining
  <2> QED BY <2>1, <2>2, <2>3 DEF LeakStep, LeaksUnmade, ContainerLost, Fault
<1>9. CASE GracefulRestart
  <2>1. UNCHANGED <<external, faults>> /\ Draining = {} /\ Draining' = {}
    BY <1>9 DEF GracefulRestart, ForgetMemory, Draining
  <2> QED BY <1>2, <2>1 DEF LeakStep, NoLeak, Unstopped, external
<1> QED BY <1>3, <1>4, <1>5, <1>6, <1>7, <1>8, <1>9 DEF OtherStep

\* Nothing leaks while nothing fails, and one failure strands one Connector,
\* made without a container or unrouted without a drain.  A crash of the
\* manager is excluded: it may strand every drain in progress.
THEOREM LeaksAreFaults ==
  ASSUME "crash" \notin FaultKinds PROVE Spec => []LeaksPerFault
<1>1. Init => LeakInv
  <2> SUFFICES ASSUME Init PROVE LeakInv
    OBVIOUS
  <2>1. Unmade = {} /\ Unstopped = {}
    BY DEF Init, Unmade, Unstopped
  <2> QED BY <2>1, FS_EmptySet DEF Init, LeakInv
<1>2. LifeInv /\ LifeInv' /\ LeakInv /\ [Next]_vars => LeakInv'
  <2> SUFFICES ASSUME LifeInv, LifeInv', LeakInv, [Next]_vars PROVE LeakInv'
    OBVIOUS
  <2>1. ~Crash
    BY DEF Crash, Fault
  <2>2. LeakStep
    BY <2>1, StepKinds, CreateLeaks, StartLeaks, OtherLeaks
  <2> QED BY <2>2, LeakStepKeepsInv DEF LifeInv, IInv
<1>3. LifeInv /\ LeakInv => LeaksPerFault
  <2> SUFFICES ASSUME TypeOK, LeakInv PROVE LeaksPerFault
    BY DEF LifeInv, IInv
  <2> DEFINE unmade == (logical \ containers) \ {job.fresh}
  <2>1. unmade \subseteq Unmade
    BY DEF Unmade
  <2>2. /\ Cardinality(unmade) <= Cardinality(Unmade)
        /\ Cardinality(unmade) \in Nat /\ Cardinality(Unmade) \in Nat
    BY <2>1, LeakTypes, NoneMore
  <2>3. Cardinality(Unstopped) \in Nat
    BY LeakTypes, NoneMore
  <2>4. Cardinality(unmade) + Cardinality(Unstopped) <= faults
    BY <2>2, <2>3, LeakTypes DEF LeakInv
  <2> QED BY <2>4 DEF LeaksPerFault, Unstopped
<1> QED BY <1>1, <1>2, <1>3, LifeInvariance, PTL DEF Spec

-----------------------------------------------------------------------------
\* The cordons nobody is about to drop.
PhantomStep ==
  \/ Phantoms' \subseteq Phantoms /\ (faults' = faults \/ faults' = faults + 1)
  \/ faults' = faults + 1 /\ \E x \in Cid : Phantoms' \subseteq Phantoms \cup {x}

LEMMA PhantomStepKeepsInv ==
  ASSUME TypeOK, TypeOK', PhantomInv, PhantomStep PROVE PhantomInv'
<1>1. CASE Phantoms' \subseteq Phantoms /\ (faults' = faults \/ faults' = faults + 1)
  <2>1. /\ Cardinality(Phantoms') <= Cardinality(Phantoms)
        /\ Cardinality(Phantoms) \in Nat /\ Cardinality(Phantoms') \in Nat
    BY <1>1, LeakTypes, NoneMore
  <2> QED BY <1>1, <2>1, LeakTypes DEF PhantomInv
<1>2. ASSUME NEW x \in Cid, faults' = faults + 1, Phantoms' \subseteq Phantoms \cup {x}
      PROVE  PhantomInv'
  <2>1. /\ Cardinality(Phantoms') <= Cardinality(Phantoms) + 1
        /\ Cardinality(Phantoms) \in Nat /\ Cardinality(Phantoms') \in Nat
    BY <1>2, LeakTypes, OneMore
  <2> QED BY <1>2, <2>1, LeakTypes DEF PhantomInv
<1> QED BY <1>1, <1>2 DEF PhantomStep

\* Who writes a cordon row: the operator, for a Connector with a container, and
\* the drain that drops it.
LEMMA CordonSteps ==
  ASSUME IInv, [Next]_vars
  PROVE  \/ UNCHANGED cordoned
         \/ /\ cordoned' \subseteq cordoned \cup containers
            /\ UNCHANGED <<external, drain, faults>>
         \/ \E c \in Cid : DrainRecord(c)
<1>1. CASE StartOverride
  BY <1>1 DEF StartOverride, ManualScaleUp, ManualScaleDown, ManualCordon, ManualReplace
<1>2. CASE JobStep
  BY <1>2 DEF JobStep, CreateConnector, CreateConnectorFails, StartContainer,
              StartContainerFails, RecordProvision, ScaleDownVictim, FinishScale,
              ProcessPending, DecideHealth, RestartOne, BeginReplace, EndCycle,
              FinishManualDown, durable
<1>3. CASE Environment \/ OverrideDiscoveryFails \/ GracefulRestart \/ Tick \/ BeginCycle
  BY <1>3 DEF Environment, RequestOverride, RequestStop, StoreError, Crash, RestartRowExpires,
              ContainerLost, OverrideDiscoveryFails, GracefulRestart, Tick, BeginCycle, durable
<1>4. CASE \E c \in Cid : DrainGraceOver(c) \/ DrainStep(c)
  BY <1>4 DEF DrainGraceOver, DrainStep, DrainStop, DrainStopFails, durable
<1>5. CASE UNCHANGED vars
  BY <1>5 DEF vars
<1> QED BY <1>1, <1>2, <1>3, <1>4, <1>5 DEF Next

LEMMA NextPhantoms ==
  ASSUME LifeInv, [Next]_vars PROVE PhantomStep
<1> USE DEF LifeInv, IInv
<1>1. CASE CreateConnector
  BY <1>1, CreateSteps DEF PhantomStep, Phantoms
<1>2. CASE StartContainer \/ StartContainerFails
  BY <1>2, StartSteps DEF PhantomStep, Phantoms
<1>3. CASE /\ cordoned' \subseteq cordoned \cup containers
           /\ UNCHANGED <<external, drain, faults>>
  BY <1>3 DEF PhantomStep, Phantoms, external
<1>4. CASE \E c \in Cid : DrainRecord(c)
  <2>1. PICK c \in Cid : DrainRecord(c)
    BY <1>4
  <2>2. UNCHANGED containers /\ drain' = [drain EXCEPT ![c] = "none"]
    BY <2>1 DEF DrainRecord, external
  <2>3. CASE Uncordon(c) /\ UNCHANGED faults
    BY <2>2, <2>3 DEF Uncordon, PhantomStep, Phantoms, TypeOK
  <2>4. CASE StoreFails /\ UNCHANGED cordoned
    <3>1. Phantoms' \subseteq Phantoms \cup {c}
      BY <2>2, <2>4 DEF Phantoms, TypeOK
    <3> QED BY <2>4, <3>1 DEF PhantomStep, StoreFails, Fault
  <2> QED BY <2>1, <2>3, <2>4 DEF DrainRecord
<1>5. CASE UNCHANGED cordoned /\ OtherStep
  <2>1. CASE UNCHANGED <<containers, drain>> /\ (faults' = faults \/ faults' = faults + 1)
    BY <1>5, <2>1 DEF PhantomStep, Phantoms
  <2>2. CASE \E c \in Cid : DeprovisionStarts(c) /\ UNCHANGED containers /\ Removing = {}
    BY <1>5, <2>2 DEF DeprovisionStarts, PhantomStep, Phantoms, Removing, TypeOK
  <2>3. CASE \E c \in Cid : DrainGraceOver(c) \/ DrainStop(c) \/ DrainStopFails(c)
    BY <1>5, <2>3 DEF DrainGraceOver, DrainStop, DrainStopFails, PlatformFails, Fault, external,
                      PhantomStep, Phantoms, TypeOK
  <2>4. CASE \E c \in Cid : DrainRecord(c)
    BY <1>4, <2>4
  <2>5. CASE \E c \in Cid : ContainerLost(c)
    <3>1. PICK c \in Cid : ContainerLost(c)
      BY <2>5
    <3>2. Phantoms' \subseteq Phantoms \cup {c} /\ faults' = faults + 1
      BY <1>5, <3>1 DEF ContainerLost, Fault, Phantoms
    <3> QED BY <3>2 DEF PhantomStep
  <2>6. CASE Crash
    <3>1. UNCHANGED containers /\ faults' = faults + 1
      BY <2>6 DEF Crash, Fault, external
    <3>2. CASE \E c \in Cid : drain[c] = "record"
      <4>1. PICK c \in Cid : drain[c] = "record"
        BY <3>2
      <4>2. \A d \in Cid : drain[d] = "record" => d = c
        BY <4>1 DEF ActionsSerialized
      <4>3. Phantoms' \subseteq Phantoms \cup {c}
        BY <1>5, <3>1, <4>2 DEF Phantoms, TypeOK
      <4> QED BY <3>1, <4>3 DEF PhantomStep
    <3>3. CASE ~ \E c \in Cid : drain[c] = "record"
      <4>1. Phantoms' \subseteq Phantoms
        BY <1>5, <3>1, <3>3 DEF Phantoms, TypeOK
      <4> QED BY <3>1, <4>1 DEF PhantomStep
    <3> QED BY <3>2, <3>3
  <2>7. CASE GracefulRestart
    BY <1>5, <2>7 DEF GracefulRestart, ForgetMemory, external, Draining, PhantomStep, Phantoms,
                      TypeOK
  <2> QED BY <1>5, <2>1, <2>2, <2>3, <2>4, <2>5, <2>6, <2>7 DEF OtherStep, DrainStep, external
<1> QED BY <1>1, <1>2, <1>3, <1>4, <1>5, StepKinds, CordonSteps

\* One failure, a crash included, leaves at most one cordon row behind whose
\* Connector is gone: under _action_lock only one drain at a time is between
\* the removal of its container and that of its cordon.
THEOREM PhantomsAreFaults == Spec => []PhantomsPerFault
<1>1. Init => PhantomInv
  <2> SUFFICES ASSUME Init PROVE PhantomInv
    OBVIOUS
  <2>1. Phantoms = {}
    BY DEF Init, Phantoms
  <2> QED BY <2>1, FS_EmptySet DEF Init, PhantomInv
<1>2. LifeInv /\ LifeInv' /\ PhantomInv /\ [Next]_vars => PhantomInv'
  BY NextPhantoms, PhantomStepKeepsInv DEF LifeInv, IInv
<1>3. LifeInv /\ PhantomInv => PhantomsPerFault
  <2> SUFFICES ASSUME TypeOK, PhantomInv PROVE PhantomsPerFault
    BY DEF LifeInv, IInv
  <2> DEFINE rows == cordoned \ (containers \cup Draining)
  <2>1. rows \subseteq Phantoms
    BY DEF Phantoms, Draining, TypeOK
  <2>2. /\ Cardinality(rows) <= Cardinality(Phantoms)
        /\ Cardinality(rows) \in Nat /\ Cardinality(Phantoms) \in Nat
    BY <2>1, LeakTypes, NoneMore
  <2>3. Cardinality(rows) <= faults
    BY <2>2, LeakTypes DEF PhantomInv
  <2> QED BY <2>3 DEF PhantomsPerFault
<1> QED BY <1>1, <1>2, <1>3, LifeInvariance, PTL DEF Spec
=============================================================================
