---------------------------- MODULE TeardownProofs ----------------------------
(***************************************************************************)
(* Proofs about Teardown: what holds of the manager alone holds of it next *)
(* to a teardown in another process, and the two never drain one           *)
(* Connector between them.                                                 *)
(***************************************************************************)
EXTENDS Teardown, LifecycleProofs

\* What a step of the teardown may change of what the manager sees: it deletes
\* Connectors, removes containers and cordon rows, and a call of it may fail.
TdEffect ==
  /\ logical' \subseteq logical
  /\ containers' \subseteq containers
  /\ cordoned' \subseteq cordoned
  /\ faults' = faults \/ (faults < MaxFaults /\ faults' = faults + 1)
  /\ UNCHANGED <<restarts, upLeft, downLeft, memory, drain, control>>

\* The teardown drains only what connectorDelete has removed, and works only
\* on what it has discovered.
TdInv ==
  /\ IInv
  /\ TdTypeOK
  /\ TdDraining \cap logical = {}
  /\ OneDrainer

-----------------------------------------------------------------------------
LEMMA TdInitInv == TdInit => TdInv
BY InitIInv DEF TdInit, TdInv, TdTypeOK, TdDraining, OneDrainer

LEMMA TdStepEffect ==
  ASSUME TdStep PROVE TdEffect
<1> USE DEF memory, control
<1>1. CASE TdDiscover \/ TdAwait \/ TdDone
  BY <1>1 DEF TdDiscover, TdAwait, TdDone, vars, TdEffect
<1>2. CASE TdDiscoverFails \/ TdStoreError
  BY <1>2 DEF TdDiscoverFails, TdStoreError, ApiFails, PlatformFails, StoreFails, Fault,
              external, durable, TdEffect
<1>3. ASSUME NEW c \in Cid, TdDelete(c) PROVE TdEffect
  <2>1. logical' \subseteq logical
    BY <1>3 DEF TdDelete, DeleteConnector
  <2>2. faults' = faults \/ (faults < MaxFaults /\ faults' = faults + 1)
    BY <1>3 DEF TdDelete, ApiFails, Fault
  <2>3. UNCHANGED <<containers, cordoned, restarts, upLeft, downLeft, memory, drain, control>>
    BY <1>3 DEF TdDelete, durable
  <2> QED BY <2>1, <2>2, <2>3 DEF TdEffect
<1>4. ASSUME NEW c \in Cid, TdStop(c) PROVE TdEffect
  <2>1. containers' \subseteq containers
    BY <1>4 DEF TdStop
  <2>2. faults' = faults \/ (faults < MaxFaults /\ faults' = faults + 1)
    BY <1>4 DEF TdStop, PlatformFails, Fault
  <2>3. UNCHANGED <<logical, cordoned, restarts, upLeft, downLeft, memory, drain, control>>
    BY <1>4 DEF TdStop, durable
  <2> QED BY <2>1, <2>2, <2>3 DEF TdEffect
<1>5. ASSUME NEW c \in Cid, TdRecord(c) PROVE TdEffect
  <2>1. cordoned' \subseteq cordoned
    BY <1>5 DEF TdRecord, Uncordon
  <2>2. faults' = faults \/ (faults < MaxFaults /\ faults' = faults + 1)
    BY <1>5 DEF TdRecord, StoreFails, Fault
  <2>3. UNCHANGED <<logical, containers, restarts, upLeft, downLeft, memory, drain, control>>
    BY <1>5 DEF TdRecord, external
  <2> QED BY <2>1, <2>2, <2>3 DEF TdEffect
<1> QED
  BY <1>1, <1>2, <1>3, <1>4, <1>5 DEF TdStep

\* The manager's own invariant stands whatever the teardown does beside it.
LEMMA TdEffectKeepsManager ==
  ASSUME IInv, TdEffect PROVE IInv'
<1>1. TypeOK'
  <2>1. /\ UNCHANGED <<restarts, upLeft, downLeft, seenFor, unhealthyFor, pendingNew,
                       pendingFor, drain, lock, job, override, stopping>>
        /\ logical' \subseteq Cid /\ containers' \subseteq Cid /\ cordoned' \subseteq Cid
    BY DEF IInv, TypeOK, TdEffect, memory, control
  <2>2. faults' \in 0 .. MaxFaults
    BY ModelAssumption DEF IInv, TypeOK, TdEffect
  <2> QED BY <2>1, <2>2 DEF IInv, TypeOK
<1>2. JobOK'
  BY DEF IInv, JobOK, TdEffect, control
<1>3. DrainingIsUnrouted'
  BY DEF IInv, DrainingIsUnrouted, Draining, TdEffect
<1>4. ActionsSerialized'
  BY DEF IInv, ActionsSerialized, TdEffect, control
<1> QED
  BY <1>1, <1>2, <1>3, <1>4 DEF IInv

LEMMA TdTypes ==
  ASSUME TdTypeOK, TypeOK, TdStep PROVE TdTypeOK'
<1> USE DEF TdTypeOK
<1>1. CASE TdDiscover
  BY <1>1 DEF TdDiscover, TypeOK
<1>2. CASE TdDiscoverFails \/ TdAwait \/ TdDone
  BY <1>2 DEF TdDiscoverFails, TdAwait, TdDone, tdVars
<1>3. CASE TdStoreError
  BY <1>3 DEF TdStoreError
<1>4. CASE \E c \in Cid : TdDelete(c)
  BY <1>4 DEF TdDelete
<1>5. CASE \E c \in Cid : TdStop(c) \/ TdRecord(c)
  BY <1>5 DEF TdStop, TdRecord
<1> QED
  BY <1>1, <1>2, <1>3, <1>4, <1>5 DEF TdStep

\* Only what connectorDelete has just removed joins the teardown's drains.
LEMMA TdDrainsStart ==
  ASSUME TdTypeOK, TdStep, NEW c \in TdDraining' \ TdDraining
  PROVE  c \in logical /\ c \notin logical'
<1> USE DEF TdTypeOK, TdDraining
<1>1. CASE \E d \in Cid : TdDelete(d)
  BY <1>1 DEF TdDelete, DeleteConnector
<1>2. CASE TdDiscover \/ TdDiscoverFails \/ TdStoreError \/ TdAwait \/ TdDone
  BY <1>2 DEF TdDiscover, TdDiscoverFails, TdStoreError, TdAwait, TdDone, tdVars
<1>3. CASE \E d \in Cid : TdStop(d) \/ TdRecord(d)
  BY <1>3 DEF TdStop, TdRecord
<1> QED
  BY <1>1, <1>2, <1>3 DEF TdStep

LEMMA ManagerStepInv ==
  ASSUME TdInv, Next, UNCHANGED <<tdStage, tdTodo, tdDrain, tdAlone>>,
         (logical' \ logical) \cap (tdTodo \cup TdDraining) = {},
         up' \in BOOLEAN, tdListed' = tdListed \ (logical' \ logical)
  PROVE  TdInv'
<1>1. IInv'
  BY NextTypes, NextUnrouted, NextSerialized DEF TdInv, IInv
<1>2. TdTypeOK'
  BY DEF TdInv, TdTypeOK
<1>3. TdDraining' = TdDraining
  BY DEF TdDraining
<1>4. TdDraining' \cap logical' = {}
  BY <1>3 DEF TdInv
<1>5. OneDrainer'
  <2> SUFFICES ASSUME NEW c \in Draining', c \in TdDraining PROVE FALSE
    BY <1>3 DEF OneDrainer
  <2>1. c \notin Draining /\ c \notin logical
    BY DEF TdInv, OneDrainer
  <2> QED BY <2>1, DrainsStartIn DEF TdInv
<1> QED
  BY <1>1, <1>2, <1>4, <1>5 DEF TdInv

LEMMA TdNextInv ==
  ASSUME TdInv, [TdNext]_allVars PROVE TdInv'
<1>1. CASE ManagerStep
  BY <1>1, ManagerStepInv DEF ManagerStep, TdInv, TdTypeOK
<1>2. CASE ManagerExits
  <2>1. logical' = logical /\ Next
    BY <1>2 DEF ManagerExits, GracefulRestart, external, Next, Environment
  <2> QED BY <1>2, <2>1, ManagerStepInv DEF ManagerExits, tdVars
<1>3. CASE ManagerStarts
  <2>1. UNCHANGED vars /\ UNCHANGED <<tdStage, tdTodo, tdDrain, tdListed>>
        /\ up' = TRUE /\ tdAlone' = FALSE
    BY <1>3 DEF ManagerStarts
  <2>2. IInv'
    BY <2>1, NextTypes, NextUnrouted, NextSerialized DEF TdInv, IInv
  <2> QED BY <2>1, <2>2 DEF TdInv, TdTypeOK, TdDraining, OneDrainer, Draining, vars
<1>4. CASE TdStep
  <2>1. IInv' /\ TdTypeOK'
    BY <1>4, TdStepEffect, TdEffectKeepsManager, TdTypes DEF TdInv, IInv
  <2>2. logical' \subseteq logical /\ Draining' = Draining
    BY <1>4, TdStepEffect DEF TdEffect, Draining
  <2>3. \A c \in TdDraining' : c \in TdDraining \/ (c \in logical /\ c \notin logical')
    <3> SUFFICES ASSUME NEW c \in TdDraining' \ TdDraining
                 PROVE  c \in logical /\ c \notin logical'
      OBVIOUS
    <3>1. TdTypeOK
      BY DEF TdInv
    <3> QED BY <1>4, <3>1, TdDrainsStart
  <2>4. \A c \in Draining : c \notin logical
    BY DEF TdInv, IInv, DrainingIsUnrouted
  <2>5. TdDraining' \cap logical' = {}
    BY <2>2, <2>3 DEF TdInv
  <2>6. OneDrainer'
    BY <2>2, <2>3, <2>4 DEF TdInv, OneDrainer
  <2> QED BY <2>1, <2>5, <2>6 DEF TdInv
<1>5. CASE UNCHANGED allVars
  <2>1. UNCHANGED vars /\ UNCHANGED <<up, tdStage, tdTodo, tdDrain, tdListed, tdAlone>>
    BY <1>5 DEF allVars, tdVars
  <2>2. IInv'
    BY <2>1, NextTypes, NextUnrouted, NextSerialized DEF TdInv, IInv
  <2> QED BY <2>1, <2>2 DEF TdInv, TdTypeOK, TdDraining, OneDrainer, Draining, vars
<1> QED
  BY <1>1, <1>2, <1>3, <1>4, <1>5 DEF TdNext

LEMMA TdInvariance == TdSpec => []TdInv
BY TdInitInv, TdNextInv, PTL DEF TdSpec

-----------------------------------------------------------------------------
\* The teardown's variables keep their types, and it never works on a
\* Connector that its discovery did not list.
THEOREM TeardownTypeCorrect == TdSpec => []TdTypeOK
<1>1. TdInv => TdTypeOK
  BY DEF TdInv
<1> QED
  BY <1>1, TdInvariance, PTL

\* Two processes without a common lock never drain the same Connector
\* (main.py _ateardown next to the manager): connectorDelete succeeds once.
THEOREM OneDrainerOnly == TdSpec => []OneDrainer
<1>1. TdInv => OneDrainer
  BY DEF TdInv
<1> QED
  BY <1>1, TdInvariance, PTL

\* The manager's own guarantees do not need it to be alone: with a teardown
\* beside it, what it drains is unrouted, and its lock still serializes its
\* own cycles, overrides and removals.
THEOREM ManagerUndisturbed == TdSpec => [](DrainingIsUnrouted /\ ActionsSerialized)
<1>1. TdInv => DrainingIsUnrouted /\ ActionsSerialized
  BY DEF TdInv, IInv
<1> QED
  BY <1>1, TdInvariance, PTL

-----------------------------------------------------------------------------
(***************************************************************************)
(* What failures leave behind when both processes run.                     *)
(***************************************************************************)

\* The id the manager is just giving a container is no business of the
\* teardown's, and what the teardown has stopped is gone.
Apart ==
  /\ job.step = "created" => job.fresh \notin tdTodo \cup TdDraining
  /\ \A c \in Cid : tdDrain[c] = "record" => c \notin containers

SharedInv == TdInv /\ LifeInv /\ Apart

LEMMA TdInitShared == TdInit => SharedInv
<1> SUFFICES ASSUME TdInit PROVE SharedInv
  OBVIOUS
<1>1. TdInv /\ LifeInv
  BY TdInitInv, InitLifeInv DEF TdInit
<1>2. job.step = "none" /\ \A c \in Cid : tdDrain[c] = "none"
  BY DEF TdInit, Init, IdleJob
<1> QED
  BY <1>1, <1>2 DEF SharedInv, Apart

LEMMA NextLifeInv ==
  ASSUME LifeInv, [Next]_vars PROVE LifeInv'
BY NextTypes, NextUnrouted, NextSerialized, NextProvisionOK, NextFreshOK, NextRecordedIsGone
   DEF LifeInv, IInv

\* A step of the manager, whoever takes part in it.
LEMMA ManagerStepApart ==
  ASSUME SharedInv, [Next]_vars, UNCHANGED <<tdTodo, tdDrain>>,
         (logical' \ logical) \cap (tdTodo \cup TdDraining) = {}
  PROVE  Apart'
<1> USE DEF SharedInv, LifeInv, IInv
<1>1. TdDraining' = TdDraining
  BY DEF TdDraining
<1>2. job'.step = "created" => job'.fresh \notin tdTodo \cup TdDraining
  <2>1. CASE UNCHANGED job
    BY <2>1 DEF Apart
  <2>2. CASE job'.step # "created"
    BY <2>2
  <2>3. CASE CreateConnector
    <3>1. job'.fresh \in logical' \ logical
      BY <2>3, CreateSteps DEF Unused
    <3> QED BY <3>1
  <2>4. CASE StartContainer \/ StartContainerFails
    BY <2>2, <2>4, StartSteps
  <2>5. CASE Crash
    BY <2>2, <2>5, IdleJobOK DEF Crash, ForgetMemory
  <2> QED BY <2>1, <2>2, <2>3, <2>4, <2>5, JobSteps DEF NotCreated
<1>3. ASSUME NEW c \in Cid, tdDrain[c] = "record" PROVE c \notin containers'
  <2>1. c \in TdDraining /\ c \notin containers
    BY <1>3 DEF Apart, TdDraining
  <2>2. CASE containers' \subseteq containers
    BY <2>1, <2>2
  <2>3. CASE StartContainer \/ StartContainerFails
    <3>1. /\ job.step = "created"
          /\ containers' = containers \/ containers' = containers \cup {job.fresh}
      BY <2>3, StartSteps
    <3> QED BY <2>1, <3>1 DEF Apart
  <2>4. CASE CreateConnector
    BY <2>2, <2>4, CreateSteps
  <2>5. CASE OtherStep
    <3>1. containers' \subseteq containers
      BY <2>5 DEF OtherStep, DrainGraceOver, DrainStep, DrainStop, DrainStopFails, DrainRecord,
                  ContainerLost, Crash, GracefulRestart, external
    <3> QED BY <2>2, <3>1
  <2> QED BY <2>3, <2>4, <2>5, StepKinds
<1> QED
  BY <1>1, <1>2, <1>3 DEF Apart

LEMMA TdStepApart ==
  ASSUME SharedInv, TdStep PROVE LifeInv' /\ Apart'
<1> USE DEF SharedInv, TdInv
<1>1. TdEffect /\ IInv' /\ job' = job /\ drain' = drain
  BY TdStepEffect, TdEffectKeepsManager DEF TdEffect, control
<1>2. \A c \in Cid : tdDrain'[c] = "record" => c \notin containers'
  <2>1. containers' \subseteq containers
    BY <1>1 DEF TdEffect
  <2>2. CASE \E c \in Cid : TdStop(c)
    BY <2>1, <2>2 DEF TdStop, Apart, TdTypeOK
  <2>3. CASE \E c \in Cid : TdDelete(c) \/ TdRecord(c)
    BY <2>1, <2>3 DEF TdDelete, TdRecord, Apart, TdTypeOK
  <2>4. CASE TdDiscover \/ TdDiscoverFails \/ TdAwait \/ TdDone
    BY <2>1, <2>4 DEF TdDiscover, TdDiscoverFails, TdAwait, TdDone, Apart, tdVars
  <2>5. CASE TdStoreError
    BY <2>5 DEF TdStoreError
  <2> QED BY <2>2, <2>3, <2>4, <2>5 DEF TdStep
<1>3. ASSUME job.step = "created"
      PROVE  job.fresh \notin tdTodo' \cup TdDraining' /\ job.fresh \in logical'
  <2>1. /\ job.fresh \in logical \ containers
        /\ job.fresh \notin tdTodo /\ job.fresh \notin TdDraining
    BY <1>3 DEF LifeInv, FreshOK, Apart
  <2>2. CASE \E c \in Cid : TdDelete(c)
    BY <2>1, <2>2 DEF TdDelete, DeleteConnector, TdDraining, TdTypeOK
  <2>3. CASE \E c \in Cid : TdStop(c) \/ TdRecord(c)
    BY <2>1, <2>3 DEF TdStop, TdRecord, TdDraining, TdTypeOK, external
  <2>4. CASE TdDiscover
    BY <2>1, <2>4 DEF TdDiscover, TdDraining, vars
  <2>5. CASE TdDiscoverFails \/ TdAwait \/ TdDone \/ TdStoreError
    BY <2>1, <2>5 DEF TdDiscoverFails, TdAwait, TdDone, TdStoreError, TdDraining, tdVars, vars,
                      external
  <2> QED BY <2>2, <2>3, <2>4, <2>5 DEF TdStep
<1>4. LifeInv'
  <2>1. ProvisionOK'
    BY <1>1 DEF LifeInv, ProvisionOK
  <2>2. FreshOK'
    BY <1>1, <1>3 DEF LifeInv, FreshOK, TdEffect, Draining
  <2>3. RecordedIsGone'
    BY <1>1 DEF LifeInv, RecordedIsGone, TdEffect
  <2> QED BY <1>1, <2>1, <2>2, <2>3 DEF LifeInv
<1> QED
  BY <1>1, <1>2, <1>3, <1>4 DEF Apart

LEMMA TdNextShared ==
  ASSUME SharedInv, [TdNext]_allVars PROVE SharedInv'
<1>1. TdInv'
  BY TdNextInv DEF SharedInv
<1>2. CASE TdStep
  BY <1>1, <1>2, TdStepApart DEF SharedInv
<1>3. ASSUME [Next]_vars, UNCHANGED <<tdTodo, tdDrain>>,
             (logical' \ logical) \cap (tdTodo \cup TdDraining) = {}
      PROVE  SharedInv'
  BY <1>1, <1>3, NextLifeInv, ManagerStepApart DEF SharedInv
<1>4. CASE ManagerStep
  BY <1>3, <1>4 DEF ManagerStep
<1>5. CASE ManagerExits
  BY <1>3, <1>5 DEF ManagerExits, GracefulRestart, external, tdVars, Next, Environment
<1>6. CASE ManagerStarts \/ UNCHANGED allVars
  <2>1. UNCHANGED vars /\ UNCHANGED <<tdTodo, tdDrain>>
    BY <1>6 DEF ManagerStarts, allVars, tdVars
  <2>2. logical' = logical
    BY <2>1 DEF vars
  <2> QED BY <1>3, <2>1, <2>2
<1> QED
  BY <1>2, <1>4, <1>5, <1>6 DEF TdNext

-----------------------------------------------------------------------------
\* What neither process will stop.
Neither == Unstopped \ TdDraining

SharedLeakInv ==
  tdStage # "abandoned" => Cardinality(Unmade) + Cardinality(Neither) <= faults

\* A failure adds one Connector to one of the two sets; nothing else does.
SharedLeakStep ==
  \/ /\ Unmade' \subseteq Unmade /\ Neither' \subseteq Neither
     /\ faults' = faults \/ faults' = faults + 1
  \/ /\ faults' = faults + 1
     /\ \E x \in Cid :
          \/ Unmade' \subseteq Unmade \cup {x} /\ Neither' \subseteq Neither
          \/ Unmade' \subseteq Unmade /\ Neither' \subseteq Neither \cup {x}

LEMMA SharedLeakTypes ==
  ASSUME TypeOK
  PROVE  Unmade \in SUBSET Cid /\ Neither \in SUBSET Cid /\ faults \in Nat
BY LeakTypes DEF Neither

LEMMA SharedLeakStepKeepsInv ==
  ASSUME TypeOK, SharedLeakStep, Cardinality(Unmade) + Cardinality(Neither) <= faults
  PROVE  Cardinality(Unmade') + Cardinality(Neither') <= faults'
<1>1. Unmade \in SUBSET Cid /\ Neither \in SUBSET Cid /\ faults \in Nat
  BY SharedLeakTypes
<1>2. CASE /\ Unmade' \subseteq Unmade /\ Neither' \subseteq Neither
           /\ faults' = faults \/ faults' = faults + 1
  <2>1. /\ Cardinality(Unmade') <= Cardinality(Unmade)
        /\ Cardinality(Unmade) \in Nat /\ Cardinality(Unmade') \in Nat
    BY <1>1, <1>2, NoneMore
  <2>2. /\ Cardinality(Neither') <= Cardinality(Neither)
        /\ Cardinality(Neither) \in Nat /\ Cardinality(Neither') \in Nat
    BY <1>1, <1>2, NoneMore
  <2> QED BY <1>1, <1>2, <2>1, <2>2
<1>3. ASSUME NEW x \in Cid, faults' = faults + 1,
             Unmade' \subseteq Unmade \cup {x}, Neither' \subseteq Neither
      PROVE  Cardinality(Unmade') + Cardinality(Neither') <= faults'
  <2>1. /\ Cardinality(Unmade') <= Cardinality(Unmade) + 1
        /\ Cardinality(Unmade) \in Nat /\ Cardinality(Unmade') \in Nat
    BY <1>1, <1>3, OneMore
  <2>2. /\ Cardinality(Neither') <= Cardinality(Neither)
        /\ Cardinality(Neither) \in Nat /\ Cardinality(Neither') \in Nat
    BY <1>1, <1>3, NoneMore
  <2> QED BY <1>1, <1>3, <2>1, <2>2
<1>4. ASSUME NEW x \in Cid, faults' = faults + 1,
             Unmade' \subseteq Unmade, Neither' \subseteq Neither \cup {x}
      PROVE  Cardinality(Unmade') + Cardinality(Neither') <= faults'
  <2>1. /\ Cardinality(Neither') <= Cardinality(Neither) + 1
        /\ Cardinality(Neither) \in Nat /\ Cardinality(Neither') \in Nat
    BY <1>1, <1>4, OneMore
  <2>2. /\ Cardinality(Unmade') <= Cardinality(Unmade)
        /\ Cardinality(Unmade) \in Nat /\ Cardinality(Unmade') \in Nat
    BY <1>1, <1>4, NoneMore
  <2> QED BY <1>1, <1>4, <2>1, <2>2
<1> QED BY <1>2, <1>3, <1>4 DEF SharedLeakStep

\* The manager strands no more beside a teardown than it does alone.
LEMMA ManagerLeaks ==
  ASSUME LifeInv, [Next]_vars, "crash" \notin FaultKinds, UNCHANGED tdDrain
  PROVE  SharedLeakStep
<1>1. ~Crash
  BY DEF Crash, Fault
<1>2. LeakStep
  BY <1>1, StepKinds, CreateLeaks, StartLeaks, OtherLeaks
<1>3. TdDraining' = TdDraining
  BY DEF TdDraining
<1> QED
  BY <1>2, <1>3 DEF LeakStep, NoLeak, LeaksUnmade, LeaksUnstopped, SharedLeakStep, Neither

\* A step of the teardown that does not abandon its drains.
LEMMA TdLeaks ==
  ASSUME SharedInv, TdStep, tdStage' # "abandoned" PROVE SharedLeakStep
<1> USE DEF SharedInv, TdInv
<1>1. TdEffect /\ job' = job /\ Draining' = Draining
  BY TdStepEffect DEF TdEffect, control, Draining
<1>2. ASSUME logical' \ containers' \subseteq logical \ containers
      PROVE  Unmade' \subseteq Unmade
  BY <1>1, <1>2 DEF Unmade
<1>3. faults' = faults \/ faults' = faults + 1
  BY <1>1 DEF TdEffect
<1>4. ASSUME NEW c \in Cid, TdDelete(c) PROVE SharedLeakStep
  <2>1. Unmade' \subseteq Unmade
    BY <1>2, <1>4 DEF TdDelete, DeleteConnector
  <2>2. CASE logical' = logical \ {c} /\ TdDraining' = TdDraining \cup {c}
    <3>1. Neither' \subseteq Neither
      BY <1>1, <1>4, <2>2 DEF TdDelete, Neither, Unstopped
    <3> QED BY <1>3, <2>1, <3>1 DEF SharedLeakStep
  <2>3. CASE logical' = logical /\ TdDraining' = TdDraining
    <3>1. Neither' \subseteq Neither
      BY <1>1, <1>4, <2>3 DEF TdDelete, Neither, Unstopped
    <3> QED BY <1>3, <2>1, <3>1 DEF SharedLeakStep
  <2>4. CASE logical' = logical \ {c} /\ TdDraining' = TdDraining /\ faults' = faults + 1
    <3>1. Neither' \subseteq Neither \cup {c}
      BY <1>1, <1>4, <2>4 DEF TdDelete, Neither, Unstopped
    <3> QED BY <2>1, <2>4, <3>1 DEF SharedLeakStep
  <2>5. \/ tdDrain' = [tdDrain EXCEPT ![c] = "grace"] /\ logical' = logical \ {c}
        \/ tdDrain' = tdDrain /\ logical' = logical
        \/ tdDrain' = tdDrain /\ logical' = logical \ {c} /\ faults' = faults + 1
    BY <1>4 DEF TdDelete, DeleteConnector, ApiFails, Fault
  <2>6. tdDrain' = [tdDrain EXCEPT ![c] = "grace"] => TdDraining' = TdDraining \cup {c}
    BY DEF TdDraining, TdTypeOK
  <2>7. tdDrain' = tdDrain => TdDraining' = TdDraining
    BY DEF TdDraining
  <2> QED BY <2>2, <2>3, <2>4, <2>5, <2>6, <2>7
<1>5. ASSUME NEW c \in Cid, TdStop(c) PROVE SharedLeakStep
  <2>1. c \in TdDraining /\ c \notin logical /\ logical' = logical
    BY <1>5 DEF TdStop, TdDraining
  <2>2. Unmade' \subseteq Unmade
    BY <1>2, <1>5, <2>1 DEF TdStop
  <2>3. CASE containers' = containers \ {c} /\ tdDrain' = [tdDrain EXCEPT ![c] = "record"]
    <3>1. TdDraining' = TdDraining
      BY <2>1, <2>3 DEF TdDraining, TdTypeOK
    <3>2. Neither' \subseteq Neither
      BY <1>1, <2>1, <2>3, <3>1 DEF Neither, Unstopped
    <3> QED BY <1>3, <2>2, <3>2 DEF SharedLeakStep
  <2>4. CASE /\ c \notin containers \/ faults' = faults + 1
             /\ tdDrain' = [tdDrain EXCEPT ![c] = "none"] /\ containers' = containers
    <3>1. TdDraining' = TdDraining \ {c}
      BY <2>4 DEF TdDraining, TdTypeOK
    <3>2. Neither' \subseteq Neither \cup {c}
      BY <1>1, <2>1, <2>4, <3>1 DEF Neither, Unstopped
    <3>3. c \notin containers => Neither' \subseteq Neither
      BY <2>4, <3>2 DEF Neither, Unstopped
    <3> QED BY <1>3, <2>2, <2>4, <3>2, <3>3 DEF SharedLeakStep
  <2> QED BY <1>5, <2>3, <2>4 DEF TdStop, PlatformFails, Fault
<1>6. ASSUME NEW c \in Cid, TdRecord(c) PROVE SharedLeakStep
  <2>1. /\ UNCHANGED external /\ tdDrain' = [tdDrain EXCEPT ![c] = "none"]
        /\ c \notin containers
    BY <1>6 DEF TdRecord, Apart
  <2>2. TdDraining' = TdDraining \ {c}
    BY <2>1 DEF TdDraining, TdTypeOK
  <2>3. Unmade' \subseteq Unmade /\ Neither' \subseteq Neither
    BY <1>1, <1>2, <2>1, <2>2 DEF Neither, Unstopped, external
  <2> QED BY <1>3, <2>3 DEF SharedLeakStep
<1>7. CASE TdDiscover \/ TdDiscoverFails \/ TdAwait \/ TdDone
  <2>1. UNCHANGED <<logical, containers, tdDrain>>
    BY <1>7 DEF TdDiscover, TdDiscoverFails, TdAwait, TdDone, tdVars, vars, external
  <2>2. Unmade' \subseteq Unmade /\ Neither' \subseteq Neither
    BY <1>1, <1>2, <2>1 DEF Neither, Unstopped, TdDraining
  <2> QED BY <1>3, <2>2 DEF SharedLeakStep
<1>8. ~TdStoreError
  BY DEF TdStoreError
<1> QED
  BY <1>4, <1>5, <1>6, <1>7, <1>8 DEF TdStep

\* Deleting, draining and provisioning side by side, the two processes strand
\* no more than one Connector for each call that failed, as the manager alone
\* does (LeaksAreFaults): what one leaves undrained, the other is draining.  A
\* crash of the manager and a teardown that gave up are excluded, for both may
\* strand every drain in progress.
THEOREM SharedLeaksAreFaults ==
  ASSUME "crash" \notin FaultKinds PROVE TdSpec => []SharedLeaksPerFault
<1>1. TdInit => SharedLeakInv
  <2> SUFFICES ASSUME TdInit PROVE SharedLeakInv
    OBVIOUS
  <2>1. Unmade = {} /\ Neither = {} /\ faults = 0
    BY DEF TdInit, Init, Unmade, Unstopped, Neither
  <2> QED BY <2>1, FS_EmptySet DEF SharedLeakInv
<1>2. SharedInv /\ SharedInv' /\ SharedLeakInv /\ [TdNext]_allVars => SharedLeakInv'
  <2> SUFFICES ASSUME SharedInv, SharedInv', SharedLeakInv, [TdNext]_allVars,
                      tdStage' # "abandoned"
               PROVE  Cardinality(Unmade') + Cardinality(Neither') <= faults'
    BY DEF SharedLeakInv
  <2>1. TypeOK /\ TypeOK' /\ LifeInv
    BY DEF SharedInv, LifeInv, IInv
  <2>2. SharedLeakStep /\ tdStage # "abandoned"
    <3>1. CASE TdStep
      <4>1. tdStage # "abandoned"
        BY <3>1 DEF TdStep, TdDiscover, TdDiscoverFails, TdDelete, TdStop, TdRecord, TdAwait,
                    TdDone, TdStoreError, tdVars, SharedInv
      <4> QED BY <3>1, <4>1, TdLeaks
    <3>2. CASE [Next]_vars /\ UNCHANGED <<tdStage, tdDrain>>
      BY <2>1, <3>2, ManagerLeaks
    <3>3. CASE ManagerStep \/ ManagerExits
      BY <3>2, <3>3 DEF ManagerStep, ManagerExits, tdVars, Next, Environment
    <3>4. CASE ManagerStarts \/ UNCHANGED allVars
      BY <3>2, <3>4 DEF ManagerStarts, allVars, tdVars
    <3> QED BY <3>1, <3>3, <3>4 DEF TdNext
  <2> QED BY <2>1, <2>2, SharedLeakStepKeepsInv DEF SharedLeakInv
<1>3. SharedInv /\ SharedLeakInv => SharedLeaksPerFault
  <2> SUFFICES ASSUME TypeOK, SharedLeakInv, tdStage # "abandoned"
               PROVE  Cardinality((logical \ containers) \ {job.fresh})
                        + Cardinality((containers \ logical) \ (Draining \cup TdDraining))
                        <= faults
    BY DEF SharedInv, LifeInv, IInv, SharedLeaksPerFault
  <2> DEFINE unmade == (logical \ containers) \ {job.fresh}
  <2>1. unmade \subseteq Unmade
    BY DEF Unmade
  <2>2. /\ Cardinality(unmade) <= Cardinality(Unmade)
        /\ Cardinality(unmade) \in Nat /\ Cardinality(Unmade) \in Nat
    BY <2>1, LeakTypes, NoneMore
  <2>3. Cardinality(Neither) \in Nat /\ faults \in Nat
    BY SharedLeakTypes, NoneMore
  <2>4. Cardinality(unmade) + Cardinality(Neither) <= faults
    BY <2>2, <2>3 DEF SharedLeakInv
  <2>5. Neither = (containers \ logical) \ (Draining \cup TdDraining)
    BY DEF Neither, Unstopped
  <2> QED BY <2>4, <2>5
<1> QED
  BY <1>1, <1>2, <1>3, TdInitShared, TdNextShared, PTL DEF TdSpec

-----------------------------------------------------------------------------
(***************************************************************************)
(* The life of a Connector when both processes act on it.                  *)
(***************************************************************************)
LEMMA TdStepRefines ==
  ASSUME SharedInv, TdStep PROVE [Lifecycle!Next]_(Lifecycle!vars)
<1> USE DEF SharedInv, TdInv, IInv
<1>1. faults' = faults \/ faults' = faults + 1
  BY TdStepEffect DEF TdEffect
<1>2. ASSUME NEW c \in Cid, TdDelete(c) PROVE [Lifecycle!Next]_(Lifecycle!vars)
  <2>1. CASE c \in logical /\ logical' = logical \ {c}
    BY <1>1, <1>2, <2>1, Unroutes, RegularMove DEF TdDelete
  <2>2. CASE logical' = logical
    BY <1>1, <1>2, <2>2, SamePhases DEF TdDelete, external
  <2> QED BY <1>2, <2>1, <2>2 DEF TdDelete, DeleteConnector
<1>3. ASSUME NEW c \in Cid, TdStop(c) PROVE [Lifecycle!Next]_(Lifecycle!vars)
  <2>1. c \notin logical /\ logical' = logical
    BY <1>3 DEF TdStop, TdDraining
  <2>2. CASE c \in containers /\ containers' = containers \ {c}
    <3>1. Lifecycle!OnPath(c)
      BY <2>1, <2>2, OnePhase DEF PhaseOf, Lifecycle!OnPath
    <3> QED BY <1>1, <3>1, RegularMove
  <2>3. CASE containers' = containers
    BY <1>1, <2>1, <2>3, SamePhases DEF external
  <2> QED BY <1>3, <2>2, <2>3 DEF TdStop
<1>4. CASE \/ TdDiscover \/ TdDiscoverFails \/ TdStoreError \/ TdAwait \/ TdDone
           \/ \E c \in Cid : TdRecord(c)
  <2>1. UNCHANGED external
    BY <1>4 DEF TdDiscover, TdDiscoverFails, TdStoreError, TdAwait, TdDone, TdRecord, vars,
                external
  <2> QED BY <1>1, <2>1, SamePhases
<1> QED BY <1>2, <1>3, <1>4 DEF TdStep

\* The two processes together keep every Connector on the path of
\* ConnectorLifecycle: whichever of them makes, deletes or stops it, it is made,
\* served, unrouted and stopped in this order, but for the steps that fail.
THEOREM SharedLifecycle == TdSpec => LifecycleKept
<1>1. TdInit => Lifecycle!Init
  BY DEF TdInit, Init, PhaseOf, Lifecycle!Init
<1>2. SharedInv /\ [TdNext]_allVars => [Lifecycle!Next]_(Lifecycle!vars)
  <2> SUFFICES ASSUME SharedInv, [TdNext]_allVars PROVE [Lifecycle!Next]_(Lifecycle!vars)
    OBVIOUS
  <2>1. CASE [Next]_vars
    BY <2>1, StepRefines DEF SharedInv
  <2>2. CASE ManagerStep \/ ManagerExits
    BY <2>1, <2>2 DEF ManagerStep, ManagerExits, Next, Environment
  <2>3. CASE ManagerStarts \/ UNCHANGED allVars
    BY <2>1, <2>3 DEF ManagerStarts, allVars
  <2> QED BY <2>2, <2>3, TdStepRefines DEF TdNext
<1> QED
  BY <1>1, <1>2, TdInitShared, TdNextShared, PTL DEF TdSpec, LifecycleKept, Lifecycle!Spec

-----------------------------------------------------------------------------
(***************************************************************************)
(* What a teardown that returned leaves of the fleet it found.             *)
(***************************************************************************)

\* What connectorDelete was called for in vain.
Passed == (tdListed \cap containers \cap logical) \ tdTodo

\* Every Connector that nobody will complete, stop, or delete in this teardown.
Astray == Unmade \cup Neither \cup Passed

AstrayInv == tdStage # "abandoned" => Cardinality(Astray) <= faults

\* What each stage of the teardown has dealt with; a manager that is down does
\* nothing, and one that is up provisions none of the Connectors listed.
TdPhases ==
  /\ tdStage = "idle" => tdListed = {} /\ tdTodo = {}
  /\ tdStage \in {"drain", "done"} => tdTodo = {}
  /\ tdStage \in {"idle", "done"} => TdDraining = {}
  /\ job.step = "created" => job.fresh \notin tdListed
  /\ ~up => Draining = {} /\ job.step = "none"
  /\ tdAlone => ~up /\ containers \subseteq tdListed

LEMMA TdInitPhases == TdInit => TdPhases
BY DEF TdInit, Init, IdleJob, TdPhases, TdDraining

LEMMA ManagerKeepsPhases ==
  ASSUME SharedInv, TdPhases, up, [Next]_vars, up' = up,
         tdListed' = tdListed \ (logical' \ logical),
         UNCHANGED <<tdStage, tdTodo, tdDrain, tdAlone>>
  PROVE  TdPhases'
<1> USE DEF SharedInv, LifeInv, IInv
<1>1. TdDraining' = TdDraining
  BY DEF TdDraining
<1>2. job'.step = "created" => job'.fresh \notin tdListed'
  <2>1. CASE UNCHANGED job
    BY <2>1 DEF TdPhases
  <2>2. CASE job'.step # "created"
    BY <2>2
  <2>3. CASE CreateConnector
    <3>1. job'.fresh \in logical' \ logical
      BY <2>3, CreateSteps DEF Unused
    <3> QED BY <3>1
  <2>4. CASE StartContainer \/ StartContainerFails
    BY <2>2, <2>4, StartSteps
  <2>5. CASE Crash
    BY <2>2, <2>5, IdleJobOK DEF Crash, ForgetMemory
  <2> QED BY <2>1, <2>2, <2>3, <2>4, <2>5, JobSteps DEF NotCreated
<1> QED BY <1>1, <1>2 DEF TdPhases

LEMMA TdKeepsPhases ==
  ASSUME SharedInv, TdPhases, TdStep PROVE TdPhases'
<1> USE DEF SharedInv, TdInv, TdTypeOK
<1>1. /\ job' = job /\ Draining' = Draining /\ containers' \subseteq containers
  BY TdStepEffect DEF TdEffect, control, Draining
<1>2. CASE TdDiscover
  BY <1>1, <1>2 DEF TdDiscover, TdPhases, TdDraining, LifeInv, FreshOK
<1>3. CASE \E c \in Cid : TdDelete(c)
  BY <1>1, <1>3 DEF TdDelete, TdPhases
<1>4. CASE \E c \in Cid : TdStop(c)
  BY <1>1, <1>4 DEF TdStop, TdPhases
<1>5. CASE \E c \in Cid : TdRecord(c)
  <2>1. tdStage \notin {"idle", "done"}
    BY <1>5 DEF TdRecord, TdPhases, TdDraining
  <2> QED BY <1>1, <1>5, <2>1 DEF TdRecord, TdPhases
<1>6. CASE TdDiscoverFails \/ TdStoreError \/ TdAwait \/ TdDone
  BY <1>1, <1>6 DEF TdDiscoverFails, TdStoreError, TdAwait, TdDone, TdPhases, TdDraining, tdVars
<1> QED BY <1>2, <1>3, <1>4, <1>5, <1>6 DEF TdStep

LEMMA TdNextPhases ==
  ASSUME SharedInv, TdPhases, [TdNext]_allVars PROVE TdPhases'
<1>1. CASE ManagerStep
  BY <1>1, ManagerKeepsPhases DEF ManagerStep
<1>2. CASE ManagerExits
  <2>1. job'.step = "none" /\ Draining' = {} /\ up /\ up' = FALSE /\ UNCHANGED tdVars
    BY <1>2, IdleJobOK DEF ManagerExits, GracefulRestart, ForgetMemory, Draining
  <2> QED BY <2>1 DEF TdPhases, tdVars, TdDraining
<1>3. CASE ManagerStarts
  BY <1>3 DEF ManagerStarts, TdPhases, vars, TdDraining, Draining
<1>4. CASE UNCHANGED allVars
  BY <1>4 DEF allVars, vars, tdVars, TdPhases, TdDraining, Draining
<1> QED BY <1>1, <1>2, <1>3, <1>4, TdKeepsPhases DEF TdNext

\* A failure adds at most one Connector to those astray; nothing else does.
AstrayStep ==
  \/ Astray' \subseteq Astray /\ (faults' = faults \/ faults' = faults + 1)
  \/ faults' = faults + 1 /\ \E x \in Cid : Astray' \subseteq Astray \cup {x}

LEMMA AstrayType == ASSUME TypeOK PROVE Astray \in SUBSET Cid /\ faults \in Nat
BY SharedLeakTypes DEF Astray, Passed, TypeOK

LEMMA AstrayStepKeepsInv ==
  ASSUME TypeOK, AstrayStep, Cardinality(Astray) <= faults
  PROVE  Cardinality(Astray') <= faults'
<1>1. Astray \in SUBSET Cid /\ faults \in Nat
  BY AstrayType
<1>2. CASE Astray' \subseteq Astray /\ (faults' = faults \/ faults' = faults + 1)
  <2>1. /\ Cardinality(Astray') <= Cardinality(Astray)
        /\ Cardinality(Astray) \in Nat /\ Cardinality(Astray') \in Nat
    BY <1>1, <1>2, NoneMore
  <2> QED BY <1>1, <1>2, <2>1
<1>3. ASSUME NEW x \in Cid, faults' = faults + 1, Astray' \subseteq Astray \cup {x}
      PROVE  Cardinality(Astray') <= faults'
  <2>1. /\ Cardinality(Astray') <= Cardinality(Astray) + 1
        /\ Cardinality(Astray) \in Nat /\ Cardinality(Astray') \in Nat
    BY <1>1, <1>3, OneMore
  <2> QED BY <1>1, <1>3, <2>1
<1> QED BY <1>2, <1>3 DEF AstrayStep

LEMMA SharedLeaksStray ==
  ASSUME SharedLeakStep, Passed' \subseteq Passed PROVE AstrayStep
BY DEF SharedLeakStep, AstrayStep, Astray

\* The manager puts back nothing that the teardown has listed.
LEMMA ManagerPasses ==
  ASSUME SharedInv, TdPhases, [Next]_vars, tdListed' = tdListed \ (logical' \ logical),
         UNCHANGED tdTodo
  PROVE  Passed' \subseteq Passed
<1> USE DEF SharedInv
<1>1. containers' \ containers \subseteq {c \in {job.fresh} : job.step = "created"}
  <2>1. CASE CreateConnector
    BY <2>1, CreateSteps
  <2>2. CASE StartContainer \/ StartContainerFails
    BY <2>2, StartSteps
  <2>3. CASE OtherStep
    BY <2>3 DEF OtherStep, DrainGraceOver, DrainStep, DrainStop, DrainStopFails, DrainRecord,
                ContainerLost, Crash, GracefulRestart, external
  <2> QED BY <2>1, <2>2, <2>3, StepKinds
<1> QED BY <1>1 DEF Passed, TdPhases

LEMMA TdStrays ==
  ASSUME SharedInv, TdPhases, TdStep, tdStage' # "abandoned" PROVE AstrayStep
<1> USE DEF SharedInv, TdInv
<1>1. TdEffect /\ job' = job /\ Draining' = Draining
  BY TdStepEffect DEF TdEffect, control, Draining
<1>2. SharedLeakStep
  BY TdLeaks
<1>3. ASSUME NEW c \in Cid, TdDelete(c) PROVE AstrayStep
  <2>1. CASE c \notin logical'
    <3>1. Passed' \subseteq Passed
      BY <1>1, <1>3, <2>1 DEF TdDelete, Passed, TdEffect
    <3> QED BY <1>2, <3>1, SharedLeaksStray
  <2>2. CASE c \in logical'
    <3>1. UNCHANGED <<logical, containers, tdDrain, tdListed>> /\ faults' = faults + 1
          /\ tdTodo' = tdTodo \ {c}
      BY <1>3, <2>2 DEF TdDelete, DeleteConnector, ApiFails, Fault
    <3>2. Unmade' = Unmade /\ Neither' = Neither /\ Passed' \subseteq Passed \cup {c}
      BY <1>1, <3>1 DEF Unmade, Neither, Unstopped, TdDraining, Passed
    <3> QED BY <3>1, <3>2 DEF AstrayStep, Astray
  <2> QED BY <2>1, <2>2
<1>4. CASE TdDiscover
  <2>1. Passed' = {}
    BY <1>4 DEF TdDiscover, Passed, vars
  <2> QED BY <1>2, <2>1, SharedLeaksStray
<1>5. CASE \/ TdDiscoverFails \/ TdAwait \/ TdDone
           \/ \E c \in Cid : TdStop(c) \/ TdRecord(c)
  <2>1. UNCHANGED <<tdListed, tdTodo>>
    BY <1>5 DEF TdDiscoverFails, TdAwait, TdDone, TdStop, TdRecord, tdVars
  <2>2. Passed' \subseteq Passed
    BY <1>1, <2>1 DEF Passed, TdEffect
  <2> QED BY <1>2, <2>2, SharedLeaksStray
<1>6. ~TdStoreError
  BY DEF TdStoreError
<1> QED BY <1>3, <1>4, <1>5, <1>6 DEF TdStep

LEMMA TdNextAstray ==
  ASSUME SharedInv, TdPhases, AstrayInv, [TdNext]_allVars, "crash" \notin FaultKinds
  PROVE  AstrayInv'
<1> SUFFICES ASSUME tdStage' # "abandoned" PROVE Cardinality(Astray') <= faults'
  BY DEF AstrayInv
<1> USE DEF SharedInv
<1>1. CASE TdStep
  <2>1. tdStage # "abandoned"
    BY <1>1 DEF TdStep, TdDiscover, TdDiscoverFails, TdDelete, TdStop, TdRecord, TdAwait,
                TdDone, TdStoreError, tdVars
  <2> QED BY <1>1, <2>1, TdStrays, AstrayStepKeepsInv DEF AstrayInv, LifeInv, IInv
<1>2. CASE [Next]_vars /\ UNCHANGED <<tdStage, tdTodo, tdDrain>>
           /\ tdListed' = tdListed \ (logical' \ logical)
  <2>1. AstrayStep
    BY <1>2, ManagerLeaks, ManagerPasses, SharedLeaksStray
  <2> QED BY <1>2, <2>1, AstrayStepKeepsInv DEF AstrayInv, LifeInv, IInv
<1>3. CASE ManagerStep
  BY <1>2, <1>3 DEF ManagerStep
<1>4. CASE ManagerExits
  BY <1>2, <1>4 DEF ManagerExits, GracefulRestart, external, tdVars, Next, Environment
<1>5. CASE ManagerStarts \/ UNCHANGED allVars
  BY <1>2, <1>5 DEF ManagerStarts, allVars, vars, tdVars
<1> QED BY <1>1, <1>3, <1>4, <1>5 DEF TdNext

LEMMA AstrayInvariance ==
  ASSUME "crash" \notin FaultKinds PROVE TdSpec => [](SharedInv /\ TdPhases /\ AstrayInv)
<1>1. TdInit => AstrayInv
  <2> SUFFICES ASSUME TdInit PROVE AstrayInv
    OBVIOUS
  <2>1. Astray = {} /\ faults = 0
    BY DEF TdInit, Init, Astray, Unmade, Unstopped, Neither, Passed
  <2> QED BY <2>1, FS_EmptySet DEF AstrayInv
<1>2. SharedInv /\ TdPhases /\ AstrayInv /\ [TdNext]_allVars
        => (SharedInv /\ TdPhases /\ AstrayInv)'
  BY TdNextShared, TdNextPhases, TdNextAstray
<1> QED BY <1>1, <1>2, TdInitShared, TdInitPhases, PTL DEF TdSpec

\* When the teardown returns, what is left of the fleet it found is being drained
\* by the manager, or a call has failed for it: one Connector for one failure,
\* for any number of failures and whatever the manager does meanwhile, unless
\* the manager crashes (which strands the drains it had begun).
THEOREM ListedGone ==
  ASSUME "crash" \notin FaultKinds PROVE TdSpec => []ListedAreGone
<1>1. SharedInv /\ TdPhases /\ AstrayInv => ListedAreGone
  <2> SUFFICES ASSUME TypeOK, TdPhases, AstrayInv, tdStage = "done"
               PROVE  Cardinality((tdListed \cap containers) \ Draining) <= faults
    BY DEF SharedInv, LifeInv, IInv, ListedAreGone
  <2> DEFINE Left == (tdListed \cap containers) \ Draining
  <2>1. Left \in SUBSET Astray
    BY DEF TdPhases, Astray, Neither, Unstopped, Passed
  <2>2. /\ Cardinality(Left) <= Cardinality(Astray)
        /\ Cardinality(Left) \in Nat /\ Cardinality(Astray) \in Nat
    BY <2>1, AstrayType, NoneMore
  <2> QED BY <2>2, AstrayType DEF AstrayInv
<1> QED BY <1>1, AstrayInvariance, PTL

\* A teardown during which the manager stays down empties the platform and the
\* tenant ("no orphan containers on the host and no orphan logical Connectors in
\* the tenant", loop.py:222) but for one orphan for each call that ever failed,
\* the manager's own included.
THEOREM EmptiesFleet ==
  ASSUME "crash" \notin FaultKinds PROVE TdSpec => []TeardownEmptiesFleet
<1>1. SharedInv /\ TdPhases /\ AstrayInv => TeardownEmptiesFleet
  <2> SUFFICES ASSUME TypeOK, TdPhases, AstrayInv, tdStage = "done", tdAlone
               PROVE  Cardinality(containers \cup logical) <= faults
    BY DEF SharedInv, LifeInv, IInv, TeardownEmptiesFleet
  <2>1. containers \cup logical \in SUBSET Astray
    BY DEF TdPhases, Astray, Unmade, Neither, Unstopped, Passed
  <2>2. /\ Cardinality(containers \cup logical) <= Cardinality(Astray)
        /\ Cardinality(containers \cup logical) \in Nat /\ Cardinality(Astray) \in Nat
    BY <2>1, AstrayType, NoneMore
  <2> QED BY <2>2, AstrayType DEF AstrayInv
<1> QED BY <1>1, AstrayInvariance, PTL
=============================================================================
