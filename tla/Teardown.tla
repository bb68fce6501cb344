------------------------------- MODULE Teardown -------------------------------
(***************************************************************************)
(* fc-teardown next to the manager: main.py's _ateardown builds a second   *)
(* ControlLoop in a process of its own, with an _action_lock and a memory  *)
(* of its own, over the same database, tenant and container platform, and  *)
(* runs teardown_fleet.  Nothing keeps the two processes apart but what    *)
(* connectorDelete answers.                                                *)
(*                                                                         *)
(* The manager is FleetLoop while it is up; it may also be stopped before, *)
(* during or after the teardown and started again.  One teardown is run.   *)
(***************************************************************************)
EXTENDS FleetLoop

VARIABLES
  up,          \* the manager process runs
  tdStage,     \* progress of teardown_fleet
  tdTodo,      \* discovered, connectorDelete not yet called
  tdDrain,     \* the teardown's own _draining
  tdListed,    \* what its discovery found
  tdAlone      \* the manager has been down since the teardown's discovery

tdVars  == <<tdStage, tdTodo, tdDrain, tdListed, tdAlone>>
allVars == <<vars, up, tdVars>>

TdInit ==
  /\ Init
  /\ up = TRUE
  /\ tdStage = "idle"
  /\ tdTodo = {}
  /\ tdDrain = [c \in Cid |-> "none"]
  /\ tdListed = {}
  /\ tdAlone = FALSE

TdDraining == {c \in Cid : tdDrain[c] # "none"}

-----------------------------------------------------------------------------
(***************************************************************************)
(* The manager                                                             *)
(***************************************************************************)

\* A step of the manager, or of the world around it.  Twingate ids are never
\* reused: what the teardown still refers to is not minted again.
ManagerStep ==
  /\ up
  /\ Next
  /\ (logical' \ logical) \cap (tdTodo \cup TdDraining) = {}
  /\ tdListed' = tdListed \ (logical' \ logical)
  /\ UNCHANGED <<up, tdStage, tdTodo, tdDrain, tdAlone>>

\* docker compose stop: the manager ends as in a graceful restart and stays
\* away until it is started again.
ManagerExits ==
  /\ up
  /\ GracefulRestart
  /\ up' = FALSE
  /\ UNCHANGED tdVars

ManagerStarts ==
  /\ ~up
  /\ up' = TRUE
  /\ tdAlone' = FALSE
  /\ UNCHANGED <<vars, tdStage, tdTodo, tdDrain, tdListed>>

-----------------------------------------------------------------------------
(***************************************************************************)
(* teardown_fleet                                                          *)
(***************************************************************************)

\* Seeded bug: the tenant's Connectors are deleted, not those discovered here.
TdDiscoverFromTenant ==
  /\ tdStage = "idle"
  /\ tdStage' = "delete"
  /\ tdTodo' = logical
  /\ tdListed' = containers
  /\ tdAlone' = ~up
  /\ UNCHANGED <<vars, up, tdDrain>>

\* Seeded bug: the floor is kept, as by the scale-down the teardown reuses.
TdDiscoverAboveFloor ==
  /\ tdStage = "idle"
  /\ tdStage' = "delete"
  /\ \E kept \in PickVictims(containers, Min) :
       tdTodo' = containers \ kept /\ tdListed' = containers \ kept
  /\ tdAlone' = ~up
  /\ UNCHANGED <<vars, up, tdDrain>>

\* _discover, in the teardown's process: every managed container, those the
\* manager is draining included, for its _draining is empty.
TdDiscover ==
  /\ tdStage = "idle"
  /\ tdStage' = "delete"
  /\ tdTodo' = containers
  /\ tdListed' = containers
  /\ tdAlone' = ~up
  /\ UNCHANGED <<vars, up, tdDrain>>

\* Discovery raises: the command ends, nothing is done, it may be run again.
TdDiscoverFails ==
  /\ tdStage = "idle"
  /\ ApiFails \/ PlatformFails \/ StoreFails
  /\ UNCHANGED <<external, durable, memory, drain, control, up, tdVars>>

\* Seeded bug: a Connector whose connectorDelete is refused is drained too.
TdDeleteDrainingRefused(c) ==
  /\ tdStage = "delete"
  /\ c \in tdTodo
  /\ tdTodo' = tdTodo \ {c}
  /\ DeleteConnector(c)
  /\ tdDrain' = [tdDrain EXCEPT ![c] = "grace"]
  /\ UNCHANGED <<containers, durable, memory, drain, control, faults, up, tdStage, tdListed, tdAlone>>

\* _deprovision_one with actor="teardown": routing stops and the teardown's
\* own drain begins, or connectorDelete raises (a Connector that somebody else
\* has deleted already included) and the Connector is passed over.
TdDelete(c) ==
  /\ tdStage = "delete"
  /\ c \in tdTodo
  /\ tdTodo' = tdTodo \ {c}
  /\ \/ /\ c \in logical
        /\ DeleteConnector(c)
        /\ tdDrain' = [tdDrain EXCEPT ![c] = "grace"]
        /\ UNCHANGED faults
     \/ /\ \/ c \notin logical /\ UNCHANGED <<logical, faults>>
           \/ ApiFails /\ (DeleteConnector(c) \/ UNCHANGED logical)
        /\ UNCHANGED tdDrain
  /\ UNCHANGED <<containers, durable, memory, drain, control, up, tdStage, tdListed, tdAlone>>

\* The row of a failed connectorDelete cannot be written: the error leaves
\* teardown_fleet, and asyncio.run cancels the drains that were begun.
TdStoreError ==
  /\ tdStage = "delete"
  /\ \E c \in tdTodo : c \notin logical
  /\ StoreFails
  /\ tdStage' = "abandoned"
  /\ tdTodo' = {}
  /\ tdDrain' = [c \in Cid |-> "none"]
  /\ UNCHANGED <<external, durable, memory, drain, control, up, tdListed, tdAlone>>

\* The lock is released; await_pending_drains.
TdAwait ==
  /\ tdStage = "delete"
  /\ tdTodo = {}
  /\ tdStage' = "drain"
  /\ UNCHANGED <<vars, up, tdTodo, tdDrain, tdListed, tdAlone>>

\* Grace over, own lock taken: stop and remove, or fail and give the slot back.
TdStop(c) ==
  /\ tdStage = "drain"
  /\ tdDrain[c] = "grace"
  /\ \A d \in Cid : tdDrain[d] # "record"
  /\ \/ /\ c \in containers
        /\ containers' = containers \ {c}
        /\ tdDrain' = [tdDrain EXCEPT ![c] = "record"]
        /\ UNCHANGED faults
     \/ /\ (c \notin containers /\ UNCHANGED faults) \/ PlatformFails
        /\ tdDrain' = [tdDrain EXCEPT ![c] = "none"]
        /\ UNCHANGED containers
  /\ UNCHANGED <<logical, durable, memory, drain, control, up, tdStage, tdTodo, tdListed, tdAlone>>

TdRecord(c) ==
  /\ tdDrain[c] = "record"
  /\ tdDrain' = [tdDrain EXCEPT ![c] = "none"]
  /\ \/ Uncordon(c) /\ UNCHANGED faults
     \/ StoreFails /\ UNCHANGED cordoned
  /\ UNCHANGED <<external, restarts, upLeft, downLeft, memory, drain, control, up,
                 tdStage, tdTodo, tdListed, tdAlone>>

\* Seeded bug: the command ends without await_pending_drains, which cancels
\* the drains.
TdDoneWithoutAwaiting ==
  /\ tdStage = "drain"
  /\ tdStage' = "done"
  /\ tdDrain' = [c \in Cid |-> "none"]
  /\ UNCHANGED <<vars, up, tdTodo, tdListed, tdAlone>>

TdDone ==
  /\ tdStage = "drain"
  /\ TdDraining = {}
  /\ tdStage' = "done"
  /\ UNCHANGED <<vars, up, tdTodo, tdDrain, tdListed, tdAlone>>

TdStep ==
  \/ TdDiscover \/ TdDiscoverFails
  \/ \E c \in Cid : TdDelete(c) \/ TdStop(c) \/ TdRecord(c)
  \/ TdStoreError \/ TdAwait \/ TdDone

TdNext == ManagerStep \/ ManagerExits \/ ManagerStarts \/ TdStep

TdSpec == TdInit /\ [][TdNext]_allVars

-----------------------------------------------------------------------------
(***************************************************************************)
(* Properties                                                              *)
(***************************************************************************)

\* The types of the teardown's own variables.
TdTypeOK ==
  /\ up \in BOOLEAN /\ tdAlone \in BOOLEAN
  /\ tdStage \in {"idle", "delete", "drain", "done", "abandoned"}
  /\ tdTodo \subseteq tdListed /\ tdListed \subseteq Cid
  /\ tdDrain \in [Cid -> {"none", "grace", "record"}]

\* Whatever a drain of the manager and the teardown do to the same Connector,
\* exactly one of the two processes drains it, though they share no lock: only
\* one of them can have been told that connectorDelete worked.
OneDrainer == TdDraining \cap Draining = {}

\* Two processes deleting, draining and provisioning side by side strand no
\* more than one does: one failed call leaves at most one Connector half-made
\* or half-removed, and nothing waits for a drain that neither performs.
SharedLeaksPerFault ==
  tdStage # "abandoned" =>
    Cardinality((logical \ containers) \ {job.fresh})
      + Cardinality((containers \ logical) \ (Draining \cup TdDraining)) <= faults

\* teardown_fleet "drains and removes the ENTIRE managed fleet": when it
\* returns, whatever it found is gone, or is being drained by the manager, or a
\* call has failed.
ListedAreGone ==
  tdStage = "done" => Cardinality((tdListed \cap containers) \ Draining) <= faults

\* "leaves no orphan containers on the host and no orphan logical Connectors in
\* the tenant" (loop.py:222): it does if the manager is down all the while
\* and no call ever failed; one failure leaves one orphan that the teardown
\* passes over.
TeardownEmptiesFleet ==
  tdStage = "done" /\ tdAlone => Cardinality(containers \cup logical) <= faults
=============================================================================
