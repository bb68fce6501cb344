------------------------------ MODULE FleetLoop ------------------------------
(***************************************************************************)
(* The control loop of fc (loop.py) with everything that shares its state: *)
(* the autoscaler/health cycle, the manual overrides, the background       *)
(* drains, a crash or a graceful restart of the manager, and the two       *)
(* systems it drives: the Twingate tenant (logical Connectors) and the     *)
(* container platform.                                                     *)
(*                                                                         *)
(* One asyncio process runs all of it.  _action_lock is held by a cycle,   *)
(* by an override, or by the stop/remove part of one drain; a step below   *)
(* is what happens between two awaits that can lose control, so a crash,   *)
(* an API failure or a state-store error can fall between any two of them. *)
(*                                                                         *)
(* Time: every duration of the policy is a number of ticks and every       *)
(* timestamp an age that Tick advances, saturating at its threshold.       *)
(* Ticks pass while the lock is free: a cycle takes no time at the scale   *)
(* of the thresholds.  Twingate ids are never reused; the pool Cid is      *)
(* finite, so an id nothing refers to any more may be minted again.        *)
(***************************************************************************)
EXTENDS Decider

CONSTANTS
  Cid,                 \* pool of connector ids
  NoCid,               \* "no connector"
  Min, Max, Step,      \* min_connectors, max_connectors, scale_step
  UpCooldown,          \* scale_up_cooldown_seconds
  DownCooldown,        \* scale_down_cooldown_seconds
  StartupGrace,        \* startup_grace_seconds
  UnhealthyThreshold,  \* unhealthy_threshold_seconds
  ReplaceTimeout,      \* replace_health_timeout_seconds
  MaxRestarts,         \* max_restarts
  Commands,            \* operator commands that may arrive
  FaultKinds,          \* kinds of failure that may occur
  MaxFaults            \* bound: failures in one behaviour

CommandKinds == {"up", "up_foreign", "down", "cordon", "uncordon", "replace", "stop"}

\* "twingate": an API call fails, with or without having taken effect.
\* "actuator": a container call fails.  "store": a SQLite call raises.
\* "crash": the manager dies.  "loss": a container vanishes from outside.
AllFaults == {"twingate", "actuator", "store", "crash", "loss"}

\* What config.py validates of a policy.
ASSUME PolicyAssumption ==
  /\ Min \in Nat /\ Min >= 2
  /\ Max \in Nat /\ Max >= Min
  /\ Step \in Nat \ {0}
  /\ UpCooldown \in Nat /\ DownCooldown \in Nat
  /\ StartupGrace \in Nat /\ UnhealthyThreshold \in Nat
  /\ ReplaceTimeout \in Nat \ {0}
  /\ MaxRestarts \in Nat \ {0}

ASSUME ModelAssumption ==
  /\ IsFiniteSet(Cid)
  /\ NoCid \notin Cid
  /\ Commands \subseteq CommandKinds
  /\ FaultKinds \subseteq AllFaults
  /\ MaxFaults \in Nat

VARIABLES
  \* outside the manager
  logical,       \* logical Connectors in the tenant (routable)
  containers,    \* managed containers on the platform
  \* SQLite: survives a restart
  cordoned,      \* cordoned connector ids
  restarts,      \* restart rows inside the restart window, per connector
  upLeft,        \* what is left of the scale-up cooldown
  downLeft,      \* what is left of the scale-down cooldown
  \* in memory: lost on a restart
  seenFor,       \* _first_seen: age, or Untracked
  unhealthyFor,  \* _first_unhealthy: age, or Untracked
  pendingNew,    \* _pending_replaces: old id -> new id, or NoCid
  pendingFor,    \* _pending_replaces: age of the replace
  drain,         \* _draining: phase of the background task of an id
  lock,          \* holder of _action_lock
  job,           \* what the holder (cycle or override) has still to do
  override,      \* the override that holds _override_lock
  stopping,      \* stop_event
  \* the bound
  faults         \* failures so far

external == <<logical, containers>>
durable  == <<cordoned, restarts, upLeft, downLeft>>
memory   == <<seenFor, unhealthyFor, pendingNew, pendingFor>>
control  == <<lock, job, override, stopping>>
vars     == <<logical, containers, cordoned, restarts, upLeft, downLeft,
              seenFor, unhealthyFor, pendingNew, pendingFor, drain,
              lock, job, override, stopping, faults>>

-----------------------------------------------------------------------------
\* The policy of the managed Remote Network, as decide_scale reads it.
Policy == [min |-> Min, max |-> Max, step |-> Step]

Draining    == {c \in Cid : drain[c] # "none"}
PendingOld  == {c \in Cid : pendingNew[c] # NoCid}
PendingPair == PendingOld \cup {pendingNew[c] : c \in PendingOld}

\* The Connectors a cycle or an override evaluates: discovered, not mid-drain.
Fleet == containers \ Draining

\* job: the progress of the cycle or override that holds the lock.
\*   view    what discovery read of each Connector of the fleet
\*   todo    victims, pending replaces or remedies not yet processed
\*   replace the members of todo that decide_health wants replaced
\*   left    provisions still to make;  acted  one action has succeeded
\*   target  the Connector a replacement is being provisioned for
\*   step, fresh  progress of _provision_one and the id it works on
NoView  == [c \in Cid |-> "absent"]
IdleJob == [stage |-> "idle", view |-> NoView, todo |-> {}, replace |-> {},
            left |-> 0, acted |-> FALSE, target |-> NoCid,
            step |-> "none", fresh |-> NoCid]

NoOverride == [kind |-> "none", arg |-> NoCid]

CycleStages    == {"scale_up", "scale_down", "pending", "health"}
OverrideStages == {"manual_up", "manual_foreign", "manual_down", "manual_replace"}

InView(c) == job.view[c] # "absent"

\* A failure of kind k happens in this step.
Fault(k) == k \in FaultKinds /\ faults < MaxFaults /\ faults' = faults + 1

\* A Twingate call that its retries did not save, or that Twingate refused.
ApiFails == Fault("twingate")

\* A call on the container platform fails.
PlatformFails == Fault("actuator")

\* A SQLite call raises.
StoreFails == Fault("store")

\* set_cooldown, if something was done.
Cooldown(acted, left, length) == IF acted THEN length ELSE left

Init ==
  /\ logical = {}
  /\ containers = {}
  /\ cordoned = {}
  /\ restarts = [c \in Cid |-> 0]
  /\ upLeft = 0
  /\ downLeft = 0
  /\ seenFor = [c \in Cid |-> Untracked]
  /\ unhealthyFor = [c \in Cid |-> Untracked]
  /\ pendingNew = [c \in Cid |-> NoCid]
  /\ pendingFor = [c \in Cid |-> 0]
  /\ drain = [c \in Cid |-> "none"]
  /\ lock = "free"
  /\ job = IdleJob
  /\ override = NoOverride
  /\ stopping = FALSE
  /\ faults = 0

-----------------------------------------------------------------------------
(***************************************************************************)
(* Discovery and the start of a cycle                                      *)
(***************************************************************************)

\* What discovery may read of a container: Twingate and Docker report any
\* health at that moment, but a container without a logical Connector has no
\* Twingate state.  Past its grace a starting Connector counts as failing.
Readings(c) ==
  IF c \notin logical THEN {"unknown", "failing"}
  ELSE {"alive", "failing"}
         \cup {r \in {"starting"} : StartupGrace > 0 /\ seenFor[c] < StartupGrace}

\* _discover: each managed container joined with its Twingate record.
Discoveries ==
  {[c \in Cid |-> IF c \in containers THEN r[c] ELSE "absent"] :
     r \in {f \in [containers -> Reading] : \A c \in containers : f[c] \in Readings(c)}}

FirstSeen(found) ==
  [c \in Cid |-> IF found[c] = "absent" THEN Untracked
                 ELSE IF seenFor[c] = Untracked THEN 0 ELSE seenFor[c]]

FirstUnhealthy(found) ==
  [c \in Cid |-> IF ~IsUnhealthy(found[c]) THEN Untracked
                 ELSE IF unhealthyFor[c] = Untracked THEN 0 ELSE unhealthyFor[c]]

\* Discovered Connectors of the Remote Network that are not mid-drain.
ExcludeDraining(found) ==
  [c \in Cid |-> IF c \in Draining THEN "absent" ELSE found[c]]

\* Seeded bug: victims may be cordoned.
EligibleIgnoringCordons(seen) ==
  {c \in Fleet : c \notin PendingPair
                 /\ ~(StartupGrace > 0 /\ seen[c] # Untracked /\ seen[c] < StartupGrace)}

\* Seeded bug: victims may belong to a pending replace.
EligibleIgnoringReplaces(seen) ==
  {c \in Fleet : c \notin cordoned
                 /\ ~(StartupGrace > 0 /\ seen[c] # Untracked /\ seen[c] < StartupGrace)}

\* Connectors _pick_victims may choose, given the first-seen ages.
Eligible(seen) ==
  {c \in Fleet : /\ c \notin cordoned
                 /\ c \notin PendingPair
                 /\ ~(/\ StartupGrace > 0
                      /\ seen[c] # Untracked
                      /\ seen[c] < StartupGrace)}

\* Up to n of the eligible Connectors; which ones is the list order's choice.
PickVictims(eligible, n) ==
  {v \in SUBSET eligible : Cardinality(v) = Lesser(n, Cardinality(eligible))}

\* Seeded bug: the count still includes Connectors that are mid-drain.
VerdictsCountingDrains ==
  {ScaleVerdict(Policy, Cardinality(containers), load = "high", load = "low",
                upLeft, downLeft, PendingOld # {}) : load \in {"high", "low", "normal"}}

\* The decisions decide_scale can reach: the load is whatever the collectors
\* measured.
Verdicts ==
  {ScaleVerdict(Policy, Cardinality(Fleet), load = "high", load = "low",
                upLeft, downLeft, PendingOld # {}) : load \in {"high", "low", "normal"}}

\* run_cycle up to and including decide_scale and the choice of victims.  A cycle that
\* waits for the lock when a stop comes runs all the same; that is the behaviour
\* in which the stop comes after it.
BeginCycle ==
  /\ lock = "free"
  /\ ~stopping
  /\ \E found \in Discoveries, verdict \in Verdicts :
       LET start == [IdleJob EXCEPT !.view = ExcludeDraining(found)]
       IN  /\ seenFor' = FirstSeen(found)
           /\ unhealthyFor' = FirstUnhealthy(found)
           /\ \/ /\ verdict.direction = "up"
                 /\ job' = [start EXCEPT !.stage = "scale_up", !.left = verdict.count]
              \/ /\ verdict.direction = "down"
                 /\ \E v \in PickVictims(Eligible(seenFor'), verdict.count) :
                      job' = [start EXCEPT !.stage = "scale_down", !.todo = v]
              \/ /\ verdict.direction = "none"
                 /\ job' = [start EXCEPT !.stage = "pending", !.todo = PendingOld]
  /\ lock' = "cycle"
  /\ UNCHANGED <<external, durable, pendingNew, pendingFor, drain, override, stopping, faults>>

-----------------------------------------------------------------------------
(***************************************************************************)
(* _provision_one: connectorCreate, connectorGenerateTokens, then          *)
(* actuator.provision; the action row last.  Nothing undoes the logical    *)
(* Connector when a later step fails.                                      *)
(***************************************************************************)

\* Ids nothing refers to any more.
Unused == {c \in Cid \ (containers \cup logical \cup cordoned \cup Draining \cup PendingPair
                          \cup job.todo \cup {job.target, override.arg}) : ~InView(c)}

\* create_connector: new logical Connectors, without any history.
Mint(new) ==
  /\ logical' = logical \cup new
  /\ restarts' = [c \in Cid |-> IF c \in new THEN 0 ELSE restarts[c]]
  /\ seenFor' = [c \in Cid |-> IF c \in new THEN Untracked ELSE seenFor[c]]
  /\ unhealthyFor' = [c \in Cid |-> IF c \in new THEN Untracked ELSE unhealthyFor[c]]

NoMint == UNCHANGED <<logical, restarts, seenFor, unhealthyFor>>

WantsProvision ==
  /\ job.step = "none"
  /\ \/ job.stage = "scale_up" /\ job.left > 0
     \/ job.stage \in {"manual_up", "manual_foreign"}
     \/ job.target # NoCid

\* _provision_one returned None: one provision less, no replacement.
ProvisionFailed ==
  IF job.stage \in OverrideStages
  THEN /\ job' = IdleJob /\ lock' = "free" /\ override' = NoOverride
  ELSE /\ job' = [job EXCEPT !.step = "none", !.fresh = NoCid, !.target = NoCid,
                             !.left = IF @ > 0 THEN @ - 1 ELSE 0]
       /\ UNCHANGED <<lock, override>>

\* The id the caller gets is c; a retry after a lost answer has made one more
\* logical Connector that nobody knows of.
CreateConnector ==
  /\ WantsProvision
  /\ \E c \in Unused :
       /\ \/ Mint({c}) /\ UNCHANGED faults
          \/ ApiFails /\ \E d \in Unused \ {c} : Mint({c, d})
       /\ job' = [job EXCEPT !.step = "created", !.fresh = c]
  /\ UNCHANGED <<containers, cordoned, upLeft, downLeft, pendingNew, pendingFor,
                 drain, lock, override, stopping>>

\* The call fails, possibly after it took effect; an empty pool (a bound of
\* the model) fails it too.
CreateConnectorFails ==
  /\ WantsProvision
  /\ \/ ApiFails /\ NoMint
     \/ ApiFails /\ \E c \in Unused : Mint({c})
     \/ Unused = {} /\ NoMint /\ UNCHANGED faults
  /\ ProvisionFailed
  /\ UNCHANGED <<containers, cordoned, upLeft, downLeft, pendingNew, pendingFor,
                 drain, stopping>>

\* Tokens generated and the container started.
StartContainer ==
  /\ job.step = "created"
  /\ containers' = containers \cup {job.fresh}
  /\ job' = [job EXCEPT !.step = "started"]
  /\ UNCHANGED <<logical, durable, memory, drain, lock, override, stopping, faults>>

\* connectorGenerateTokens fails, or actuator.provision does, possibly
\* leaving a created container behind.
StartContainerFails ==
  /\ job.step = "created"
  /\ \/ ApiFails /\ UNCHANGED containers
     \/ PlatformFails /\ containers' \in {containers, containers \cup {job.fresh}}
  /\ ProvisionFailed
  /\ UNCHANGED <<logical, durable, memory, drain, stopping>>

\* The provision is recorded and its caller continues: the autoscaler counts
\* it, manual_scale sets the cooldown (of the network named in the request),
\* _begin_replace registers the pending replace.
RecordProvision ==
  /\ job.step = "started"
  /\ \/ /\ job.target # NoCid
        /\ pendingNew' = [pendingNew EXCEPT ![job.target] = job.fresh]
        /\ pendingFor' = [pendingFor EXCEPT ![job.target] = 0]
        /\ UNCHANGED upLeft
     \/ /\ job.target = NoCid
        /\ upLeft' = Cooldown(job.stage = "manual_up", upLeft, UpCooldown)
        /\ UNCHANGED <<pendingNew, pendingFor>>
  /\ IF job.stage \in OverrideStages
     THEN /\ job' = IdleJob /\ lock' = "free" /\ override' = NoOverride
     ELSE /\ job' = [job EXCEPT !.step = "none", !.fresh = NoCid, !.target = NoCid,
                                !.acted = job.stage = "scale_up",
                                !.left = IF @ > 0 THEN @ - 1 ELSE 0]
          /\ UNCHANGED <<lock, override>>
  /\ UNCHANGED <<external, cordoned, restarts, downLeft, seenFor, unhealthyFor,
                 drain, stopping, faults>>

-----------------------------------------------------------------------------
(***************************************************************************)
(* _deprovision_one: connectorDelete stops the routing; only then is the   *)
(* rest of the drain handed to a background task.                          *)
(***************************************************************************)

\* connectorDelete takes effect.
DeleteConnector(c) == logical' = logical \ {c}

\* Seeded bug: the drain starts without connectorDelete.
DeprovisionUndeleted(c) ==
  /\ c \in logical
  /\ drain' = [drain EXCEPT ![c] = "grace"]
  /\ UNCHANGED <<logical, faults>>

\* Seeded bug: connectorDelete succeeds but no drain task is created.
DeprovisionWithoutTask(c) ==
  /\ c \in logical
  /\ DeleteConnector(c)
  /\ UNCHANGED <<drain, faults>>

\* connectorDelete succeeds: nothing is routed to c any more, its drain begins.
DeprovisionStarts(c) ==
  /\ c \in logical
  /\ DeleteConnector(c)
  /\ drain' = [drain EXCEPT ![c] = "grace"]
  /\ UNCHANGED faults

\* connectorDelete raises: there is no such logical Connector, or the call
\* fails, possibly after it took effect.
DeprovisionFails(c) ==
  /\ \/ c \notin logical /\ UNCHANGED <<logical, faults>>
     \/ ApiFails /\ (DeleteConnector(c) \/ UNCHANGED logical)
  /\ UNCHANGED drain

\* _act_scale, direction DOWN, or manual_scale down: one victim.
ScaleDownVictim(c) ==
  /\ job.stage \in {"scale_down", "manual_down"}
  /\ c \in job.todo
  /\ \/ DeprovisionStarts(c) /\ job' = [job EXCEPT !.todo = @ \ {c}, !.acted = TRUE]
     \/ DeprovisionFails(c) /\ job' = [job EXCEPT !.todo = @ \ {c}]
  /\ UNCHANGED <<containers, durable, memory, lock, override, stopping>>

\* End of _act_scale: a cooldown only if something succeeded.
FinishScale ==
  /\ \/ job.stage = "scale_up" /\ job.left = 0 /\ job.step = "none"
     \/ job.stage = "scale_down" /\ job.todo = {}
  /\ upLeft' = Cooldown(job.stage = "scale_up" /\ job.acted, upLeft, UpCooldown)
  /\ downLeft' = Cooldown(job.stage = "scale_down" /\ job.acted, downLeft, DownCooldown)
  /\ job' = [job EXCEPT !.stage = "pending", !.todo = PendingOld, !.acted = FALSE]
  /\ UNCHANGED <<external, cordoned, restarts, memory, drain, lock, override, stopping, faults>>

-----------------------------------------------------------------------------
(***************************************************************************)
(* _process_pending_replaces: one entry per step.                          *)
(***************************************************************************)
ForgetPending(o) ==
  /\ pendingNew' = [pendingNew EXCEPT ![o] = NoCid]
  /\ pendingFor' = [pendingFor EXCEPT ![o] = 0]

ReplacementHealthy(n) == job.view[n] = "alive"

\* The dict keeps insertion order: a replace whose replacement is itself being
\* replaced was registered first, so it is processed first.
OldestFirst(o) == \A p \in job.todo : pendingNew[p] # o

\* The entry whose old Connector is not in this cycle's fleet is forgotten.
PendingOldGone(o) ==
  /\ ~InView(o)
  /\ ForgetPending(o)
  /\ UNCHANGED <<logical, drain, faults>>

\* The replacement is healthy: drain the old one, and forget the entry only
\* if that drain started.
PendingCompletes(o) ==
  /\ InView(o)
  /\ ReplacementHealthy(pendingNew[o])
  /\ \/ DeprovisionStarts(o) /\ ForgetPending(o)
     \/ DeprovisionFails(o) /\ UNCHANGED <<pendingNew, pendingFor>>

\* Seeded bug: a timed-out replace drains the old Connector.
PendingTimesOutDrainingOld(o) ==
  /\ InView(o)
  /\ ~ReplacementHealthy(pendingNew[o])
  /\ pendingFor[o] >= ReplaceTimeout
  /\ ForgetPending(o)
  /\ DeprovisionStarts(o) \/ DeprovisionFails(o)

\* Seeded bug: a timed-out replace keeps its slot.
PendingTimesOutKeepingSlot(o) ==
  LET n == pendingNew[o]
  IN  /\ InView(o)
      /\ ~ReplacementHealthy(n)
      /\ pendingFor[o] >= ReplaceTimeout
      /\ \/ InView(n) /\ (DeprovisionStarts(n) \/ DeprovisionFails(n))
         \/ ~InView(n) /\ UNCHANGED <<logical, drain, faults>>
      /\ UNCHANGED <<pendingNew, pendingFor>>

\* The replacement is not healthy in time: drain it and release the slot.
PendingTimesOut(o) ==
  LET n == pendingNew[o]
  IN  /\ InView(o)
      /\ ~ReplacementHealthy(n)
      /\ pendingFor[o] >= ReplaceTimeout
      /\ ForgetPending(o)
      /\ \/ InView(n) /\ (DeprovisionStarts(n) \/ DeprovisionFails(n))
         \/ ~InView(n) /\ UNCHANGED <<logical, drain, faults>>

PendingWaits(o) ==
  /\ InView(o)
  /\ ~ReplacementHealthy(pendingNew[o])
  /\ pendingFor[o] < ReplaceTimeout
  /\ UNCHANGED <<logical, drain, faults, pendingNew, pendingFor>>

ProcessPending(o) ==
  /\ job.stage = "pending"
  /\ o \in job.todo
  /\ OldestFirst(o)
  /\ \/ PendingOldGone(o)
     \/ PendingCompletes(o)
     \/ PendingTimesOut(o)
     \/ PendingWaits(o)
  /\ job' = [job EXCEPT !.todo = @ \ {o}]
  /\ UNCHANGED <<containers, durable, seenFor, unhealthyFor, lock, override, stopping>>

-----------------------------------------------------------------------------
(***************************************************************************)
(* Health: decide_health over the cycle's view, then one remedy per step.  *)
(***************************************************************************)
Remedies ==
  {c \in Cid : /\ InView(c)
               /\ NeedsRemedy(job.view[c], c \in cordoned, c \in PendingOld,
                              seenFor[c], unhealthyFor[c],
                              StartupGrace, UnhealthyThreshold)}

DecideHealth ==
  /\ job.stage = "pending"
  /\ job.todo = {}
  /\ job' = [job EXCEPT !.stage = "health", !.todo = Remedies, !.view = NoView,
                        !.replace = {c \in Remedies :
                                       RemedyKind(restarts[c], MaxRestarts) = "replace"}]
  /\ UNCHANGED <<external, durable, memory, drain, lock, override, stopping, faults>>

\* The restart's row in action_log.
RecordRestart(c) == restarts' = [restarts EXCEPT ![c] = @ + 1]

\* _restart_one: a row is recorded whether or not the restart worked.
RestartOne(c) ==
  /\ job.stage = "health"
  /\ job.step = "none" /\ job.target = NoCid
  /\ c \in job.todo \ job.replace
  /\ RecordRestart(c)
  /\ job' = [job EXCEPT !.todo = @ \ {c}]
  /\ UNCHANGED <<external, cordoned, upLeft, downLeft, memory, drain, lock, override,
                 stopping, faults>>

\* _begin_replace: from here _provision_one runs for the target.
BeginReplace(c) ==
  /\ job.stage = "health"
  /\ job.step = "none" /\ job.target = NoCid
  /\ c \in job.todo \cap job.replace
  /\ job' = [job EXCEPT !.todo = @ \ {c}, !.replace = @ \ {c}, !.target = c]
  /\ UNCHANGED <<external, durable, memory, drain, lock, override, stopping, faults>>

EndCycle ==
  /\ job.stage = "health"
  /\ job.todo = {} /\ job.step = "none" /\ job.target = NoCid
  /\ job' = IdleJob
  /\ lock' = "free"
  /\ UNCHANGED <<external, durable, memory, drain, override, stopping, faults>>

\* A SQLite call raises: what is left of the cycle's decide/act block, or of
\* the override, is skipped and the locks are released.
StoreError ==
  /\ job.stage # "idle"
  /\ job.step # "created"
  /\ StoreFails
  /\ job' = IdleJob
  /\ lock' = "free"
  /\ override' = IF job.stage \in OverrideStages THEN NoOverride ELSE override
  /\ UNCHANGED <<external, durable, memory, drain, stopping>>

-----------------------------------------------------------------------------
(***************************************************************************)
(* _finish_drain: the grace wait without the lock, then stop/remove and    *)
(* its bookkeeping with it.                                                *)
(***************************************************************************)

\* Seeded bug: the stop/remove part does not take the action lock.
DrainGraceOverUnlocked(c) ==
  /\ drain[c] = "grace"
  /\ drain' = [drain EXCEPT ![c] = "stop"]
  /\ UNCHANGED <<external, durable, memory, lock, job, override, stopping, faults>>

\* drain_grace_seconds are over and the task gets _action_lock.
DrainGraceOver(c) ==
  /\ drain[c] = "grace"
  /\ lock = "free"
  /\ lock' = "drain"
  /\ drain' = [drain EXCEPT ![c] = "stop"]
  /\ UNCHANGED <<external, durable, memory, job, override, stopping, faults>>

DrainStop(c) ==
  /\ drain[c] = "stop"
  /\ c \in containers
  /\ containers' = containers \ {c}
  /\ drain' = [drain EXCEPT ![c] = "record"]
  /\ UNCHANGED <<logical, durable, memory, control, faults>>

\* actuator.deprovision raises: the container is gone already, or the platform
\* fails before the container is removed or after.  The slot is released, and the
\* rest of _finish_drain is left out.
DrainStopFails(c) ==
  /\ drain[c] = "stop"
  /\ \/ c \notin containers /\ UNCHANGED <<containers, faults>>
     \/ PlatformFails /\ containers' \in {containers, containers \ {c}}
  /\ drain' = [drain EXCEPT ![c] = "none"]
  /\ lock' = "free"
  /\ UNCHANGED <<logical, durable, memory, job, override, stopping>>

\* clear_cordon
Uncordon(c) == cordoned' = cordoned \ {c}

\* Seeded bug: the slot in _draining is never given back.
DrainRecordKeepingSlot(c) ==
  /\ drain[c] = "record"
  /\ Uncordon(c)
  /\ lock' = "free"
  /\ UNCHANGED <<external, restarts, upLeft, downLeft, memory, drain, job, override,
                 stopping, faults>>

\* The removal is recorded and the cordon dropped; a store error skips both.
DrainRecord(c) ==
  /\ drain[c] = "record"
  /\ \/ Uncordon(c) /\ UNCHANGED faults
     \/ StoreFails /\ UNCHANGED cordoned
  /\ drain' = [drain EXCEPT ![c] = "none"]
  /\ lock' = "free"
  /\ UNCHANGED <<external, restarts, upLeft, downLeft, memory, job, override, stopping>>

-----------------------------------------------------------------------------
(***************************************************************************)
(* Manual overrides.  One that arrives while another is in flight is       *)
(* rejected; an accepted one waits for _action_lock.                       *)
(***************************************************************************)
RequestOverride ==
  /\ override = NoOverride
  /\ ~stopping
  /\ \E k \in Commands \ {"stop"} :
       \/ /\ k \in {"up", "up_foreign", "down"}
          /\ override' = [kind |-> k, arg |-> NoCid]
       \/ /\ k \in {"cordon", "uncordon", "replace"}
          /\ \E c \in Cid : override' = [kind |-> k, arg |-> c]
  /\ UNCHANGED <<external, durable, memory, drain, lock, job, stopping, faults>>

RunOverride(stage, todo, target) ==
  /\ lock' = "override"
  /\ job' = [IdleJob EXCEPT !.stage = stage, !.todo = todo, !.target = target]
  /\ UNCHANGED override

\* Seeded bug: a refused override does not release _override_lock.
EndOverrideHoldingLock == UNCHANGED <<lock, job, override>>

EndOverride ==
  /\ override' = NoOverride
  /\ UNCHANGED <<lock, job>>

\* manual_scale up.  With another Remote Network's id the count is that
\* network's (none of its Connectors are managed), yet the provision goes to
\* the managed network.
ManualScaleUp ==
  /\ override.kind \in {"up", "up_foreign"}
  /\ LET count == IF override.kind = "up" THEN Cardinality(Fleet) ELSE 0
         stage == IF override.kind = "up" THEN "manual_up" ELSE "manual_foreign"
     IN  IF count >= Max THEN EndOverride ELSE RunOverride(stage, {}, NoCid)
  /\ UNCHANGED cordoned

ManualScaleDown ==
  /\ override.kind = "down"
  /\ IF Cardinality(Fleet) <= Min \/ Eligible(seenFor) = {}
     THEN EndOverride
     ELSE \E c \in Eligible(seenFor) : RunOverride("manual_down", {c}, NoCid)
  /\ UNCHANGED cordoned

\* Seeded bug: a cordon of an unknown Connector is persisted.
ManualCordonUnchecked ==
  /\ override.kind \in {"cordon", "uncordon"}
  /\ cordoned' = IF override.kind = "cordon" THEN cordoned \cup {override.arg}
                                              ELSE cordoned \ {override.arg}
  /\ EndOverride

\* A cordon needs the Connector to be in the fleet; lifting one does not.
ManualCordon ==
  /\ override.kind \in {"cordon", "uncordon"}
  /\ cordoned' = CASE override.kind = "uncordon" -> cordoned \ {override.arg}
                   [] override.kind = "cordon" /\ override.arg \in containers ->
                        cordoned \cup {override.arg}
                   [] OTHER -> cordoned
  /\ EndOverride

ManualReplace ==
  /\ override.kind = "replace"
  /\ IF override.arg \notin containers \/ override.arg \in PendingOld
     THEN EndOverride
     ELSE RunOverride("manual_replace", {}, override.arg)
  /\ UNCHANGED cordoned

StartOverride ==
  /\ lock = "free"
  /\ ManualScaleUp \/ ManualScaleDown \/ ManualCordon \/ ManualReplace
  /\ UNCHANGED <<external, restarts, upLeft, downLeft, memory, drain, stopping, faults>>

\* Discovery, or the write of a cordon, raises inside an override: the request
\* fails, nothing is done.
OverrideDiscoveryFails ==
  /\ lock = "free"
  /\ override # NoOverride
  /\ ApiFails \/ PlatformFails \/ StoreFails
  /\ EndOverride
  /\ UNCHANGED <<external, durable, memory, drain, stopping>>

\* End of manual_scale down: the cooldown if the drain started.
FinishManualDown ==
  /\ job.stage = "manual_down"
  /\ job.todo = {}
  /\ downLeft' = Cooldown(job.acted, downLeft, DownCooldown)
  /\ job' = IdleJob /\ lock' = "free" /\ override' = NoOverride
  /\ UNCHANGED <<external, cordoned, restarts, upLeft, memory, drain, stopping, faults>>

-----------------------------------------------------------------------------
(***************************************************************************)
(* The life of the manager process, the clock, and the outside world.      *)
(***************************************************************************)
ForgetMemory ==
  /\ seenFor' = [c \in Cid |-> Untracked]
  /\ unhealthyFor' = [c \in Cid |-> Untracked]
  /\ pendingNew' = [c \in Cid |-> NoCid]
  /\ pendingFor' = [c \in Cid |-> 0]
  /\ drain' = [c \in Cid |-> "none"]
  /\ lock' = "free"
  /\ job' = IdleJob
  /\ override' = NoOverride
  /\ stopping' = FALSE

\* SIGKILL, power loss, ...: the manager starts again with its database only.
Crash ==
  /\ Fault("crash")
  /\ ForgetMemory
  /\ UNCHANGED <<external, durable>>

\* SIGTERM: the cycle and the override in progress finish, no other starts.
RequestStop ==
  /\ "stop" \in Commands
  /\ ~stopping
  /\ stopping' = TRUE
  /\ UNCHANGED <<external, durable, memory, drain, lock, job, override, faults>>

\* Seeded bug: the manager waits for the pending replaces as well.
GracefulRestartAwaitingReplaces ==
  /\ stopping
  /\ lock = "free"
  /\ override = NoOverride
  /\ Draining = {} /\ PendingOld = {}
  /\ ForgetMemory
  /\ UNCHANGED <<external, durable, faults>>

\* await_pending_drains has returned: the manager exits and is started again.
GracefulRestart ==
  /\ stopping
  /\ lock = "free"
  /\ override = NoOverride
  /\ Draining = {}
  /\ ForgetMemory
  /\ UNCHANGED <<external, durable, faults>>

Older(age, bound) == IF age = Untracked \/ age >= bound THEN age ELSE age + 1

Tick ==
  /\ lock = "free"
  /\ upLeft' = CooldownRemaining(upLeft, 1)
  /\ downLeft' = CooldownRemaining(downLeft, 1)
  /\ seenFor' = [c \in Cid |-> Older(seenFor[c], StartupGrace)]
  /\ unhealthyFor' = [c \in Cid |-> Older(unhealthyFor[c], UnhealthyThreshold)]
  /\ pendingFor' = [c \in Cid |-> IF c \in PendingOld
                                  THEN Older(pendingFor[c], ReplaceTimeout) ELSE 0]
  /\ UNCHANGED <<external, cordoned, restarts, pendingNew, drain, control, faults>>

\* A restart row leaves the restart window.
RestartRowExpires(c) ==
  /\ lock = "free"
  /\ restarts[c] > 0
  /\ restarts' = [restarts EXCEPT ![c] = @ - 1]
  /\ UNCHANGED <<external, cordoned, upLeft, downLeft, memory, drain, control, faults>>

ContainerLost(c) ==
  /\ c \in containers
  /\ Fault("loss")
  /\ containers' = containers \ {c}
  /\ UNCHANGED <<logical, durable, memory, drain, control>>

-----------------------------------------------------------------------------
\* The steps of whoever holds the lock as a cycle or an override.
JobStep ==
  \/ CreateConnector \/ CreateConnectorFails
  \/ StartContainer \/ StartContainerFails
  \/ RecordProvision
  \/ \E c \in Cid : ScaleDownVictim(c)
  \/ FinishScale
  \/ \E c \in Cid : ProcessPending(c)
  \/ DecideHealth
  \/ \E c \in Cid : RestartOne(c) \/ BeginReplace(c)
  \/ EndCycle
  \/ FinishManualDown

DrainStep(c) == DrainStop(c) \/ DrainStopFails(c) \/ DrainRecord(c)

Environment ==
  \/ RequestOverride
  \/ RequestStop
  \/ StoreError
  \/ Crash
  \/ \E c \in Cid : RestartRowExpires(c) \/ ContainerLost(c)

Next ==
  \/ BeginCycle
  \/ JobStep
  \/ StartOverride \/ OverrideDiscoveryFails
  \/ \E c \in Cid : DrainGraceOver(c) \/ DrainStep(c)
  \/ GracefulRestart
  \/ Tick
  \/ Environment

Spec == Init /\ [][Next]_vars

\* asyncio.Lock wakes its waiters in the order they asked for it, so whoever
\* keeps asking for a free lock gets it (strong fairness), and a holder that
\* is not waiting for anything runs on (weak fairness).  The poll interval
\* expires again and again, and the clock does not stand still.
Fairness ==
  /\ SF_vars(BeginCycle)
  /\ WF_vars(JobStep)
  /\ SF_vars(StartOverride)
  /\ \A c \in Cid : SF_vars(DrainGraceOver(c)) /\ WF_vars(DrainStep(c))
  /\ SF_vars(GracefulRestart)
  /\ SF_vars(Tick)

FairSpec == Spec /\ Fairness

-----------------------------------------------------------------------------
(***************************************************************************)
(* Properties                                                              *)
(***************************************************************************)

JobType == [stage : {"idle"} \cup CycleStages \cup OverrideStages,
            view : [Cid -> Reading \cup {"absent"}],
            todo : SUBSET Cid, replace : SUBSET Cid,
            left : Nat, acted : BOOLEAN, target : Cid \cup {NoCid},
            step : {"none", "created", "started"}, fresh : Cid \cup {NoCid}]

\* Every variable has its type; ages never exceed their thresholds.
TypeOK ==
  /\ logical \in SUBSET Cid
  /\ containers \in SUBSET Cid
  /\ cordoned \in SUBSET Cid
  /\ restarts \in [Cid -> 0 .. MaxRestarts]
  /\ upLeft \in 0 .. UpCooldown
  /\ downLeft \in 0 .. DownCooldown
  /\ seenFor \in [Cid -> {Untracked} \cup 0 .. StartupGrace]
  /\ unhealthyFor \in [Cid -> {Untracked} \cup 0 .. UnhealthyThreshold]
  /\ pendingNew \in [Cid -> Cid \cup {NoCid}]
  /\ pendingFor \in [Cid -> 0 .. ReplaceTimeout]
  /\ drain \in [Cid -> {"none", "grace", "stop", "record"}]
  /\ lock \in {"free", "cycle", "override", "drain"}
  /\ job \in JobType
  /\ override \in [kind : {"none"} \cup CommandKinds, arg : Cid \cup {NoCid}]
  /\ stopping \in BOOLEAN
  /\ faults \in 0 .. MaxFaults

\* Drain before delete (loop.py _deprovision_one): a Connector whose drain
\* task runs is no longer routable, so no container with traffic is stopped.
DrainingIsUnrouted == \A c \in Draining : c \notin logical

\* No drain takes the running fleet (containers not mid-drain) below the
\* floor: a step that starts one leaves at least min_connectors, whichever of
\* scale-down, replace completion and replace timeout it belongs to.
FloorKept ==
  [][Draining' \ Draining # {} => Cardinality(Fleet') >= Min]_vars

\* _action_lock serializes: while the stop/remove part of a drain runs, no
\* cycle, override or other drain is under way, and the lock is never free
\* under anybody's hands.
ActionsSerialized ==
  LET Removing == {c \in Cid : drain[c] \in {"stop", "record"}}
  IN  /\ Removing # {} => lock = "drain"
      /\ job.stage # "idle" => lock \in {"cycle", "override"}
      /\ \A c, d \in Removing : c = d

\* Nothing leaks while nothing fails, and one failed call strands at most one
\* Connector half-made or half-removed: over every interleaving of cycles,
\* overrides and drains, every other logical Connector has a container or is
\* being given one, and every other container is routable or being drained.
LeaksPerFault ==
  Cardinality((logical \ containers) \ {job.fresh})
    + Cardinality((containers \ logical) \ Draining) <= faults

\* Make before break: when the drain of a Connector with a pending replace
\* starts, its replacement is up and routable, whatever the same cycle has
\* already drained on the strength of the same discovery.
ReplacementServesFirst ==
  [][\A o \in PendingOld :
       o \in Draining' \ Draining =>
         \/ pendingNew[o] \in logical' \cap Fleet'
         \/ \E p \in PendingOld : pendingNew[p] = o /\ pendingNew'[p] = NoCid]_vars

\* The replacement of a pending replace is drained only by giving that
\* replace up, or by the completion of a replace of its own.
ReplacementKept ==
  [][\A o \in PendingOld :
       pendingNew[o] \in Draining' \ Draining =>
         \/ pendingNew'[o] = NoCid
         \/ pendingNew[o] \in PendingOld /\ pendingNew'[pendingNew[o]] = NoCid]_vars

\* The autoscaler's scale-up, decided once and executed call by call, stays
\* within max_connectors at every one of its provisions.
ScaleUpWithinCeiling ==
  [][job.stage = "scale_up" /\ containers' # containers =>
       Cardinality(Fleet') <= Max]_vars

\* A cordon acknowledged to the operator keeps the Connector from being drained
\* by any cycle or override, unless it is part of a pending replace.
CordonRespected ==
  [][\A c \in cordoned : c \in Draining' \ Draining => c \in PendingPair]_vars

\* A cordon row does not outlive its Connector (loop.py _finish_drain removes
\* it) except where a call failed: one failure leaves at most one row behind.
PhantomsPerFault == Cardinality(cordoned \ (containers \cup Draining)) <= faults

-----------------------------------------------------------------------------
(***************************************************************************)
(* The abstract life of a Connector.                                       *)
(***************************************************************************)
PhaseOf(c) ==
  IF c \in logical THEN IF c \in containers THEN "serving" ELSE "made"
                   ELSE IF c \in containers THEN "unrouted" ELSE "absent"

Lifecycle == INSTANCE ConnectorLifecycle
               WITH phase <- [c \in Cid |-> PhaseOf(c)], mishaps <- faults

\* The loop keeps every Connector on the path of ConnectorLifecycle through
\* all its handlers (provision, scale-down, replace, drain, override): created,
\* given a container, unrouted, stopped, in this order and never back, but for
\* the steps in which a call fails, an answer is lost or a container vanishes.
LifecycleKept == Lifecycle!Spec

-----------------------------------------------------------------------------
\* What comments and documents of the repository say beyond the above.

\* "Every override is actuated through the same floor/ceiling- ... paths"
\* (README.md): an override provisions for scale only below max_connectors.
ManualScaleWithinCeiling ==
  [][job.stage = "idle" /\ job'.stage \in {"manual_up", "manual_foreign"} =>
       Cardinality(Fleet) < Max]_vars

\* "best-effort; never raises" (loop.py:1191): recording the provision of a
\* replacement does not keep its pending replace from being registered.
ReplacementRegistered ==
  [][job.step = "started" /\ job.target # NoCid /\ job'.step # "started" =>
       pendingNew'[job.target] = job.fresh]_vars

-----------------------------------------------------------------------------
\* Liveness.

\* Every drain ends and gives its slot in _draining back.
DrainsEnd == \A c \in Cid : c \in Draining ~> c \notin Draining

\* A fleet below the floor is filled again.
FloorRestored == []<>(Cardinality(Fleet) >= Min)

\* Every pending replace is resolved: completed, timed out or forgotten.
ReplacesResolve == \A c \in Cid : c \in PendingOld ~> c \notin PendingOld

\* An accepted override is answered.
OverridesAnswered == override # NoOverride ~> override = NoOverride

\* A requested stop is carried out, drains included.
StopCompletes == stopping ~> ~stopping
=============================================================================
