# Fleet Commander: TLA+ models, model checking and proofs

Fleet Commander (`fc`) keeps a fleet of Twingate Connectors at the right size
and in good health. One asyncio process polls a container platform and the
Twingate tenant, decides, and acts; operators can override it over HTTP. This
directory models that behaviour in TLA+, checks it with TLC on small instances
and proves part of it with TLAPS for all of them.

All paths below are relative to the repository; the Python package is
`src/fc/`.

## 1. Inventory

| Component | State it keeps | Operations | Talks to |
|---|---|---|---|
| Control loop (`loop.py`) | `_first_seen`, `_first_unhealthy`, `_pending_replaces`, `_draining`, `_action_lock`, `_override_lock`, all in memory | `run_cycle` (discover, collect, decide scale, act, pending replaces, decide health, act), `manual_scale/cordon/replace`, background `_finish_drain`, `await_pending_drains`, `teardown_fleet` | everything below |
| Decisions (`engine/decider.py`, `engine/policy.py`) | none | `decide_scale`, `decide_health` and their rules | called by the loop |
| Aggregator (`engine/aggregator.py`) | samples per Connector, in memory | `ingest`, `prune`, `reduce`, `reduce_per_connector` | filled and read by the loop |
| State store (`state.py`) | SQLite: cooldown timestamps, cordons, action log | `set_cooldown`, `set_cordon`, `record_action`, `count_recent_restarts`, ... | loop, status routes |
| Twingate client (`twingate/client.py`) | none | `list/create/delete_connector`, `generate_tokens`, retries with backoff | the tenant |
| Actuators (`actuator/*`) | the platform's containers or tasks | `provision`, `deprovision`, `restart`, `list_managed` | Docker, ECS, ACI |
| Collectors (`collectors/*`) | previous counters per container | `collect` | Docker stats, logs |
| Override API and status UI (`api/*`, `status.py`) | snapshot, event ring | override endpoints, status page, readiness | loop, state store |
| Process (`main.py`) | stop event | start, signal handler, graceful exit, `fc-teardown` | loop |
| Configuration, platform selection, observability | settings | validation, construction, logging, gauges | start-up only |

What is hard here:

* **Interleaving.** A cycle, an override and the stop/remove parts of drains
  exclude each other through `_action_lock`, but the grace wait of a drain runs
  outside it, so the fleet changes under way between a drain's start and end,
  for minutes.
* **Two systems without a transaction.** A Connector is a logical object in the
  tenant and a container on the platform. Provision and deprovision touch both,
  in opposite orders, and any call may fail, with or without having taken
  effect.
* **Partial memory.** A restart keeps cooldowns, cordons and the action log and
  forgets pending replaces, drains and ages.
* **One discovery, many actions.** A cycle reads the fleet once and then scales,
  completes replaces and remediates on that list.
* **Calls with an inside.** A mutation is retried without an idempotency key; an
  ECS restart is four kinds of call with a wait in it; a request whose answer is
  lost may be executed later, or after the manager has died.
* **Two processes.** `fc-teardown` acts on the same fleet as the manager, with
  another lock.
* **Control.** The scale decision is in closed loop with a load it sees only
  through a sliding window.

What makes each part correct:

* control loop: routing is stopped before a container is; no drain takes the
  fleet below the floor; a replace drains the old Connector only once the new
  one serves; cordons are respected; a failure strands at most what it hit; no
  drain, replace, override or stop hangs;
* decisions: bounds for every policy, no contradictory verdicts;
* aggregator and control: no reaction to evidence from before the last
  scale-up, no flapping, relief under sustained load;
* state store: what must survive a crash does;
* Twingate client: what a retried or late mutation does is bounded by what went
  wrong;
* actuators: the tokens of a Connector are never active in two instances;
* collectors: no rate that was not there, no idleness a failed read made up;
* teardown: beside a manager it strands nothing and no Connector is drained by
  both.

The hazards, each with its line and the properties that would catch it, are
listed in `PROJECT.json`.

## 2. Modules

| Module | Models |
|---|---|
| `Decider` | `policy.py` and `decider.py` as pure operators |
| `FleetLoop` | the control loop with overrides, drains, crashes and failures; uses `Decider` |
| `ConnectorLifecycle` | the abstract specification: the life of a Connector; implemented by `FleetLoop` and, call by call, by `ConnectorOps` |
| `Teardown` | `fc-teardown` beside the manager, which may be up, down or restarted; extends `FleetLoop` |
| `Failures` | ids and the count of mishaps, shared by the next three |
| `TwingateClient` | the mutations of the tenant with their retries |
| `Actuators` | the calls Docker, ECS and ACI make of provision, restart and deprovision |
| `ConnectorOps` | the two composed: the loop's operations call by call |
| `Autoscaler` | aggregate, decide, act in closed loop with the load; uses `Decider` |
| `Signals` | collectors, retention, windows and percentiles |
| `DeciderProofs`, `FleetLoopProofs`, `LifecycleProofs`, `AvailabilityProofs`, `TeardownProofs`, `ConnectorOpsProofs`, `AutoscalerProofs`, `SignalsProofs` | theorems (section 5) |
| `MCFleetLoop`, `MCTeardown`, `MCConnectorOps` | symmetry for TLC |

    ConnectorLifecycle <--refines-- FleetLoop <-- Teardown
           ^                           ^
           |            Decider -------+------> Autoscaler       Signals
           +-------refines off ECS--------------------+
    Failures --> TwingateClient, Actuators --> ConnectorOps

`FleetLoop` has the loop's decisions in full and each outside call as one step
that works, fails, or fails after it took effect. `ConnectorOps` has the calls in
full and leaves the decisions open. `Autoscaler` has the decision on load in full
and takes readings and actions as ideal; `Signals` has the readings. This is how
the system is cut so that each part stays within TLC's reach; that
the parts agree is checked as far as they implement the same `ConnectorLifecycle`
and use the same `Decider`.

Operators named `...Unclamped`, `...Ignoring...` and so on, each under a
"Seeded bug" comment, are alternatives to the operator after them with a
plausible bug. No model uses them; putting one in the place of the correct
operator must make a run fail, which is how the properties themselves are
tested.

### Decider

Percentages and rates are natural numbers. A windowed mean is the exact
quotient `[sum, n]`, with `n = 0` for Python's `None`; comparisons with a
watermark multiply out, so nothing is rounded. Throughput is compared in
megabits as `bps_to_mbps` does. `ScaleVerdict` is the order of `decide_scale`:
floor fill, replace suppression, scale-up with its ceiling and cooldown,
scale-down with its floor and cooldown. Health takes one of four readings of a
Connector (`alive`, `starting`, `failing`, `unknown`), the classes `decide_health`
and `_is_replacement_healthy` tell apart.

### FleetLoop

State, by where it lives:

* tenant and platform: `logical`, `containers`;
* SQLite, survives `Crash`: `cordoned`, `restarts`, `upLeft`, `downLeft`;
* memory: `seenFor`, `unhealthyFor`, `pendingNew`, `pendingFor`, `drain`,
  `lock`, `job`, `override`, `stopping`.

`job` is the program counter of whoever holds the lock as a cycle or an
override: the list it read (`view`), what it has still to do (`todo`, `left`),
and the provision it is in the middle of (`step`, `fresh`, `target`). One action
is what runs between two awaits at which control can be lost, so a crash or a
failure may fall between any two of them:

| Code | Actions |
|---|---|
| `run_cycle` up to the decision | `BeginCycle` |
| `_provision_one` | `CreateConnector`, `StartContainer`, `RecordProvision`, and `...Fails` |
| `_act_scale`, `manual_scale` down | `ScaleDownVictim`, `FinishScale`, `FinishManualDown` |
| `_process_pending_replaces` | `ProcessPending` (gone, completes, times out, waits) |
| `decide_health`, `_act_health` | `DecideHealth`, `RestartOne`, `BeginReplace`, `EndCycle` |
| `_finish_drain` | `DrainGraceOver`, `DrainStop`, `DrainStopFails`, `DrainRecord` |
| override endpoints | `RequestOverride`, `StartOverride`, `OverrideDiscoveryFails` |
| the `except` around decide/act, and SQLite errors in an override | `StoreError` |
| SIGTERM, exit, SIGKILL | `RequestStop`, `GracefulRestart`, `Crash` |

Abstractions:

* *Time.* Durations are ticks and timestamps ages that saturate at their
  threshold. `Tick` is enabled while the lock is free: a cycle takes seconds,
  thresholds are minutes. A threshold of 1 tick lets an age be below or at it, of
  0 makes it always passed; no rule compares two thresholds with each other, so
  larger ones only lengthen behaviours.
* *Load and health* are arbitrary at every cycle: whatever the collectors and the
  tenant report, a verdict of `decide_scale` for high, low or normal load. Past
  its grace a Connector that never sent a heartbeat counts as failing, as in the
  code.
* *Victims.* `_pick_victims` takes the first eligible Connectors in discovery
  order, which the code calls arbitrary; the model takes any.
* *Ids* come from a finite pool. Twingate never reuses one; the model may mint an
  id again when nothing refers to it any more, which no property can tell from a
  new one, since what is remembered under an id is reset by `Mint`. An empty pool
  makes `connectorCreate` fail. Ids are symmetric.
* *Failures.* `FaultKinds` names what may go wrong and `MaxFaults` how often. A
  call may fail after it took effect. A failing SQLite write that follows a failed
  API call in the same handler (two failures in a row) is not distinguished from
  either one.
* *Stop.* A cycle that waits for the lock when the stop comes still runs, as in the
  code: it is the behaviour in which the stop comes after it. Nothing else depends
  on which of the two was first.
* *Platform.* A restart keeps the container: Docker and ACI restart in place. What
  the ECS restart does differently is in `ConnectorOps`.

### ConnectorLifecycle

Four phases: absent, made (in the tenant, no container), serving, unrouted (a
container nothing is routed to). A Connector moves forward only, and any step off
the path or against it is one of the counted `mishaps`. `FleetLoop` maps to it
with `PhaseOf`, which reads `logical` and `containers` only, and `faults`;
`LifecycleKept` is `Lifecycle!Spec` under that mapping. `ConnectorOps` maps to it
with a `PhaseOf` of its own, over the tenant and the instances, and
`CallsKeepLifecycle` says so of Docker and ACI. On ECS it is not true: a restart
there stops a task before it runs the next, so an exhausted wait, a lost stop or
a run that places no task moves the Connector off its path.

### Teardown

`TdDiscover` to `TdDone` are `teardown_fleet` and its drains in a process of its
own: its `_draining` is empty, its lock is not the manager's, so every step of
it interleaves with every step of the manager. The state of the manager is that
of `FleetLoop` and `ManagerStep` is any step of it. `ManagerExits` and
`ManagerStarts` are `docker compose stop` and `start`; the README of the
repository asks operators to run the teardown first. `tdListed` and `tdAlone` are
history that no action reads. Ids the teardown still refers to are not minted
again.

### TwingateClient, Actuators, ConnectorOps

`tw` is the mutation under way, with its attempt; `act` the actuator's operation,
with the call it is at. A call succeeds, is refused, or a mishap befalls it: it
is not executed, or executed without an answer, or executed later (`twLate`,
`runLate`, `stopLate`; an in-place restart is not executed late), which may be after the manager has given up, retried or
died. `platform` is chosen once. The table at the head of `Actuators` gives the
calls of each platform; each call is an action, e.g. `EcsDescribe`, `EcsStop`,
`EcsPoll` and `Run` for the ECS restart, with the failure of the last poll and the
run that places no task as outcomes of their own. An instance is `running`,
`stopping` (ECS only), `exited` or gone; `owner` says whose tokens it carries.

`ConnectorOps` runs them under the action lock: a cycle discovers (`view`: the
instance each Connector was seen with), then provisions, drains and, in its
health phase, restarts and provisions at will, at most one restart per
Connector; the removal at the end of a drain takes the lock for itself. `Crash`
forgets everything but the tenant and the platform. Platforms give no instance id
twice while somebody refers to it, and neither does the tenant.

### Autoscaler

One tick is a poll interval. `demand` is the load of the tenant in CPU levels,
spread over the Connectors in any way (traffic sticks to Connectors).
`Ingest` keeps `Window + 1` samples per Connector (the cutoff is inclusive),
`Reduce` pools them for the fleet and per Connector, and `Decision` is
`DecideScale`. A Connector gives no reading in the first cycle that sees it
(`Unread`), as `docker_stats` has no earlier counter to subtract, and any reading
may be missing with `MayMiss`. Actuation is ideal here. `steady`, `sinceUp` and `grown` are
history the properties read and no action does. `ConnectorLost` occurs at the
floor, where it makes the fill necessary.

### Signals

One Connector. In each tick it carries a load, which the kernel's counters
(`counter`) and the image (`meter`) count; a restart resets both under the same
container id, a recreation by janus starts them under another. A cycle reads the
counters and the last line of the log, either of which may fail, and gives both
samples to the aggregator, the line's under its own time or, if it tells none,
under that of the read (`LineTime`). `total` (what the Connector really carried up to each
tick), `ever` (every sample given to the aggregator) and the fields `from`, `to`
`unbroken` and `dated` of a sample are history. `buffer` stands for `_samples`: the places
in `ever` of the samples that have not been pruned. Rates are multiples of `1 / Unit` and percentiles are taken
times 100, so the arithmetic is whole; the CPU percentage is rounded down where
the code has a fraction, in the model and in its reference alike. CPU and
bytes share one load.

## 3. Runs

Each run checks a question of its own; the `about` in `PROJECT.json` states it.
Symmetry is used for safety only.

| Run | Instance | Properties |
|---|---|---|
| `Auto` | 4 ids, floor 2, ceiling 3, stop command, one Twingate, container or SQLite failure or one crash | `TypeOK`, `DrainingIsUnrouted`, `FloorKept`, `ScaleUpWithinCeiling` |
| `Overrides` | 3 ids, floor 2, ceiling 3, every override, one such failure | `LeaksPerFault`, `PhantomsPerFault`, `ActionsSerialized`, `CordonRespected`, `ReplacementKept`, `ReplacementServesFirst` |
| `LiveAuto` | 3 ids, fair, one lost container | `DrainsEnd`, `FloorRestored`, `ReplacesResolve` |
| `LiveStop` | 3 ids, fair, stops and replace overrides | `StopCompletes`, `OverridesAnswered` |
| `Teardown` | 3 ids, floor 2, ceiling 3, stop command, one failure, one teardown | `TdTypeOK`, `OneDrainer`, `SharedLeaksPerFault`, `ListedAreGone`, `TeardownEmptiesFleet`, `LifecycleKept` |
| `Ops` | 2 Connectors, 2 instances, all three platforms, 2 attempts, 2 polls, one mishap, fair | `OpsTypeOK`, `SingleActiveToken`, `OperationsEnd`, `DrainBeforeStop`, `CallsKeepLifecycle` |
| `ScalerQuorum` | 3 Connectors, quorum 2/3, watermarks 4 and 1, levels up to 4, demands 0 and 10, window of 1, cooldowns of 3, fair | `TypeOK`, `BoundsHold`, `FreshEvidence`, `NoFlapping`, `Settles`, `Relieves` |
| `Signals` | 3 ticks, 3 cycles, windows of 1 and 2, 2 cores, p50 and p95 | `SignalsTypeOK`, `ThroughputHonest`, `NoFalseIdle`, `WindowsComplete`, `EvidenceRecent`, `PercentilesRank` |

All hold. Those that are theorems as well (section 5) hold for all instances, and
their runs are a cross-check of the statement.

Why the bounds are enough. *FleetLoop:* four ids are a fleet at its ceiling and a
replacement on its way, or a fleet at its floor with two drains and
replacements; three are a floor fleet and one more. Floor 2 is the least the
configuration allows. One failure reaches every error path of every handler, and
`Auto` holds with two as well (3.3 million states, too slow to keep). Three are
different for `FloorKept`: if the floor fill fails in three cycles, a failing
Connector of the short fleet is restarted and then replaced, the replacement
counts as the missing capacity so that no fill follows, and the replace's
completion drains below the floor. `Step = 1` makes a scale action of one, and
floor fill provisions two; larger steps, and lossy collectors for `Autoscaler`,
are covered by the theorems. `Overrides` takes cooldowns, grace and the
unhealthy threshold as passed and replace timeouts of one tick, so operators meet
every phase of a replace. *Teardown:* three ids let the teardown drain two Connectors
while the manager drains or makes a third. *ConnectorOps:* one Connector drains or
is lost while another is made or restarted; two instances are the old and the new
task of a restart, which `SingleActiveToken` is about; two attempts and two polls
are a retry and an exhausted wait. When no instance is left a run call fails.
*Autoscaler:* the larger demand saturates two Connectors and spreads over three
with up to two of them saturated, and demand 0 leaves them idle. Two samples are in
the window. The cooldowns of three ticks outlast it and the cycle in which a new
Connector is unread, and a growth from two hot Connectors to three leaves 8 against 6
in `WatermarksApart`: `Prudent` holds, so `NoFlapping` is not vacuous, and a new
Connector may take load off the others before its own first reading.
*Signals:* three ticks are the first read, one
after it and one more after a restart, a failure or a quiet tick, and the windows
are shorter than the behaviour, so samples leave them.

Deadlock is checked everywhere but in `Signals`, whose time is bounded.

Some combinations are left out on purpose because the property does not hold
there and no code could make it hold: a container that vanishes between
discovery and drain (`loss`) defeats any floor and any replace, and so
`FloorKept` and `ReplacementServesFirst` are checked without it. A crash strands
every drain in progress, not one, so `LeaksPerFault` and `SharedLeaksPerFault`
are stated without crashes; what they say of graceful restarts is in the theorem
`LeaksAreFaults`, as `Overrides` has no stop; and the latter excepts a teardown that a database
error made give up, which cancels its drains. `FloorKept` together with manual
scale-downs is a finding (below); with manual replaces it fails for a fleet that
was below the floor before, in the way just described. `NoFalseIdle` excepts a
container restarted while it is watched: the CPU counter goes backwards, and
`_clamp_pct` makes 0 percent of it where `throughput_from_totals` makes nothing.

### Fairness

`LiveAuto`, `LiveStop` and `ScalerQuorum` use `FairSpec`. A step of the holder of
the lock that waits for nothing is weakly fair: calls have timeouts and the
event loop runs what is ready. Taking the free lock is strongly fair:
`asyncio.Lock` wakes its waiters in the order in which they asked, so nobody who
keeps waiting is overtaken for ever. The poll timer (`BeginCycle`) and the clock
(`Tick`) recur. Nothing is assumed of operators, of Twingate's health reports, of
the load or of failures.

`ConnectorOps` assumes that a call under way is answered or times out and that
the loop goes on after it (weak fairness of `TwMoves \/ ActMoves` and of the
continuations); that a cycle ends some day, as its decisions are a finite list
(strong fairness of `EndCycle`, since the model lets a cycle decide without end);
and the order of the lock for the removals (strong fairness of
`DrainGraceOver`). It does *not* assume that a stopping task stops, that a late
request arrives or that a cycle begins: `OperationsEnd` holds because
`_wait_until_stopped` counts its polls.

## 4. Findings

Runs named `Find...` check a sentence of the repository's documents or comments
and fail, each with a short counterexample:

* `FindDrainMissesTask`: a Connector whose drain this cycle has just started is
  still in the list the health phase decides on and may be restarted in the same
  cycle ("never re-selected or re-remediated this cycle"). On ECS the restart
  puts it into another task, and the drain, which stops the task of the
  discovery, ends with success while the new task runs on ("Returns whether the
  container was actually removed").
* `FindFloorOverrides`: a manual scale-down during a replace counts the
  replacement; the replace's completion then goes below the floor ("the fleet
  never dips below the floor mid-replace").
* `FindManualCeiling`: a manual scale-up that names another Remote Network counts
  that network's Connectors and provisions in the managed one, beyond the ceiling
  ("Honors the ceiling on scale-up").
* `FindReplaceUnregistered`: a SQLite error while the replacement's provision is
  recorded leaves a running replacement and no pending replace ("best-effort;
  never raises").

Visible in the models, not stated by a run:

* A replace drains its Connector although it was cordoned meanwhile
  (`CordonRespected` excepts it). If the old Connector is still unhealthy when
  the replace completes, the health phase of the same cycle may remediate it
  again.
* A crash after a drain was started and before the cooldown was written leaves no
  cooldown.
* Half-made and half-removed Connectors stay for ever, as the fleet is built from
  containers and a second drain stops at `connectorDelete` (`LeaksPerFault` bounds
  how many there are). `_discover` says that logical-only Connectors "are
  reconciled on a later cycle"; nothing does so. ARCHITECTURE.md says that a container
  whose removal failed "will be picked up again on the next cycle": a scale-down may
  pick it, and gives up at `connectorDelete`, which is refused now.
* `fc-teardown` passes over such a container too, and beside a running manager the
  floor is filled again behind it: `TeardownEmptiesFleet` needs the manager down
  (`tdAlone`) and counts the failures.
* `EcsActuator.restart` does not look at what `RunTask` answers, as `provision`
  does: without capacity it reports success and the Connector has no task.
  A restart that fails after the stop leaves a Connector without compute as well.
* A stopping task that outlives `stop_wait_attempts` fails the restart and then
  stops all the same.
* Growth does not last under every policy. In the first cycle after a scale-up the
  new Connector may have taken over the load and is not read: a fleet of two
  under watermarks 4 and 1, a window of one tick and a load of 4 on one Connector
  grows to three, the old one now reads 0, and the mean over the window is exactly
  the low watermark, so the same load takes it down again. `NoFlapping` states the
  conditions under which this does not happen (`Prudent`): the scale-up cooldown
  outlasts the window by more than a cycle, the scale-down cooldown is longer than
  two windows, and the load that triggers a scale-up is above the low watermark of
  the grown fleet even with one cycle of the window unread (`WatermarksApart`).
* The shipped policy (watermarks 75 and 25, quorum 0.5, two to six Connectors, step
  1, window 300 s, polls of 30 s, cooldowns of 600 s and 1800 s) has the
  cooldowns for it. Its watermarks are far enough apart from three Connectors on,
  not at two: one hot Connector of two shows 75 in ten of eleven cycles, and three
  Connectors at 25 need more. With a low watermark of 20 they would be.
* The shipped throughput window (1200 s) is longer than the scale-up cooldown
  (600 s), so a second scale-up may still react to samples from before the first.
* The last metrics line of a log is ingested once per cycle until the next one is
  written, and weighs accordingly. A line without a `ts`, or with one that cannot
  be parsed, is dated by the clock at every read (`parse_payload_ts`), so the last
  such line of a Connector that has stopped writing stays in its window for ever;
  `EvidenceRecent` is about dated lines.
* An old Connector of a replace that has lost its logical Connector wedges that
  replace, and with it autoscaling.

## 5. Proofs

All proofs hold for every pool of ids, policy, set of commands and failures and
bound, under the named assumptions of the modules: `PolicyAssumption` and the
like (what `config.py` validates) and finite pools. Theorems that need more state
it as their ASSUME.

`DeciderProofs`: `VerdictInBounds` (a scale-up stays within the ceiling, a
scale-down above the floor, a fill restores exactly the floor), `LowLoadIsNotHigh`
(needs only that low watermarks are below high ones) and `QuorumReachable`.

`FleetLoopProofs`:

* `Invariance`: `IInv` is inductive. It joins `TypeOK`, `DrainingIsUnrouted` and
  `ActionsSerialized` with `JobOK`, which they need: an idle job is blank, a
  provision under way has an id, and a restart is planned only for a Connector
  with restarts left (without it the restart count could leave its type).
  `TypeCorrect`, `DrainSafety` and `Serialization` follow.
* `CordonKept`: an action property. `CordonInv` adds that the victims of a
  scale-down are uncordoned for as long as they wait and that the replaces to be
  processed are pending; `DrainsStartIn` says which steps start a drain.
* `CeilingKept`: an action property. `CeilingInv` adds that the provisions a
  scale-up has still to make fit above the fleet as it is now; it rests on
  `VerdictInBounds` for the first step and on serialization for the others, since
  no drain may end and no override act in between.

`LifecycleProofs`:

* `LifecycleRefined`: `FleetLoop` implements `ConnectorLifecycle`. `LifeInv` adds
  to `IInv` that the Connector just created is in the tenant and has neither a
  container nor a drain (`FreshOK`: else starting its container would be no step
  of the path) and that a drain that records has removed its container. Each
  action then changes the phase of one Connector along the path, or of several
  at a mishap.
* `LeaksAreFaults`, for fault kinds without `crash`: `Unmade` and `Unstopped` are
  the two sets of stranded Connectors; a step leaves both within what they were
  or counts a failure and adds one element to one of them (`LeakStep`).
* `PhantomsAreFaults`: the same argument for cordon rows, crashes included.

`AvailabilityProofs`, on what the fleet keeps in service:

* `ReplacementsKept`, without further assumptions. `ReplaceInv` adds that no two
  pending replaces share a replacement (`Injective`), that the Connector being
  provisioned belongs to none (`FreshApart`) and that no victim of a scale-down
  does (`VictimsApart`). Which drains a step may start is `DrainsStartBy` of
  `FleetLoopProofs`.
* `MakeBeforeBreak`, for fault kinds without `loss`. The cycle decides on a
  discovery that is old by the time it acts: `ServeInv` says that every replacement
  it has read as alive, of the replaces it has still to go through (`Ahead`),
  serves all the same, since nothing drains a replacement meanwhile. A
  container that vanishes in between is what the hypothesis excludes.
* `FilledForGood` and `DrainsKeepFloor`, for a manager left to itself
  (`Unattended`: operators stop, cordon and uncordon, and nothing is lost from
  outside; a manual scale-down counts replacements and goes below the floor, as
  `FindFloorOverrides` shows). `Filled` is the inductive invariant of a fleet that
  has reached the floor: one Connector in reserve for each pending replace and for
  one about to be registered, and enough above the floor for all victims of a
  scale-down. It holds for any number of failures and crashes. Before the
  floor is reached there is no reserve, and what keeps the fleet from draining is
  that it takes three failures to get as far as a replace: one that leaves a
  Connector behind when the rest of the fill failed, one that restarts it, one
  that gives it up. `Filling` counts them stage by stage (`Spent`), which needs
  `FewFailures` (two at most; with three the property is false) and
  `PoolSuffices` (the pool of ids, a bound of the model and not of the code, is
  larger than the floor plus the failures, so a provision never fails for want
  of an id). `FloorInv == Filled \/ Filling` is then inductive. The run `Auto`
  satisfies the three hypotheses.

`TeardownProofs` extends the above to two processes. `TdEffect` says what the
teardown can change of the manager's world (things go, nothing comes), and `IInv`
is preserved by any such step, which gives `ManagerUndisturbed`. `TdInv` adds
that what the teardown drains is out of the tenant; since the manager drains only
what it has just deleted itself, `OneDrainerOnly` follows. `SharedLeaksAreFaults`
(no `crash`) needs `Apart`: the Connector the manager is just making is not the
teardown's. `SharedLifecycle` shows that the two together still implement
`ConnectorLifecycle`: the manager's steps by `LifecycleRefined`, the teardown's own
one by one. `ListedGone` and `EmptiesFleet` (no `crash`: a crash strands every drain
of the manager at once) follow from `AstrayInv`: a Connector that is half-made,
half-removed, neither, or that `connectorDelete` was called for in vain costs a
failure of its own, so they never outnumber the failures; `TdPhases` says what each
stage of the teardown has dealt with.

`ConnectorOpsProofs`:

* `TokenInvariance`: `TokenInv` is inductive. A Connector has one instance at most
  that is active or may become so (`Lone`), none while a lost run call may
  still start one (`LateLone`) or before its own run call (`RunFirst`), and on ECS
  the discovered task is the only one until the cycle restarts the Connector
  (`ViewSole`, `RestartSole`: here the wait for STOPPED is used, with the fact
  that a stopped task does not start again). `OneTokenOneInstance` follows.
* `DeletedBeforeStopped`: `DrainInv` adds that a Connector being drained is out of
  the tenant and that the instance to stop is its own or nobody's.
* `OpsTypeCorrect`: `Bounds` (attempts and polls are below their limits) and
  `Removals`, which ties the entry of a drain in its second phase to the removal in
  progress and its instance to one that discovery had seen.
* `CallsRefineLifecycle`: off ECS, every call, lost, late, retried or cut off by a
  crash, is a step along the path of `ConnectorLifecycle`, a counted mishap or no
  step at all. It uses `TokenInv` (an instance about to be run is the
  Connector's first) and `DrainInv` (what is stopped is unrouted).

`AutoscalerProofs`: `BoundsAlwaysHold` from `VerdictInBounds` and the sizes of the
sets `Cycle` adds and removes; `ScalerTypeCorrect`, with the length of the
windows; `EvidenceIsFresh` from `PaceInv`: what is
left of the cooldown and what has passed since the last scale-up make up the
cooldown. `GrowthLasts` states `NoFlapping` from `FlapInv`, which joins the
bounds and the pace with `LoadInv`, in three parts. `Windows`: a window misses at
most its Connector's first reading, and is full once the scale-up cooldown is over.
`Shares`: the readings of each of the last `steady` cycles (`Slice`) add up to
no more than the demand, and to all that the fleet can show of it in the cycles that
are neither the first after a scale-up nor before a scale-down. `Lasts`: once a
scale-up was made on readings of one demand alone, some share of it is read in
every cycle but the first after that scale-up, and `Window` times this share is
more than the low watermark of the grown fleet. That share exists when the fleet
grows (`GrowthStarts`): its windows are full, so what triggers the scale-up
(`HotPool`, `HotGrowth`, where `WatermarksApart` is used) comes from at least that
much demand. A fleet that shrinks has a pool below the low watermark
(`ColdShrink`), and the pool is no less than all its slices but one (`PoolAtLeast`),
which together is a contradiction (`NoShrink`); the scale-down cooldown
makes sure that the slices it forgot with removed Connectors have left the windows.
The sums are those of `MapThenSumSet`; induction over a finite set is
on a set of its subsets (`SetInduction`) in place of an operator.

`SignalsProofs`: `SignalsInvariance`, that `SignalsInv` is inductive. What a counter
has gained since its last reading is what the Connector carried since, or less if
it was restarted in between (`KnownOK`); the image's meter and its last line
are exact (`MeterOK`, `LineOK`); and every sample ever taken is right about its
interval (`Sound`, from `SampleSound`: the rate is whole because `Unit` is a multiple
of the interval, the clamp alters nothing because no tick carries more than
the cores can, and a dated line counts as of its end). `SignalsTypeCorrect`, `RatesAreHonest`, `BusyLooksBusy`,
`WindowsMissNothing` and `WindowsAreRecent` follow, the fourth with `BufferOK`: time
only goes on, so what is pruned by the longest window is in no window later.
`PercentilesAreRanks` states `PercentilesRank`: as many values as the percentage
asks for lie below the percentile and above it, and a higher percentage gives no
lower value. `Ordered` takes for each rank the smallest value that enough of the
values do not exceed (`KthSmallest`), which grows with the rank (`OrderedGrows`);
the interpolation lies between two of them (`Interpolated`), and so the
percentile grows with the percentage (`PercentileGrows`). `Ordered` is what
`sorted` yields: the prover cannot expand `SortSeq`, and TLC finds the two equal
on all short sequences.

The layout is one lemma per group of actions (`BeginCycleTypes`,
`ProvisionTypes`, ...), collected by `Next...` lemmas.

Only model-checked:

* liveness (`DrainsEnd`, `FloorRestored`, `ReplacesResolve`, `StopCompletes`,
  `OverridesAnswered`, `OperationsEnd`, `Settles`, `Relieves`): it rests on
  fairness, out of reach of the prover. Every other property of a run that passes
  is stated by a theorem;
* `FloorKept`, `ReplacementServesFirst` and the leak and teardown bounds where the
  hypotheses above exclude a kind of fault or of command. The exclusions are
  needed: a lost container, manual scale-downs and replaces, a third failure, and
  for the bounds on leaks a crash each have a counterexample (for the teardown's
  bounds it takes two drains in flight, so a ceiling of 4 and a step of 2).

## 6. Not modelled

* Containers without a connector id (seed containers FC did not create), which
  `_discover` joins by name: the key of a drain is then the container id.
* Log parsing and its schema drift, memory readings, the bodies of the calls to
  the platforms, pagination: formatting of data no decision here tells apart.
* Status page, event ring, gauges, authentication, readiness: they read state and
  change none.
* Platform selection, settings and the parsing of the policy: construction at
  start-up. The validated relations of the policy are assumptions.
* Floating point: the quorum threshold and means are exact in the models.
* Percentiles and the mean over Connectors in closed loop (`Autoscaler` has avg and
  min); `Signals` checks the percentile by itself.

## 7. Plan

Done: sections 2 to 5. What is left, in this order:

1. An abstract specification of who holds a Connector's tokens (at most one
   instance, handed over by a restart) and `ConnectorOps` shown to implement it.
2. Seed containers in `FleetLoop`, with their drains keyed by container id.
3. `HealthEscalation`: restarts, their window and the poll interval on a numeric
   clock; when a replace is reached at all.
4. What an ECS restart promises: `ConnectorLifecycle` with a phase for a Connector
   between its two tasks, so that `CallsKeepLifecycle` covers ECS too; and a
   `ConnectorOps` whose cycles decide as those of `FleetLoop` do.
