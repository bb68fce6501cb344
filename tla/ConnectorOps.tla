----------------------------- MODULE ConnectorOps -----------------------------
(***************************************************************************)
(* How the control loop carries out what it has decided: provision a       *)
(* Connector (create, tokens, run), restart one, drain one (delete, grace, *)
(* stop), as the calls to the Twingate API and to the platform of which    *)
(* these are made.  FleetLoop takes each call for one step that succeeds   *)
(* or fails; here a call has an inside, and FleetLoop's decisions are left *)
(* open: a cycle may do any of its operations to any Connector it has      *)
(* seen.  What must hold does so whatever the decisions are.               *)
(*                                                                         *)
(* The action lock lets one operation run at a time: a cycle holds it from *)
(* discovery to its end, the second phase of a drain around its one call.  *)
(***************************************************************************)
EXTENDS TwingateClient, Actuators

VARIABLES
  job,     \* the cycle: its stage, the instance of each Connector as it was
           \* discovered, and the Connectors it has restarted
  drain    \* _draining: per Connector, the phase and the instance to stop

vars == <<twVars, actVars, job, drain, faults>>

NoView  == [c \in Cid |-> NoInst]
NoDrain == [phase |-> "none", inst |-> NoInst]
IdleJob == [stage |-> "idle", view |-> NoView, remedied |-> {}]

Init ==
  /\ TwInit /\ ActInit /\ faults = 0
  /\ job = IdleJob
  /\ drain = [c \in Cid |-> NoDrain]

NoCall   == tw = NoRequest /\ act = NoAct
LockFree == job.stage = "idle" /\ NoCall
Draining == {c \in Cid : drain[c].phase # "none"}

\* Instances somebody refers to.
Held == {job.view[c] : c \in Cid} \cup {drain[c].inst : c \in Cid} \cup {act.inst} \cup stopLate

\* The tenant gives a new Connector an id nobody knows.
FreshIds ==
  Cid \ (tenant \cup {owner[i] : i \in Iid} \cup Draining \cup runLate
         \cup {r.conn : r \in twLate} \cup {tw.conn, act.conn}
         \cup {c \in Cid : job.view[c] # NoInst})

-----------------------------------------------------------------------------
(***************************************************************************)
(* A cycle                                                                 *)
(***************************************************************************)

\* Views of the Connectors that are not draining.
Views ==
  {v \in [Cid -> Iid \cup {NoInst}] :
     \A c \in Cid :
       LET seen == {i \in Iid : owner[i] = c /\ Listed(i)}
       IN  IF c \in Draining \/ seen = {} THEN v[c] = NoInst ELSE v[c] \in seen}

\* A cycle, or an override, takes the lock and discovers the fleet.
Discover ==
  /\ LockFree
  /\ \E v \in Views : job' = [stage |-> "act", view |-> v, remedied |-> {}]
  /\ UNCHANGED <<twVars, actVars, drain, faults>>

\* The scale decision and the pending replaces are done with.
ToHealth ==
  /\ job.stage = "act" /\ NoCall
  /\ job' = [job EXCEPT !.stage = "health"]
  /\ UNCHANGED <<twVars, actVars, drain, faults>>

EndCycle ==
  /\ job.stage # "idle" /\ NoCall
  /\ job' = IdleJob
  /\ UNCHANGED <<twVars, actVars, drain, faults>>

-----------------------------------------------------------------------------
(***************************************************************************)
(* Provision                                                               *)
(***************************************************************************)

\* _provision_one, for a scale-up or for the replacement of a replace.
BeginProvision ==
  /\ job.stage # "idle" /\ NoCall
  /\ Request("create", NoCid)
  /\ UNCHANGED <<tenant, twLate, actVars, job, drain, faults>>

\* create_connector or generate_tokens returns or raises.
ProvisionContinues ==
  /\ tw.op \in {"create", "tokens"} /\ ~TwPending
  /\ CASE tw.outcome = "failed" -> tw' = NoRequest /\ UNCHANGED act
       [] tw.outcome = "ok" /\ tw.op = "create" -> Request("tokens", tw.conn) /\ UNCHANGED act
       [] tw.outcome = "ok" /\ tw.op = "tokens" ->
            tw' = NoRequest /\ Call("provision", tw.conn, NoInst)
  /\ UNCHANGED <<tenant, twLate, platform, owner, status, taskDef, runLate, stopLate,
                 job, drain, faults>>

\* provision or restart returns or raises: either way the cycle goes on.
CallReturns ==
  /\ act.op \in {"provision", "restart"} /\ ~ActPending
  /\ act' = NoAct
  /\ UNCHANGED <<twVars, platform, owner, status, taskDef, runLate, stopLate,
                 job, drain, faults>>

-----------------------------------------------------------------------------
(***************************************************************************)
(* Restart                                                                 *)
(***************************************************************************)

\* _restart_one: one health action per Connector and cycle, on the Connectors
\* discovered at its beginning, those this cycle has begun to drain included.
BeginRestart(c) ==
  /\ job.stage = "health" /\ NoCall
  /\ job.view[c] # NoInst /\ c \notin job.remedied
  /\ Call("restart", c, job.view[c])
  /\ job' = [job EXCEPT !.remedied = @ \cup {c}]
  /\ UNCHANGED <<twVars, platform, owner, status, taskDef, runLate, stopLate, drain, faults>>

-----------------------------------------------------------------------------
(***************************************************************************)
(* Drain                                                                   *)
(***************************************************************************)

\* _deprovision_one, for a scale-down or for the old Connector of a replace.
BeginDrain(c) ==
  /\ job.stage = "act" /\ NoCall
  /\ job.view[c] # NoInst
  /\ Request("delete", c)
  /\ UNCHANGED <<tenant, twLate, actVars, job, drain, faults>>

\* Seeded bug: the drain goes on though the delete failed.
DeleteAnsweredIsDeleted ==
  /\ tw.op = "delete" /\ ~TwPending
  /\ drain' = [drain EXCEPT ![tw.conn] = [phase |-> "grace", inst |-> job.view[tw.conn]]]
  /\ tw' = NoRequest
  /\ UNCHANGED <<tenant, twLate, actVars, job, faults>>

\* delete_connector returns, and the drain task is created, or raises.
DeleteAnswered ==
  /\ tw.op = "delete" /\ ~TwPending
  /\ drain' = IF tw.outcome = "ok"
              THEN [drain EXCEPT ![tw.conn] = [phase |-> "grace", inst |-> job.view[tw.conn]]]
              ELSE drain
  /\ tw' = NoRequest
  /\ UNCHANGED <<tenant, twLate, actVars, job, faults>>

\* Seeded bug: the second phase does not take the lock again.
DrainGraceOverUnlocked(c) ==
  /\ act = NoAct
  /\ drain[c].phase = "grace"
  /\ drain' = [drain EXCEPT ![c].phase = "removing"]
  /\ Call("remove", c, drain[c].inst)
  /\ UNCHANGED <<twVars, platform, owner, status, taskDef, runLate, stopLate, job, faults>>

\* _finish_drain: the grace is over and the lock is free.
DrainGraceOver(c) ==
  /\ LockFree
  /\ drain[c].phase = "grace"
  /\ drain' = [drain EXCEPT ![c].phase = "removing"]
  /\ Call("remove", c, drain[c].inst)
  /\ UNCHANGED <<twVars, platform, owner, status, taskDef, runLate, stopLate, job, faults>>

\* deprovision returns or raises: the entry is popped either way.
RemovalReturns ==
  /\ act.op = "remove" /\ ~ActPending
  /\ drain' = [drain EXCEPT ![act.conn] = NoDrain]
  /\ act' = NoAct
  /\ UNCHANGED <<twVars, platform, owner, status, taskDef, runLate, stopLate, job, faults>>

-----------------------------------------------------------------------------
(***************************************************************************)
(* The manager dies                                                        *)
(***************************************************************************)

\* Memory is lost; a request under way has its own fate.
Crash ==
  /\ Mishap
  /\ IF TwPending THEN Unanswered(FreshIds) ELSE UNCHANGED <<tenant, twLate>>
  /\ tw' = NoRequest
  /\ Abandoned(Held)
  /\ job' = IdleJob
  /\ drain' = [c \in Cid |-> NoDrain]

-----------------------------------------------------------------------------
TwMoves  == TwStep(FreshIds) /\ UNCHANGED <<actVars, job, drain>>
ActMoves == ActStep(Held) /\ UNCHANGED <<twVars, job, drain>>

\* Without the manager's doing.
WorldMoves ==
  \/ LateRequest(FreshIds) /\ UNCHANGED <<actVars, job, drain>>
  \/ PlatformStep(Held) /\ UNCHANGED <<twVars, job, drain>>

\* The manager, once it has begun something.
Continues ==
  \/ TwMoves \/ ActMoves
  \/ ToHealth \/ EndCycle
  \/ ProvisionContinues \/ CallReturns \/ DeleteAnswered \/ RemovalReturns

Next ==
  \/ Discover \/ BeginProvision
  \/ \E c \in Cid : BeginRestart(c) \/ BeginDrain(c) \/ DrainGraceOver(c)
  \/ Continues \/ WorldMoves \/ Crash

\* A call is answered or times out; a cycle ends, as its decisions are finitely
\* many; and the action lock is first come, first served.
Fairness ==
  /\ WF_vars(TwMoves \/ ActMoves)
  /\ WF_vars(ProvisionContinues \/ CallReturns \/ DeleteAnswered \/ RemovalReturns)
  /\ SF_vars(EndCycle)
  /\ \A c \in Cid : SF_vars(DrainGraceOver(c))

Spec == Init /\ [][Next]_vars /\ Fairness

-----------------------------------------------------------------------------
(***************************************************************************)
(* Properties                                                              *)
(***************************************************************************)

\* Every variable has its type, one call is in progress at a time, and a drain
\* in its second phase is the call in progress (_finish_drain under the lock).
OpsTypeOK ==
  /\ faults \in 0..MaxFaults
  /\ tenant \subseteq Cid
  /\ tw \in [op : Mutation \cup {"none"}, conn : Cid \cup {NoCid}, attempt : 0..MaxRetries - 1,
             outcome : {"none", "pending", "ok", "failed"}]
  /\ twLate \subseteq [op : Mutation, conn : Cid \cup {NoCid}]
  /\ platform \in Platforms
  /\ owner \in [Iid -> Cid \cup {NoCid}]
  /\ status \in [Iid -> {"none", "running", "stopping", "exited"}]
  /\ taskDef \in BOOLEAN
  /\ act \in [op : {"none", "provision", "restart", "remove"}, conn : Cid \cup {NoCid},
              inst : Iid \cup {NoInst},
              step : {"none", "register", "run", "describe", "stop", "wait", "restart", "delete"},
              polls : 0..StopAttempts - 1, outcome : {"none", "pending", "ok", "failed"}]
  /\ runLate \subseteq Cid /\ stopLate \subseteq Iid
  /\ job \in [stage : {"idle", "act", "health"}, view : [Cid -> Iid \cup {NoInst}],
              remedied : SUBSET Cid]
  /\ drain \in [Cid -> [phase : {"none", "grace", "removing"}, inst : Iid \cup {NoInst}]]
  /\ tw = NoRequest \/ act = NoAct
  /\ \A c \in Cid : drain[c].phase = "removing" <=> act.op = "remove" /\ act.conn = c

\* The tokens of a Connector are never active in two instances, whatever calls
\* are lost, late or retried and wherever the manager dies: what the ECS restart
\* promises with its wait for STOPPED, and what the others get by restarting in
\* place.
SingleActiveToken == \A c \in Cid : Cardinality(Active(c)) <= 1

\* The actuator stops the instance of a Connector the tenant still routes to
\* only to restart it: a drain deletes first (Key Design Rule #4).  Faults, and
\* stop calls that were lost, are the exception.
DrainBeforeStop ==
  [][\A i \in Iid :
       /\ status[i] = "running" /\ status'[i] # "running"
       /\ owner[i] \in tenant
       => \/ act.op = "restart" /\ act.inst = i
          \/ i \in stopLate
          \/ faults' > faults]_vars

\* Every operation comes to an end: the cycle gives the lock back and every
\* drain is over some day, although a stopping ECS task may take for ever, the
\* Twingate API may not answer, and other cycles compete for the lock.
OperationsEnd ==
  /\ []<>(job.stage = "idle")
  /\ \A c \in Cid : []<>(drain[c].phase = "none")

\* A deprovision that has returned has removed what runs for the Connector
\* (_finish_drain returns whether the container was actually removed).
RemovalRemoves ==
  act.op = "remove" /\ act.outcome = "ok" =>
    \A i \in Iid : owner[i] = act.conn => status[i] # "running"

-----------------------------------------------------------------------------
(***************************************************************************)
(* The abstract life of a Connector, as the calls make it.                 *)
(***************************************************************************)
Contained(c) == \E i \in Iid : owner[i] = c /\ status[i] # "none"

PhaseOf(c) ==
  IF c \in tenant THEN IF Contained(c) THEN "serving" ELSE "made"
                  ELSE IF Contained(c) THEN "unrouted" ELSE "absent"

Lifecycle == INSTANCE ConnectorLifecycle
             WITH phase <- [c \in Cid |-> PhaseOf(c)], mishaps <- faults

\* On Docker and ACI every single call, and every call that takes effect after
\* its caller has given it up or died, keeps each Connector on the path of
\* ConnectorLifecycle: no late run brings a container to a Connector that was
\* deleted meanwhile, and no late stop takes one from a Connector that is still
\* routed to.  An ECS restart leaves the path, as it stops one task before it
\* runs the next.
CallsKeepLifecycle ==
  /\ Lifecycle!Init
  /\ [][platform # "ecs" => Lifecycle!Next]_<<[c \in Cid |-> PhaseOf(c)], faults>>
=============================================================================
