------------------------------- MODULE Actuators -------------------------------
(***************************************************************************)
(* The container platforms behind actuator/base.py: Docker, ECS and ACI.   *)
(* The three give the loop the same operations (provision, restart,        *)
(* deprovision, list_managed) out of different calls:                      *)
(*                                                                         *)
(*              provision       restart                     deprovision    *)
(*    Docker    run             get, restart in place       get, stop, rm  *)
(*    ECS       [register,] run describe, stop, wait, run   stop           *)
(*    ACI       put             post restart in place       delete         *)
(*                                                                         *)
(* An instance is a container, a task or a container group.  Each call may *)
(* fail, and a call whose answer is lost may have taken effect or may do   *)
(* so later.  held is the set of instance ids somebody still refers to:    *)
(* platforms do not reuse ids.                                             *)
(***************************************************************************)
EXTENDS Failures

CONSTANTS
  Iid,            \* pool of instance ids
  NoInst,         \* "no instance"
  Platforms,      \* platforms to model
  StopAttempts    \* stop_wait_attempts of the ECS actuator

ASSUME ActuatorsAssumption ==
  /\ IsFiniteSet(Iid) /\ NoInst \notin Iid
  /\ Platforms \subseteq {"docker", "ecs", "aci"}
  /\ StopAttempts \in Nat \ {0}

VARIABLES
  platform,   \* the platform this deployment runs on
  owner,      \* the Connector whose tokens an instance carries
  status,     \* "none", "running", "stopping" (ECS), "exited"
  taskDef,    \* _task_def_arn is registered (ECS)
  act,        \* the actuator operation in progress
  runLate,    \* Connectors for which a lost run call may still be executed
  stopLate    \* instances for which a lost stop call may still be executed

actVars == <<platform, owner, status, taskDef, act, runLate, stopLate>>

NoAct == [op |-> "none", conn |-> NoCid, inst |-> NoInst, step |-> "none",
          polls |-> 0, outcome |-> "none"]

ActInit ==
  /\ platform \in Platforms
  /\ owner = [i \in Iid |-> NoCid]
  /\ status = [i \in Iid |-> "none"]
  /\ taskDef = FALSE
  /\ act = NoAct
  /\ runLate = {}
  /\ stopLate = {}

ActPending == act.outcome = "pending"

\* Instances that hold a Connector's tokens active.
Active(c) == {i \in Iid : owner[i] = c /\ status[i] \in {"running", "stopping"}}

\* What list_managed reports: on Docker every container, on ECS the tasks whose
\* desired status is RUNNING, on ACI every group.
Listed(i) == status[i] = "running" \/ (platform = "docker" /\ status[i] = "exited")

FirstStep(op) ==
  CASE op = "provision" -> IF platform = "ecs" /\ ~taskDef THEN "register" ELSE "run"
    [] op = "restart"   -> IF platform = "ecs" THEN "describe" ELSE "restart"
    [] op = "remove"    -> "stop"

\* provision, restart or deprovision is called.
Call(op, c, i) ==
  act' = [op |-> op, conn |-> c, inst |-> i, step |-> FirstStep(op),
          polls |-> 0, outcome |-> "pending"]

AtStep(s) == ActPending /\ act.step = s
Goto(s)   == act' = [act EXCEPT !.step = s]
Succeed   == act' = [act EXCEPT !.outcome = "ok"]
Fail      == act' = [act EXCEPT !.outcome = "failed"]

\* An instance that starts in state s for Connector c.
Launch(c, s, held) ==
  \E i \in Iid \ held : /\ status[i] = "none"
                        /\ status' = [status EXCEPT ![i] = s]
                        /\ owner' = [owner EXCEPT ![i] = c]

NoLaunch == UNCHANGED <<owner, status>>

\* No id left for an instance (a bound of the model).
Exhausted(held) == \A i \in Iid \ held : status[i] # "none"

\* An instance ends up in state s.
Set(i, s) ==
  /\ status' = [status EXCEPT ![i] = s]
  /\ owner' = IF s = "none" THEN [owner EXCEPT ![i] = NoCid] ELSE owner

-----------------------------------------------------------------------------
(***************************************************************************)
(* Starting an instance                                                    *)
(***************************************************************************)

\* _ensure_task_def, on the first provision of an ECS actuator.
Register ==
  /\ AtStep("register")
  /\ taskDef' = TRUE
  /\ Goto("run")
  /\ UNCHANGED <<platform, owner, status, runLate, stopLate, faults>>

\* containers.run, RunTask or PUT.
Run(held) ==
  /\ AtStep("run")
  /\ Launch(act.conn, "running", held)
  /\ Succeed
  /\ UNCHANGED <<platform, taskDef, runLate, stopLate, faults>>

\* RunTask answers without a task (no capacity): provision looks at the answer
\* and raises, restart does not look at it.
RunPlacesNothing ==
  /\ AtStep("run") /\ platform = "ecs"
  /\ Mishap
  /\ IF act.op = "provision" THEN Fail ELSE Succeed
  /\ UNCHANGED <<platform, owner, status, taskDef, runLate, stopLate>>

\* What becomes of a run call without an answer: nothing happened, or the
\* instance was started (on Docker perhaps only created), or it will be.
RunUnanswered(held) ==
  \/ NoLaunch /\ UNCHANGED runLate
  \/ Launch(act.conn, "running", held) /\ UNCHANGED runLate
  \/ platform = "docker" /\ Launch(act.conn, "exited", held) /\ UNCHANGED runLate
  \/ NoLaunch /\ runLate' = runLate \cup {act.conn}

\* The run call raises.
RunFails(held) ==
  /\ AtStep("run")
  /\ \/ Mishap /\ RunUnanswered(held)
     \/ Exhausted(held) /\ NoLaunch /\ UNCHANGED <<runLate, faults>>
  /\ Fail
  /\ UNCHANGED <<platform, taskDef, stopLate>>

-----------------------------------------------------------------------------
(***************************************************************************)
(* Restart                                                                 *)
(***************************************************************************)

\* Docker and ACI restart the instance itself, if it is still there.
RestartInPlace ==
  /\ AtStep("restart")
  /\ IF status[act.inst] = "none"
     THEN Fail /\ NoLaunch
     ELSE Succeed /\ Set(act.inst, "running")
  /\ UNCHANGED <<platform, taskDef, runLate, stopLate, faults>>

\* DescribeTasks: a task that is not known any more cannot be restarted; one
\* that has stopped still shows its tokens.
EcsDescribe ==
  /\ AtStep("describe")
  /\ IF status[act.inst] = "none" THEN Fail ELSE Goto("stop")
  /\ UNCHANGED <<platform, owner, status, taskDef, runLate, stopLate, faults>>

\* Seeded bug: the restart does not wait for the old task.
EcsPollUnawaited ==
  /\ AtStep("wait")
  /\ Goto("run")
  /\ UNCHANGED <<platform, owner, status, taskDef, runLate, stopLate, faults>>

\* Seeded bug: the polls are not counted.
EcsPollForever ==
  /\ AtStep("wait")
  /\ IF status[act.inst] \in {"exited", "none"} THEN Goto("run") ELSE UNCHANGED act
  /\ UNCHANGED <<platform, owner, status, taskDef, runLate, stopLate, faults>>

\* _wait_until_stopped: one DescribeTasks poll.  A task that is still stopping
\* at the last of them fails the restart, though it will stop.
EcsPoll ==
  /\ AtStep("wait")
  /\ IF status[act.inst] \in {"exited", "none"} THEN Goto("run")
     ELSE IF act.polls + 1 < StopAttempts THEN act' = [act EXCEPT !.polls = @ + 1]
     ELSE Fail
  /\ UNCHANGED <<platform, owner, status, taskDef, runLate, stopLate, faults>>

-----------------------------------------------------------------------------
(***************************************************************************)
(* Stopping an instance                                                    *)
(***************************************************************************)

\* StopTask only begins to stop a task, and accepts one that has stopped.
EcsStop ==
  /\ AtStep("stop") /\ platform = "ecs"
  /\ IF status[act.inst] = "none"
     THEN Fail /\ NoLaunch
     ELSE /\ IF status[act.inst] = "running" THEN Set(act.inst, "stopping") ELSE NoLaunch
          /\ IF act.op = "restart" THEN Goto("wait") ELSE Succeed
  /\ UNCHANGED <<platform, taskDef, runLate, stopLate, faults>>

\* Docker: get and stop, then delete(force).
DockerStop ==
  /\ AtStep("stop") /\ platform = "docker"
  /\ IF status[act.inst] = "none" THEN Fail /\ NoLaunch
                                  ELSE Goto("delete") /\ Set(act.inst, "exited")
  /\ UNCHANGED <<platform, taskDef, runLate, stopLate, faults>>

\* ACI: DELETE, for which 404 is as good; and Docker's delete.
Delete ==
  /\ AtStep("delete") \/ (AtStep("stop") /\ platform = "aci")
  /\ Set(act.inst, "none")
  /\ Succeed
  /\ UNCHANGED <<platform, taskDef, runLate, stopLate, faults>>

\* What a stop or delete call does to its instance when it takes effect.
StopEffect(i) ==
  IF status[i] = "none" THEN NoLaunch
  ELSE CASE platform = "aci"    -> Set(i, "none")
         [] platform = "docker" -> Set(i, "exited")
         [] platform = "ecs"    -> IF status[i] = "running" THEN Set(i, "stopping")
                                                            ELSE NoLaunch

\* What becomes of any other call without an answer: a restart in place may
\* have taken effect, a stop that or may do so later.
CallUnanswered ==
  \/ NoLaunch /\ UNCHANGED stopLate
  \/ /\ act.step = "restart" /\ status[act.inst] # "none"
     /\ Set(act.inst, "running") /\ UNCHANGED stopLate
  \/ act.step = "stop" /\ StopEffect(act.inst) /\ UNCHANGED stopLate
  \/ act.step = "stop" /\ NoLaunch /\ stopLate' = stopLate \cup {act.inst}

\* Any call but a run raises.
CallFails ==
  /\ ActPending /\ act.step # "run"
  /\ Mishap
  /\ CallUnanswered
  /\ Fail
  /\ UNCHANGED <<platform, taskDef, runLate>>

\* The process dies during a call.
Abandoned(held) ==
  /\ IF AtStep("run") THEN RunUnanswered(held) /\ UNCHANGED stopLate
     ELSE IF ActPending THEN CallUnanswered /\ UNCHANGED runLate
     ELSE NoLaunch /\ UNCHANGED <<runLate, stopLate>>
  /\ act' = NoAct
  /\ taskDef' = FALSE
  /\ UNCHANGED platform

ActStep(held) ==
  \/ Register \/ Run(held) \/ RunPlacesNothing \/ RunFails(held)
  \/ RestartInPlace \/ EcsDescribe \/ EcsPoll
  \/ EcsStop \/ DockerStop \/ Delete
  \/ CallFails

-----------------------------------------------------------------------------
(***************************************************************************)
(* The platform on its own                                                 *)
(***************************************************************************)

\* A task that is being stopped has stopped.
TaskStops(i) ==
  /\ status[i] = "stopping"
  /\ Set(i, "exited")
  /\ UNCHANGED <<platform, taskDef, act, runLate, stopLate, faults>>

\* ECS forgets a stopped task.
TaskForgotten(i) ==
  /\ platform = "ecs" /\ status[i] = "exited"
  /\ Set(i, "none")
  /\ UNCHANGED <<platform, taskDef, act, runLate, stopLate, faults>>

\* A request the actuator has given up is executed after all.
LateRun(held) ==
  /\ \E c \in runLate : Launch(c, "running", held) /\ runLate' = runLate \ {c}
  /\ UNCHANGED <<platform, taskDef, act, stopLate, faults>>

LateStop(i) ==
  /\ i \in stopLate
  /\ StopEffect(i)
  /\ stopLate' = stopLate \ {i}
  /\ UNCHANGED <<platform, taskDef, act, runLate, faults>>

\* An instance dies or is removed by somebody else.
Lost(i) ==
  /\ status[i] = "running"
  /\ Mishap
  /\ Set(i, IF platform = "ecs" THEN "exited" ELSE "none")
  /\ UNCHANGED <<platform, taskDef, act, runLate, stopLate>>

\* janus upgrades a Connector: its container is recreated, with the same tokens
\* and another id.
Recreated(i, held) ==
  /\ platform = "docker" /\ status[i] = "running"
  /\ Mishap
  /\ \E j \in Iid \ held :
       /\ status[j] = "none"
       /\ status' = [status EXCEPT ![i] = "none", ![j] = "running"]
       /\ owner' = [owner EXCEPT ![i] = NoCid, ![j] = owner[i]]
  /\ UNCHANGED <<platform, taskDef, act, runLate, stopLate>>

PlatformStep(held) ==
  \/ \E i \in Iid : TaskStops(i) \/ TaskForgotten(i) \/ LateStop(i) \/ Lost(i) \/ Recreated(i, held)
  \/ LateRun(held)
=============================================================================
