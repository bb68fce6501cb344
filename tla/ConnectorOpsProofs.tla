-------------------------- MODULE ConnectorOpsProofs --------------------------
(***************************************************************************)
(* Proofs about ConnectorOps, for every set of Connectors and instances,   *)
(* and every number of faults and attempts: SingleActiveToken,             *)
(* DrainBeforeStop, and that its calls come to no more than what           *)
(* ConnectorLifecycle lets happen to a Connector.                          *)
(***************************************************************************)
EXTENDS ConnectorOps, FiniteSetTheorems, TLAPS

-----------------------------------------------------------------------------
(***************************************************************************)
(* The inductive invariant                                                 *)
(***************************************************************************)

Cids  == Cid \cup {NoCid}
Insts == Iid \cup {NoInst}

Types ==
  /\ faults \in Nat
  /\ tenant \subseteq Cid
  /\ tw \in [op : Mutation \cup {"none"}, conn : Cids, attempt : Nat,
             outcome : {"none", "pending", "ok", "failed"}]
  /\ twLate \subseteq [op : Mutation, conn : Cids]
  /\ owner \in [Iid -> Cids]
  /\ status \in [Iid -> {"none", "running", "stopping", "exited"}]
  /\ act \in [op : {"none", "provision", "restart", "remove"}, conn : Cids, inst : Insts,
              step : {"none", "register", "run", "describe", "stop", "wait", "restart", "delete"},
              polls : Nat, outcome : {"none", "pending", "ok", "failed"}]
  /\ platform \in {"docker", "ecs", "aci"}
  /\ runLate \subseteq Cid /\ stopLate \subseteq Insts
  /\ job \in [stage : {"idle", "act", "health"}, view : [Cid -> Insts], remedied : SUBSET Cid]
  /\ drain \in [Cid -> [phase : {"none", "grace", "removing"}, inst : Insts]]

\* Which step belongs to which operation, on which platform.
Shape ==
  /\ tw = NoRequest \/ act = NoAct
  /\ tw.op = "none" \/ tw.outcome = "none" => tw = NoRequest
  /\ tw.op = "delete" => tw.conn \in Cid
  /\ act.op = "none" => act = NoAct
  /\ act.op = "provision" => act.conn \in Cid /\ act.step \in {"register", "run"}
  /\ act.op = "restart" =>
       /\ act.conn \in job.remedied
       /\ IF platform = "ecs" THEN act.step \in {"describe", "stop", "wait", "run"}
                              ELSE act.step = "restart"
  /\ act.op = "remove" => act.conn \in Cid /\ act.step \in {"stop", "delete"}

\* The instances of c that are active or could be made so: a stopped ECS task
\* is not started again.
Present(c) ==
  {i \in Iid : owner[i] = c /\ status[i] # "none" /\ (platform = "ecs" => status[i] # "exited")}

\* No instance of c, and none to come.
Unstarted(c) == Present(c) = {} /\ c \notin runLate

\* A Connector has one instance at most, and none before its run call, or
\* while that is lost.
Lone        == \A c \in Cid : \A i, j \in Present(c) : i = j
LateLone    == \A c \in runLate : Present(c) = {}
RunFirst    == ActPending /\ act.step \in {"register", "run"} => Unstarted(act.conn)

\* What a Connector that is being created has not got yet.
ChainFresh ==
  /\ tw.op \in {"create", "tokens"} /\ tw.conn \in Cid =>
       Unstarted(tw.conn) /\ job.view[tw.conn] = NoInst
  /\ tw.op = "tokens" \/ (tw.op = "create" /\ tw.outcome = "ok") => tw.conn \in Cid
  /\ act.op = "provision" => job.view[act.conn] = NoInst

\* On ECS the discovered task is the only one until the cycle restarts the
\* Connector, and while it does so before it runs the next.
ViewSole ==
  platform = "ecs" =>
    \A c \in Cid : job.view[c] # NoInst /\ c \notin job.remedied =>
      Present(c) \subseteq {job.view[c]} /\ c \notin runLate
RestartSole ==
  platform = "ecs" /\ act.op = "restart" /\ ActPending /\ act.step \in {"describe", "stop", "wait"} =>
    Present(act.conn) \subseteq {act.inst} /\ act.conn \notin runLate

TokenInv ==
  Types /\ Shape /\ Lone /\ LateLone /\ RunFirst /\ ChainFresh /\ ViewSole /\ RestartSole

\* What a drain is about: a Connector the tenant does not know any more, and
\* an instance that is its own or nobody's.
OwnOrNone(i, c) == i \in Iid => owner[i] \in {c, NoCid}
DrainInv ==
  /\ tw.op = "delete" /\ tw.outcome = "ok" => tw.conn \notin tenant
  /\ \A c \in Cid : OwnOrNone(job.view[c], c)
  /\ \A c \in Cid : drain[c].phase # "none" => c \notin tenant /\ OwnOrNone(drain[c].inst, c)
  /\ act.op = "remove" =>
       drain[act.conn].phase # "none" /\ drain[act.conn].inst = act.inst

-----------------------------------------------------------------------------
(***************************************************************************)
(* What the calls do to the instances                                      *)
(***************************************************************************)

Shrinks == \A c \in Cid : Present(c)' \subseteq Present(c)

\* One instance more for c, at most.
Grows(c) ==
  /\ \E i \in Iid : Present(c)' \subseteq Present(c) \cup {i}
  /\ \A d \in Cid : d # c => Present(d)' \subseteq Present(d)

LEMMA ConstantFacts ==
  /\ NoCid \notin Cid /\ NoInst \notin Iid /\ MaxFaults \in Nat /\ MaxRetries \in Nat
  /\ Platforms \subseteq {"docker", "ecs", "aci"}
BY FailuresAssumption, RetriesAssumption, ActuatorsAssumption

\* An instance that stays as it is, or goes, leaves no more than there was.
LEMMA NoLaunchShrinks ==
  ASSUME NoLaunch, platform' = platform
  PROVE  Shrinks
BY DEF NoLaunch, Shrinks, Present

LEMMA SetShrinks ==
  ASSUME Types, NEW i \in Insts, NEW s, Set(i, s), platform' = platform,
         \/ s = "none"
         \/ s = "exited" /\ status[i] # "none"
         \/ s = "stopping" /\ status[i] = "running"
         \/ s = "running" /\ status[i] # "none" /\ platform # "ecs"
  PROVE  Shrinks /\ owner' \in [Iid -> Cids]
<1>1. owner' \in [Iid -> Cids]
  BY ConstantFacts DEF Types, Set, Cids, Insts
<1>2. ASSUME NEW j \in Iid, j # i PROVE owner'[j] = owner[j] /\ status'[j] = status[j]
  BY <1>2 DEF Types, Set
<1>3. ASSUME i \in Iid PROVE owner'[i] = owner[i] \/ status'[i] = "none"
  BY <1>3 DEF Types, Set
<1>4. ASSUME i \in Iid PROVE status'[i] = s
  BY <1>4 DEF Types, Set
<1>5. ASSUME NEW c \in Cid, NEW j \in Present(c)' PROVE j \in Present(c)
  <2>1. j \in Iid /\ owner'[j] = c /\ status'[j] # "none"
        /\ (platform = "ecs" => status'[j] # "exited")
    BY <1>5 DEF Present
  <2>2. CASE j # i
    BY <1>2, <2>1, <2>2 DEF Present
  <2>3. CASE j = i
    <3>1. owner[j] = c /\ s # "none" /\ (platform = "ecs" => s # "exited")
      BY <1>3, <1>4, <2>1, <2>3
    <3>2. status[j] # "none" /\ (platform = "ecs" => status[j] # "exited")
      BY <2>3, <3>1
    <3> QED BY <2>1, <3>1, <3>2 DEF Present
  <2> QED BY <2>2, <2>3
<1> QED BY <1>1, <1>5 DEF Shrinks

LEMMA SetTypes ==
  ASSUME Types, NEW i \in Insts, NEW s \in {"none", "running", "stopping", "exited"}, Set(i, s)
  PROVE  /\ owner' \in [Iid -> Cids]
         /\ status' \in [Iid -> {"none", "running", "stopping", "exited"}]
BY DEF Types, Set, Cids, Insts

\* A launch adds one instance, for its Connector only.
LEMMA LaunchGrows ==
  ASSUME Types, NEW c \in Cid, NEW s \in {"running", "exited"}, NEW held,
         Launch(c, s, held), platform' = platform
  PROVE  /\ Grows(c)
         /\ owner' \in [Iid -> Cids]
         /\ status' \in [Iid -> {"none", "running", "stopping", "exited"}]
<1>1. PICK i \in Iid \ held : /\ status[i] = "none"
                              /\ status' = [status EXCEPT ![i] = s]
                              /\ owner' = [owner EXCEPT ![i] = c]
  BY DEF Launch
<1>2. Present(c)' \subseteq Present(c) \cup {i}
  BY <1>1 DEF Present, Types
<1>3. ASSUME NEW d \in Cid, d # c PROVE Present(d)' \subseteq Present(d)
  BY <1>1, <1>3 DEF Present, Types
<1> QED
  BY <1>1, <1>2, <1>3 DEF Grows, Types, Cids

\* What fewer instances and fewer late runs cannot disturb.
LEMMA ShrinkingKeeps ==
  ASSUME TokenInv, Shrinks, runLate' \subseteq runLate
  PROVE  /\ Lone' /\ LateLone'
         /\ \A c \in Cid : Unstarted(c) => Unstarted(c)'
BY DEF TokenInv, Types, Shrinks, Lone, LateLone, Unstarted

\* What the launch of a Connector that had nothing cannot disturb.
LEMMA GrowingKeeps ==
  ASSUME TokenInv, NEW c \in Cid, Present(c) = {}, Grows(c),
         runLate' \subseteq runLate, c \notin runLate'
  PROVE  /\ Lone' /\ LateLone'
         /\ \A d \in Cid : d # c /\ Unstarted(d) => Unstarted(d)'
<1>1. PICK i \in Iid : Present(c)' \subseteq {i}
  BY DEF Grows
<1>2. Lone'
  BY <1>1 DEF TokenInv, Lone, Grows
<1> QED
  BY <1>2 DEF TokenInv, Types, LateLone, Unstarted, Grows

-----------------------------------------------------------------------------
LEMMA InitToken == Init => TokenInv
<1> SUFFICES ASSUME Init PROVE TokenInv
  OBVIOUS
<1>1. Types
  BY ConstantFacts DEF Init, TwInit, ActInit, Types, NoRequest, NoAct, IdleJob, NoView, NoDrain, Cids, Insts
<1>2. \A c \in Cid : Present(c) = {}
  BY DEF Init, ActInit, Present
<1> QED
  BY <1>1, <1>2, ConstantFacts DEF Init, TwInit, ActInit, TokenInv, Shape, Lone, LateLone, RunFirst, ChainFresh,
    ViewSole, RestartSole, NoRequest, NoAct, IdleJob, NoView, ActPending

-----------------------------------------------------------------------------
(***************************************************************************)
(* The steps                                                               *)
(***************************************************************************)

\* Steps that leave the instances and the late runs alone keep what is said
\* about these.
LEMMA PlatformUntouched ==
  ASSUME TokenInv, UNCHANGED <<platform, owner, status, runLate>>
  PROVE  /\ Lone' /\ LateLone'
         /\ \A c \in Cid : Present(c)' = Present(c) /\ (Unstarted(c)' <=> Unstarted(c))
<1>1. \A c : Present(c)' = Present(c)
  BY DEF Present
<1> QED
  BY <1>1 DEF TokenInv, Types, Lone, LateLone, Unstarted

\* The tenant answers, or does not.
LEMMA TokenTwMoves == TokenInv /\ TwMoves => TokenInv'
<1> SUFFICES ASSUME TokenInv, TwMoves PROVE TokenInv'
  OBVIOUS
<1> USE DEF TwMoves, actVars
<1>1. /\ Lone' /\ LateLone'
      /\ \A c \in Cid : Present(c)' = Present(c) /\ (Unstarted(c)' <=> Unstarted(c))
  BY PlatformUntouched
<1>2. /\ TwPending /\ tw.op \in Mutation /\ tw # NoRequest /\ act = NoAct
      /\ tw'.op = tw.op /\ tw' # NoRequest /\ tw' \in [op : Mutation, conn : Cids, attempt : Nat,
             outcome : {"pending", "ok", "failed"}]
  <2>1. TwPending /\ tw.op \in Mutation /\ tw # NoRequest /\ act = NoAct
    <3>1. TwPending
      BY DEF TwStep, PostSucceeds, PostRefused, PostUnanswered, PostRejected
    <3> QED
      BY <3>1 DEF TwPending, TokenInv, Types, Shape, NoRequest
  <2>2. CASE PostSucceeds(FreshIds)
    <3>1. CASE tw.op = "create"
      <4>1. PICK n \in FreshIds : tw' = [tw EXCEPT !.conn = n, !.outcome = "ok"]
        BY <2>2, <3>1 DEF PostSucceeds
      <4>2. n \in Cids
        BY DEF FreshIds, Cids
      <4> QED
        BY <2>1, <4>1, <4>2 DEF TokenInv, Types, NoRequest
    <3>2. CASE tw.op # "create"
      <4>1. tw' = [tw EXCEPT !.outcome = "ok"]
        BY <2>2, <3>2 DEF PostSucceeds
      <4> QED
        BY <2>1, <4>1 DEF TokenInv, Types, NoRequest
    <3> QED
      BY <3>1, <3>2
  <2>3. CASE PostRefused(FreshIds)
    BY <2>1, <2>3 DEF PostRefused, TokenInv, Types, Mutation, FreshIds, Cids, NoRequest
  <2>4. CASE PostUnanswered(FreshIds)
    BY <2>1, <2>4 DEF PostUnanswered, TokenInv, Types, Mutation, FreshIds, Cids, NoRequest, TwPending
  <2>5. CASE PostRejected(FreshIds)
    BY <2>1, <2>5 DEF PostRejected, TokenInv, Types, Mutation, FreshIds, Cids, NoRequest
  <2> QED
    BY <2>1, <2>2, <2>3, <2>4, <2>5 DEF TwStep
<1>3. \/ tw'.conn = tw.conn /\ tw'.outcome # "ok"
      \/ tw'.conn = tw.conn /\ tw.op \in {"tokens", "delete"}
      \/ tw'.conn \in FreshIds
  <2>1. {"op", "conn", "attempt", "outcome"} = DOMAIN tw
    BY DEF TokenInv, Types
  <2>2. CASE PostSucceeds(FreshIds)
    BY <2>1, <2>2 DEF PostSucceeds
  <2>3. CASE PostRefused(FreshIds) \/ PostRejected(FreshIds)
    BY <2>1, <2>3 DEF PostRefused, PostRejected
  <2>4. CASE PostUnanswered(FreshIds)
    BY <2>1, <2>4 DEF PostUnanswered, TwPending
  <2> QED
    BY <1>2, <2>2, <2>3, <2>4 DEF TwStep
<1>4. /\ tenant' \subseteq Cid /\ faults' \in Nat
      /\ twLate' \subseteq [op : Mutation, conn : Cids]
  <2>1. CASE PostSucceeds(FreshIds)
    <3>1. FreshIds \subseteq Cid
      BY DEF FreshIds
    <3>2. \/ \E n \in FreshIds : tenant' = tenant \cup {n}
          \/ tenant' = tenant
          \/ tenant' = tenant \ {tw.conn}
      BY <2>1 DEF PostSucceeds, Execute
    <3> QED
      BY <2>1, <3>1, <3>2 DEF PostSucceeds, TokenInv, Types
  <2>2. CASE PostRefused(FreshIds)
    BY <2>2 DEF PostRefused, TokenInv, Types
  <2>3. CASE PostUnanswered(FreshIds)
    BY <2>3, <1>2, ConstantFacts DEF PostUnanswered, Unanswered, Execute, Mishap, Mishaps, FreshIds, TokenInv, Types
  <2>4. CASE PostRejected(FreshIds)
    BY <2>4, ConstantFacts DEF PostRejected, Execute, Mishap, Mishaps, FreshIds, TokenInv, Types
  <2> QED
    BY <2>1, <2>2, <2>3, <2>4 DEF TwStep
<1>5. Types'
  BY <1>2, <1>4 DEF TokenInv, Types
<1>6. Shape'
  BY <1>2, <1>3 DEF TokenInv, Shape, Mutation, FreshIds
<1>7. RunFirst' /\ RestartSole'
  BY <1>2, ConstantFacts DEF RunFirst, RestartSole, ActPending, NoAct
<1>8. ChainFresh'
  <2>1. \A c \in FreshIds : Unstarted(c) /\ job.view[c] = NoInst /\ c \in Cid
    BY DEF FreshIds, Unstarted, Present, TokenInv, Types
  <2> QED
    BY <1>1, <1>2, <1>3, <2>1 DEF TokenInv, ChainFresh, Mutation, NoAct
<1>9. ViewSole'
  BY <1>1 DEF TokenInv, ViewSole
<1> QED
  BY <1>1, <1>5, <1>6, <1>7, <1>8, <1>9 DEF TokenInv

\* A new call: what is asked of the one it is for.
LEMMA TokenJobSteps ==
  ASSUME TokenInv, UNCHANGED <<platform, owner, status, runLate, stopLate, faults, tenant, twLate>>,
         Discover \/ ToHealth \/ EndCycle \/ BeginProvision \/ ProvisionContinues \/ CallReturns
         \/ DeleteAnswered \/ RemovalReturns
         \/ \E c \in Cid : BeginRestart(c) \/ BeginDrain(c) \/ DrainGraceOver(c)
  PROVE  TokenInv'
<1>1. /\ Lone' /\ LateLone'
      /\ \A c \in Cid : Present(c)' = Present(c) /\ (Unstarted(c)' <=> Unstarted(c))
  BY PlatformUntouched
<1> USE <1>1
<1>2. CASE Discover
  <2> USE <1>2 DEF Discover, LockFree, NoCall, twVars, actVars
  <2>1. PICK v \in Views : job' = [stage |-> "act", view |-> v, remedied |-> {}]
    OBVIOUS
  <2>2. v \in [Cid -> Insts]
    BY DEF Views, Insts
  <2>3. Types'
    BY <2>1, <2>2 DEF TokenInv, Types
  <2>4. Shape' /\ RunFirst' /\ RestartSole' /\ ChainFresh'
    BY ConstantFacts DEF TokenInv, Shape, RunFirst, RestartSole, ChainFresh, NoAct, NoRequest, ActPending
  <2>5. ASSUME platform = "ecs", NEW c \in Cid, v[c] # NoInst
        PROVE  Present(c) \subseteq {v[c]} /\ c \notin runLate
    <3>1. v[c] \in Iid /\ owner[v[c]] = c /\ status[v[c]] = "running"
      BY <2>5 DEF Views, Listed
    <3>2. v[c] \in Present(c)
      BY <3>1 DEF Present
    <3> QED
      BY <3>2 DEF TokenInv, Lone, LateLone
  <2>6. ViewSole'
    BY <2>1, <2>5 DEF ViewSole
  <2> QED
    BY <2>3, <2>4, <2>6 DEF TokenInv
<1>3. CASE ToHealth
  BY <1>3, ConstantFacts DEF ToHealth, NoCall, twVars, actVars, TokenInv, Types, Shape, RunFirst, RestartSole, ChainFresh,
    ViewSole, NoAct, NoRequest, ActPending
<1>4. CASE EndCycle
  BY <1>4, ConstantFacts DEF EndCycle, NoCall, IdleJob, NoView, twVars, actVars, TokenInv, Types, Shape, RunFirst,
    RestartSole, ChainFresh, ViewSole, NoAct, NoRequest, ActPending, Insts
<1>5. CASE BeginProvision
  BY <1>5, ConstantFacts DEF BeginProvision, NoCall, Request, twVars, actVars, TokenInv, Types, Shape, RunFirst,
    RestartSole, ChainFresh, ViewSole, NoAct, NoRequest, ActPending, Cids, Mutation
<1>6. CASE ProvisionContinues
  <2> USE <1>6 DEF ProvisionContinues, actVars
  <2>1. act = NoAct
    BY DEF TokenInv, Shape, NoRequest
  <2>2. CASE tw.outcome = "failed"
    BY <2>1, <2>2, ConstantFacts DEF TokenInv, Types, Shape, RunFirst, RestartSole, ChainFresh, ViewSole, NoAct, NoRequest,
      ActPending, Cids, Mutation
  <2>3. CASE tw.outcome = "ok" /\ tw.op = "create"
    BY <2>1, <2>3, ConstantFacts DEF Request, TokenInv, Types, Shape, RunFirst, RestartSole, ChainFresh, ViewSole, NoAct,
      NoRequest, ActPending, Cids, Mutation
  <2>4. CASE tw.outcome = "ok" /\ tw.op = "tokens"
    <3>1. /\ tw.conn \in Cid /\ Unstarted(tw.conn) /\ job.view[tw.conn] = NoInst
          /\ tw' = NoRequest
          /\ act' = [op |-> "provision", conn |-> tw.conn, inst |-> NoInst,
                     step |-> FirstStep("provision"), polls |-> 0, outcome |-> "pending"]
          /\ FirstStep("provision") \in {"register", "run"}
      BY <2>4 DEF TokenInv, ChainFresh, Call, FirstStep
    <3> QED
      BY <3>1, ConstantFacts DEF TokenInv, Types, Shape, RunFirst, RestartSole, ChainFresh, ViewSole,
        NoRequest, NoAct, ActPending, Cids, Insts
  <2> QED
    BY <2>2, <2>3, <2>4, ConstantFacts DEF TokenInv, Types, Shape, NoRequest, TwPending
<1>7. CASE CallReturns
  BY <1>7, ConstantFacts DEF CallReturns, twVars, TokenInv, Types, Shape, RunFirst, RestartSole, ChainFresh, ViewSole,
    NoAct, NoRequest, ActPending, Cids, Insts
<1>8. CASE DeleteAnswered
  <2>1. drain' \in [Cid -> [phase : {"none", "grace", "removing"}, inst : Insts]]
    BY <1>8 DEF DeleteAnswered, TokenInv, Types, Shape
  <2> QED
    BY <1>8, <2>1, ConstantFacts DEF DeleteAnswered, actVars, TokenInv, Types, Shape, RunFirst, RestartSole, ChainFresh,
      ViewSole, NoAct, NoRequest, ActPending, Cids, Mutation
<1>9. CASE RemovalReturns
  BY <1>9, ConstantFacts DEF RemovalReturns, NoDrain, twVars, TokenInv, Types, Shape, RunFirst, RestartSole, ChainFresh,
    ViewSole, NoAct, NoRequest, ActPending, Cids, Insts
<1>10. ASSUME NEW c \in Cid, BeginRestart(c) PROVE TokenInv'
  <2>1. /\ tw = NoRequest /\ act = NoAct /\ tw' = tw
        /\ job.view[c] # NoInst /\ c \notin job.remedied
        /\ job' = [job EXCEPT !.remedied = @ \cup {c}]
        /\ act' = [op |-> "restart", conn |-> c, inst |-> job.view[c],
                   step |-> FirstStep("restart"), polls |-> 0, outcome |-> "pending"]
        /\ FirstStep("restart") = IF platform = "ecs" THEN "describe" ELSE "restart"
    BY <1>10 DEF BeginRestart, NoCall, Call, FirstStep, twVars
  <2>2. Types'
    BY <1>10, <2>1 DEF BeginRestart, twVars, TokenInv, Types, Cids, Insts
  <2>3. Shape' /\ RunFirst' /\ ChainFresh'
    BY <2>1 DEF TokenInv, Types, Shape, RunFirst, ChainFresh, NoRequest, NoAct, ActPending
  <2>4. ViewSole' /\ RestartSole'
    BY <1>10, <2>1 DEF BeginRestart, TokenInv, Types, ViewSole, RestartSole, Insts
  <2> QED
    BY <2>2, <2>3, <2>4 DEF TokenInv
<1>11. ASSUME NEW c \in Cid, BeginDrain(c) PROVE TokenInv'
  BY <1>11, ConstantFacts DEF BeginDrain, NoCall, Request, twVars, actVars, TokenInv, Types, Shape, RunFirst,
    RestartSole, ChainFresh, ViewSole, NoAct, NoRequest, ActPending, Cids, Mutation
<1>12. ASSUME NEW c \in Cid, DrainGraceOver(c) PROVE TokenInv'
  <2>1. /\ tw = NoRequest /\ act = NoAct /\ tw' = tw /\ job' = job
        /\ act' = [op |-> "remove", conn |-> c, inst |-> drain[c].inst,
                   step |-> "stop", polls |-> 0, outcome |-> "pending"]
        /\ drain' = [drain EXCEPT ![c].phase = "removing"]
    BY <1>12 DEF DrainGraceOver, LockFree, NoCall, Call, FirstStep, twVars
  <2>2. Types'
    BY <1>12, <2>1 DEF DrainGraceOver, twVars, TokenInv, Types, Cids, Insts
  <2> QED
    BY <2>1, <2>2 DEF TokenInv, Shape, RunFirst, ChainFresh, ViewSole, RestartSole, NoRequest, NoAct
<1> QED
  BY <1>2, <1>3, <1>4, <1>5, <1>6, <1>7, <1>8, <1>9, <1>10, <1>11, <1>12

\* During a call: the operation, its Connector and its instance stay.
ActGoesOn ==
  /\ ActPending /\ act.op # "none" /\ tw = NoRequest
  /\ act' \in [op : {act.op}, conn : {act.conn}, inst : {act.inst},
               step : {"none", "register", "run", "describe", "stop", "wait", "restart", "delete"},
               polls : Nat, outcome : {"pending", "ok", "failed"}]
  /\ platform' = platform /\ faults' \in Nat

LEMMA CallGoesOn == TokenInv /\ ActMoves => ActGoesOn
<1> SUFFICES ASSUME TokenInv, ActMoves PROVE ActGoesOn
  OBVIOUS
<1>1. ActPending
  BY DEF ActMoves, ActStep, Register, Run, RunPlacesNothing, RunFails, RestartInPlace, EcsDescribe, EcsPoll,
    EcsStop, DockerStop, Delete, CallFails, AtStep
<1>2. act.op # "none" /\ act # NoAct /\ tw = NoRequest
  BY <1>1 DEF ActPending, NoAct, TokenInv, Shape
<1>3. platform' = platform /\ faults' \in Nat
  BY ConstantFacts DEF ActMoves, ActStep, Register, Run, RunPlacesNothing, RunFails, RestartInPlace, EcsDescribe,
    EcsPoll, EcsStop, DockerStop, Delete, CallFails, Mishap, Mishaps, TokenInv, Types
<1>4. \/ \E st \in {"run", "stop", "wait", "delete"} : Goto(st)
      \/ Succeed \/ Fail
      \/ act' = [act EXCEPT !.polls = @ + 1]
  BY DEF ActMoves, ActStep, Register, Run, RunPlacesNothing, RunFails, RestartInPlace, EcsDescribe,
    EcsPoll, EcsStop, DockerStop, Delete, CallFails
<1> QED
  BY <1>1, <1>2, <1>3, <1>4 DEF ActGoesOn, ActPending, Goto, Succeed, Fail, TokenInv, Types

\* A step of a call that starts nothing.
LEMMA TokenQuietStep ==
  ASSUME TokenInv, ActGoesOn, Shrinks, runLate' = runLate,
         UNCHANGED <<twVars, job, drain>>,
         stopLate' \subseteq Insts, owner' \in [Iid -> Cids],
         status' \in [Iid -> {"none", "running", "stopping", "exited"}],
         act'.op = "provision" => act'.step \in {"register", "run"},
         act'.op = "restart" => IF platform = "ecs" THEN act'.step \in {"describe", "stop", "wait", "run"}
                                ELSE act'.step = "restart",
         act'.op = "remove" => act'.step \in {"stop", "delete"},
         ActPending' /\ act'.step = "run" /\ act.step # "register" => Unstarted(act.conn)',
         ActPending' /\ act'.step \in {"describe", "wait", "stop"} => act.step \in {"describe", "stop", "wait"},
         ActPending' /\ act'.step = "register" => act.step = "register"
  PROVE  TokenInv'
<1>1. /\ Lone' /\ LateLone'
      /\ \A c \in Cid : Unstarted(c) => Unstarted(c)'
  BY ShrinkingKeeps
<1>2. Types'
  BY DEF TokenInv, Types, ActGoesOn, twVars
<1>3. Shape'
  BY DEF TokenInv, Shape, ActGoesOn, twVars
<1>4. act.conn \in Cid
  BY DEF TokenInv, Types, Shape, ActGoesOn
<1>5. RunFirst'
  BY <1>1, <1>4 DEF TokenInv, RunFirst, ActGoesOn
<1>6. ChainFresh'
  BY DEF TokenInv, ChainFresh, ActGoesOn, twVars, NoRequest
<1>7. ViewSole' /\ RestartSole'
  BY <1>4 DEF TokenInv, ViewSole, RestartSole, ActGoesOn, Shrinks
<1> QED
  BY <1>1, <1>2, <1>3, <1>5, <1>6, <1>7 DEF TokenInv

\* A step that starts an instance of the Connector of the call, or will.
LEMMA TokenStartStep ==
  ASSUME TokenInv, ActPending, act.step = "run", act.op # "none",
         platform' = platform, job' = job, tw' = tw,
         Shrinks \/ Grows(act.conn),
         \/ runLate' = runLate
         \/ runLate' = runLate \cup {act.conn} /\ Shrinks,
         ActPending' => FALSE
  PROVE  Lone' /\ LateLone' /\ RunFirst' /\ ViewSole' /\ RestartSole'
<1>1. act.conn \in Cid /\ Unstarted(act.conn)
  BY DEF TokenInv, Types, Shape, RunFirst
<1>2. Lone' /\ LateLone'
  <2>1. CASE Shrinks
    BY <2>1, <1>1 DEF TokenInv, Types, Shrinks, Lone, LateLone, Unstarted
  <2>2. CASE Grows(act.conn) /\ runLate' = runLate
    BY <2>2, <1>1, GrowingKeeps DEF Unstarted
  <2> QED
    BY <2>1, <2>2
<1>3. RunFirst' /\ RestartSole'
  BY DEF RunFirst, RestartSole
<1>4. ViewSole'
  <2> SUFFICES ASSUME platform = "ecs", NEW c \in Cid, job.view[c] # NoInst, c \notin job.remedied
               PROVE  Present(c)' \subseteq {job.view[c]} /\ c \notin runLate'
    BY DEF ViewSole
  <2>1. c # act.conn
    BY DEF TokenInv, Types, Shape, ChainFresh
  <2> QED
    BY <2>1 DEF TokenInv, ViewSole, Shrinks, Grows
<1> QED
  BY <1>2, <1>3, <1>4

LEMMA TokenActMoves == TokenInv /\ ActMoves => TokenInv'
<1> SUFFICES ASSUME TokenInv, ActMoves PROVE TokenInv'
  OBVIOUS
<1> USE DEF ActMoves
<1>1. ActGoesOn
  BY CallGoesOn
<1>2. act.conn \in Cid /\ act.inst \in Insts
  BY <1>1 DEF ActGoesOn, TokenInv, Types, Shape
<1>3. CASE Register
  BY <1>1, <1>3, NoLaunchShrinks, TokenQuietStep DEF Register, NoLaunch, ActGoesOn, Goto, AtStep, ActPending, TokenInv, Types,
    Shape
<1>4. CASE Run(Held) \/ RunPlacesNothing \/ RunFails(Held)
  <2>1. AtStep("run") /\ ~ActPending' /\ act'.step = act.step /\ act'.outcome \in {"ok", "failed"}
        /\ stopLate' = stopLate
    BY <1>4 DEF Run, RunPlacesNothing, RunFails, Succeed, Fail, AtStep, ActPending, TokenInv, Types
  <2>2. /\ Shrinks \/ Grows(act.conn)
        /\ owner' \in [Iid -> Cids] /\ status' \in [Iid -> {"none", "running", "stopping", "exited"}]
        /\ \/ runLate' = runLate
           \/ runLate' = runLate \cup {act.conn} /\ Shrinks
    <3>1. CASE /\ \E st \in {"running", "exited"} : Launch(act.conn, st, Held)
               /\ runLate' = runLate
      BY <1>1, <1>2, <3>1, LaunchGrows DEF TokenInv, ActGoesOn
    <3>2. CASE NoLaunch /\ (runLate' = runLate \/ runLate' = runLate \cup {act.conn})
      BY <1>1, <3>2, NoLaunchShrinks DEF NoLaunch, TokenInv, Types, ActGoesOn
    <3> QED
      BY <1>4, <3>1, <3>2 DEF Run, RunPlacesNothing, RunFails, RunUnanswered, NoLaunch
  <2>3. Lone' /\ LateLone' /\ RunFirst' /\ ViewSole' /\ RestartSole'
    BY <1>1, <2>1, <2>2, TokenStartStep DEF ActGoesOn, AtStep, twVars
  <2>4. Types'
    BY <1>1, <1>2, <2>1, <2>2 DEF TokenInv, Types, ActGoesOn, twVars
  <2>5. Shape' /\ ChainFresh'
    BY <1>1, <2>1 DEF TokenInv, Shape, ChainFresh, ActGoesOn, twVars, NoRequest
  <2> QED
    BY <2>3, <2>4, <2>5 DEF TokenInv
<1>5. CASE RestartInPlace
  <2>1. Shrinks /\ owner' \in [Iid -> Cids] /\ status' \in [Iid -> {"none", "running", "stopping", "exited"}]
    <3>1. platform # "ecs"
      BY <1>5, <1>1 DEF RestartInPlace, AtStep, TokenInv, Shape, Types, ActGoesOn
    <3>2. CASE NoLaunch
      BY <1>1, <3>2, NoLaunchShrinks DEF NoLaunch, TokenInv, Types, ActGoesOn
    <3>3. CASE Set(act.inst, "running") /\ status[act.inst] # "none"
      BY <1>1, <1>2, <3>1, <3>3, SetShrinks, SetTypes DEF TokenInv, ActGoesOn
    <3> QED
      BY <1>5, <3>2, <3>3 DEF RestartInPlace
  <2>2. act'.step = act.step /\ ~ActPending' /\ act.step = "restart" /\ stopLate' = stopLate /\ runLate' = runLate
    BY <1>5 DEF RestartInPlace, Succeed, Fail, AtStep, ActPending, TokenInv, Types
  <2> QED
    BY <1>1, <2>1, <2>2, TokenQuietStep DEF ActGoesOn, TokenInv, Types, Shape
<1>6. CASE EcsDescribe
  BY <1>1, <1>6, NoLaunchShrinks, TokenQuietStep DEF EcsDescribe, NoLaunch, Goto, Fail, AtStep, ActGoesOn, ActPending, TokenInv,
    Types, Shape
<1>7. CASE EcsPoll
  <2>1. Shrinks /\ platform = "ecs" /\ act.op = "restart" /\ act.step = "wait" /\ stopLate' = stopLate /\ runLate' = runLate
        /\ owner' = owner /\ status' = status
    BY <1>1, <1>7, NoLaunchShrinks DEF EcsPoll, NoLaunch, AtStep, ActGoesOn, TokenInv, Types, Shape
  <2>2. CASE status[act.inst] \in {"exited", "none"} /\ Goto("run")
    <3>1. Present(act.conn) = {} /\ act.conn \notin runLate
      BY <1>1, <2>1, <2>2 DEF TokenInv, RestartSole, ActGoesOn, Present
    <3>2. Unstarted(act.conn)'
      BY <1>1, <2>1, <3>1 DEF Unstarted, Present, ActGoesOn
    <3> QED
      BY <1>1, <2>1, <2>2, <3>2, TokenQuietStep DEF Goto, ActGoesOn, TokenInv, Types
  <2>3. CASE act' = [act EXCEPT !.polls = @ + 1] \/ Fail
    BY <1>1, <2>1, <2>3, TokenQuietStep DEF Fail, ActGoesOn, ActPending, TokenInv, Types
  <2> QED
    BY <1>7, <2>2, <2>3 DEF EcsPoll
<1>8. CASE EcsStop \/ DockerStop \/ Delete
  <2>1. Shrinks /\ owner' \in [Iid -> Cids] /\ status' \in [Iid -> {"none", "running", "stopping", "exited"}]
    <3>1. CASE NoLaunch
      BY <1>1, <3>1, NoLaunchShrinks DEF NoLaunch, TokenInv, Types, ActGoesOn
    <3>2. CASE Set(act.inst, "none")
      BY <1>1, <1>2, <3>2, SetShrinks, SetTypes DEF TokenInv, ActGoesOn
    <3>3. CASE Set(act.inst, "exited") /\ status[act.inst] # "none"
      BY <1>1, <1>2, <3>3, SetShrinks, SetTypes DEF TokenInv, ActGoesOn
    <3>4. CASE Set(act.inst, "stopping") /\ status[act.inst] = "running"
      BY <1>1, <1>2, <3>4, SetShrinks, SetTypes DEF TokenInv, ActGoesOn
    <3> QED
      BY <1>8, <3>1, <3>2, <3>3, <3>4 DEF EcsStop, DockerStop, Delete
  <2>2. /\ act.step \in {"stop", "delete"} /\ stopLate' = stopLate /\ runLate' = runLate
        /\ act.op = "restart" => platform = "ecs"
        /\ act.op # "provision"
    BY <1>1, <1>8 DEF EcsStop, DockerStop, Delete, AtStep, TokenInv, Shape, Types, ActGoesOn
  <2>3. /\ act.op = "restart" => act'.step \in {"stop", "wait"} /\ platform = "ecs"
        /\ act.op = "remove" => act'.step \in {"stop", "delete"}
        /\ act'.step # "run" /\ act'.step # "register"
        /\ act'.step = "wait" => act.step = "stop"
        /\ act'.step = "stop" => act.step = "stop"
        /\ act'.step # "describe"
    BY <1>1, <1>2, <1>8, <2>2 DEF EcsStop, DockerStop, Delete, Goto, Succeed, Fail, AtStep, TokenInv, Types, Shape,
      ActGoesOn
  <2> QED
    BY <1>1, <2>1, <2>2, <2>3, TokenQuietStep DEF ActGoesOn, TokenInv, Types
<1>9. CASE CallFails
  <2>1. Shrinks /\ owner' \in [Iid -> Cids] /\ status' \in [Iid -> {"none", "running", "stopping", "exited"}]
        /\ stopLate' \subseteq Insts
    <3>1. CASE act.step = "restart" /\ status[act.inst] # "none" /\ Set(act.inst, "running") /\ UNCHANGED stopLate
      <4>1. platform # "ecs"
        BY <1>9, <3>1 DEF CallFails, ActPending, NoAct, TokenInv, Shape, Types
      <4> QED
        BY <1>1, <1>2, <3>1, <4>1, SetShrinks, SetTypes DEF TokenInv, Types, ActGoesOn
    <3>2. CASE ~(act.step = "restart" /\ status[act.inst] # "none" /\ Set(act.inst, "running") /\ UNCHANGED stopLate)
      BY <1>1, <1>2, <1>9, <3>2, NoLaunchShrinks, SetShrinks, SetTypes DEF CallFails, CallUnanswered, StopEffect,
        TokenInv, NoLaunch, Types, ActGoesOn, Insts
    <3> QED
      BY <3>1, <3>2
  <2>2. act'.step = act.step /\ ~ActPending' /\ runLate' = runLate
    BY <1>9 DEF CallFails, Fail, ActPending, TokenInv, Types
  <2> QED
    BY <1>1, <2>1, <2>2, TokenQuietStep DEF ActGoesOn, TokenInv, Types, Shape
<1> QED
  BY <1>3, <1>4, <1>5, <1>6, <1>7, <1>8, <1>9 DEF ActStep

-----------------------------------------------------------------------------
\* What happens on the platform by itself.
LEMMA TokenPlatformStep ==
  ASSUME TokenInv, PlatformStep(Held), UNCHANGED <<twVars, job, drain>>
  PROVE  TokenInv'
<1>1. /\ platform' = platform /\ act' = act /\ faults' \in Nat
      /\ runLate' \subseteq runLate /\ stopLate' \subseteq stopLate
  BY ConstantFacts DEF PlatformStep, TaskStops, TaskForgotten, LateRun, LateStop, Lost, Recreated, Mishap, Mishaps,
    TokenInv, Types
<1>2. SUFFICES ASSUME /\ owner' \in [Iid -> Cids]
                      /\ status' \in [Iid -> {"none", "running", "stopping", "exited"}]
               PROVE  Lone' /\ LateLone' /\ RunFirst' /\ ChainFresh' /\ ViewSole' /\ RestartSole'
  <2>1. owner' \in [Iid -> Cids] /\ status' \in [Iid -> {"none", "running", "stopping", "exited"}]
    <3>1. CASE LateRun(Held)
      BY <3>1, <1>1, LaunchGrows DEF LateRun, TokenInv, Types
    <3>2. CASE \E i \in Iid : Recreated(i, Held)
      BY <3>2 DEF Recreated, TokenInv, Types, Cids
    <3>3. CASE \E i \in Iid : LateStop(i)
      BY <3>3, SetTypes DEF LateStop, StopEffect, NoLaunch, TokenInv, Types, Insts
    <3>4. CASE \E i \in Iid : TaskStops(i) \/ TaskForgotten(i) \/ Lost(i)
      BY <3>4, SetTypes DEF TaskStops, TaskForgotten, Lost, TokenInv, Insts
    <3> QED
      BY <3>1, <3>2, <3>3, <3>4 DEF PlatformStep
  <2>2. Types'
    BY <1>1, <2>1 DEF TokenInv, Types, twVars
  <2>3. Shape'
    BY <1>1 DEF TokenInv, Shape, twVars
  <2> QED
    BY <1>2, <2>1, <2>2, <2>3 DEF TokenInv
<1>3. act.conn \in Cid \/ ~ActPending
  BY DEF TokenInv, Types, Shape, ActPending, NoAct
<1>4. CASE Shrinks
  <2>1. /\ Lone' /\ LateLone'
        /\ \A c \in Cid : Unstarted(c) => Unstarted(c)'
    BY <1>1, <1>4, ShrinkingKeeps
  <2>2. RunFirst' /\ RestartSole'
    BY <1>1, <1>3, <1>4, <2>1 DEF TokenInv, RunFirst, RestartSole, ActPending, Shrinks
  <2>3. ChainFresh'
    BY <1>1, <2>1 DEF TokenInv, ChainFresh, twVars
  <2>4. ViewSole'
    BY <1>1, <1>4 DEF TokenInv, ViewSole, Shrinks
  <2> QED
    BY <2>1, <2>2, <2>3, <2>4
<1>5. CASE LateRun(Held)
  <2>1. PICK c \in runLate : Launch(c, "running", Held) /\ runLate' = runLate \ {c}
    BY <1>5 DEF LateRun
  <2>2. c \in Cid /\ Present(c) = {} /\ Grows(c)
    BY <1>1, <2>1, LaunchGrows DEF TokenInv, Types, LateLone
  <2>3. /\ Lone' /\ LateLone'
        /\ \A d \in Cid : d # c /\ Unstarted(d) => Unstarted(d)'
    BY <2>1, <2>2, GrowingKeeps
  <2>4. \A d \in Cid : Unstarted(d) => Unstarted(d)'
    BY <2>1, <2>3 DEF Unstarted
  <2>5. RunFirst' /\ RestartSole'
    BY <1>1, <1>3, <2>1, <2>2, <2>4 DEF TokenInv, RunFirst, RestartSole, ActPending, Grows
  <2>6. ChainFresh'
    BY <1>1, <2>4 DEF TokenInv, ChainFresh, twVars
  <2>7. ViewSole'
    BY <1>1, <2>1, <2>2 DEF TokenInv, ViewSole, Grows
  <2> QED
    BY <2>3, <2>5, <2>6, <2>7
<1>6. ASSUME NEW i \in Iid, Recreated(i, Held)
      PROVE  Lone' /\ LateLone' /\ RunFirst' /\ ChainFresh' /\ ViewSole' /\ RestartSole'
  <2>1. PICK j \in Iid : /\ status[j] = "none"
                         /\ status' = [status EXCEPT ![i] = "none", ![j] = "running"]
                         /\ owner' = [owner EXCEPT ![i] = NoCid, ![j] = owner[i]]
    BY <1>6 DEF Recreated
  <2>2. platform = "docker" /\ status[i] = "running" /\ runLate' = runLate
    BY <1>6 DEF Recreated
  <2>3. ASSUME NEW c \in Cid PROVE Present(c)' = IF owner[i] = c THEN (Present(c) \ {i}) \cup {j} ELSE Present(c)
    BY <1>1, <2>1, <2>2, ConstantFacts DEF Present, TokenInv, Types
  <2>4. \A c \in Cid : owner[i] = c => i \in Present(c)
    BY <2>2 DEF Present
  <2>5. Lone'
    BY <2>3, <2>4 DEF TokenInv, Lone
  <2>6. \A c \in Cid : Present(c) = {} => Present(c)' = {}
    BY <2>3, <2>4
  <2>7. \A c \in Cid : Unstarted(c) => Unstarted(c)'
    BY <2>2, <2>6 DEF Unstarted
  <2>8. LateLone' /\ RunFirst' /\ ChainFresh'
    BY <1>1, <1>3, <2>2, <2>6, <2>7 DEF TokenInv, Types, LateLone, RunFirst, ChainFresh, ActPending, twVars
  <2>9. ViewSole' /\ RestartSole'
    BY <1>1, <2>2 DEF ViewSole, RestartSole
  <2> QED
    BY <2>5, <2>8, <2>9
<1>7. ASSUME NEW i \in Iid, TaskStops(i) \/ TaskForgotten(i) \/ LateStop(i) \/ Lost(i) PROVE Shrinks
  <2>1. CASE NoLaunch
    BY <1>1, <2>1, NoLaunchShrinks
  <2>2. CASE TaskStops(i) \/ TaskForgotten(i) \/ Lost(i)
    BY <1>1, <2>2, SetShrinks DEF TaskStops, TaskForgotten, Lost, TokenInv, Insts
  <2>3. CASE LateStop(i) /\ ~NoLaunch
    BY <1>1, <2>3, SetShrinks DEF LateStop, StopEffect, TokenInv, Types, Insts
  <2> QED
    BY <1>7, <2>1, <2>2, <2>3
<1> QED
  BY <1>4, <1>5, <1>6, <1>7 DEF PlatformStep

LEMMA TokenWorldMoves == TokenInv /\ WorldMoves => TokenInv'
<1> SUFFICES ASSUME TokenInv, WorldMoves PROVE TokenInv'
  OBVIOUS
<1>1. CASE LateRequest(FreshIds) /\ UNCHANGED <<actVars, job, drain>>
  <2>1. /\ Lone' /\ LateLone'
        /\ \A c \in Cid : Present(c)' = Present(c) /\ (Unstarted(c)' <=> Unstarted(c))
    BY <1>1, PlatformUntouched DEF actVars
  <2>2. tenant' \subseteq Cid
    BY <1>1 DEF LateRequest, Execute, FreshIds, TokenInv, Types
  <2>3. Types'
    BY <1>1, <2>2 DEF LateRequest, TokenInv, Types, actVars
  <2>4. Shape' /\ RunFirst' /\ ChainFresh' /\ ViewSole' /\ RestartSole'
    BY <1>1, <2>1 DEF LateRequest, TokenInv, Types, Shape, RunFirst, ChainFresh, ViewSole, RestartSole, actVars,
      ActPending, NoAct
  <2> QED
    BY <2>1, <2>3, <2>4 DEF TokenInv
<1> QED
  BY <1>1, TokenPlatformStep DEF WorldMoves

LEMMA TokenCrash == TokenInv /\ Crash => TokenInv'
<1> SUFFICES ASSUME TokenInv, Crash PROVE TokenInv'
  OBVIOUS
<1>1. /\ tw' = NoRequest /\ act' = NoAct /\ job' = IdleJob /\ platform' = platform
      /\ drain' = [c \in Cid |-> NoDrain]
      /\ faults' \in Nat
  BY ConstantFacts DEF Crash, Abandoned, Mishap, Mishaps, TokenInv, Types
<1>2. /\ Lone' /\ LateLone' /\ stopLate' \subseteq Insts /\ runLate' \subseteq Cid
      /\ owner' \in [Iid -> Cids] /\ status' \in [Iid -> {"none", "running", "stopping", "exited"}]
  <2>1. CASE AtStep("run")
    <3>1. act.conn \in Cid /\ Present(act.conn) = {} /\ act.conn \notin runLate
      BY <2>1 DEF AtStep, ActPending, TokenInv, RunFirst, Unstarted, Shape, Types, NoAct
    <3>2. RunUnanswered(Held) /\ stopLate' = stopLate
      BY <2>1 DEF Crash, Abandoned
    <3>3. CASE NoLaunch
      <4>1. Shrinks
        BY <1>1, <3>3, NoLaunchShrinks
      <4>2. runLate' = runLate \/ runLate' = runLate \cup {act.conn}
        BY <3>1, <3>2 DEF RunUnanswered
      <4> QED
        BY <3>1, <3>2, <3>3, <4>1, <4>2 DEF NoLaunch, TokenInv, Types, Lone, LateLone, Shrinks
    <3>4. CASE /\ \E st \in {"running", "exited"} : Launch(act.conn, st, Held)
               /\ runLate' = runLate
      <4>1. /\ Grows(act.conn) /\ owner' \in [Iid -> Cids]
            /\ status' \in [Iid -> {"none", "running", "stopping", "exited"}]
        BY <1>1, <3>1, <3>4, LaunchGrows DEF TokenInv
      <4> QED
        BY <3>1, <3>2, <3>4, <4>1, GrowingKeeps DEF TokenInv, Types
    <3> QED
      BY <3>2, <3>3, <3>4 DEF RunUnanswered
  <2>2. CASE ~AtStep("run")
    <3>1. /\ \/ NoLaunch
             \/ act.step = "stop" /\ StopEffect(act.inst)
             \/ platform # "ecs" /\ status[act.inst] # "none" /\ Set(act.inst, "running")
          /\ stopLate' = stopLate \/ stopLate' = stopLate \cup {act.inst}
          /\ runLate' = runLate
      BY <2>2 DEF Crash, Abandoned, CallUnanswered, ActPending, NoAct, TokenInv, Shape, Types
    <3>2. act.inst \in Insts
      BY DEF TokenInv, Types
    <3>3. /\ Shrinks
          /\ owner' \in [Iid -> Cids] /\ status' \in [Iid -> {"none", "running", "stopping", "exited"}]
      BY <1>1, <3>1, <3>2, NoLaunchShrinks, SetShrinks, SetTypes DEF StopEffect, NoLaunch, TokenInv, Types
    <3> QED
      BY <3>1, <3>2, <3>3, ShrinkingKeeps DEF TokenInv, Types
  <2> QED
    BY <2>1, <2>2
<1>3. /\ tenant' \subseteq Cid
      /\ twLate' \subseteq [op : Mutation, conn : Cids]
  <2>1. CASE UNCHANGED <<tenant, twLate>>
    BY <2>1 DEF TokenInv, Types
  <2>2. CASE TwPending /\ Unanswered(FreshIds)
    <3>1. tw.op \in Mutation /\ tw.conn \in Cids
      BY <2>2 DEF TwPending, TokenInv, Types, Shape, NoRequest
    <3> QED
      BY <2>2, <3>1 DEF Unanswered, Execute, FreshIds, TokenInv, Types
  <2> QED
    BY <2>1, <2>2 DEF Crash
<1>4. Types'
  BY <1>1, <1>2, <1>3, ConstantFacts DEF TokenInv, Types, NoRequest, NoAct, IdleJob, NoView, NoDrain, Cids, Insts
<1> QED
  BY <1>1, <1>2, <1>4, ConstantFacts DEF TokenInv, Shape, RunFirst, ChainFresh, ViewSole, RestartSole,
    NoRequest, NoAct, IdleJob, NoView, ActPending

LEMMA TokenStep == TokenInv /\ [Next]_vars => TokenInv'
<1> SUFFICES ASSUME TokenInv, [Next]_vars PROVE TokenInv'
  OBVIOUS
<1>1. CASE UNCHANGED vars
  <2> USE <1>1 DEF vars, twVars, actVars
  <2>1. /\ Lone' /\ LateLone'
        /\ \A c \in Cid : Present(c)' = Present(c) /\ (Unstarted(c)' <=> Unstarted(c))
    BY PlatformUntouched
  <2>2. act.conn \in Cid \/ ~ActPending
    BY DEF TokenInv, Types, Shape, ActPending, NoAct
  <2>3. Types' /\ Shape' /\ ChainFresh' /\ ViewSole'
    BY <2>1 DEF TokenInv, Types, Shape, ChainFresh, ViewSole
  <2>4. RunFirst' /\ RestartSole'
    BY <2>1, <2>2 DEF TokenInv, RunFirst, RestartSole, ActPending
  <2> QED
    BY <2>1, <2>3, <2>4 DEF TokenInv
<1>2. CASE \/ Discover \/ ToHealth \/ EndCycle \/ BeginProvision \/ ProvisionContinues \/ CallReturns
           \/ DeleteAnswered \/ RemovalReturns
           \/ \E c \in Cid : BeginRestart(c) \/ BeginDrain(c) \/ DrainGraceOver(c)
  BY <1>2, TokenJobSteps DEF Discover, ToHealth, EndCycle, BeginProvision, ProvisionContinues, CallReturns,
    DeleteAnswered, RemovalReturns, BeginRestart, BeginDrain, DrainGraceOver, twVars, actVars
<1>3. CASE TwMoves \/ ActMoves \/ WorldMoves \/ Crash
  BY <1>3, TokenTwMoves, TokenActMoves, TokenWorldMoves, TokenCrash
<1> QED
  BY <1>1, <1>2, <1>3 DEF Next, Continues

THEOREM TokenInvariance == Spec => []TokenInv
BY InitToken, TokenStep, PTL DEF Spec

\* The tokens of a Connector are active in one instance at most: the wait of
\* the ECS restart, for any number of Connectors, instances and faults.
THEOREM OneTokenOneInstance == Spec => []SingleActiveToken
<1>1. TokenInv => SingleActiveToken
  <2> SUFFICES ASSUME TokenInv, NEW c \in Cid PROVE Cardinality(Active(c)) <= 1
    BY DEF SingleActiveToken
  <2>1. Active(c) \subseteq Present(c)
    BY DEF Active, Present
  <2>2. Active(c) = {} \/ \E i : Active(c) = {i}
    BY <2>1 DEF TokenInv, Lone
  <2>3. CASE Active(c) = {}
    BY <2>3, FS_EmptySet
  <2>4. ASSUME NEW i, Active(c) = {i} PROVE Cardinality(Active(c)) <= 1
    <3>1. Cardinality({i}) = 1
      BY FS_Singleton
    <3> QED
      BY <2>4, <3>1
  <2> QED
    BY <2>2, <2>3, <2>4
<1> QED
  BY <1>1, TokenInvariance, PTL

-----------------------------------------------------------------------------
(***************************************************************************)
(* Drain before stop                                                       *)
(***************************************************************************)

\* Instances somebody refers to get no other owner, and the Connectors that are
\* being deleted or drained do not come back.
OwnersKept  == \A i \in Held \cap Iid : owner'[i] \in {owner[i], NoCid}
TenantsKept == \A c \in tenant' : c \in tenant \/ c \in FreshIds

LEMMA LaunchOwners ==
  ASSUME Types, NEW c, NEW s, Launch(c, s, Held)
  PROVE  OwnersKept
BY DEF Launch, OwnersKept, Types

LEMMA SetOwners ==
  ASSUME Types, NEW i, NEW s, Set(i, s)
  PROVE  OwnersKept
BY DEF Set, OwnersKept, Types

LEMMA NoLaunchOwners ==
  ASSUME NoLaunch
  PROVE  OwnersKept
BY DEF NoLaunch, OwnersKept

LEMMA StopOwners ==
  ASSUME Types, NEW i, StopEffect(i)
  PROVE  OwnersKept
BY SetOwners, NoLaunchOwners DEF StopEffect, Types

LEMMA ActOwners == Types /\ ActMoves => OwnersKept
<1> SUFFICES ASSUME Types, ActMoves PROVE OwnersKept
  OBVIOUS
<1>1. CASE Register \/ EcsDescribe \/ EcsPoll \/ RunPlacesNothing
  BY <1>1, NoLaunchOwners DEF Register, EcsDescribe, EcsPoll, RunPlacesNothing, NoLaunch
<1>2. CASE Run(Held) \/ RunFails(Held)
  BY <1>2, LaunchOwners, NoLaunchOwners DEF Run, RunFails, RunUnanswered
<1>3. CASE RestartInPlace \/ EcsStop \/ DockerStop \/ Delete
  BY <1>3, SetOwners, NoLaunchOwners DEF RestartInPlace, EcsStop, DockerStop, Delete
<1>4. CASE CallFails
  BY <1>4, NoLaunchOwners, SetOwners, StopOwners DEF CallFails, CallUnanswered
<1> QED
  BY <1>1, <1>2, <1>3, <1>4 DEF ActMoves, ActStep

LEMMA PlatformOwners == Types /\ PlatformStep(Held) => OwnersKept
<1> SUFFICES ASSUME Types, PlatformStep(Held) PROVE OwnersKept
  OBVIOUS
<1>1. CASE LateRun(Held)
  BY <1>1, LaunchOwners DEF LateRun
<1>2. CASE \E i \in Iid : TaskStops(i) \/ TaskForgotten(i) \/ LateStop(i) \/ Lost(i)
  BY <1>2, SetOwners, StopOwners DEF TaskStops, TaskForgotten, LateStop, Lost
<1>3. CASE \E i \in Iid : Recreated(i, Held)
  BY <1>3 DEF Recreated, OwnersKept, Types
<1> QED
  BY <1>1, <1>2, <1>3 DEF PlatformStep

LEMMA TwTenants ==
  TwMoves \/ LateRequest(FreshIds) => TenantsKept
BY DEF TwMoves, TwStep, PostSucceeds, PostRefused, PostUnanswered, PostRejected, LateRequest, Unanswered, Execute,
  TenantsKept

\* What these two facts keep, as long as the view, the drains and the kind of
\* the call stay.
LEMMA DrainFrame ==
  ASSUME TokenInv, DrainInv, OwnersKept, TenantsKept,
         job' = job, drain' = drain,
         act'.op = act.op, act'.conn = act.conn, act'.inst = act.inst
  PROVE  /\ \A c \in Cid : OwnOrNone(job.view[c], c)'
         /\ \A c \in Cid : (drain[c].phase # "none" => c \notin tenant /\ OwnOrNone(drain[c].inst, c))'
         /\ (act.op = "remove" => drain[act.conn].phase # "none" /\ drain[act.conn].inst = act.inst)'
<1>1. \A c \in Cid : OwnOrNone(job.view[c], c)'
  BY DEF DrainInv, OwnersKept, OwnOrNone, Held
<1>2. ASSUME NEW c \in Cid, drain[c].phase # "none"
      PROVE  c \notin tenant' /\ OwnOrNone(drain[c].inst, c)'
  <2>1. c \notin FreshIds
    BY <1>2 DEF FreshIds, Draining
  <2>2. drain[c].inst \in Held
    BY DEF Held
  <2> QED
    BY <1>2, <2>1, <2>2 DEF DrainInv, OwnersKept, TenantsKept, OwnOrNone
<1> QED
  BY <1>1, <1>2 DEF DrainInv

\* A delete that is answered well has removed its Connector.
LEMMA AnsweredDelete ==
  ASSUME TokenInv, TwStep(FreshIds), tw'.op = "delete", tw'.outcome = "ok"
  PROVE  tw'.conn \notin tenant'
<1>1. DOMAIN tw = {"op", "conn", "attempt", "outcome"} /\ tw.outcome = "pending"
  BY DEF TokenInv, Types, TwStep, PostSucceeds, PostRefused, PostUnanswered, PostRejected,
         TwPending
<1>2. CASE PostSucceeds(FreshIds)
  <2>1. tw'.op = tw.op
    BY <1>1, <1>2 DEF PostSucceeds
  <2>2. Execute(tw.op, tw.conn, FreshIds) /\ tw'.conn = tw.conn
    BY <1>1, <1>2, <2>1 DEF PostSucceeds
  <2> QED BY <2>1, <2>2 DEF Execute
<1>3. CASE PostRefused(FreshIds) \/ PostRejected(FreshIds)
  BY <1>1, <1>3 DEF PostRefused, PostRejected
<1>4. CASE PostUnanswered(FreshIds)
  BY <1>1, <1>4 DEF PostUnanswered
<1> QED BY <1>2, <1>3, <1>4 DEF TwStep

LEMMA DrainStep == TokenInv /\ DrainInv /\ [Next]_vars => DrainInv'
<1> SUFFICES ASSUME TokenInv, DrainInv, [Next]_vars PROVE DrainInv'
  OBVIOUS
<1>1. CASE UNCHANGED vars
  BY <1>1 DEF vars, twVars, actVars, DrainInv, OwnOrNone
<1>2. CASE TwMoves
  <2>1. OwnersKept /\ TenantsKept
    BY <1>2, TwTenants, NoLaunchOwners DEF TwMoves, actVars, NoLaunch
  <2>2. tw'.op = "delete" /\ tw'.outcome = "ok" => tw'.conn \notin tenant'
    BY <1>2, AnsweredDelete DEF TwMoves
  <2> QED
    BY <1>2, <2>1, <2>2, DrainFrame DEF TwMoves, actVars, DrainInv
<1>3. CASE ActMoves
  <2>1. ActGoesOn /\ OwnersKept /\ tenant' = tenant
    BY <1>3, CallGoesOn, ActOwners DEF ActMoves, twVars, TokenInv
  <2>2. TenantsKept
    BY <2>1 DEF TenantsKept
  <2> QED
    BY <1>3, <2>1, <2>2, DrainFrame DEF ActMoves, twVars, ActGoesOn, DrainInv
<1>4. CASE WorldMoves
  <2>1. OwnersKept /\ TenantsKept
    BY <1>4, TwTenants, PlatformOwners, NoLaunchOwners DEF WorldMoves, actVars, twVars, NoLaunch, TenantsKept, TokenInv
  <2>2. act' = act /\ tw' = tw /\ job' = job /\ drain' = drain
    BY <1>4 DEF WorldMoves, actVars, twVars, LateRequest, PlatformStep, TaskStops, TaskForgotten, LateRun, LateStop,
      Lost, Recreated
  <2>3. tw.conn \notin FreshIds
    BY DEF FreshIds
  <2> QED
    BY <2>1, <2>2, <2>3, DrainFrame DEF DrainInv, TenantsKept
<1>5. CASE Discover
  <2>1. PICK v \in Views : job' = [stage |-> "act", view |-> v, remedied |-> {}]
    BY <1>5 DEF Discover
  <2>2. \A c \in Cid : OwnOrNone(v[c], c)
    BY ConstantFacts DEF Views, OwnOrNone
  <2> QED
    BY <1>5, <2>1, <2>2 DEF Discover, twVars, actVars, DrainInv, OwnOrNone
<1>6. CASE ToHealth \/ BeginProvision \/ ProvisionContinues \/ CallReturns \/ \E c \in Cid : BeginRestart(c) \/ BeginDrain(c)
  <2>1. UNCHANGED <<owner, tenant, drain>> /\ job'.view = job.view
    BY <1>6 DEF ToHealth, BeginProvision, ProvisionContinues, CallReturns, BeginRestart, BeginDrain, twVars, actVars,
      TokenInv, Types
  <2>2. /\ act'.op # "remove" \/ act' = act
        /\ tw' = tw \/ tw'.outcome # "ok"
    <3>1. CASE ToHealth \/ CallReturns \/ \E c \in Cid : BeginRestart(c)
      BY <3>1 DEF ToHealth, CallReturns, BeginRestart, twVars, actVars, Call, NoAct
    <3>2. CASE BeginProvision \/ \E c \in Cid : BeginDrain(c)
      BY <3>2 DEF BeginProvision, BeginDrain, actVars, Request
    <3>3. CASE ProvisionContinues
      <4>1. /\ tw.op \in {"create", "tokens"}
            /\ tw.outcome \in {"ok", "failed"}
        BY <3>3 DEF ProvisionContinues, TokenInv, Types, Shape, TwPending, NoRequest
      <4>2. CASE tw.outcome = "failed"
        BY <3>3, <4>1, <4>2 DEF ProvisionContinues, NoRequest
      <4>3. CASE tw.outcome = "ok" /\ tw.op = "create"
        BY <3>3, <4>3 DEF ProvisionContinues, Request
      <4>4. CASE tw.outcome = "ok" /\ tw.op = "tokens"
        BY <3>3, <4>4 DEF ProvisionContinues, Call, NoRequest
      <4> QED
        BY <4>1, <4>2, <4>3, <4>4
    <3> QED
      BY <1>6, <3>1, <3>2, <3>3
  <2> QED
    BY <2>1, <2>2 DEF DrainInv, OwnOrNone
<1>7. CASE EndCycle
  BY <1>7, ConstantFacts DEF EndCycle, IdleJob, NoView, twVars, actVars, DrainInv, OwnOrNone
<1>8. CASE DeleteAnswered
  <2>1. act = NoAct /\ act' = act /\ tw.conn \in Cid
    BY <1>8 DEF DeleteAnswered, actVars, TokenInv, Shape, NoRequest
  <2> QED
    BY <1>8, <2>1 DEF DeleteAnswered, actVars, NoRequest, NoAct, DrainInv, OwnOrNone, TokenInv, Types
<1>9. ASSUME NEW c \in Cid, DrainGraceOver(c) PROVE DrainInv'
  <2>1. drain' = [drain EXCEPT ![c].phase = "removing"]
        /\ act' = [op |-> "remove", conn |-> c, inst |-> drain[c].inst,
                   step |-> "stop", polls |-> 0, outcome |-> "pending"]
    BY <1>9 DEF DrainGraceOver, Call, FirstStep
  <2> QED
    BY <1>9, <2>1 DEF DrainGraceOver, twVars, DrainInv, OwnOrNone, TokenInv, Types
<1>10. CASE RemovalReturns
  BY <1>10 DEF RemovalReturns, NoDrain, NoAct, twVars, DrainInv, OwnOrNone, TokenInv, Types
<1>11. CASE Crash
  BY <1>11, ConstantFacts DEF Crash, Abandoned, NoRequest, NoAct, IdleJob, NoView, NoDrain, DrainInv, OwnOrNone
<1> QED
  BY <1>1, <1>2, <1>3, <1>4, <1>5, <1>6, <1>7, <1>8, <1>9, <1>10, <1>11 DEF Next, Continues

LEMMA InitDrain == Init => DrainInv
BY ConstantFacts DEF Init, TwInit, ActInit, NoRequest, NoAct, IdleJob, NoView, NoDrain, DrainInv, OwnOrNone

\* Which steps stop a running instance.
LEMMA StoppedOnPurpose ==
  ASSUME TokenInv, DrainInv, Next, NEW i \in Iid,
         status[i] = "running", status'[i] # "running", owner[i] \in tenant
  PROVE  \/ act.op = "restart" /\ act.inst = i
         \/ i \in stopLate
         \/ faults' > faults
<1>1. \A n \in Nat \ {0} : Mishaps(n) => faults' > faults
  BY DEF Mishaps, TokenInv, Types
<1>2. CASE ActMoves
  <2>1. CASE Register \/ EcsDescribe \/ EcsPoll \/ RunPlacesNothing
    BY <2>1 DEF Register, EcsDescribe, EcsPoll, RunPlacesNothing
  <2>2. CASE Run(Held) \/ RunFails(Held)
    BY <2>2 DEF Run, RunFails, RunUnanswered, Launch, NoLaunch, TokenInv, Types
  <2>3. CASE RestartInPlace
    BY <2>3 DEF RestartInPlace, Set, NoLaunch, TokenInv, Types
  <2>4. CASE EcsStop \/ DockerStop \/ Delete
    <3>1. act.inst = i
      BY <2>4 DEF EcsStop, DockerStop, Delete, Set, NoLaunch, TokenInv, Types
    <3>2. act.op \in {"restart", "remove"} /\ act.conn \in Cid
      BY <2>4 DEF EcsStop, DockerStop, Delete, AtStep, ActPending, NoAct, TokenInv, Types, Shape
    <3>3. act.op # "remove"
      BY <3>1, <3>2, ConstantFacts DEF DrainInv, OwnOrNone, TokenInv, Types
    <3> QED
      BY <3>1, <3>2, <3>3
  <2>5. CASE CallFails
    BY <1>1, <2>5 DEF CallFails, Mishap
  <2> QED
    BY <1>2, <2>1, <2>2, <2>3, <2>4, <2>5 DEF ActMoves, ActStep
<1>3. CASE WorldMoves
  <2>1. ASSUME NEW j \in Iid, TaskStops(j) \/ TaskForgotten(j) PROVE FALSE
    BY <2>1 DEF TaskStops, TaskForgotten, Set, TokenInv, Types
  <2>2. ASSUME NEW j \in Iid, LateStop(j) PROVE i \in stopLate
    <3>1. status' = status \/ \E s : status' = [status EXCEPT ![j] = s]
      BY <2>2 DEF LateStop, StopEffect, Set, NoLaunch, TokenInv, Types
    <3>2. j = i
      BY <1>1, <3>1 DEF TokenInv, Types
    <3> QED BY <2>2, <3>2 DEF LateStop
  <2>3. ASSUME NEW j \in Iid, Lost(j) \/ Recreated(j, Held) PROVE faults' > faults
    BY <1>1, <2>3 DEF Lost, Recreated, Mishap
  <2>4. CASE LateRun(Held)
    BY <2>4 DEF LateRun, Launch, TokenInv, Types
  <2> QED
    BY <1>3, <2>1, <2>2, <2>3, <2>4 DEF WorldMoves, PlatformStep, actVars
<1>4. CASE Crash
  BY <1>1, <1>4 DEF Crash, Mishap
<1> QED
  BY <1>2, <1>3, <1>4 DEF Next, Continues, TwMoves, Discover, ToHealth, EndCycle, BeginProvision, ProvisionContinues,
    CallReturns, DeleteAnswered, RemovalReturns, BeginRestart, BeginDrain, DrainGraceOver, actVars

\* The tenant has forgotten a Connector before its instance is stopped, except
\* by its own restart or a fault.
THEOREM DeletedBeforeStopped == Spec => DrainBeforeStop
<1>1. Spec => [](TokenInv /\ DrainInv)
  BY InitToken, InitDrain, TokenStep, DrainStep, PTL DEF Spec
<1>2. ASSUME TokenInv, DrainInv, [Next]_vars
      PROVE  [\A i \in Iid :
                /\ status[i] = "running" /\ status'[i] # "running"
                /\ owner[i] \in tenant
                => \/ act.op = "restart" /\ act.inst = i
                   \/ i \in stopLate
                   \/ faults' > faults]_vars
  BY <1>2, StoppedOnPurpose DEF vars, actVars
<1> QED
  BY <1>1, <1>2, PTL DEF Spec, DrainBeforeStop

-----------------------------------------------------------------------------
(***************************************************************************)
(* Bounds and bookkeeping: attempts and polls are counted, and the entry   *)
(* of a drain and its removal call belong together.                        *)
(***************************************************************************)
Bounds ==
  /\ faults <= MaxFaults
  /\ tw.attempt < MaxRetries
  /\ act.polls < StopAttempts
  /\ platform \in Platforms /\ taskDef \in BOOLEAN

\* A removal works on the instance that its drain was given, and that on one
\* which discovery had seen.
Removals ==
  /\ stopLate \subseteq Iid
  /\ act.op \in {"restart", "remove"} => act.inst \in Iid
  /\ tw.op = "delete" => job.view[tw.conn] \in Iid
  /\ \A c \in Cid : drain[c].phase # "none" => drain[c].inst \in Iid
  /\ \A c \in Cid : drain[c].phase = "removing" <=> act.op = "remove" /\ act.conn = c

LEMMA CountsPositive == MaxRetries \in Nat \ {0} /\ StopAttempts \in Nat \ {0} /\ MaxFaults \in Nat
BY RetriesAssumption, ActuatorsAssumption, FailuresAssumption

LEMMA InitBounds == Init => Bounds /\ Removals
<1> SUFFICES ASSUME Init PROVE Bounds /\ Removals
  OBVIOUS
<1>1. Bounds
  <2>1. tw.attempt = 0 /\ act.polls = 0
    BY DEF Init, TwInit, ActInit, NoRequest, NoAct
  <2>2. faults = 0 /\ platform \in Platforms /\ taskDef \in BOOLEAN
    BY DEF Init, ActInit
  <2> QED BY <2>1, <2>2, CountsPositive DEF Bounds
<1>2. Removals
  BY DEF Init, TwInit, ActInit, NoRequest, NoAct, NoDrain, Removals
<1> QED BY <1>1, <1>2

LEMMA BoundsTwMoves == TokenInv /\ Bounds /\ Removals /\ TwMoves => Bounds' /\ Removals'
<1> SUFFICES ASSUME TokenInv, Bounds, Removals, TwMoves PROVE Bounds' /\ Removals'
  OBVIOUS
<1>1. UNCHANGED <<actVars, job, drain>> /\ TwStep(FreshIds)
  BY DEF TwMoves
<1>2. tw'.op = tw.op /\ (tw.op # "create" => tw'.conn = tw.conn)
  BY <1>1 DEF TwStep, PostSucceeds, PostRefused, PostUnanswered, PostRejected, TokenInv, Types
<1>3. tw'.attempt < MaxRetries
  BY <1>1, CountsPositive
     DEF TwStep, PostSucceeds, PostRefused, PostUnanswered, PostRejected, TokenInv, Types, Bounds
<1>4. faults' <= MaxFaults
  BY <1>1 DEF TwStep, PostSucceeds, PostRefused, PostUnanswered, PostRejected, Mishap, Mishaps, Bounds
<1> QED BY <1>1, <1>2, <1>3, <1>4 DEF actVars, Bounds, Removals

LEMMA BoundsActMoves == TokenInv /\ Bounds /\ Removals /\ ActMoves => Bounds' /\ Removals'
<1> SUFFICES ASSUME TokenInv, Bounds, Removals, ActMoves PROVE Bounds' /\ Removals'
  OBVIOUS
<1>1. UNCHANGED <<twVars, job, drain>> /\ ActStep(Held)
  BY DEF ActMoves
<1>2. act'.op = act.op /\ act'.conn = act.conn /\ act'.inst = act.inst
  BY <1>1, CallGoesOn DEF ActMoves, ActGoesOn, TokenInv
<1>3. act'.polls < StopAttempts
  BY <1>1, CountsPositive
     DEF ActStep, Register, Run, RunPlacesNothing, RunFails, RestartInPlace, EcsDescribe, EcsPoll,
         EcsStop, DockerStop, Delete, CallFails, Goto, Succeed, Fail, TokenInv, Types, Bounds
<1>4. faults' <= MaxFaults /\ platform' = platform /\ taskDef' \in BOOLEAN
  BY <1>1
     DEF ActStep, Register, Run, RunPlacesNothing, RunFails, RestartInPlace, EcsDescribe, EcsPoll,
         EcsStop, DockerStop, Delete, CallFails, Mishap, Mishaps, Bounds
<1>5. stopLate' \subseteq Iid
  <2>1. CASE CallFails
    <3>1. act.step = "stop" => act.op \in {"restart", "remove"}
      BY DEF TokenInv, Types, Shape, NoAct
    <3> QED BY <2>1, <3>1 DEF CallFails, CallUnanswered, Removals
  <2>2. CASE ~CallFails
    BY <1>1, <2>2
       DEF ActStep, Register, Run, RunPlacesNothing, RunFails, RestartInPlace, EcsDescribe,
           EcsPoll, EcsStop, DockerStop, Delete, Removals
  <2> QED BY <2>1, <2>2
<1> QED BY <1>1, <1>2, <1>3, <1>4, <1>5 DEF twVars, Bounds, Removals

LEMMA BoundsWorldMoves == TokenInv /\ Bounds /\ Removals /\ WorldMoves => Bounds' /\ Removals'
<1> SUFFICES ASSUME TokenInv, Bounds, Removals, WorldMoves PROVE Bounds' /\ Removals'
  OBVIOUS
<1>1. UNCHANGED <<tw, act, job, drain, platform, taskDef>>
  BY DEF WorldMoves, actVars, twVars, LateRequest, PlatformStep, TaskStops, TaskForgotten, LateRun,
         LateStop, Lost, Recreated
<1>2. faults' <= MaxFaults /\ stopLate' \subseteq stopLate
  BY DEF WorldMoves, actVars, twVars, LateRequest, PlatformStep, TaskStops, TaskForgotten, LateRun,
         LateStop, Lost, Recreated, Mishap, Mishaps, Bounds
<1> QED BY <1>1, <1>2 DEF Bounds, Removals

LEMMA BoundsCrash == TokenInv /\ Bounds /\ Removals /\ Crash => Bounds' /\ Removals'
<1> SUFFICES ASSUME TokenInv, Bounds, Removals, Crash PROVE Bounds' /\ Removals'
  OBVIOUS
<1>1. /\ tw' = NoRequest /\ act' = NoAct /\ drain' = [c \in Cid |-> NoDrain]
      /\ platform' = platform /\ taskDef' \in BOOLEAN /\ faults' <= MaxFaults
  BY DEF Crash, Abandoned, Mishap, Mishaps
<1>2. stopLate' \subseteq Iid
  <2>1. act.step = "stop" => act.op \in {"restart", "remove"}
    BY DEF TokenInv, Types, Shape, NoAct
  <2> QED BY <2>1 DEF Crash, Abandoned, CallUnanswered, Removals
<1>3. Bounds'
  <2>1. tw'.attempt = 0 /\ act'.polls = 0
    BY <1>1 DEF NoRequest, NoAct
  <2> QED BY <1>1, <2>1, CountsPositive DEF Bounds
<1>4. Removals'
  BY <1>1, <1>2 DEF Removals, NoRequest, NoAct, NoDrain
<1> QED BY <1>3, <1>4

LEMMA BoundsJobSteps ==
  ASSUME TokenInv, Bounds, Removals,
         \/ Discover \/ ToHealth \/ EndCycle \/ BeginProvision \/ ProvisionContinues \/ CallReturns
         \/ DeleteAnswered \/ RemovalReturns
         \/ \E c \in Cid : BeginRestart(c) \/ BeginDrain(c) \/ DrainGraceOver(c)
  PROVE  Bounds' /\ Removals'
<1> USE CountsPositive
<1>1. CASE Discover \/ ToHealth \/ EndCycle
  <2>1. UNCHANGED <<twVars, actVars, drain, faults>> /\ tw.op # "delete"
    BY <1>1 DEF Discover, ToHealth, EndCycle, LockFree, NoCall, NoRequest
  <2> QED BY <2>1 DEF twVars, actVars, Bounds, Removals
<1>2. CASE BeginProvision
  BY <1>2 DEF BeginProvision, Request, actVars, Bounds, Removals
<1>3. CASE ProvisionContinues
  <2>1. /\ act = NoAct /\ (act' = NoAct \/ Call("provision", tw.conn, NoInst))
        /\ tw' = NoRequest \/ Request("tokens", tw.conn)
        /\ UNCHANGED <<platform, taskDef, stopLate, job, drain, faults>>
    <3>1. tw.outcome \in {"ok", "failed"} /\ act = NoAct
      BY <1>3 DEF ProvisionContinues, TokenInv, Types, Shape, TwPending, NoRequest
    <3>2. CASE tw.outcome = "failed"
      BY <1>3, <3>1, <3>2 DEF ProvisionContinues
    <3>3. CASE tw.outcome = "ok" /\ tw.op = "create"
      BY <1>3, <3>1, <3>3 DEF ProvisionContinues
    <3>4. CASE tw.outcome = "ok" /\ tw.op = "tokens"
      BY <1>3, <3>1, <3>4 DEF ProvisionContinues
    <3> QED BY <1>3, <3>1, <3>2, <3>3, <3>4 DEF ProvisionContinues
  <2>2. act'.op # "remove" /\ act'.op # "restart" /\ act'.polls < StopAttempts
    BY <2>1 DEF Call, NoAct
  <2>3. tw'.op # "delete" /\ tw'.attempt < MaxRetries
    BY <2>1 DEF Request, NoRequest
  <2>4. Bounds'
    BY <2>1, <2>2, <2>3 DEF Bounds
  <2>5. \A c \in Cid : drain[c].phase # "removing"
    <3>1. act.op # "remove"
      BY <2>1 DEF NoAct
    <3> QED BY <3>1 DEF Removals
  <2>6. Removals'
    BY <2>1, <2>2, <2>3, <2>5 DEF Removals
  <2> QED BY <2>4, <2>6
<1>4. CASE CallReturns
  BY <1>4 DEF CallReturns, NoAct, twVars, Bounds, Removals
<1>5. CASE DeleteAnswered
  <2>1. act = NoAct /\ tw.conn \in Cid
    BY <1>5 DEF DeleteAnswered, TokenInv, Shape, NoRequest
  <2>2. job.view[tw.conn] \in Iid
    BY <1>5 DEF DeleteAnswered, Removals
  <2>3. \A c \in Cid : drain'[c].phase = "none" \/ drain'[c].inst \in Iid
    BY <1>5, <2>1, <2>2 DEF DeleteAnswered, Removals, TokenInv, Types
  <2>4. \A c \in Cid : drain'[c].phase # "removing"
    BY <1>5, <2>1 DEF DeleteAnswered, Removals, TokenInv, Types, NoAct
  <2> QED BY <1>5, <2>1, <2>3, <2>4 DEF DeleteAnswered, actVars, NoRequest, NoAct, Bounds, Removals
<1>6. CASE RemovalReturns
  BY <1>6 DEF RemovalReturns, NoDrain, NoAct, twVars, Bounds, Removals, TokenInv, Types
<1>7. ASSUME NEW c \in Cid, BeginRestart(c) PROVE Bounds' /\ Removals'
  <2>1. /\ act = NoAct /\ tw = NoRequest /\ job.view[c] \in Iid
        /\ act'.op = "restart" /\ act'.inst = job.view[c] /\ act'.polls = 0
    BY <1>7 DEF BeginRestart, NoCall, Call, TokenInv, Types, Insts
  <2> QED BY <1>7, <2>1 DEF BeginRestart, twVars, NoAct, NoRequest, Bounds, Removals
<1>8. ASSUME NEW c \in Cid, BeginDrain(c) PROVE Bounds' /\ Removals'
  <2>1. job.view[c] \in Iid
    BY <1>8 DEF BeginDrain, TokenInv, Types, Insts
  <2> QED BY <1>8, <2>1 DEF BeginDrain, Request, actVars, Bounds, Removals
<1>9. ASSUME NEW c \in Cid, DrainGraceOver(c) PROVE Bounds' /\ Removals'
  <2>1. /\ act = NoAct /\ tw = NoRequest /\ drain[c].phase = "grace" /\ drain[c].inst \in Iid
        /\ act'.op = "remove" /\ act'.conn = c /\ act'.inst = drain[c].inst /\ act'.polls = 0
        /\ drain' = [drain EXCEPT ![c].phase = "removing"]
    BY <1>9 DEF DrainGraceOver, LockFree, NoCall, Call, Removals
  <2>2. \A d \in Cid : /\ drain'[d].inst = drain[d].inst
                       /\ drain'[d].phase = IF d = c THEN "removing" ELSE drain[d].phase
    BY <2>1 DEF TokenInv, Types
  <2> QED BY <1>9, <2>1, <2>2 DEF DrainGraceOver, twVars, NoAct, NoRequest, Bounds, Removals
<1> QED BY <1>1, <1>2, <1>3, <1>4, <1>5, <1>6, <1>7, <1>8, <1>9

LEMMA BoundsStep == TokenInv /\ Bounds /\ Removals /\ [Next]_vars => Bounds' /\ Removals'
<1> SUFFICES ASSUME TokenInv, Bounds, Removals, [Next]_vars PROVE Bounds' /\ Removals'
  OBVIOUS
<1>1. CASE UNCHANGED vars
  BY <1>1 DEF vars, twVars, actVars, Bounds, Removals
<1>2. CASE TwMoves \/ ActMoves \/ WorldMoves \/ Crash
  BY <1>2, BoundsTwMoves, BoundsActMoves, BoundsWorldMoves, BoundsCrash
<1> QED BY <1>1, <1>2, BoundsJobSteps DEF Next, Continues

\* The state of the calls is well typed: no request is tried more often than
\* max_retries, no stopping task polled more often than stop_wait_attempts, one
\* call is in progress at a time, and exactly the drain whose container is being
\* removed is in its second phase, wherever calls fail and the manager dies.
THEOREM OpsTypeCorrect == Spec => []OpsTypeOK
<1>1. Spec => [](TokenInv /\ Bounds /\ Removals)
  BY InitToken, InitBounds, TokenStep, BoundsStep, PTL DEF Spec
<1>2. TokenInv /\ Bounds /\ Removals => OpsTypeOK
  <2> SUFFICES ASSUME TokenInv, Bounds, Removals PROVE OpsTypeOK
    OBVIOUS
  <2>1. faults \in 0..MaxFaults
    BY CountsPositive DEF TokenInv, Types, Bounds
  <2>2. tw \in [op : Mutation \cup {"none"}, conn : Cid \cup {NoCid}, attempt : 0..MaxRetries - 1,
                outcome : {"none", "pending", "ok", "failed"}]
    BY CountsPositive DEF TokenInv, Types, Bounds, Cids
  <2>3. act \in [op : {"none", "provision", "restart", "remove"}, conn : Cid \cup {NoCid},
                 inst : Iid \cup {NoInst},
                 step : {"none", "register", "run", "describe", "stop", "wait", "restart", "delete"},
                 polls : 0..StopAttempts - 1, outcome : {"none", "pending", "ok", "failed"}]
    BY CountsPositive DEF TokenInv, Types, Bounds, Cids, Insts
  <2>4. \A c \in Cid : drain[c].phase = "removing" <=> act.op = "remove" /\ act.conn = c
    BY DEF Removals
  <2> QED BY <2>1, <2>2, <2>3, <2>4 DEF TokenInv, Types, Shape, Bounds, Removals, OpsTypeOK, Cids, Insts
<1> QED BY <1>1, <1>2, PTL
-----------------------------------------------------------------------------
(***************************************************************************)
(* On Docker and ACI the calls implement the abstract life of a Connector. *)
(***************************************************************************)

\* A delete of c is under way, or may still be executed.
Deletes(c) ==
  \/ tw.op = "delete" /\ tw.conn = c
  \/ \E r \in twLate : r.op = "delete" /\ r.conn = c

\* c has its tokens and no instance yet.
Provided(c) ==
  \/ c \in runLate
  \/ act.op = "provision" /\ act.conn = c
  \/ tw.op = "tokens" /\ tw.outcome = "ok" /\ tw.conn = c

Arriving(c) == Provided(c) \/ (tw.op \in {"create", "tokens"} /\ tw.conn = c)

\* Nothing deletes a Connector whose instance is still to come, and nothing
\* stops the instance of one that is not deleted.
CallInv ==
  platform # "ecs" =>
    /\ \A c \in Cid : Arriving(c) => ~Deletes(c) /\ job.view[c] = NoInst
    /\ \A c \in Cid : Provided(c) => c \in tenant
    /\ \A i \in stopLate : owner[i] \notin tenant

OpsInv == TokenInv /\ DrainInv /\ Removals /\ CallInv

\* What a step does to the tenant.
TenantEffect ==
  \/ tenant' = tenant
  \/ \E c \in FreshIds : tenant' = tenant \cup {c}
  \/ \E c \in Cid : Deletes(c) /\ tenant' = tenant \ {c}

FaultsCounted == faults' = faults \/ faults' = faults + 1

LEMMA ExecuteEffect ==
  ASSUME NEW op, NEW c, op = "delete" => c \in Cid /\ Deletes(c), Execute(op, c, FreshIds)
  PROVE  TenantEffect
BY DEF Execute, TenantEffect

LEMMA TwEffect ==
  ASSUME TokenInv, TwMoves
  PROVE  /\ TenantEffect /\ FaultsCounted
         /\ UNCHANGED <<actVars, job, drain>>
         /\ tw'.op = tw.op
         /\ \/ tw'.conn = tw.conn
            \/ tw.op = "create" /\ tw'.conn \in FreshIds
         /\ \A r \in twLate' : r \in twLate \/ (r.op = tw.op /\ r.conn = tw.conn)
         /\ tw'.outcome = "ok" /\ tw.op = "tokens" => tw.conn \in tenant /\ tenant' = tenant
<1> USE DEF FaultsCounted, Mishap, Mishaps
<1>1. /\ DOMAIN tw = {"op", "conn", "attempt", "outcome"} /\ tw.outcome = "pending"
      /\ UNCHANGED <<actVars, job, drain>>
      /\ tw.op = "delete" => tw.conn \in Cid /\ Deletes(tw.conn)
  BY DEF TokenInv, Types, Shape, TwMoves, TwStep, PostSucceeds, PostRefused, PostUnanswered, PostRejected,
         TwPending, Deletes
<1>2. CASE PostSucceeds(FreshIds)
  <2>1. UNCHANGED <<twLate, faults>>
    BY <1>2 DEF PostSucceeds
  <2>2. CASE tw.op = "create"
    <3>1. PICK n \in FreshIds : /\ tenant' = tenant \cup {n}
                                /\ tw' = [tw EXCEPT !.conn = n, !.outcome = "ok"]
      BY <1>2, <2>2 DEF PostSucceeds
    <3>2. TenantEffect
      BY <3>1 DEF TenantEffect
    <3> QED BY <1>1, <2>1, <2>2, <3>1, <3>2
  <2>3. CASE tw.op # "create"
    <3>1. /\ tw.conn \in tenant /\ Execute(tw.op, tw.conn, FreshIds)
          /\ tw' = [tw EXCEPT !.outcome = "ok"]
      BY <1>2, <2>3 DEF PostSucceeds
    <3>2. TenantEffect
      BY <1>1, <3>1, ExecuteEffect
    <3>3. tw.op = "tokens" => tenant' = tenant
      BY <3>1 DEF Execute
    <3> QED BY <1>1, <2>1, <3>1, <3>2, <3>3
  <2> QED BY <2>2, <2>3
<1>3. CASE PostRefused(FreshIds)
  BY <1>1, <1>3 DEF PostRefused, TenantEffect
<1>4. CASE PostUnanswered(FreshIds)
  <2>1. tw' = [tw EXCEPT !.attempt = @ + 1] \/ tw' = [tw EXCEPT !.outcome = "failed"]
    BY <1>4 DEF PostUnanswered
  <2>2. /\ TenantEffect
        /\ \A r \in twLate' : r \in twLate \/ (r.op = tw.op /\ r.conn = tw.conn)
    BY <1>1, <1>4, ExecuteEffect DEF PostUnanswered, Unanswered, TenantEffect
  <2> QED BY <1>1, <1>4, <2>1, <2>2 DEF PostUnanswered
<1>5. CASE PostRejected(FreshIds)
  <2>1. TenantEffect
    BY <1>1, <1>5, ExecuteEffect DEF PostRejected, TenantEffect
  <2> QED BY <1>1, <1>5, <2>1 DEF PostRejected
<1> QED BY <1>2, <1>3, <1>4, <1>5 DEF TwMoves, TwStep

\* A request that was given up is executed.
LEMMA LateEffect ==
  ASSUME TokenInv, LateRequest(FreshIds)
  PROVE  /\ TenantEffect /\ UNCHANGED <<tw, faults>>
         /\ twLate' \subseteq twLate
<1>1. PICK r \in twLate : Execute(r.op, r.conn, FreshIds) /\ twLate' = twLate \ {r}
  BY DEF LateRequest
<1>2. CASE r.op # "delete"
  BY <1>1, <1>2, ExecuteEffect DEF LateRequest
<1>3. CASE r.op = "delete"
  <2>1. Deletes(r.conn)
    BY <1>3 DEF Deletes
  <2>2. tenant' = tenant \ {r.conn}
    BY <1>1, <1>3 DEF Execute
  <2>3. TenantEffect
    BY <2>1, <2>2 DEF TenantEffect, TokenInv, Types
  <2> QED BY <1>1, <2>3 DEF LateRequest
<1> QED BY <1>2, <1>3

\* What a step does to the instances: nothing that Connectors notice, a first
\* instance for a Connector of the tenant, or the end of one, which is due to a
\* fault or belongs to a Connector the tenant has forgotten.
Kept    == \A c \in Cid : Contained(c)' <=> Contained(c)
Gets(c) == Contained(c)' /\ \A d \in Cid \ {c} : Contained(d)' <=> Contained(d)
Drops(c) ==
  /\ Contained(c)' => Contained(c)
  /\ \A d \in Cid \ {c} : Contained(d)' <=> Contained(d)

InstanceEffect ==
  \/ Kept
  \/ \E c \in tenant : Gets(c)
  \/ \E c \in Cid : Drops(c) /\ (c \notin tenant \/ faults' = faults + 1)

LEMMA NoLaunchKeeps ==
  ASSUME NoLaunch PROVE Kept
BY DEF NoLaunch, Kept, Contained

LEMMA LaunchGets ==
  ASSUME Types, NEW c \in Cid, NEW s \in {"running", "exited"}, Launch(c, s, Held)
  PROVE  Gets(c)
<1>1. PICK i \in Iid : /\ status[i] = "none"
                       /\ status' = [status EXCEPT ![i] = s]
                       /\ owner' = [owner EXCEPT ![i] = c]
  BY DEF Launch
<1>2. owner'[i] = c /\ status'[i] = s
  BY <1>1 DEF Types
<1>3. \A j \in Iid \ {i} : owner'[j] = owner[j] /\ status'[j] = status[j]
  BY <1>1 DEF Types
<1>4. Contained(c)'
  BY <1>2 DEF Contained
<1>5. ASSUME NEW d \in Cid \ {c} PROVE Contained(d)' <=> Contained(d)
  BY <1>1, <1>2, <1>3 DEF Contained
<1> QED BY <1>4, <1>5 DEF Gets

\* An instance that is there changes its state, or goes.
LEMMA SetKeeps ==
  ASSUME Types, NEW i \in Iid, NEW s, s # "none", status[i] # "none", Set(i, s)
  PROVE  Kept
<1>1. owner' = owner /\ \A j \in Iid : status'[j] = "none" <=> status[j] = "none"
  BY DEF Types, Set
<1> QED BY <1>1 DEF Kept, Contained

LEMMA SetDrops ==
  ASSUME Types, NEW i \in Iid, NEW s, Set(i, s), s = "none" \/ status[i] # "none",
         owner[i] \notin tenant \/ faults' = faults + 1
  PROVE  InstanceEffect
<1>1. CASE s # "none"
  BY <1>1, SetKeeps DEF InstanceEffect
<1>2. CASE s = "none"
  <2>1. /\ status'[i] = "none"
        /\ \A j \in Iid \ {i} : owner'[j] = owner[j] /\ status'[j] = status[j]
    BY <1>2 DEF Types, Set
  <2>2. \A d \in Cid : Contained(d)' => Contained(d)
    BY <2>1 DEF Contained
  <2>3. \A d \in Cid \ {owner[i]} : Contained(d) => Contained(d)'
    BY <2>1 DEF Contained
  <2>4. owner[i] = NoCid \/ owner[i] \in Cid
    BY DEF Types, Cids
  <2>5. CASE owner[i] \in Cid
    BY <2>2, <2>3, <2>5 DEF Drops, InstanceEffect
  <2>6. CASE owner[i] = NoCid
    <3>1. Kept
      BY <2>2, <2>3, <2>6, ConstantFacts DEF Kept
    <3> QED BY <3>1 DEF InstanceEffect
  <2> QED BY <2>4, <2>5, <2>6
<1> QED BY <1>1, <1>2

LEMMA StopEffects ==
  ASSUME Types, platform # "ecs", NEW i \in Iid, StopEffect(i),
         owner[i] \notin tenant \/ faults' = faults + 1
  PROVE  InstanceEffect
<1>1. CASE NoLaunch
  BY <1>1, NoLaunchKeeps DEF InstanceEffect
<1>2. CASE status[i] # "none"
  <2>1. Set(i, "none") \/ Set(i, "exited")
    BY <1>2 DEF StopEffect, Types
  <2> QED BY <1>2, <2>1, SetDrops
<1> QED BY <1>1, <1>2 DEF StopEffect

\* Off ECS only a provision runs an instance, and only a removal stops one, for
\* a Connector that is not in the tenant any more.
LEMMA RunsProvision ==
  ASSUME OpsInv, platform # "ecs", AtStep("run")
  PROVE  act.op = "provision" /\ act.conn \in tenant /\ Provided(act.conn) /\ act.conn \in Cid
<1>1. act.op = "provision" /\ act.conn \in Cid
  BY DEF OpsInv, TokenInv, Types, Shape, AtStep, ActPending, NoAct
<1> QED BY <1>1 DEF OpsInv, CallInv, Provided

LEMMA StopsRemoved ==
  ASSUME OpsInv, platform # "ecs", AtStep("stop") \/ AtStep("delete")
  PROVE  act.op = "remove" /\ act.inst \in Iid /\ owner[act.inst] \notin tenant
<1>1. act.op = "remove"
  BY DEF OpsInv, TokenInv, Types, Shape, AtStep, ActPending, NoAct
<1>2. act.inst \in Iid /\ act.conn \in Cid
  BY <1>1 DEF OpsInv, Removals, TokenInv, Shape
<1>3. act.conn \notin tenant /\ owner[act.inst] \in {act.conn, NoCid}
  BY <1>1, <1>2 DEF OpsInv, DrainInv, OwnOrNone
<1> QED BY <1>1, <1>2, <1>3, ConstantFacts DEF OpsInv, TokenInv, Types

LEMMA RunUnansweredEffect ==
  ASSUME OpsInv, platform # "ecs", AtStep("run"), RunUnanswered(Held)
  PROVE  InstanceEffect /\ runLate' \subseteq runLate \cup {act.conn}
<1>1. act.conn \in Cid /\ act.conn \in tenant
  BY RunsProvision
<1>2. CASE NoLaunch
  BY <1>2, NoLaunchKeeps DEF InstanceEffect, RunUnanswered
<1>3. CASE \E s \in {"running", "exited"} : Launch(act.conn, s, Held)
  <2>1. Gets(act.conn)
    BY <1>1, <1>3, LaunchGets DEF OpsInv, TokenInv
  <2> QED BY <1>1, <2>1 DEF InstanceEffect, RunUnanswered
<1> QED BY <1>2, <1>3 DEF RunUnanswered

LEMMA CallUnansweredEffect ==
  ASSUME OpsInv, platform # "ecs", ActPending, CallUnanswered, faults' = faults + 1
  PROVE  /\ InstanceEffect
         /\ \A i \in stopLate' : i \in stopLate \/ (AtStep("stop") /\ i = act.inst)
<1>1. CASE NoLaunch
  BY <1>1, NoLaunchKeeps DEF InstanceEffect, CallUnanswered, AtStep
<1>2. CASE AtStep("stop") /\ StopEffect(act.inst) /\ UNCHANGED stopLate
  <2>1. act.inst \in Iid
    BY <1>2, StopsRemoved
  <2> QED BY <1>2, <2>1, StopEffects DEF OpsInv, TokenInv
<1>3. CASE /\ AtStep("restart") /\ status[act.inst] # "none"
           /\ Set(act.inst, "running") /\ UNCHANGED stopLate
  <2>1. act.inst \in Iid
    BY <1>3 DEF AtStep, ActPending, NoAct, OpsInv, TokenInv, Types, Shape, Removals
  <2> QED BY <1>3, <2>1, SetKeeps DEF InstanceEffect, OpsInv, TokenInv
<1> QED BY <1>1, <1>2, <1>3 DEF CallUnanswered, AtStep

LEMMA ActEffect ==
  ASSUME OpsInv, platform # "ecs", ActMoves
  PROVE  /\ InstanceEffect /\ FaultsCounted
         /\ act'.op = act.op /\ act'.conn = act.conn
         /\ \A c \in runLate' : c \in runLate \/ (act.op = "provision" /\ c = act.conn)
         /\ \A i \in stopLate' : i \in stopLate \/ owner[i] \notin tenant
<1> USE DEF FaultsCounted, Mishap, Mishaps
<1>1. act'.op = act.op /\ act'.conn = act.conn
  BY CallGoesOn DEF OpsInv, ActGoesOn
<1>2. CASE Register \/ EcsDescribe \/ EcsPoll
  BY <1>1, <1>2, NoLaunchKeeps DEF Register, EcsDescribe, EcsPoll, NoLaunch, InstanceEffect
<1>3. CASE Run(Held)
  <2>1. act.conn \in Cid /\ act.conn \in tenant
    BY <1>3, RunsProvision DEF Run
  <2>2. Gets(act.conn)
    BY <1>3, <2>1, LaunchGets DEF Run, OpsInv, TokenInv
  <2> QED BY <1>1, <1>3, <2>1, <2>2 DEF Run, InstanceEffect
<1>4. CASE RunFails(Held)
  <2>1. act.op = "provision" /\ AtStep("run")
    BY <1>4, RunsProvision DEF RunFails
  <2>2. CASE RunUnanswered(Held)
    BY <1>1, <1>4, <2>1, <2>2, RunUnansweredEffect DEF RunFails
  <2>3. CASE NoLaunch /\ UNCHANGED <<runLate, faults>>
    BY <1>1, <1>4, <2>3, NoLaunchKeeps DEF RunFails, InstanceEffect
  <2> QED BY <1>4, <2>2, <2>3 DEF RunFails
<1>5. CASE RestartInPlace
  <2>1. act.inst \in Iid
    BY <1>5 DEF RestartInPlace, AtStep, ActPending, NoAct, OpsInv, TokenInv, Types, Shape, Removals
  <2>2. InstanceEffect
    BY <1>5, <2>1, NoLaunchKeeps, SetKeeps DEF RestartInPlace, InstanceEffect, OpsInv, TokenInv
  <2> QED BY <1>1, <1>5, <2>2 DEF RestartInPlace
<1>6. CASE DockerStop \/ Delete
  <2>1. act.inst \in Iid /\ owner[act.inst] \notin tenant
    BY <1>6, StopsRemoved DEF DockerStop, Delete
  <2>2. \/ NoLaunch
        \/ Set(act.inst, "exited") /\ status[act.inst] # "none"
        \/ Set(act.inst, "none")
    BY <1>6 DEF DockerStop, Delete
  <2>3. InstanceEffect
    BY <2>1, <2>2, NoLaunchKeeps, SetDrops DEF InstanceEffect, OpsInv, TokenInv
  <2> QED BY <1>1, <1>6, <2>3 DEF DockerStop, Delete
<1>7. CASE CallFails
  <2>1. /\ InstanceEffect
        /\ \A i \in stopLate' : i \in stopLate \/ (AtStep("stop") /\ i = act.inst)
    BY <1>7, CallUnansweredEffect DEF CallFails
  <2> QED BY <1>1, <1>7, <2>1, StopsRemoved DEF CallFails
<1>8. CASE RunPlacesNothing \/ EcsStop
  BY <1>8 DEF RunPlacesNothing, EcsStop
<1> QED BY <1>2, <1>3, <1>4, <1>5, <1>6, <1>7, <1>8 DEF ActMoves, ActStep

LEMMA PlatformEffect ==
  ASSUME OpsInv, platform # "ecs", PlatformStep(Held)
  PROVE  /\ InstanceEffect /\ FaultsCounted /\ act' = act
         /\ runLate' \subseteq runLate /\ stopLate' \subseteq stopLate
<1> USE DEF FaultsCounted, Mishap, Mishaps
<1>1. Types
  BY DEF OpsInv, TokenInv
<1>2. CASE LateRun(Held)
  <2>1. PICK c \in runLate : Launch(c, "running", Held) /\ runLate' = runLate \ {c}
    BY <1>2 DEF LateRun
  <2>2. c \in Cid /\ c \in tenant
    BY <1>1, <2>1 DEF Types, OpsInv, CallInv, Provided
  <2>3. Gets(c)
    BY <1>1, <2>1, <2>2, LaunchGets
  <2> QED BY <1>2, <2>1, <2>2, <2>3 DEF LateRun, InstanceEffect
<1>3. ASSUME NEW i \in Iid, TaskStops(i) \/ TaskForgotten(i)
      PROVE  InstanceEffect
  <2>1. Set(i, "exited") /\ status[i] # "none"
    BY <1>3 DEF TaskStops, TaskForgotten
  <2> QED BY <1>1, <2>1, SetKeeps DEF InstanceEffect
<1>4. ASSUME NEW i \in Iid, LateStop(i)
      PROVE  InstanceEffect
  <2>1. owner[i] \notin tenant /\ StopEffect(i)
    BY <1>4 DEF LateStop, OpsInv, CallInv
  <2> QED BY <1>1, <2>1, StopEffects
<1>5. ASSUME NEW i \in Iid, Lost(i)
      PROVE  InstanceEffect
  <2>1. Set(i, "none") /\ faults' = faults + 1
    BY <1>5 DEF Lost
  <2> QED BY <1>1, <2>1, SetDrops
<1>6. ASSUME NEW i \in Iid, Recreated(i, Held)
      PROVE  InstanceEffect
  <2>1. PICK j \in Iid : /\ status[j] = "none"
                         /\ status' = [status EXCEPT ![i] = "none", ![j] = "running"]
                         /\ owner' = [owner EXCEPT ![i] = NoCid, ![j] = owner[i]]
    BY <1>6 DEF Recreated
  <2>2. status[i] = "running" /\ i # j
    BY <1>6, <2>1 DEF Recreated
  <2>3. /\ status'[i] = "none" /\ status'[j] = "running" /\ owner'[j] = owner[i]
        /\ \A k \in Iid \ {i, j} : status'[k] = status[k] /\ owner'[k] = owner[k]
    BY <1>1, <2>1, <2>2 DEF Types
  <2>4. ASSUME NEW c \in Cid PROVE Contained(c)' <=> Contained(c)
    <3>1. CASE owner[i] = c
      BY <2>2, <2>3, <3>1 DEF Contained
    <3>2. CASE owner[i] # c
      BY <2>1, <2>3, <3>2 DEF Contained
    <3> QED BY <3>1, <3>2
  <2> QED BY <2>4 DEF Kept, InstanceEffect
<1>7. CASE \E i \in Iid : \/ TaskStops(i) \/ TaskForgotten(i) \/ LateStop(i) \/ Lost(i)
                          \/ Recreated(i, Held)
  <2>1. InstanceEffect
    BY <1>3, <1>4, <1>5, <1>6, <1>7
  <2> QED BY <1>7, <2>1 DEF TaskStops, TaskForgotten, LateStop, Lost, Recreated
<1> QED BY <1>2, <1>7 DEF PlatformStep

LEMMA CrashEffect ==
  ASSUME OpsInv, platform # "ecs", Crash
  PROVE  /\ faults' = faults + 1
         /\ (TenantEffect /\ Kept) \/ (InstanceEffect /\ tenant' = tenant)
         /\ TenantEffect
         /\ tw' = NoRequest /\ act' = NoAct /\ job' = IdleJob
         /\ \A r \in twLate' : r \in twLate \/ (r.op = tw.op /\ r.conn = tw.conn)
         /\ \A c \in runLate' : c \in runLate \/ (act.op = "provision" /\ c = act.conn)
         /\ \A i \in stopLate' : i \in stopLate \/ owner[i] \notin tenant
<1>1. faults' = faults + 1 /\ tw' = NoRequest /\ act' = NoAct /\ job' = IdleJob
  BY DEF Crash, Mishap, Mishaps, Abandoned
<1>2. CASE TwPending
  <2>1. act = NoAct
    BY <1>2 DEF TwPending, NoRequest, OpsInv, TokenInv, Shape
  <2>2. NoLaunch /\ UNCHANGED <<runLate, stopLate>>
    BY <2>1 DEF Crash, Abandoned, AtStep, ActPending, NoAct
  <2>3. Unanswered(FreshIds) /\ (tw.op = "delete" => tw.conn \in Cid /\ Deletes(tw.conn))
    BY <1>2 DEF Crash, Deletes, OpsInv, TokenInv, Shape
  <2>4. /\ TenantEffect
        /\ \A r \in twLate' : r \in twLate \/ (r.op = tw.op /\ r.conn = tw.conn)
    BY <2>3, ExecuteEffect DEF Unanswered, TenantEffect
  <2>5. Kept /\ runLate' = runLate /\ stopLate' = stopLate
    BY <2>2, NoLaunchKeeps
  <2> QED BY <1>1, <2>4, <2>5
<1>3. CASE ~TwPending
  <2>1. UNCHANGED <<tenant, twLate>>
    BY <1>3 DEF Crash
  <2>2. CASE AtStep("run")
    <3>1. RunUnanswered(Held) /\ UNCHANGED stopLate
      BY <2>2 DEF Crash, Abandoned
    <3>2. InstanceEffect /\ runLate' \subseteq runLate \cup {act.conn}
      BY <2>2, <3>1, RunUnansweredEffect
    <3>3. act.op = "provision"
      BY <2>2, RunsProvision
    <3> QED BY <1>1, <2>1, <3>1, <3>2, <3>3 DEF TenantEffect
  <2>3. CASE ~AtStep("run") /\ ActPending
    <3>1. CallUnanswered /\ UNCHANGED runLate
      BY <2>3 DEF Crash, Abandoned
    <3> QED BY <1>1, <2>1, <2>3, <3>1, CallUnansweredEffect, StopsRemoved DEF TenantEffect
  <2>4. CASE ~ActPending
    <3>1. NoLaunch /\ UNCHANGED <<runLate, stopLate>>
      BY <2>4 DEF Crash, Abandoned, AtStep
    <3> QED BY <1>1, <2>1, <3>1, NoLaunchKeeps DEF TenantEffect
  <2> QED BY <2>2, <2>3, <2>4
<1> QED BY <1>2, <1>3

-----------------------------------------------------------------------------
\* Steps that begin no delete and no provision, and take effect in the tenant
\* only where one was under way.
LEMMA CallFrame ==
  ASSUME OpsInv, platform # "ecs", TenantEffect, OwnersKept,
         \A c \in Cid : Deletes(c)' => Deletes(c),
         \A c \in Cid : Arriving(c)' => Arriving(c),
         \A c \in Cid : Provided(c)' => Provided(c) \/ c \in tenant',
         \A c \in Cid : job'.view[c] \in {job.view[c], NoInst},
         \A i \in stopLate' : i \in stopLate \/ owner[i] \notin tenant,
         stopLate' \subseteq Held \cap Iid
  PROVE  CallInv'
<1>1. \A c \in Cid : Provided(c)' => c \in tenant'
  <2>1. \A c \in Cid : Provided(c) => Arriving(c)
    BY DEF Arriving
  <2>2. \A c \in Cid : Provided(c) => c \in tenant /\ ~Deletes(c)
    BY <2>1 DEF OpsInv, CallInv
  <2>3. \A c \in tenant : c \in tenant' \/ Deletes(c)
    BY DEF TenantEffect
  <2> QED BY <2>2, <2>3
<1>2. ASSUME NEW i \in stopLate' PROVE owner'[i] \notin tenant'
  <2>1. owner[i] \notin tenant
    BY <1>2 DEF OpsInv, CallInv
  <2>2. owner[i] \notin FreshIds /\ i \in Iid
    BY DEF FreshIds
  <2>3. owner'[i] \in {owner[i], NoCid}
    BY <1>2 DEF OwnersKept
  <2>4. owner[i] \notin tenant' /\ NoCid \notin tenant'
    BY <2>1, <2>2, ConstantFacts DEF TenantEffect, FreshIds, OpsInv, TokenInv, Types
  <2> QED BY <2>3, <2>4
<1>3. \A c \in Cid : Arriving(c)' => ~Deletes(c)' /\ job'.view[c] = NoInst
  BY DEF OpsInv, CallInv
<1> QED BY <1>1, <1>2, <1>3 DEF CallInv

LEMMA CallInvTwMoves ==
  ASSUME OpsInv, platform # "ecs", TwMoves PROVE CallInv'
<1>1. /\ TenantEffect /\ UNCHANGED <<actVars, job, drain>>
      /\ tw'.op = tw.op
      /\ tw'.conn = tw.conn \/ (tw.op = "create" /\ tw'.conn \in FreshIds)
      /\ \A r \in twLate' : r \in twLate \/ (r.op = tw.op /\ r.conn = tw.conn)
      /\ tw'.outcome = "ok" /\ tw.op = "tokens" => tw.conn \in tenant /\ tenant' = tenant
  BY TwEffect DEF OpsInv
<1>2. \A c \in Cid : Deletes(c)' => Deletes(c)
  BY <1>1 DEF Deletes
<1>3. \A c \in Cid : Provided(c)' => Provided(c) \/ c \in tenant'
  BY <1>1 DEF Provided, actVars
<1>4. stopLate' \subseteq Held \cap Iid
  BY <1>1 DEF actVars, Held, OpsInv, Removals
<1>5. OwnersKept
  BY <1>1, NoLaunchOwners DEF NoLaunch, actVars
<1>6. CASE tw'.conn = tw.conn
  <2>1. \A c \in Cid : Arriving(c)' => Arriving(c)
    BY <1>1, <1>6 DEF Arriving, Provided, actVars
  <2> QED BY <1>1, <1>2, <1>3, <1>4, <1>5, <2>1, CallFrame DEF actVars
<1>7. CASE tw.op = "create" /\ tw'.conn \in FreshIds
  <2>1. \A c \in Cid : Provided(c)' => Provided(c)
    BY <1>1, <1>7 DEF Provided, actVars
  <2>2. \A c \in Cid \ {tw'.conn} : Arriving(c)' => Arriving(c)
    BY <1>1, <1>7, <2>1 DEF Arriving
  <2>3. ~Deletes(tw'.conn) /\ job.view[tw'.conn] = NoInst
    BY <1>7 DEF FreshIds, Deletes
  <2>4. \A c \in Cid : Arriving(c)' => ~Deletes(c)' /\ job'.view[c] = NoInst
    BY <1>1, <1>2, <2>2, <2>3 DEF OpsInv, CallInv
  <2>5. \A c \in Cid : Provided(c)' => c \in tenant'
    <3>1. \A c \in Cid : Provided(c) => c \in tenant /\ ~Deletes(c)
      BY DEF OpsInv, CallInv, Arriving
    <3> QED BY <1>1, <2>1, <3>1 DEF TenantEffect
  <2>6. ASSUME NEW i \in stopLate' PROVE owner'[i] \notin tenant'
    <3>1. i \in stopLate /\ owner'[i] = owner[i] /\ i \in Iid
      BY <1>1, <1>4, <2>6 DEF actVars
    <3>2. owner[i] \notin tenant /\ owner[i] \notin FreshIds
      BY <3>1 DEF OpsInv, CallInv, FreshIds
    <3> QED BY <1>1, <3>1, <3>2 DEF TenantEffect
  <2> QED BY <2>4, <2>5, <2>6 DEF CallInv
<1> QED BY <1>1, <1>6, <1>7

LEMMA CallInvActMoves ==
  ASSUME OpsInv, platform # "ecs", ActMoves PROVE CallInv'
<1>1. /\ act'.op = act.op /\ act'.conn = act.conn
      /\ \A c \in runLate' : c \in runLate \/ (act.op = "provision" /\ c = act.conn)
      /\ \A i \in stopLate' : i \in stopLate \/ owner[i] \notin tenant
  BY ActEffect
<1>2. UNCHANGED <<twVars, job, drain>>
  BY DEF ActMoves
<1>3. TenantEffect /\ OwnersKept
  BY <1>2, ActOwners DEF twVars, TenantEffect, OpsInv, TokenInv
<1>4. \A c \in Cid : Deletes(c)' => Deletes(c)
  BY <1>2 DEF Deletes, twVars
<1>5. \A c \in Cid : Provided(c)' => Provided(c)
  BY <1>1, <1>2 DEF Provided, twVars
<1>6. \A c \in Cid : Arriving(c)' => Arriving(c)
  BY <1>2, <1>5 DEF Arriving, twVars
<1>7. stopLate' \subseteq Held \cap Iid
  <2>1. \A i \in stopLate' : i \in stopLate \/ (AtStep("stop") /\ i = act.inst)
    BY DEF ActMoves, ActStep, Register, Run, RunPlacesNothing, RunFails, RestartInPlace, EcsDescribe,
           EcsPoll, EcsStop, DockerStop, Delete, CallFails, CallUnanswered, AtStep
  <2>2. stopLate \subseteq Iid /\ (AtStep("stop") => act.inst \in Iid)
    BY StopsRemoved DEF OpsInv, Removals
  <2> QED BY <2>1, <2>2 DEF Held
<1> QED BY <1>1, <1>2, <1>3, <1>4, <1>5, <1>6, <1>7, CallFrame

LEMMA CallInvWorldMoves ==
  ASSUME OpsInv, platform # "ecs", WorldMoves PROVE CallInv'
<1>1. /\ TenantEffect /\ OwnersKept /\ UNCHANGED <<tw, act, job, drain>>
      /\ twLate' \subseteq twLate /\ runLate' \subseteq runLate /\ stopLate' \subseteq stopLate
  <2>1. CASE LateRequest(FreshIds) /\ UNCHANGED <<actVars, job, drain>>
    BY <2>1, LateEffect, NoLaunchOwners DEF OpsInv, NoLaunch, actVars
  <2>2. CASE PlatformStep(Held) /\ UNCHANGED <<twVars, job, drain>>
    BY <2>2, PlatformEffect, PlatformOwners DEF OpsInv, TokenInv, TenantEffect, twVars
  <2> QED BY <2>1, <2>2 DEF WorldMoves
<1>2. \A c \in Cid : /\ Deletes(c)' => Deletes(c)
                     /\ Provided(c)' => Provided(c)
                     /\ Arriving(c)' => Arriving(c)
  BY <1>1 DEF Deletes, Provided, Arriving
<1>3. stopLate' \subseteq Held \cap Iid
  BY <1>1 DEF OpsInv, Removals, Held
<1> QED BY <1>1, <1>2, <1>3, CallFrame

LEMMA CallInvCrash ==
  ASSUME OpsInv, platform # "ecs", Crash PROVE CallInv'
<1>1. /\ TenantEffect
      /\ tw' = NoRequest /\ act' = NoAct /\ job' = IdleJob
      /\ \A r \in twLate' : r \in twLate \/ (r.op = tw.op /\ r.conn = tw.conn)
      /\ \A c \in runLate' : c \in runLate \/ (act.op = "provision" /\ c = act.conn)
      /\ \A i \in stopLate' : i \in stopLate \/ owner[i] \notin tenant
  BY CrashEffect
<1>2. \A c \in Cid : Deletes(c)' => Deletes(c)
  BY <1>1 DEF Deletes, NoRequest
<1>3. \A c \in Cid : Provided(c)' => Provided(c)
  BY <1>1 DEF Provided, NoRequest, NoAct
<1>4. \A c \in Cid : Arriving(c)' => Arriving(c)
  BY <1>1, <1>3 DEF Arriving, NoRequest
<1>5. stopLate' \subseteq Held \cap Iid
  <2>1. \A i \in stopLate' : i \in stopLate \/ (AtStep("stop") /\ i = act.inst)
    BY DEF Crash, Abandoned, CallUnanswered, AtStep
  <2>2. stopLate \subseteq Iid /\ (AtStep("stop") => act.inst \in Iid)
    BY StopsRemoved DEF OpsInv, Removals
  <2> QED BY <2>1, <2>2 DEF Held
<1>6. OwnersKept
  BY LaunchOwners, NoLaunchOwners, SetOwners, StopOwners
     DEF Crash, Abandoned, RunUnanswered, CallUnanswered, OpsInv, TokenInv
<1>7. \A c \in Cid : job'.view[c] = NoInst
  BY <1>1 DEF IdleJob, NoView
<1> QED BY <1>1, <1>2, <1>3, <1>4, <1>5, <1>6, <1>7, CallFrame

LEMMA CallInvJobSteps ==
  ASSUME OpsInv, platform # "ecs",
         \/ Discover \/ ToHealth \/ EndCycle \/ BeginProvision \/ ProvisionContinues \/ CallReturns
         \/ DeleteAnswered \/ RemovalReturns
         \/ \E c \in Cid : BeginRestart(c) \/ BeginDrain(c) \/ DrainGraceOver(c)
  PROVE  CallInv' /\ UNCHANGED <<tenant, owner, status, faults>>
<1>1. /\ UNCHANGED <<tenant, owner, status, faults, twLate, runLate, stopLate>>
  BY DEF Discover, ToHealth, EndCycle, BeginProvision, ProvisionContinues, CallReturns, DeleteAnswered,
         RemovalReturns, BeginRestart, BeginDrain, DrainGraceOver, twVars, actVars
<1>2. TenantEffect /\ OwnersKept /\ stopLate' \subseteq Held \cap Iid
  BY <1>1, NoLaunchOwners DEF TenantEffect, NoLaunch, Held, OpsInv, Removals
<1>3. ASSUME \A c \in Cid : job'.view[c] \in {job.view[c], NoInst},
             \A c \in Cid : Deletes(c)' => Deletes(c),
             \A c \in Cid : Provided(c)' => Provided(c),
             \A c \in Cid : Arriving(c)' => Arriving(c)
      PROVE  CallInv'
  BY <1>1, <1>2, <1>3, CallFrame
<1>4. CASE ToHealth \/ EndCycle \/ CallReturns \/ RemovalReturns
           \/ \E c \in Cid : BeginRestart(c) \/ DrainGraceOver(c)
  <2>1. tw' = tw /\ act'.op # "provision"
    BY <1>4 DEF ToHealth, EndCycle, CallReturns, RemovalReturns, BeginRestart, DrainGraceOver, twVars,
                actVars, NoCall, Call, NoAct
  <2>2. \A c \in Cid : job'.view[c] \in {job.view[c], NoInst}
    BY <1>4 DEF ToHealth, EndCycle, CallReturns, RemovalReturns, BeginRestart, DrainGraceOver, IdleJob,
                NoView, OpsInv, TokenInv, Types
  <2> QED BY <1>1, <1>3, <2>1, <2>2 DEF Deletes, Provided, Arriving
<1>5. CASE BeginProvision
  <2>1. /\ act' = act /\ job' = job
        /\ tw'.op = "create" /\ tw'.conn = NoCid
    BY <1>5 DEF BeginProvision, Request, actVars
  <2> QED BY <1>1, <1>3, <2>1, ConstantFacts DEF Deletes, Provided, Arriving
<1>6. CASE DeleteAnswered
  BY <1>1, <1>3, <1>6 DEF DeleteAnswered, NoRequest, actVars, Deletes, Provided, Arriving
<1>7. CASE ProvisionContinues
  <2>1. /\ tw.op \in {"create", "tokens"} /\ tw.outcome \in {"ok", "failed"} /\ job' = job
    BY <1>7 DEF ProvisionContinues, OpsInv, TokenInv, Types, Shape, TwPending, NoRequest
  <2>2. \/ tw' = NoRequest /\ act' = act
        \/ tw'.op = "tokens" /\ tw'.outcome = "pending" /\ tw'.conn = tw.conn /\ act' = act
        \/ tw.outcome = "ok" /\ tw.op = "tokens" /\ tw' = NoRequest /\ act'.conn = tw.conn
    <3>1. CASE tw.outcome = "failed"
      BY <1>7, <2>1, <3>1 DEF ProvisionContinues
    <3>2. CASE tw.outcome = "ok" /\ tw.op = "create"
      BY <1>7, <2>1, <3>2 DEF ProvisionContinues, Request
    <3>3. CASE tw.outcome = "ok" /\ tw.op = "tokens"
      BY <1>7, <2>1, <3>3 DEF ProvisionContinues, Call
    <3> QED BY <2>1, <3>1, <3>2, <3>3
  <2>3. /\ \A c \in Cid : Deletes(c)' => Deletes(c)
        /\ \A c \in Cid : Provided(c)' => Provided(c)
        /\ \A c \in Cid : Arriving(c)' => Arriving(c)
    BY <1>1, <2>1, <2>2 DEF Deletes, Provided, Arriving, NoRequest
  <2>4. \A c \in Cid : job'.view[c] \in {job.view[c], NoInst}
    BY <2>1
  <2> QED BY <1>1, <1>3, <2>3, <2>4
<1>8. CASE Discover
  <2>1. PICK v \in Views : job'.view = v
    BY <1>8 DEF Discover
  <2>2. tw' = tw /\ act' = act /\ NoCall
    BY <1>8 DEF Discover, LockFree, twVars, actVars
  <2>3. ASSUME NEW c \in Cid, Arriving(c)' PROVE v[c] = NoInst
    <3>1. c \in runLate
      BY <1>1, <2>2, <2>3 DEF Arriving, Provided, NoCall, NoRequest, NoAct
    <3>2. ~ \E i \in Iid : owner[i] = c /\ status[i] # "none"
      BY <3>1 DEF OpsInv, TokenInv, LateLone, Present
    <3>3. {i \in Iid : owner[i] = c /\ Listed(i)} = {}
      BY <3>2 DEF Listed
    <3> QED BY <3>3 DEF Views
  <2>4. \A c \in Cid : (Deletes(c)' <=> Deletes(c)) /\ (Provided(c)' <=> Provided(c))
                       /\ (Arriving(c)' <=> Arriving(c))
    BY <1>1, <2>2 DEF Deletes, Provided, Arriving
  <2>5. \A c \in Cid : Arriving(c)' => ~Deletes(c)' /\ job'.view[c] = NoInst
    BY <2>1, <2>3, <2>4 DEF CallInv, OpsInv
  <2>6. \A c \in Cid : Provided(c)' => c \in tenant'
    BY <1>1, <2>4 DEF CallInv, OpsInv
  <2> QED BY <1>1, <2>5, <2>6 DEF CallInv, OpsInv
<1>9. ASSUME NEW c \in Cid, BeginDrain(c) PROVE CallInv'
  <2>1. /\ act' = act /\ job' = job /\ job.view[c] # NoInst
        /\ tw'.op = "delete" /\ tw'.conn = c
    BY <1>9 DEF BeginDrain, Request, actVars
  <2>2. \A d \in Cid : /\ d # c => (Deletes(d)' => Deletes(d))
                       /\ Provided(d)' => Provided(d)
                       /\ Arriving(d)' => Arriving(d)
    BY <1>1, <2>1 DEF Deletes, Provided, Arriving
  <2> QED BY <1>1, <2>1, <2>2 DEF CallInv, OpsInv
<1> QED BY <1>1, <1>4, <1>5, <1>6, <1>7, <1>8, <1>9

LEMMA CallInvStep ==
  ASSUME OpsInv, [Next]_vars PROVE CallInv'
<1>1. platform' = platform
  BY DEF Next, Continues, Discover, ToHealth, EndCycle, BeginProvision, ProvisionContinues, CallReturns,
         DeleteAnswered, RemovalReturns, BeginRestart, BeginDrain, DrainGraceOver, TwMoves, ActMoves,
         WorldMoves, ActStep, Register, Run, RunPlacesNothing, RunFails, RestartInPlace, EcsDescribe,
         EcsPoll, EcsStop, DockerStop, Delete, CallFails, PlatformStep, TaskStops, TaskForgotten,
         LateRun, LateStop, Lost, Recreated, Crash, Abandoned, vars, twVars, actVars
<1>2. CASE platform = "ecs"
  BY <1>1, <1>2 DEF CallInv
<1>3. CASE platform # "ecs" /\ Next
  BY <1>3, CallInvTwMoves, CallInvActMoves, CallInvWorldMoves, CallInvCrash, CallInvJobSteps
     DEF Next, Continues
<1>4. CASE UNCHANGED vars
  <2>1. \A c \in Cid : (Deletes(c)' <=> Deletes(c)) /\ (Provided(c)' <=> Provided(c))
                       /\ (Arriving(c)' <=> Arriving(c))
    BY <1>4 DEF Deletes, Provided, Arriving, vars, twVars, actVars
  <2> QED BY <1>4, <2>1 DEF CallInv, OpsInv, vars, twVars, actVars
<1> QED BY <1>2, <1>3, <1>4

LEMMA OpsInvariance == Spec => []OpsInv
<1>1. Init => OpsInv
  <2>1. Init => CallInv
    BY ConstantFacts
       DEF Init, TwInit, ActInit, NoRequest, NoAct, CallInv, Arriving, Provided
  <2> QED BY <2>1, InitToken, InitDrain, InitBounds DEF OpsInv
<1>2. TokenInv /\ Bounds /\ Removals /\ [Next]_vars => Removals'
  BY BoundsStep
<1>3. OpsInv /\ Bounds /\ [Next]_vars => OpsInv' /\ Bounds'
  BY TokenStep, DrainStep, BoundsStep, CallInvStep DEF OpsInv
<1> QED BY <1>1, <1>3, InitBounds, PTL DEF Spec

-----------------------------------------------------------------------------
\* One Connector changes its phase and no other does.
LEMMA OnePhase ==
  ASSUME NEW c \in Cid, NEW from, NEW to,
         PhaseOf(c) = from, PhaseOf(c)' = to,
         \A d \in Cid \ {c} : PhaseOf(d)' = PhaseOf(d)
  PROVE  Lifecycle!Move(c, from, to)
BY DEF Lifecycle!Move

LEMMA SamePhases ==
  ASSUME \A c \in Cid : PhaseOf(c)' = PhaseOf(c), FaultsCounted
  PROVE  [Lifecycle!Next]_(Lifecycle!vars)
BY DEF FaultsCounted, Lifecycle!Next, Lifecycle!Mishap, Lifecycle!vars

LEMMA RegularMove ==
  ASSUME NEW c \in Cid, Lifecycle!OnPath(c), FaultsCounted
  PROVE  Lifecycle!Next
BY DEF FaultsCounted, Lifecycle!Next, Lifecycle!Regular, Lifecycle!Mishap

LEMMA TenantRefines ==
  ASSUME OpsInv, TenantEffect, Kept, FaultsCounted
  PROVE  [Lifecycle!Next]_(Lifecycle!vars)
<1>1. CASE tenant' = tenant
  BY <1>1, SamePhases DEF PhaseOf, Kept
<1>2. ASSUME NEW c \in FreshIds, tenant' = tenant \cup {c}
      PROVE  Lifecycle!OnPath(c) /\ c \in Cid
  <2>1. c \in Cid /\ c \notin tenant /\ ~Contained(c)
    BY <1>2 DEF FreshIds, Contained
  <2>2. Lifecycle!Move(c, "absent", "made")
    BY <1>2, <2>1, OnePhase DEF PhaseOf, Kept
  <2> QED BY <2>1, <2>2 DEF Lifecycle!OnPath
<1>3. ASSUME NEW c \in Cid, tenant' = tenant \ {c}, c \in tenant
      PROVE  Lifecycle!OnPath(c)
  <2>1. \A d \in Cid \ {c} : PhaseOf(d)' = PhaseOf(d)
    BY <1>3 DEF PhaseOf, Kept
  <2>2. Lifecycle!Move(c, "serving", "unrouted") \/ Lifecycle!Move(c, "made", "absent")
    BY <1>3, <2>1, OnePhase DEF PhaseOf, Kept
  <2> QED BY <2>2 DEF Lifecycle!OnPath
<1> QED BY <1>1, <1>2, <1>3, RegularMove DEF TenantEffect

LEMMA InstanceRefines ==
  ASSUME OpsInv, tenant' = tenant, InstanceEffect, FaultsCounted
  PROVE  [Lifecycle!Next]_(Lifecycle!vars)
<1>1. CASE Kept
  BY <1>1, SamePhases DEF PhaseOf, Kept
<1>2. ASSUME NEW c \in tenant, Gets(c)
      PROVE  [Lifecycle!Next]_(Lifecycle!vars)
  <2>1. c \in Cid /\ \A d \in Cid \ {c} : PhaseOf(d)' = PhaseOf(d)
    BY <1>2 DEF PhaseOf, Gets, OpsInv, TokenInv, Types
  <2>2. CASE Contained(c)
    BY <1>2, <2>1, <2>2, SamePhases DEF PhaseOf, Gets
  <2>3. CASE ~Contained(c)
    <3>1. Lifecycle!Move(c, "made", "serving")
      BY <1>2, <2>1, <2>3, OnePhase DEF PhaseOf, Gets
    <3> QED BY <2>1, <3>1, RegularMove DEF Lifecycle!OnPath
  <2> QED BY <2>2, <2>3
<1>3. ASSUME NEW c \in Cid, Drops(c), c \notin tenant \/ faults' = faults + 1
      PROVE  [Lifecycle!Next]_(Lifecycle!vars)
  <2>1. \A d \in Cid \ {c} : PhaseOf(d)' = PhaseOf(d)
    BY <1>3 DEF PhaseOf, Drops
  <2>2. CASE Contained(c)' <=> Contained(c)
    BY <2>1, <2>2, SamePhases DEF PhaseOf
  <2>3. CASE Contained(c) /\ ~Contained(c)' /\ c \notin tenant
    <3>1. Lifecycle!Move(c, "unrouted", "absent")
      BY <2>1, <2>3, OnePhase DEF PhaseOf
    <3> QED BY <3>1, RegularMove DEF Lifecycle!OnPath
  <2>4. CASE Contained(c) /\ ~Contained(c)' /\ c \in tenant
    <3>1. Lifecycle!Move(c, "serving", "made")
      BY <2>1, <2>4, OnePhase DEF PhaseOf
    <3> QED BY <1>3, <2>4, <3>1 DEF Lifecycle!Breaks, Lifecycle!Next, Lifecycle!Mishap
  <2> QED BY <1>3, <2>2, <2>3, <2>4 DEF Drops
<1> QED BY <1>1, <1>2, <1>3 DEF InstanceEffect

LEMMA CallsRefine ==
  ASSUME OpsInv, [Next]_vars, platform # "ecs"
  PROVE  [Lifecycle!Next]_(Lifecycle!vars)
<1>1. CASE UNCHANGED vars
  <2>1. Kept /\ tenant' = tenant /\ faults' = faults
    BY <1>1, NoLaunchKeeps DEF vars, twVars, actVars, NoLaunch
  <2> QED BY <2>1, TenantRefines DEF TenantEffect, FaultsCounted
<1>2. CASE TwMoves
  <2>1. TenantEffect /\ FaultsCounted /\ Kept
    BY <1>2, TwEffect, NoLaunchKeeps DEF OpsInv, NoLaunch, actVars
  <2> QED BY <2>1, TenantRefines
<1>3. CASE ActMoves
  BY <1>3, ActEffect, InstanceRefines DEF ActMoves, twVars
<1>4. CASE WorldMoves
  <2>1. CASE LateRequest(FreshIds) /\ UNCHANGED <<actVars, job, drain>>
    <3>1. TenantEffect /\ FaultsCounted /\ Kept
      BY <2>1, LateEffect, NoLaunchKeeps DEF OpsInv, NoLaunch, actVars, FaultsCounted
    <3> QED BY <3>1, TenantRefines
  <2>2. CASE PlatformStep(Held) /\ UNCHANGED <<twVars, job, drain>>
    BY <2>2, PlatformEffect, InstanceRefines DEF twVars
  <2> QED BY <1>4, <2>1, <2>2 DEF WorldMoves
<1>5. CASE Crash
  BY <1>5, CrashEffect, TenantRefines, InstanceRefines DEF FaultsCounted
<1>6. CASE \/ Discover \/ ToHealth \/ EndCycle \/ BeginProvision \/ ProvisionContinues \/ CallReturns
           \/ DeleteAnswered \/ RemovalReturns
           \/ \E c \in Cid : BeginRestart(c) \/ BeginDrain(c) \/ DrainGraceOver(c)
  <2>1. UNCHANGED <<tenant, owner, status, faults>>
    BY <1>6, CallInvJobSteps
  <2> QED
    BY <2>1, NoLaunchKeeps, TenantRefines DEF NoLaunch, TenantEffect, FaultsCounted
<1> QED BY <1>1, <1>2, <1>3, <1>4, <1>5, <1>6 DEF Next, Continues

\* Call by call, on Docker and ACI, the operations implement the abstract life
\* of a Connector, with every request that is lost, late or repeated and
\* wherever the manager dies: an instance comes to a Connector of the tenant,
\* and goes from one that was deleted, or with a fault.
THEOREM CallsRefineLifecycle == Spec => CallsKeepLifecycle
<1>1. Init => Lifecycle!Init
  BY DEF Init, TwInit, ActInit, PhaseOf, Contained, Lifecycle!Init
<1>2. OpsInv /\ [Next]_vars
        => [platform # "ecs" => Lifecycle!Next]_<<[c \in Cid |-> PhaseOf(c)], faults>>
  BY CallsRefine DEF Lifecycle!vars
<1> QED BY <1>1, <1>2, OpsInvariance, PTL DEF Spec, CallsKeepLifecycle
=============================================================================
