-------------------------- MODULE ConnectorLifecycle --------------------------
(***************************************************************************)
(* What fc promises about each Connector, whoever acts on it: it is made   *)
(* in the tenant before it gets a container, its container is taken away   *)
(* only when nothing is routed to it any more (drain before delete), and   *)
(* nothing is ever routed to it again.  Every departure from this path     *)
(* costs a mishap: a failed call, a lost answer, a crash, a lost           *)
(* container.                                                              *)
(*                                                                         *)
(*    absent -> made -> serving -> unrouted -> absent                      *)
(***************************************************************************)
EXTENDS Naturals

CONSTANT Cid

VARIABLES
  phase,    \* where each Connector is on the path
  mishaps   \* failures so far

vars == <<phase, mishaps>>

Phase == {"absent", "made", "serving", "unrouted"}

Init ==
  /\ phase = [c \in Cid |-> "absent"]
  /\ mishaps = 0

\* From one phase to another.
Move(c, from, to) ==
  /\ phase[c] = from
  /\ phase' = [phase EXCEPT ![c] = to]

\* One step on the path.  A Connector that was made but has no container is
\* deleted outright.
OnPath(c) ==
  \/ Move(c, "absent", "made")
  \/ Move(c, "made", "serving")
  \/ Move(c, "serving", "unrouted")
  \/ Move(c, "unrouted", "absent")
  \/ Move(c, "made", "absent")

\* A container vanishes while traffic is routed to it.
Breaks(c) == Move(c, "serving", "made")

\* A retried connectorCreate makes two.
MadeTwice(c, d) ==
  /\ phase[c] = "absent" /\ phase[d] = "absent"
  /\ phase' = [phase EXCEPT ![c] = "made", ![d] = "made"]

Regular == (\E c \in Cid : OnPath(c)) /\ UNCHANGED mishaps

Mishap ==
  /\ mishaps' = mishaps + 1
  /\ \/ UNCHANGED phase
     \/ \E c \in Cid : OnPath(c) \/ Breaks(c)
     \/ \E c, d \in Cid : MadeTwice(c, d)

Next == Regular \/ Mishap

Spec == Init /\ [][Next]_vars
=============================================================================
