------------------------------- MODULE Failures -------------------------------
(***************************************************************************)
(* What TwingateClient and Actuators share: the names of the Connectors    *)
(* and the count of what goes wrong in the world they talk to.             *)
(***************************************************************************)
EXTENDS Naturals, FiniteSets

CONSTANTS
  Cid,         \* pool of connector ids
  NoCid,       \* "no connector"
  MaxFaults    \* bound: mishaps in one behaviour

ASSUME FailuresAssumption ==
  /\ IsFiniteSet(Cid) /\ NoCid \notin Cid
  /\ MaxFaults \in Nat

VARIABLE faults   \* mishaps so far

\* Something goes wrong outside, n times over.
Mishaps(n) == faults + n <= MaxFaults /\ faults' = faults + n

Mishap == Mishaps(1)
=============================================================================
