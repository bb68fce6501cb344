----------------------------- MODULE MCFleetLoop -----------------------------
(***************************************************************************)
(* Model-checking instance of FleetLoop.                                   *)
(***************************************************************************)
EXTENDS FleetLoop, TLC

\* Connector ids are interchangeable.
Symmetry == Permutations(Cid)
=============================================================================
