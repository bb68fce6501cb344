---------------------------- MODULE MCConnectorOps ----------------------------
(***************************************************************************)
(* Model-checking instance of ConnectorOps.                                *)
(***************************************************************************)
EXTENDS ConnectorOps, TLC

Symmetry == Permutations(Cid) \cup Permutations(Iid)
=============================================================================
