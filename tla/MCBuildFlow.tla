---------------------------- MODULE MCBuildFlow ----------------------------
(***************************************************************************)
(* BuildFlow for TLC.                                                      *)
(***************************************************************************)
EXTENDS BuildFlow, TLC

Symmetry == Permutations(Files)
=============================================================================
