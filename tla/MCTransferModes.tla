-------------------------- MODULE MCTransferModes --------------------------
(***************************************************************************)
(* TransferModes for TLC.                                                  *)
(***************************************************************************)
EXTENDS TransferModes, TLC

Symmetry == Permutations(Files) \cup Permutations(Dirs)
=============================================================================
