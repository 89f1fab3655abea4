----------------------------- MODULE MCRunLock -----------------------------
(***************************************************************************)
(* RunLock for TLC: the runs are interchangeable, so a symmetry set.       *)
(***************************************************************************)
EXTENDS RunLock, TLC

RunSymmetry == Permutations(Processes)
=============================================================================
