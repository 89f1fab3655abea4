--------------------------- MODULE MCTarPipeline ---------------------------
(***************************************************************************)
(* TarPipeline for TLC.                                                    *)
(***************************************************************************)
EXTENDS TarPipeline

\* Archives that fit in one buffer, and one that fills them all.
MCSizes == {1, 2, 9}
=============================================================================
