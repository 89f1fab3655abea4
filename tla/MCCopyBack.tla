----------------------------- MODULE MCCopyBack -----------------------------
(***************************************************************************)
(* CopyBack for TLC.                                                       *)
(***************************************************************************)
EXTENDS CopyBack

CONSTANTS a, b, x, f, g   \* three blocks, two names

\* What a build writes: in part what is there.
Builds == { <<a, x>> }

\* Empty here; alike at the end; gone on the remote.
FilePairs ==
  { [local |-> <<>>, remote |-> <<a, b>>], [local |-> <<x, b>>, remote |-> <<a, b>>],
    [local |-> <<a>>, remote |-> None] }

Old == <<a>>
New == <<b, x>>
=============================================================================
