----------------------------- MODULE BlockDelta -----------------------------
(***************************************************************************)
(* Signatures, deltas and patches (src/rsync.rs) at the grain of whole     *)
(* blocks, for the modules that exchange files.  A content is a sequence   *)
(* of blocks.  Module RsyncDelta has the byte-level algorithm.             *)
(***************************************************************************)
EXTENDS Naturals, Sequences, SequencesExt, FiniteSets

\* The strong hash of each block, taken to tell blocks apart.
Signature(content) == content

\* COPY of the first old block with the same hash, or LITERAL.
Delta(new, sig) ==
  [i \in 1..Len(new) |->
     IF new[i] \in ToSet(sig)
     THEN [op |-> "copy", ix |-> SelectInSeq(sig, LAMBDA x : x = new[i])]
     ELSE [op |-> "literal", block |-> new[i]]]

\* d.len() < data.len(): one copy saves more than all headers cost.
IsShorter(delta) == \E i \in 1..Len(delta) : delta[i].op = "copy"

\* The blocks that travel in a delta.
Literals(delta) == Cardinality({i \in 1..Len(delta) : delta[i].op = "literal"})

\* patch fails when a copy is out of the range of the old file, and checks
\* nothing of the result but its length.
CanPatch(old, delta) ==
  \A i \in 1..Len(delta) : delta[i].op = "copy" => delta[i].ix <= Len(old)

Patch(old, delta) ==
  [i \in 1..Len(delta) |->
     IF delta[i].op = "copy" THEN old[delta[i].ix] ELSE delta[i].block]

=============================================================================
