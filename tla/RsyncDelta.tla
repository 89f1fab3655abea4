----------------------------- MODULE RsyncDelta -----------------------------
(***************************************************************************)
(* The delta algorithm (src/rsync.rs) on single bytes: delta scans the new *)
(* file for blocks of the old one with a rolling checksum, and patch       *)
(* rebuilds the new file from the delta and the file it finds.  One step   *)
(* is one turn of the loop of delta or of the loop of patch.               *)
(*                                                                         *)
(* Positions and block indexes count from 0, as in the source.  The strong *)
(* hash is taken to tell different blocks apart.                           *)
(***************************************************************************)
EXTENDS Integers, Sequences, SequencesExt

CONSTANTS
  Byte,        \* the values of a byte
  BlockLen,    \* the block length of the signature
  OldFiles,    \* the files the signature is made of
  NewFiles,    \* the files the delta is made for
  Rewritten    \* what the old file may be replaced with before patch reads it

ASSUME ByteAssumption == Byte \subseteq Nat
ASSUME BlockLenAssumption == BlockLen \in Nat \ {0}
ASSUME FilesAssumption ==
  OldFiles \subseteq Seq(Byte) /\ NewFiles \subseteq Seq(Byte) /\ Rewritten \subseteq Seq(Byte)

VARIABLES
  pc,          \* "scan", "patch", "done" or "failed"
  old, new,    \* the two files
  basis,       \* the old file as patch finds it
  i,           \* delta: the start of the window in new
  litStart,    \* delta: the first byte of new that no op covers yet
  a, b,        \* delta: the rolling checksum of the window
  ops,         \* the delta; at, in an op, is history: its position in new
  p,           \* patch: how many ops it has applied
  out          \* patch: what it has produced

vars == <<pc, old, new, basis, i, litStart, a, b, ops, p, out>>

-----------------------------------------------------------------------------

\* The chunks of a file of which signature makes one entry each.
BlockIndexes(f) == {k \in 0..Len(f) : k * BlockLen < Len(f)}
Block(f, k) ==
  SubSeq(f, k * BlockLen + 1,
         IF k * BlockLen + BlockLen < Len(f) THEN k * BlockLen + BlockLen ELSE Len(f))

Window(j) == SubSeq(new, j + 1, j + BlockLen)

\* What a loop that adds up d[1], ..., d[n] has after each of its turns.
Totals(d, n) ==
  LET sum[k \in 0..n] == IF k = 0 THEN 0 ELSE sum[k - 1] + d[k] IN sum

\* rollsum: the sum of the bytes, and the sum weighted by the distance from
\* the end.
SumA(w) == Totals(w, Len(w))[Len(w)]
SumB(w) == Totals([k \in 1..Len(w) |-> (Len(w) - k + 1) * w[k]], Len(w))[Len(w)]

Literal(from, to) ==
  IF from = to THEN <<>>
  ELSE <<[op |-> "literal", bytes |-> SubSeq(new, from + 1, to), at |-> from]>>
Copy(k) == <<[op |-> "copy", ix |-> k, at |-> i]>>

Init ==
  /\ pc = "scan"
  /\ old \in OldFiles /\ new \in NewFiles
  /\ basis = old
  /\ i = 0 /\ litStart = 0
  /\ a = IF Len(new) >= BlockLen THEN SumA(SubSeq(new, 1, BlockLen)) ELSE 0
  /\ b = IF Len(new) >= BlockLen THEN SumB(SubSeq(new, 1, BlockLen)) ELSE 0
  /\ ops = <<>>
  /\ p = 0 /\ out = <<>>

\* Mutants of Hits: no hash is compared; one block is kept per checksum.
HitsByChecksum ==
  {k \in BlockIndexes(old) : SumA(Block(old, k)) = a /\ SumB(Block(old, k)) = b}
HitsLastOnly ==
  {k \in BlockIndexes(old) :
     /\ SumA(Block(old, k)) = a /\ SumB(Block(old, k)) = b
     /\ Block(old, k) = Window(i)
     /\ \A l \in BlockIndexes(old) :
          SumA(Block(old, l)) = a /\ SumB(Block(old, l)) = b => l <= k}

\* The blocks with the checksum of the window and, among them, its hash.
Hits ==
  {k \in BlockIndexes(old) :
     SumA(Block(old, k)) = a /\ SumB(Block(old, k)) = b /\ Block(old, k) = Window(i)}

\* A hit: the pending literal, the first block that fits, and a new window.
Match ==
  /\ pc = "scan" /\ i + BlockLen <= Len(new)
  /\ \E k \in Hits :
       /\ \A l \in Hits : k <= l
       /\ ops' = ops \o Literal(litStart, i) \o Copy(k)
  /\ i' = i + BlockLen
  /\ litStart' = i'
  /\ IF i' + BlockLen <= Len(new)
     THEN a' = SumA(Window(i')) /\ b' = SumB(Window(i'))
     ELSE UNCHANGED <<a, b>>
  /\ UNCHANGED <<pc, old, new, basis, p, out>>

\* Mutant of Roll: the weight of the byte that leaves the window is lost.
RollUnweighted(outByte, inByte) ==
  /\ a' = a - outByte + inByte
  /\ b' = b - outByte + a'

\* roll: the window moves on by one byte.
Roll(outByte, inByte) ==
  /\ a' = a - outByte + inByte
  /\ b' = b - BlockLen * outByte + a'

\* No hit: one more byte of the literal.
Slide ==
  /\ pc = "scan" /\ i + BlockLen <= Len(new)
  /\ Hits = {}
  /\ IF i + BlockLen < Len(new)
     THEN Roll(new[i + 1], new[i + BlockLen + 1])
     ELSE UNCHANGED <<a, b>>
  /\ i' = i + 1
  /\ UNCHANGED <<pc, old, new, basis, litStart, ops, p, out>>

\* The end of new: the rest is a literal.  By the time patch reads the old
\* file, somebody may have replaced it.
EndScan ==
  /\ pc = "scan" /\ i + BlockLen > Len(new)
  /\ ops' = ops \o Literal(litStart, Len(new))
  /\ basis' \in {old} \cup Rewritten
  /\ pc' = "patch"
  /\ UNCHANGED <<old, new, i, litStart, a, b, p, out>>

\* One op of the delta, with every bound patch checks; the expected length
\* is that of new.
ApplyOp ==
  /\ pc = "patch" /\ p < Len(ops)
  /\ LET o == ops[p + 1]
         isCopy == o.op = "copy"
         inRange == isCopy => o.ix * BlockLen < Len(basis)
         bytes == IF isCopy THEN Block(basis, o.ix) ELSE o.bytes
     IN  IF inRange /\ Len(out) + Len(bytes) <= Len(new)
         THEN out' = out \o bytes /\ p' = p + 1 /\ UNCHANGED pc
         ELSE pc' = "failed" /\ UNCHANGED <<out, p>>
  /\ UNCHANGED <<old, new, basis, i, litStart, a, b, ops>>

\* Mutant of EndPatch: the length of the result is not checked.
EndPatchUnchecked ==
  /\ pc = "patch" /\ p = Len(ops)
  /\ pc' = "done"
  /\ UNCHANGED <<old, new, basis, i, litStart, a, b, ops, p, out>>

\* The end of the delta: the length must be the expected one.
EndPatch ==
  /\ pc = "patch" /\ p = Len(ops)
  /\ pc' = IF Len(out) = Len(new) THEN "done" ELSE "failed"
  /\ UNCHANGED <<old, new, basis, i, litStart, a, b, ops, p, out>>

Next == Match \/ Slide \/ EndScan \/ ApplyOp \/ EndPatch

Spec == Init /\ [][Next]_vars

-----------------------------------------------------------------------------

\* Applied to the file its signature was made of, a delta is accepted and
\* gives back exactly the new file.
RoundTrip ==
  basis = old => pc # "failed" /\ (pc = "done" => out = new)

\* Whatever file patch finds, it never produces more than the expected length
\* and never reports success with another length.
OutputBounded == Len(out) <= Len(new) /\ (pc = "done" => Len(out) = Len(new))

\* The rolling checksum is the checksum of the window, whatever sequence of
\* rolls and jumps led to it; so no subtraction of the source underflows.
RollIsRollsum ==
  pc = "scan" /\ i + BlockLen <= Len(new) =>
    a = SumA(Window(i)) /\ b = SumB(Window(i))

\* No block is missed: no window the scan has moved past by one byte, since the
\* last copy, was a block of the old file.
NoBlockMissed ==
  \A j \in litStart..(i - 1) : j + BlockLen <= Len(new) =>
    \A k \in BlockIndexes(old) : Block(old, k) # Window(j)

-----------------------------------------------------------------------------
(***************************************************************************)
(* The inductive invariant behind RoundTrip: the ops tile the part of new  *)
(* that the scan has covered, each op yields its part, and patch has       *)
(* rebuilt what the ops it applied cover.                                  *)
(***************************************************************************)

Op == [op : {"copy"}, ix : Nat, at : Nat]
        \cup [op : {"literal"}, bytes : Seq(Byte), at : Nat]

TypeOK ==
  /\ pc \in {"scan", "patch", "done", "failed"}
  /\ old \in Seq(Byte) /\ new \in Seq(Byte) /\ basis \in Seq(Byte)
  /\ i \in Nat /\ litStart \in Nat
  /\ litStart <= i /\ i <= Len(new)
  /\ ops \in Seq(Op)
  /\ p \in 0..Len(ops)
  /\ out \in Seq(Byte)

\* The position in new at which the part of an op ends.
OpEnd(o) == o.at + (IF o.op = "copy" THEN BlockLen ELSE Len(o.bytes))

\* What an op yields, applied to the old file, is its part of new.
Faithful(o) ==
  /\ OpEnd(o) <= Len(new)
  /\ IF o.op = "copy"
     THEN o.ix \in BlockIndexes(old) /\ Block(old, o.ix) = SubSeq(new, o.at + 1, OpEnd(o))
     ELSE o.bytes = SubSeq(new, o.at + 1, OpEnd(o))

\* Where in new the first n ops of a delta end.
EndOf(s, n) == IF n = 0 THEN 0 ELSE OpEnd(s[n])

\* The ops of s are faithful, each starts where the one before ends, and
\* together they cover the first upTo bytes of new.
Tiles(s, upTo) ==
  /\ \A n \in 1..Len(s) : Faithful(s[n]) /\ s[n].at = EndOf(s, n - 1)
  /\ EndOf(s, Len(s)) = upTo

Tiling == Tiles(ops, IF pc = "scan" THEN litStart ELSE Len(new))

Rebuilt ==
  /\ pc = "scan" => p = 0 /\ out = <<>>
  /\ basis = old => /\ pc # "failed"
                    /\ out = SubSeq(new, 1, EndOf(ops, p))
                    /\ pc = "done" => p = Len(ops)

IInv == TypeOK /\ Tiling /\ Rebuilt

=============================================================================
