-------------------------- MODULE RsyncDeltaProofs --------------------------
(***************************************************************************)
(* Proofs about RsyncDelta, for any files, any bytes and any block length: *)
(* what delta makes for the signature of a file, patch turns into the new  *)
(* file when it is applied to that file (RoundTripHolds).  The argument is *)
(* the invariant IInv of RsyncDelta: the ops tile the new file.  That the  *)
(* rolling checksum is exact (RollIsRollsumHolds) plays no part in it: a   *)
(* wrong checksum only costs hits.  The facts about the sums are proved by *)
(* induction (SetInduction, from the well-founded order of the naturals).  *)
(***************************************************************************)
EXTENDS RsyncDelta, SequenceTheorems, WellFoundedInduction, TLAPS

-----------------------------------------------------------------------------
(* Lemmas about sequences.                                                  *)

\* A part of a file is a sequence of bytes with the length one expects.
LEMMA PartOfFile ==
  ASSUME NEW s \in Seq(Byte), NEW m \in Nat, NEW n \in Nat, m <= n, n <= Len(s)
  PROVE  /\ SubSeq(s, m + 1, n) \in Seq(Byte)
         /\ Len(SubSeq(s, m + 1, n)) = n - m
<1>1. \A k \in (m + 1)..n : s[k] \in Byte
      BY ElementOfSeq
<1>2. QED
      BY <1>1, SubSeqProperties

\* The first m bytes followed by the bytes up to n are the first n bytes.
LEMMA JoinParts ==
  ASSUME NEW s \in Seq(Byte), NEW m \in Nat, NEW n \in Nat, m <= n, n <= Len(s)
  PROVE  SubSeq(s, 1, m) \o SubSeq(s, m + 1, n) = SubSeq(s, 1, n)
  BY ConcatAdjacentSubSeq

\* A block of a file is a sequence of bytes.
LEMMA BlockIsPart ==
  ASSUME NEW f \in Seq(Byte), NEW k \in BlockIndexes(f)
  PROVE  Block(f, k) \in Seq(Byte)
<1> DEFINE to == IF k * BlockLen + BlockLen < Len(f) THEN k * BlockLen + BlockLen ELSE Len(f)
<1>1. k * BlockLen \in Nat /\ k * BlockLen < Len(f) /\ Len(f) \in Nat
      BY BlockLenAssumption DEF BlockIndexes
<1>2. to \in Nat /\ k * BlockLen <= to /\ to <= Len(f)
      BY <1>1, BlockLenAssumption
<1> HIDE DEF to
<1>3. SubSeq(f, k * BlockLen + 1, to) \in Seq(Byte)
      BY <1>1, <1>2, PartOfFile
<1>4. QED
      BY <1>3 DEF Block, to

-----------------------------------------------------------------------------
(* Lemmas about tilings.                                                    *)

\* A faithful op that starts where a tiling ends extends the tiling.
LEMMA TilesAppend ==
  ASSUME NEW s \in Seq(Op), NEW o \in Op, NEW c \in Nat,
         Tiles(s, c), Faithful(o), o.at = c
  PROVE  Append(s, o) \in Seq(Op) /\ Tiles(Append(s, o), OpEnd(o))
<1> DEFINE t == Append(s, o)
<1>1. /\ t \in Seq(Op) /\ Len(t) = Len(s) + 1 /\ t[Len(s) + 1] = o
      /\ \A n \in 1..Len(s) : t[n] = s[n]
      BY AppendProperties
<1>2. Len(s) \in Nat
      OBVIOUS
<1> HIDE DEF t
<1>3. \A n \in 0..Len(s) : EndOf(t, n) = EndOf(s, n)
      BY <1>1, <1>2 DEF EndOf
<1>4. EndOf(t, Len(t)) = OpEnd(o)
      BY <1>1, <1>2 DEF EndOf
<1>5. ASSUME NEW n \in 1..Len(t)
      PROVE  Faithful(t[n]) /\ t[n].at = EndOf(t, n - 1)
  <2>1. CASE n \in 1..Len(s)
    <3>1. t[n] = s[n] /\ n - 1 \in 0..Len(s)
          BY <2>1, <1>1, <1>2
    <3>2. EndOf(t, n - 1) = EndOf(s, n - 1)
          BY <3>1, <1>3
    <3>3. Faithful(s[n]) /\ s[n].at = EndOf(s, n - 1)
          BY <2>1 DEF Tiles
    <3>4. QED
          BY <3>1, <3>2, <3>3
  <2>2. CASE n = Len(s) + 1
        BY <2>2, <1>1, <1>2, <1>3 DEF Tiles
  <2>3. QED
        BY <2>1, <2>2, <1>1, <1>2
<1>6. QED
      BY <1>1, <1>4, <1>5 DEF Tiles, t

\* The pending literal extends a tiling to its end, if it has any bytes.
LEMMA TilesLiteral ==
  ASSUME TypeOK, NEW s \in Seq(Op), NEW from \in Nat, NEW to \in Nat,
         from <= to, to <= Len(new), Tiles(s, from)
  PROVE  (s \o Literal(from, to)) \in Seq(Op) /\ Tiles(s \o Literal(from, to), to)
<1>1. CASE from = to
      BY <1>1, ConcatEmptySeq DEF Literal
<1>2. CASE from # to
  <2> DEFINE o == [op |-> "literal", bytes |-> SubSeq(new, from + 1, to), at |-> from]
  <2>1. o.bytes \in Seq(Byte) /\ Len(o.bytes) = to - from
        BY PartOfFile DEF TypeOK
  <2>2. OpEnd(o) = to
        BY <2>1 DEF OpEnd
  <2>3. o \in Op
        BY <2>1 DEF Op
  <2>4. Faithful(o)
        BY <2>2 DEF Faithful
  <2>5. s \o Literal(from, to) = Append(s, o)
        BY <1>2, <2>3, AppendIsConcat DEF Literal
  <2> HIDE DEF o
  <2>6. o.at = from
        BY DEF o
  <2>7. QED
        BY <2>2, <2>3, <2>4, <2>5, <2>6, TilesAppend
<1>3. QED
      BY <1>1, <1>2

\* A copy of a block that equals the window extends a tiling by the window.
LEMMA TilesCopy ==
  ASSUME TypeOK, NEW s \in Seq(Op), Tiles(s, i), i + BlockLen <= Len(new),
         NEW k \in BlockIndexes(old), Block(old, k) = Window(i)
  PROVE  (s \o Copy(k)) \in Seq(Op) /\ Tiles(s \o Copy(k), i + BlockLen)
<1> DEFINE o == [op |-> "copy", ix |-> k, at |-> i]
<1>1. k \in Nat /\ i \in Nat /\ Len(old) \in Nat
      BY DEF BlockIndexes, TypeOK
<1>2. OpEnd(o) = i + BlockLen
      BY DEF OpEnd
<1>3. o \in Op
      BY <1>1 DEF Op
<1>4. Faithful(o)
      BY <1>2 DEF Faithful, Window
<1>5. s \o Copy(k) = Append(s, o)
      BY <1>3, AppendIsConcat DEF Copy
<1> HIDE DEF o
<1>6. o.at = i
      BY DEF o
<1>7. QED
      BY <1>1, <1>2, <1>3, <1>4, <1>5, <1>6, TilesAppend

-----------------------------------------------------------------------------
(* The invariant.                                                           *)

\* Any two files to start with satisfy IInv: nothing is covered yet.
LEMMA InitIInv == Init => IInv
<1> SUFFICES ASSUME Init PROVE IInv
    OBVIOUS
<1>1. old \in Seq(Byte) /\ new \in Seq(Byte) /\ basis = old
      BY FilesAssumption DEF Init
<1>2. TypeOK
      BY <1>1, EmptySeq DEF Init, TypeOK
<1>3. Tiling
      BY DEF Init, Tiling, Tiles, EndOf
<1>4. SubSeq(new, 1, 0) = << >>
      BY <1>1, SubSeqEmpty
<1>5. Rebuilt
      BY <1>4 DEF Init, Rebuilt, EndOf
<1>6. QED
      BY <1>2, <1>3, <1>5 DEF IInv

\* A hit covers the pending literal and the window.
LEMMA MatchIInv == IInv /\ Match => IInv'
<1> SUFFICES ASSUME IInv, Match PROVE IInv'
    OBVIOUS
<1> USE BlockLenAssumption
<1>1. TypeOK /\ Tiles(ops, litStart) /\ Rebuilt
      BY DEF IInv, Tiling, Match
<1>2. i \in Nat /\ litStart \in Nat /\ Len(new) \in Nat /\ i <= Len(new)
      BY <1>1 DEF TypeOK
<1>3. PICK k \in Hits : ops' = ops \o Literal(litStart, i) \o Copy(k)
      BY DEF Match
<1>4. k \in BlockIndexes(old) /\ Block(old, k) = Window(i)
      BY DEF Hits
<1> DEFINE mid == ops \o Literal(litStart, i)
<1>5. mid \in Seq(Op) /\ Tiles(mid, i)
      BY <1>1, <1>2, TilesLiteral DEF TypeOK
<1> HIDE DEF mid
<1>6. ops' = mid \o Copy(k)
      BY <1>3 DEF mid
<1>7. ops' \in Seq(Op) /\ Tiles(ops', i + BlockLen)
      BY <1>1, <1>4, <1>5, <1>6, TilesCopy DEF Match
<1>8. TypeOK'
      BY <1>1, <1>2, <1>7 DEF Match, TypeOK, Rebuilt
<1>9. Tiling'
      BY <1>7 DEF Match, Tiling, Tiles, EndOf, OpEnd, Faithful, BlockIndexes, Block
<1>10. Rebuilt'
      BY <1>1 DEF Match, Rebuilt, EndOf
<1>11. QED
      BY <1>8, <1>9, <1>10 DEF IInv

\* Moving the window covers nothing.
LEMMA SlideIInv == IInv /\ Slide => IInv'
<1> SUFFICES ASSUME IInv, Slide PROVE IInv'
    OBVIOUS
<1>1. TypeOK'
      BY BlockLenAssumption DEF IInv, Slide, TypeOK
<1>2. Tiling'
      BY DEF IInv, Slide, Tiling, Tiles, EndOf, OpEnd, Faithful, BlockIndexes, Block
<1>3. Rebuilt'
      BY DEF IInv, Slide, Rebuilt, EndOf, OpEnd
<1>4. QED
      BY <1>1, <1>2, <1>3 DEF IInv

\* The last literal covers the rest of new.
LEMMA EndScanIInv == IInv /\ EndScan => IInv'
<1> SUFFICES ASSUME IInv, EndScan PROVE IInv'
    OBVIOUS
<1>1. TypeOK /\ Tiles(ops, litStart) /\ Rebuilt
      BY DEF IInv, Tiling, EndScan
<1>2. litStart \in Nat /\ Len(new) \in Nat /\ litStart <= Len(new)
      BY <1>1 DEF TypeOK
<1>3. ops' \in Seq(Op) /\ Tiles(ops', Len(new))
      BY <1>1, <1>2, TilesLiteral DEF EndScan, TypeOK
<1>4. TypeOK'
      BY <1>1, <1>3, FilesAssumption DEF EndScan, TypeOK, Rebuilt
<1>5. Tiling'
      BY <1>3 DEF EndScan, Tiling, Tiles, EndOf, OpEnd, Faithful, BlockIndexes, Block
<1>6. SubSeq(new, 1, 0) = << >>
      BY <1>1, SubSeqEmpty DEF TypeOK
<1>7. Rebuilt'
      BY <1>1, <1>6 DEF EndScan, Rebuilt, EndOf
<1>8. QED
      BY <1>4, <1>5, <1>7 DEF IInv

\* An op appends exactly the next part of new when the old file is as it was.
LEMMA ApplyOpIInv == IInv /\ ApplyOp => IInv'
<1> SUFFICES ASSUME IInv, ApplyOp PROVE IInv'
    OBVIOUS
<1> DEFINE o == ops[p + 1]
           bytes == IF o.op = "copy" THEN Block(basis, o.ix) ELSE o.bytes
<1> USE BlockLenAssumption
<1>1. TypeOK /\ Tiles(ops, Len(new)) /\ Rebuilt
      BY DEF IInv, Tiling, ApplyOp
<1>2. /\ p \in Nat /\ p + 1 \in 1..Len(ops) /\ p + 1 <= Len(ops)
      /\ o \in Op /\ Len(new) \in Nat /\ new \in Seq(Byte)
      BY <1>1 DEF TypeOK, ApplyOp
<1>3. Faithful(o) /\ o.at = EndOf(ops, p)
      BY <1>1, <1>2 DEF Tiles
<1>4. OpEnd(o) \in Nat /\ o.at \in Nat /\ o.at <= OpEnd(o) /\ OpEnd(o) <= Len(new)
  <2>1. OpEnd(o) <= Len(new)
        BY <1>3 DEF Faithful
  <2>2. OpEnd(o) \in Nat /\ o.at \in Nat /\ o.at <= OpEnd(o)
        BY <1>2 DEF Op, OpEnd
  <2>3. QED
        BY <2>1, <2>2
<1>5. ASSUME basis = old
      PROVE  /\ o.op = "copy" => o.ix * BlockLen < Len(basis)
             /\ bytes = SubSeq(new, o.at + 1, OpEnd(o))
             /\ Len(out) + Len(bytes) <= Len(new)
             /\ out \o bytes = SubSeq(new, 1, OpEnd(o))
  <2>1. /\ o.op = "copy" => o.ix * BlockLen < Len(basis)
        /\ bytes = SubSeq(new, o.at + 1, OpEnd(o))
        BY <1>3, <1>5 DEF Faithful, BlockIndexes
  <2>2. out = SubSeq(new, 1, o.at)
        BY <1>1, <1>3, <1>5 DEF Rebuilt
  <2> HIDE DEF o, bytes
  <2>3. Len(bytes) = OpEnd(o) - o.at
        BY <2>1, <1>2, <1>4, PartOfFile
  <2>4. Len(out) = o.at
        BY <2>2, <1>2, <1>4, SubSeqProperties
  <2>5. out \o bytes = SubSeq(new, 1, OpEnd(o))
        BY <2>1, <2>2, <1>2, <1>4, JoinParts
  <2>6. Len(out) + Len(bytes) <= Len(new)
        BY <2>3, <2>4, <1>4
  <2>7. QED
        BY <2>1, <2>5, <2>6
<1>6. (o.op = "copy" => o.ix * BlockLen < Len(basis)) => bytes \in Seq(Byte)
  <2>1. CASE o.op = "copy"
    <3>1. o.ix \in Nat /\ Len(basis) \in Nat /\ basis \in Seq(Byte)
          BY <2>1, <1>1, <1>2 DEF Op, TypeOK
    <3>2. o.ix * BlockLen < Len(basis) => o.ix \in BlockIndexes(basis)
      <4>1. o.ix <= o.ix * BlockLen
            BY <3>1
      <4>2. QED
            BY <3>1, <4>1 DEF BlockIndexes
    <3>3. QED
          BY <2>1, <3>1, <3>2, BlockIsPart
  <2>2. CASE o.op # "copy"
        BY <2>2, <1>2 DEF Op
  <2>3. QED
        BY <2>1, <2>2
<1>7. /\ UNCHANGED <<old, new, basis, i, litStart, a, b, ops>>
      /\ IF (o.op = "copy" => o.ix * BlockLen < Len(basis)) /\ Len(out) + Len(bytes) <= Len(new)
         THEN out' = out \o bytes /\ p' = p + 1 /\ pc' = "patch"
         ELSE pc' = "failed" /\ out' = out /\ p' = p
      BY DEF ApplyOp
<1> HIDE DEF o, bytes
<1>8. TypeOK'
  <2>1. out \in Seq(Byte) /\ (bytes \in Seq(Byte) => out \o bytes \in Seq(Byte))
        BY <1>1, ConcatProperties DEF TypeOK
  <2>2. out' \in Seq(Byte)
        BY <2>1, <1>6, <1>7
  <2>3. p' \in 0..Len(ops') /\ pc' \in {"scan", "patch", "done", "failed"}
        BY <1>1, <1>2, <1>7 DEF TypeOK
  <2>4. QED
        BY <2>2, <2>3, <1>1, <1>7 DEF TypeOK
<1>9. Tiling'
      BY <1>1, <1>7 DEF Tiling, Tiles, EndOf, OpEnd, Faithful, BlockIndexes, Block
<1>10. Rebuilt'
  <2>1. EndOf(ops, p + 1) = OpEnd(o)
        BY <1>2 DEF EndOf, o
  <2>2. pc' # "scan"
        BY <1>7
  <2>3. ASSUME basis' = old' PROVE pc' = "patch" /\ out' = SubSeq(new', 1, EndOf(ops, p)')
    <3>1. basis = old
          BY <2>3, <1>7
    <3>2. pc' = "patch" /\ out' = SubSeq(new, 1, OpEnd(o)) /\ p' = p + 1
          BY <3>1, <1>5, <1>7
    <3>3. EndOf(ops, p)' = OpEnd(o)
          BY <3>2, <2>1, <1>2, <1>7 DEF EndOf, OpEnd, o
    <3>4. QED
          BY <3>2, <3>3, <1>7
  <2>4. QED
        BY <2>2, <2>3 DEF Rebuilt
<1>11. QED
      BY <1>8, <1>9, <1>10 DEF IInv

\* At the end all of new is rebuilt, so that its length is the expected one.
LEMMA EndPatchIInv == IInv /\ EndPatch => IInv'
<1> SUFFICES ASSUME IInv, EndPatch PROVE IInv'
    OBVIOUS
<1>1. TypeOK'
      BY DEF IInv, EndPatch, TypeOK
<1>2. Tiling'
      BY DEF IInv, EndPatch, Tiling, Tiles, EndOf, OpEnd, Faithful, BlockIndexes, Block
<1>3. basis = old => out = new
  <2>1. new \in Seq(Byte) /\ EndOf(ops, p) = Len(new)
        BY DEF IInv, TypeOK, EndPatch, Tiling, Tiles
  <2>2. SubSeq(new, 1, Len(new)) = new
        BY <2>1, SubSeqFull
  <2>3. QED
        BY <2>1, <2>2 DEF IInv, Rebuilt
<1>4. Rebuilt'
      BY <1>3 DEF IInv, EndPatch, Rebuilt, EndOf, OpEnd
<1>5. QED
      BY <1>1, <1>2, <1>4 DEF IInv

\* The ops tile the new file in every reachable state.
THEOREM DeltaInvariant == Spec => []IInv
<1>1. Init => IInv
      BY InitIInv
<1>2. IInv /\ [Next]_vars => IInv'
  <2>1. IInv /\ UNCHANGED vars => IInv'
        BY DEF vars, IInv, TypeOK, Tiling, Tiles, Rebuilt, EndOf, OpEnd, Faithful,
               BlockIndexes, Block
  <2>2. QED
        BY <2>1, MatchIInv, SlideIInv, EndScanIInv, ApplyOpIInv, EndPatchIInv DEF Next
<1>3. QED
      BY <1>1, <1>2, PTL DEF Spec

\* A delta applied to the file its signature was made of is never refused and
\* gives back exactly the new file, for all files and block lengths.
THEOREM RoundTripHolds == Spec => []RoundTrip
<1>1. IInv => RoundTrip
  <2> SUFFICES ASSUME IInv, basis = old, pc = "done" PROVE out = new
      BY DEF IInv, Rebuilt, RoundTrip
  <2>1. new \in Seq(Byte) /\ EndOf(ops, p) = Len(new)
        BY DEF IInv, TypeOK, Tiling, Tiles, Rebuilt
  <2>2. SubSeq(new, 1, Len(new)) = new
        BY <2>1, SubSeqFull
  <2>3. QED
        BY <2>1, <2>2 DEF IInv, Rebuilt
<1>2. QED
      BY <1>1, DeltaInvariant, PTL

-----------------------------------------------------------------------------
(* What holds of patch whatever file it finds.                              *)

\* An op is only applied when its bytes fit, and the length is looked at again
\* at the end.
LEMMA NextOutputBounded == IInv /\ OutputBounded /\ [Next]_vars => OutputBounded'
<1> SUFFICES ASSUME IInv, OutputBounded, [Next]_vars PROVE OutputBounded'
    OBVIOUS
<1>1. CASE ApplyOp
  <2> DEFINE o == ops[p + 1]
             bytes == IF o.op = "copy" THEN Block(basis, o.ix) ELSE o.bytes
  <2>1. /\ new' = new
        /\ \/ out' = out \o bytes /\ Len(out) + Len(bytes) <= Len(new) /\ pc' # "done"
              /\ (o.op = "copy" => o.ix * BlockLen < Len(basis))
           \/ out' = out /\ pc' = "failed"
        BY <1>1 DEF ApplyOp
  <2>2. ASSUME o.op = "copy" => o.ix * BlockLen < Len(basis)
        PROVE  bytes \in Seq(Byte)
    <3>1. o \in Op /\ basis \in Seq(Byte) /\ Len(basis) \in Nat
          BY <1>1 DEF IInv, TypeOK, ApplyOp
    <3>2. CASE o.op = "copy"
      <4>1. o.ix \in Nat
            BY <3>1, <3>2 DEF Op
      <4>2. o.ix <= o.ix * BlockLen
            BY <4>1, BlockLenAssumption
      <4>3. o.ix \in BlockIndexes(basis)
            BY <2>2, <3>1, <3>2, <4>1, <4>2, BlockLenAssumption DEF BlockIndexes
      <4>4. QED
            BY <3>1, <3>2, <4>3, BlockIsPart
    <3>3. CASE o.op # "copy"
          BY <3>1, <3>3 DEF Op
    <3>4. QED
          BY <3>2, <3>3
  <2> HIDE DEF o, bytes
  <2>3. out \in Seq(Byte)
        BY DEF IInv, TypeOK
  <2>4. bytes \in Seq(Byte) => Len(out \o bytes) = Len(out) + Len(bytes)
        BY <2>3, ConcatProperties
  <2>5. QED
        BY <2>1, <2>2, <2>4 DEF OutputBounded
<1>2. CASE Match \/ Slide \/ EndScan
      BY <1>2 DEF Match, Slide, EndScan, OutputBounded
<1>3. CASE EndPatch
      BY <1>3 DEF EndPatch, OutputBounded
<1>4. CASE UNCHANGED vars
      BY <1>4 DEF vars, OutputBounded
<1>5. QED
      BY <1>1, <1>2, <1>3, <1>4 DEF Next

\* Even if the old file is replaced between the signature and patch, the result
\* never exceeds the expected length and is only reported at exactly that length.
THEOREM OutputBoundedHolds == Spec => []OutputBounded
<1>1. Init => OutputBounded
  <2>1. Init => new \in Seq(Byte)
        BY FilesAssumption DEF Init
  <2>2. QED
        BY <2>1 DEF Init, OutputBounded
<1>2. QED
      BY <1>1, NextOutputBounded, DeltaInvariant, PTL DEF Spec

-----------------------------------------------------------------------------
(* Sums.                                                                    *)

\* Induction over the natural numbers, of a set.
LEMMA SetInduction ==
  ASSUME NEW S, 0 \in S, \A n \in Nat : n \in S => n + 1 \in S
  PROVE  Nat \subseteq S
<1> DEFINE T == Nat \ S
           R == {xy \in Nat \X Nat : xy[1] < xy[2]}
<1> SUFFICES ASSUME T # {} PROVE FALSE
    OBVIOUS
<1>1. IsWellFoundedOn(R, Nat)
      BY NatLessThanWellFounded, Zenon DEF OpToRel
<1>2. T \subseteq Nat
      OBVIOUS
<1>3. PICK n \in T : \A m \in T : ~ (<<m, n>> \in R)
  <2> HIDE DEF R, T
  <2> QED
      BY <1>1, <1>2, WFMin
<1>4. n # 0 /\ n - 1 \in Nat
      OBVIOUS
<1>5. n - 1 \in S
  <2>1. <<n - 1, n>> \in R
        BY <1>4
  <2>2. QED
        BY <1>3, <1>4, <2>1
<1>6. QED
      BY <1>4, <1>5

\* The equations that define Totals have a solution.
LEMMA TotalsExist ==
  ASSUME NEW d, NEW n \in Nat
  PROVE  \E s : s = [k \in 0..n |-> IF k = 0 THEN 0 ELSE s[k - 1] + d[k]]
<1> DEFINE Solution(s, m) == s = [k \in 0..m |-> IF k = 0 THEN 0 ELSE s[k - 1] + d[k]]
           S == {m \in Nat : \E s : Solution(s, m)}
<1>1. 0 \in S
  <2> DEFINE s == [k \in 0..0 |-> 0]
  <2>1. Solution(s, 0)
        OBVIOUS
  <2>2. QED
        BY <2>1
<1>2. ASSUME NEW m \in Nat, m \in S PROVE m + 1 \in S
  <2>1. PICK s : Solution(s, m)
        BY <1>2
  <2> DEFINE t == [k \in 0..(m + 1) |-> IF k <= m THEN s[k] ELSE s[m] + d[m + 1]]
  <2>2. \A k \in 0..(m + 1) : t[k] = IF k = 0 THEN 0 ELSE t[k - 1] + d[k]
        BY <2>1
  <2>3. Solution(t, m + 1)
        BY <2>2
  <2>4. m + 1 \in Nat
        OBVIOUS
  <2> HIDE DEF Solution, t
  <2>5. QED
        BY <2>3, <2>4
<1> HIDE DEF S
<1>3. n \in S
      BY <1>1, <1>2, SetInduction
<1>4. QED
      BY <1>3 DEF S

\* A total is the one before and one more summand.
LEMMA TotalsStep ==
  ASSUME NEW d, NEW n \in Nat, \A k \in 1..n : d[k] \in Int
  PROVE  /\ Totals(d, n)[0] = 0
         /\ \A k \in 1..n : Totals(d, n)[k] = Totals(d, n)[k - 1] + d[k]
         /\ \A k \in 0..n : Totals(d, n)[k] \in Int
<1> DEFINE sum == Totals(d, n)
           S == {m \in Nat : m <= n => sum[m] \in Int}
<1>1. \E s : s = [k \in 0..n |-> IF k = 0 THEN 0 ELSE s[k - 1] + d[k]]
      BY TotalsExist
<1>2. sum = [k \in 0..n |-> IF k = 0 THEN 0 ELSE sum[k - 1] + d[k]]
      BY <1>1 DEF Totals
<1> HIDE DEF sum
<1>3. sum[0] = 0 /\ \A k \in 1..n : sum[k] = sum[k - 1] + d[k]
      BY <1>2
<1>4. 0 \in S
      BY <1>3
<1>5. ASSUME NEW m \in Nat, m \in S PROVE m + 1 \in S
      BY <1>3, <1>5
<1> HIDE DEF S
<1>6. Nat \subseteq S
      BY <1>4, <1>5, SetInduction
<1>7. \A k \in 0..n : sum[k] \in Int
      BY <1>6 DEF S
<1>8. QED
      BY <1>3, <1>7 DEF sum

\* d is c moved up by one, plus e.
Shifted(c, d, e, n) ==
  /\ \A k \in 1..n : c[k] \in Int /\ d[k] \in Int /\ e[k] \in Int
  /\ \A k \in 1..(n - 1) : d[k] = c[k + 1] + e[k]

\* The totals of what moved up by one are those of the original without its
\* first summand.
LEMMA TotalsShift ==
  ASSUME NEW c, NEW d, NEW e, NEW n \in Nat, Shifted(c, d, e, n)
  PROVE  \A m \in 0..(n - 1) :
           Totals(d, n)[m] = Totals(c, n)[m + 1] - c[1] + Totals(e, n)[m]
<1> DEFINE sc == Totals(c, n)
           sd == Totals(d, n)
           se == Totals(e, n)
           S == {m \in Nat : m <= n - 1 => sd[m] = sc[m + 1] - c[1] + se[m]}
<1>1. /\ sc[0] = 0 /\ sd[0] = 0 /\ se[0] = 0
      /\ \A k \in 1..n : /\ sc[k] = sc[k - 1] + c[k]
                         /\ sd[k] = sd[k - 1] + d[k]
                         /\ se[k] = se[k - 1] + e[k]
      /\ \A k \in 0..n : sc[k] \in Int /\ sd[k] \in Int /\ se[k] \in Int
      BY TotalsStep DEF Shifted
<1> HIDE DEF sc, sd, se
<1> USE DEF Shifted
<1>2. 0 \in S
      BY <1>1
<1>3. ASSUME NEW m \in Nat, m \in S PROVE m + 1 \in S
  <2> SUFFICES ASSUME m + 1 <= n - 1 PROVE sd[m + 1] = sc[m + 2] - c[1] + se[m + 1]
      OBVIOUS
  <2>1. sd[m] = sc[m + 1] - c[1] + se[m]
        BY <1>3
  <2>2. m + 1 \in 1..n /\ m + 2 \in 1..n /\ m \in 0..n /\ m + 1 \in 1..(n - 1) /\ 1 \in 1..n
        OBVIOUS
  <2>3. /\ sd[m + 1] = sd[m] + d[m + 1] /\ se[m + 1] = se[m] + e[m + 1]
        /\ d[m + 1] = c[m + 2] + e[m + 1]
        BY <2>2, <1>1
  <2>4. sc[m + 2] = sc[m + 1] + c[m + 2]
    <3>1. sc[m + 2] = sc[(m + 2) - 1] + c[m + 2]
          BY <2>2, <1>1
    <3>2. QED
          BY <3>1
  <2>5. /\ sd[m] \in Int /\ sc[m + 1] \in Int /\ se[m] \in Int /\ c[1] \in Int
        /\ c[m + 2] \in Int /\ e[m + 1] \in Int
        BY <2>2, <1>1
  <2>6. QED
        BY <2>1, <2>3, <2>4, <2>5
<1> HIDE DEF S
<1>4. Nat \subseteq S
      BY <1>2, <1>3, SetInduction
<1>5. QED
      BY <1>4 DEF S, sc, sd, se

\* The total of summands that are 0 is 0.
LEMMA TotalsOfZeros ==
  ASSUME NEW n \in Nat, NEW d, \A k \in 1..n : d[k] = 0
  PROVE  \A m \in 0..n : Totals(d, n)[m] = 0
<1>1. /\ Totals(d, n)[0] = 0
      /\ \A k \in 1..n : Totals(d, n)[k] = Totals(d, n)[k - 1] + d[k]
      /\ \A k \in 0..n : Totals(d, n)[k] \in Int
      BY TotalsStep
<1>2. \A m \in 0..(n - 1) : Totals(d, n)[m] = Totals(d, n)[m + 1] - d[1] + Totals(d, n)[m]
  <2>1. Shifted(d, d, d, n)
        BY DEF Shifted
  <2>2. QED
        BY <2>1, TotalsShift
<1>3. ASSUME NEW m \in 1..n PROVE Totals(d, n)[m] = 0
  <2>1. m - 1 \in 0..(n - 1) /\ m - 1 \in 0..n /\ (m - 1) + 1 = m /\ d[1] = 0
        OBVIOUS
  <2>2. Totals(d, n)[m - 1] = Totals(d, n)[m] - 0 + Totals(d, n)[m - 1]
        BY <1>2, <2>1
  <2>3. QED
        BY <1>1, <2>1, <2>2
<1>4. QED
      BY <1>1, <1>3

\* Summands that are not negative add up to no less than the first.
LEMMA TotalsAtLeastFirst ==
  ASSUME NEW n \in Nat, n > 0, NEW d, \A k \in 1..n : d[k] \in Nat
  PROVE  Totals(d, n)[n] >= d[1]
<1> DEFINE sum == Totals(d, n)
           S == {m \in Nat : m + 1 <= n => sum[m + 1] >= d[1]}
<1>1. /\ sum[0] = 0
      /\ \A k \in 1..n : sum[k] = sum[k - 1] + d[k]
      /\ \A k \in 0..n : sum[k] \in Int
      BY TotalsStep
<1> HIDE DEF sum
<1>2. 0 \in S
      BY <1>1
<1>3. ASSUME NEW m \in Nat, m \in S PROVE m + 1 \in S
  <2> SUFFICES ASSUME m + 2 <= n PROVE sum[m + 2] >= d[1]
      OBVIOUS
  <2>1. sum[m + 2] = sum[(m + 2) - 1] + d[m + 2] /\ (m + 2) - 1 = m + 1
        BY <1>1
  <2>2. sum[m + 1] \in Int /\ d[m + 2] \in Nat /\ d[1] \in Nat /\ sum[m + 1] >= d[1]
        BY <1>1, <1>3
  <2>3. QED
        BY <2>1, <2>2
<1> HIDE DEF S
<1>4. n - 1 \in S
      BY <1>2, <1>3, SetInduction
<1>5. QED
      BY <1>4 DEF S, sum

-----------------------------------------------------------------------------
(* The rolling checksum.                                                    *)

\* A window is a sequence of bytes.
LEMMA WindowIsPart ==
  ASSUME NEW s \in Seq(Byte), NEW j \in Nat, j + BlockLen <= Len(s)
  PROVE  LET w == SubSeq(s, j + 1, j + BlockLen)
         IN  /\ Len(w) = BlockLen
             /\ \A k \in 1..BlockLen : w[k] = s[j + k] /\ w[k] \in Nat
<1>1. BlockLen \in Nat /\ BlockLen > 0
      BY BlockLenAssumption
<1>2. \A k \in (j + 1)..(j + BlockLen) : s[k] \in Byte
      BY <1>1, ElementOfSeq
<1>3. /\ Len(SubSeq(s, j + 1, j + BlockLen)) = BlockLen
      /\ \A k \in 1..BlockLen : SubSeq(s, j + 1, j + BlockLen)[k] = s[j + k]
      BY <1>1, SubSeqProperties
<1>4. ASSUME NEW k \in 1..BlockLen PROVE s[j + k] \in Nat
  <2>1. j + k \in (j + 1)..(j + BlockLen)
        BY <1>1
  <2>2. QED
        BY <2>1, <1>2, ByteAssumption
<1>5. QED
      BY <1>3, <1>4

\* One roll turns the checksum of a window into that of the next one, and
\* takes nothing from a sum that is not in it.
LEMMA RollIsExact ==
  ASSUME NEW s \in Seq(Byte), NEW j \in Nat, j + 1 + BlockLen <= Len(s)
  PROVE  LET w == SubSeq(s, j + 1, j + BlockLen)
             v == SubSeq(s, j + 2, j + 1 + BlockLen)
         IN  /\ SumA(v) = SumA(w) - s[j + 1] + s[j + BlockLen + 1]
             /\ SumB(v) = SumB(w) - BlockLen * s[j + 1] + SumA(v)
             /\ SumA(w) >= s[j + 1] /\ SumB(w) >= BlockLen * s[j + 1]
<1> DEFINE w == SubSeq(s, j + 1, j + BlockLen)
           v == SubSeq(s, j + 2, j + 1 + BlockLen)
           n == BlockLen
           wb == [k \in 1..n |-> (n - k + 1) * w[k]]
           vb == [k \in 1..n |-> (n - k + 1) * v[k]]
           zero == [k \in 1..n |-> 0]
<1>1. n \in Nat /\ n > 0
      BY BlockLenAssumption
<1>2. Len(w) = n /\ \A k \in 1..n : w[k] = s[j + k] /\ w[k] \in Nat
  <2>1. j + n <= Len(s)
        BY <1>1, LenProperties
  <2>2. LET u == SubSeq(s, j + 1, j + n)
        IN  Len(u) = n /\ \A k \in 1..n : u[k] = s[j + k] /\ u[k] \in Nat
        BY <2>1, WindowIsPart
  <2>3. QED
        BY <2>2
<1>3. Len(v) = n /\ \A k \in 1..n : v[k] = s[j + 1 + k] /\ v[k] \in Nat
  <2>1. j + 1 \in Nat /\ (j + 1) + 1 = j + 2 /\ (j + 1) + n = j + 1 + n
        BY <1>1
  <2>2. LET u == SubSeq(s, (j + 1) + 1, (j + 1) + n)
        IN  Len(u) = n /\ \A k \in 1..n : u[k] = s[(j + 1) + k] /\ u[k] \in Nat
        BY <2>1, WindowIsPart
  <2>3. QED
        BY <2>1, <2>2
<1> HIDE DEF w, v
<1>4. ASSUME NEW k \in 1..(n - 1) PROVE v[k] = w[k + 1]
  <2>1. k \in 1..n /\ k + 1 \in 1..n /\ j + 1 + k = j + (k + 1)
        BY <1>1
  <2>2. QED
        BY <2>1, <1>2, <1>3
<1>5. w[1] = s[j + 1] /\ v[n] = s[j + n + 1]
  <2>1. 1 \in 1..n /\ n \in 1..n /\ j + 1 + n = j + n + 1
        BY <1>1
  <2>2. QED
        BY <2>1, <1>2, <1>3
<1>6. ASSUME NEW k \in 1..n PROVE wb[k] \in Nat /\ vb[k] \in Nat /\ zero[k] = 0
  <2>1. n - k + 1 \in Nat /\ w[k] \in Nat /\ v[k] \in Nat
        BY <1>1, <1>2, <1>3
  <2>2. \A x, y \in Nat : x * y \in Nat
        OBVIOUS
  <2>3. (n - k + 1) * w[k] \in Nat /\ (n - k + 1) * v[k] \in Nat
        BY <2>1, <2>2
  <2>4. QED
        BY <2>3
<1>7. wb[1] = n * w[1] /\ vb[n] = v[n]
      BY <1>1, <1>3
<1>8. \A k \in 1..(n - 1) : vb[k] = wb[k + 1] + v[k]
  <2> SUFFICES ASSUME NEW k \in 1..(n - 1) PROVE vb[k] = wb[k + 1] + v[k]
      OBVIOUS
  <2>1. k \in 1..n /\ k + 1 \in 1..n /\ v[k] \in Nat /\ v[k] = w[k + 1]
        BY <1>1, <1>3, <1>4
  <2>2. vb[k] = (n - k + 1) * v[k] /\ wb[k + 1] = (n - (k + 1) + 1) * v[k]
        BY <2>1
  <2>3. (n - k + 1) * v[k] = (n - (k + 1) + 1) * v[k] + v[k]
    <3>1. \A x, y \in Int : (x + 1) * y = x * y + y
          OBVIOUS
    <3>2. n - k \in Int /\ v[k] \in Int /\ n - (k + 1) + 1 = n - k
          BY <1>1, <2>1
    <3>3. (n - k + 1) * v[k] = (n - k) * v[k] + v[k]
          BY <3>1, <3>2
    <3>4. QED
          BY <3>2, <3>3
  <2>4. QED
        BY <2>2, <2>3
<1> HIDE DEF wb, vb, zero
<1> DEFINE A(d) == Totals(d, n)
<1>9. \A d \in {w, v, wb, vb} :
        /\ A(d)[0] = 0
        /\ \A k \in 1..n : A(d)[k] = A(d)[k - 1] + d[k]
        /\ \A k \in 0..n : A(d)[k] \in Int
  <2> SUFFICES ASSUME NEW d \in {w, v, wb, vb}
               PROVE  /\ A(d)[0] = 0
                      /\ \A k \in 1..n : A(d)[k] = A(d)[k - 1] + d[k]
                      /\ \A k \in 0..n : A(d)[k] \in Int
      OBVIOUS
  <2>1. \A k \in 1..n : d[k] \in Int
        BY <1>2, <1>3, <1>6
  <2>2. QED
        BY <1>1, <2>1, TotalsStep
<1>10. n - 1 \in 0..(n - 1) /\ (n - 1) + 1 = n /\ n \in 1..n /\ n - 1 \in 0..n
      BY <1>1
<1>11. A(v)[n - 1] = A(w)[n] - w[1]
  <2>1. A(zero)[n - 1] = 0
        BY <1>1, <1>6, <1>10, TotalsOfZeros
  <2>2. Shifted(w, v, zero, n)
    <3>1. \A k \in 1..n : w[k] \in Int /\ v[k] \in Int /\ zero[k] \in Int
          BY <1>2, <1>3, <1>6
    <3>2. ASSUME NEW k \in 1..(n - 1) PROVE v[k] = w[k + 1] + zero[k]
      <4>1. k \in 1..n /\ k + 1 \in 1..n
            BY <1>1
      <4>2. v[k] = w[k + 1] /\ zero[k] = 0 /\ w[k + 1] \in Int
            BY <4>1, <3>1, <1>4, <1>6
      <4>3. QED
            BY <4>2
    <3>3. QED
          BY <3>1, <3>2 DEF Shifted
  <2>3. \A m \in 0..(n - 1) : A(v)[m] = A(w)[m + 1] - w[1] + A(zero)[m]
        BY <1>1, <2>2, TotalsShift
  <2>4. A(v)[n - 1] = A(w)[(n - 1) + 1] - w[1] + A(zero)[n - 1]
        BY <1>10, <2>3
  <2>5. A(w)[n] \in Int /\ w[1] \in Int
        BY <1>1, <1>2, <1>9
  <2>6. QED
        BY <1>10, <2>1, <2>4, <2>5
<1>12. A(vb)[n - 1] = A(wb)[n] - n * w[1] + A(v)[n - 1]
  <2>1. Shifted(wb, vb, v, n)
        BY <1>3, <1>6, <1>8 DEF Shifted
  <2>2. \A m \in 0..(n - 1) : A(vb)[m] = A(wb)[m + 1] - wb[1] + A(v)[m]
        BY <1>1, <2>1, TotalsShift
  <2>3. A(vb)[n - 1] = A(wb)[(n - 1) + 1] - wb[1] + A(v)[n - 1]
        BY <1>10, <2>2
  <2>4. QED
        BY <1>7, <1>10, <2>3
<1>13. A(v)[n] = A(w)[n] - w[1] + v[n]
      BY <1>9, <1>10, <1>11
<1>14. A(vb)[n] = A(wb)[n] - n * w[1] + A(v)[n]
  <2>1. A(vb)[n] = A(vb)[n - 1] + v[n] /\ A(v)[n] = A(v)[n - 1] + v[n]
        BY <1>7, <1>9, <1>10
  <2>2. A(wb)[n] \in Int /\ A(v)[n - 1] \in Int /\ v[n] \in Int /\ n * w[1] \in Int
        BY <1>1, <1>2, <1>3, <1>9, <1>10
  <2>3. QED
        BY <1>12, <2>1, <2>2
<1>15. A(w)[n] >= w[1] /\ A(wb)[n] >= n * w[1]
  <2>1. A(w)[n] >= w[1]
        BY <1>1, <1>2, TotalsAtLeastFirst
  <2>2. A(wb)[n] >= wb[1]
        BY <1>1, <1>6, TotalsAtLeastFirst
  <2>3. QED
        BY <2>1, <2>2, <1>7
<1>16. SumA(w) = A(w)[n] /\ SumA(v) = A(v)[n] /\ SumB(w) = A(wb)[n] /\ SumB(v) = A(vb)[n]
      BY <1>2, <1>3 DEF SumA, SumB, wb, vb
<1> HIDE DEF A
<1>17. QED
      BY <1>5, <1>13, <1>14, <1>15, <1>16 DEF w, v

-----------------------------------------------------------------------------
(* What the rolling checksum is for.                                        *)

\* Every step leaves the checksum of the window in a and b.
LEMMA NextRollIsRollsum == IInv /\ RollIsRollsum /\ [Next]_vars => RollIsRollsum'
<1> SUFFICES ASSUME IInv, RollIsRollsum, [Next]_vars PROVE RollIsRollsum'
    OBVIOUS
<1>1. i \in Nat /\ new \in Seq(Byte) /\ Len(new) \in Nat /\ BlockLen \in Nat
      BY BlockLenAssumption DEF IInv, TypeOK
<1>2. CASE Match
  <2>1. /\ new' = new
        /\ i' + BlockLen <= Len(new) => a' = SumA(Window(i')) /\ b' = SumB(Window(i'))
        BY <1>2 DEF Match
  <2>2. \A j : Window(j)' = SubSeq(new, j + 1, j + BlockLen)
        BY <2>1 DEF Window
  <2>3. QED
        BY <2>1, <2>2 DEF RollIsRollsum, Window
<1>3. CASE Slide
  <2> SUFFICES ASSUME i + 1 + BlockLen <= Len(new)
               PROVE  a' = SumA(Window(i + 1)) /\ b' = SumB(Window(i + 1))
      BY <1>1, <1>3 DEF Slide, RollIsRollsum, Window
  <2>1. a = SumA(Window(i)) /\ b = SumB(Window(i))
        BY <1>3 DEF Slide, RollIsRollsum
  <2>2. i + BlockLen < Len(new)
        BY <1>1
  <2>3. a' = a - new[i + 1] + new[i + BlockLen + 1] /\ b' = b - BlockLen * new[i + 1] + a'
        BY <1>3, <2>2 DEF Slide, Roll
  <2>4. Window(i + 1) = SubSeq(new, i + 2, i + 1 + BlockLen)
        BY <1>1 DEF Window
  <2>5. /\ SumA(Window(i + 1)) = SumA(Window(i)) - new[i + 1] + new[i + BlockLen + 1]
        /\ SumB(Window(i + 1)) =
             SumB(Window(i)) - BlockLen * new[i + 1] + SumA(Window(i + 1))
        BY <1>1, <2>4, RollIsExact DEF Window
  <2>6. QED
        BY <2>1, <2>3, <2>5
<1>4. CASE EndScan \/ ApplyOp \/ EndPatch
      BY <1>4 DEF EndScan, ApplyOp, EndPatch, RollIsRollsum
<1>5. CASE UNCHANGED vars
      BY <1>5 DEF vars, RollIsRollsum, Window
<1>6. QED
      BY <1>2, <1>3, <1>4, <1>5 DEF Next

\* The rolling checksum is the checksum of the window, after any sequence of rolls
\* and jumps, for any bytes and any block length.
THEOREM RollIsRollsumHolds == Spec => []RollIsRollsum
<1>1. Init => RollIsRollsum
  <2> SUFFICES ASSUME Init, i + BlockLen <= Len(new)
               PROVE  a = SumA(Window(i)) /\ b = SumB(Window(i))
      BY DEF RollIsRollsum
  <2>1. i = 0 /\ Len(new) >= BlockLen
    <3>1. i = 0 /\ new \in Seq(Byte)
          BY FilesAssumption DEF Init
    <3>2. QED
          BY <3>1, LenProperties, BlockLenAssumption
  <2>2. Window(i) = SubSeq(new, 1, BlockLen)
        BY <2>1, BlockLenAssumption DEF Window
  <2>3. QED
        BY <2>1, <2>2 DEF Init
<1>2. QED
      BY <1>1, NextRollIsRollsum, DeltaInvariant, PTL DEF Spec

\* No subtraction of roll underflows: what leaves the window is in both sums.
NoUnderflow ==
  pc = "scan" /\ i + BlockLen < Len(new) =>
    a >= new[i + 1] /\ b >= BlockLen * new[i + 1]

\* The sums of the source are unsigned, and roll never takes more from them than
\* they hold.
THEOREM NoUnderflowHolds == Spec => []NoUnderflow
<1>1. IInv /\ RollIsRollsum => NoUnderflow
  <2> SUFFICES ASSUME IInv, RollIsRollsum, pc = "scan", i + BlockLen < Len(new)
               PROVE  a >= new[i + 1] /\ b >= BlockLen * new[i + 1]
      BY DEF NoUnderflow
  <2>1. i \in Nat /\ new \in Seq(Byte) /\ Len(new) \in Nat /\ BlockLen \in Nat
        BY BlockLenAssumption DEF IInv, TypeOK
  <2>2. i + 1 + BlockLen <= Len(new) /\ i + BlockLen <= Len(new)
        BY <2>1
  <2>3. a = SumA(Window(i)) /\ b = SumB(Window(i))
        BY <2>2 DEF RollIsRollsum
  <2>4. SumA(Window(i)) >= new[i + 1] /\ SumB(Window(i)) >= BlockLen * new[i + 1]
        BY <2>1, <2>2, RollIsExact DEF Window
  <2>5. QED
        BY <2>3, <2>4
<1>2. QED
      BY <1>1, DeltaInvariant, RollIsRollsumHolds, PTL

\* A window that delta moves past is no block of the old file, if the checksum
\* it looked the window up by is the window's own.
LEMMA NextNoBlockMissed ==
  IInv /\ RollIsRollsum /\ NoBlockMissed /\ [Next]_vars => NoBlockMissed'
<1> SUFFICES ASSUME IInv, RollIsRollsum, NoBlockMissed, [Next]_vars PROVE NoBlockMissed'
    OBVIOUS
<1>1. i \in Nat /\ litStart \in Nat /\ Len(new) \in Nat
      BY DEF IInv, TypeOK
<1>2. CASE Match
  <2>1. litStart' = i' /\ i' \in Nat
        BY <1>1, <1>2, BlockLenAssumption DEF Match
  <2>2. PICK n \in Nat : litStart' = n /\ i' = n
        BY <2>1
  <2>3. n..(n - 1) = {}
        OBVIOUS
  <2>4. QED
        BY <2>2, <2>3 DEF NoBlockMissed
<1>3. CASE Slide
  <2>1. /\ i' = i + 1 /\ litStart' = litStart /\ new' = new /\ old' = old
        /\ pc = "scan" /\ i + BlockLen <= Len(new) /\ Hits = {}
        BY <1>3 DEF Slide
  <2>2. a = SumA(Window(i)) /\ b = SumB(Window(i))
        BY <2>1 DEF RollIsRollsum
  <2>3. \A k \in BlockIndexes(old) : Block(old, k) # Window(i)
        BY <2>1, <2>2 DEF Hits
  <2>4. ASSUME NEW j \in litStart..i, j + BlockLen <= Len(new),
               NEW k \in BlockIndexes(old)
        PROVE  Block(old, k) # Window(j)
    <3>1. CASE j = i
          BY <2>3, <3>1
    <3>2. CASE j # i
      <4>1. j \in litStart..(i - 1)
            BY <1>1, <3>2
      <4>2. QED
            BY <2>4, <4>1 DEF NoBlockMissed
    <3>3. QED
          BY <3>1, <3>2
  <2>5. litStart'..(i' - 1) = litStart..i
        BY <1>1, <2>1
  <2>6. /\ BlockIndexes(old)' = BlockIndexes(old)
        /\ \A k : Block(old, k)' = Block(old, k)
        /\ \A j : Window(j)' = Window(j)
        BY <2>1 DEF BlockIndexes, Block, Window
  <2>7. QED
        BY <2>1, <2>4, <2>5, <2>6 DEF NoBlockMissed
<1>4. CASE EndScan \/ ApplyOp \/ EndPatch \/ UNCHANGED vars
  <2>1. i' = i /\ litStart' = litStart /\ new' = new /\ old' = old
        BY <1>4 DEF EndScan, ApplyOp, EndPatch, vars
  <2>2. QED
        BY <2>1 DEF NoBlockMissed, BlockIndexes, Block, Window
<1>5. QED
      BY <1>2, <1>3, <1>4 DEF Next

\* A literal never hides a block of the old file: whatever the bytes and the block
\* length, a window that is one is found by its checksum and its hash.
THEOREM NoBlockMissedHolds == Spec => []NoBlockMissed
<1>1. Init => NoBlockMissed
      BY DEF Init, NoBlockMissed
<1>2. QED
      BY <1>1, NextNoBlockMissed, DeltaInvariant, RollIsRollsumHolds, PTL DEF Spec

=============================================================================
