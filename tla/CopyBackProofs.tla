--------------------------- MODULE CopyBackProofs ---------------------------
(***************************************************************************)
(* Proofs about CopyBack, for any binaries, any contents and any number of *)
(* builds and faults: the files that are brought, the stream they come in  *)
(* and Cargo.lock.  The inductive invariant has a part for each thing that *)
(* is on its way: the signatures (SigsOK), the frames (StreamOK) and what  *)
(* cat sends (CatOK).                                                      *)
(***************************************************************************)
EXTENDS CopyBack, SequenceTheorems, FiniteSetTheorems, WellFoundedInduction, TLAPS

-----------------------------------------------------------------------------
(***************************************************************************)
(* Types.                                                                  *)
(***************************************************************************)

Header == [len : Nat, tag : {"FETCHED", "DONE", "ERROR"}]
FileHeader == [path : Names, exists : BOOLEAN, delta : BOOLEAN]
DeltaOp == [op : {"copy"}, ix : Nat \ {0}] \cup [op : {"literal"}, block : Blocks]
Cell == Header \cup FileHeader \cup DeltaOp \cup Blocks \cup {"message", Exit(0), Exit(1)}

ToAgent ==
  [tag : {"FETCH_REQ"}, paths : Seq(Names)]
    \cup [tag : {"FETCH_SIG"}, path : Names, sig : Copies]
    \cup [tag : {"QUIT"}]

\* The values of the variables.
TypeOK ==
  /\ local \in [Names -> Copies] /\ remote \in [Names -> Copies]
  /\ lock \in Seq(Blocks) /\ side \in Copies
  /\ update \in BOOLEAN /\ agentRuns \in BOOLEAN
  /\ pc \in {"find", "sigs", "recv", "get", "getting", "lock", "locking", "done", "failed"}
  /\ files \in Seq(Names) /\ i \in Nat \ {0} /\ written \in SUBSET Names
  /\ buf \in Seq(Cell) /\ out \in Seq(Blocks)
  /\ apc \in {"off", "sigs", "answer", "idle", "gone"}
  /\ sigs \in [Names -> Copies] /\ j \in Nat \ {0}
  /\ toAgent \in Seq(ToAgent) /\ wire \in Seq(Cell) /\ broken \in BOOLEAN
  /\ used \in [local : Nat, remote : Nat, faults : Nat]
  /\ held \in [Names -> SUBSET Copies] /\ mine \in [Names -> SUBSET Copies]
  /\ touched \in SUBSET Names

-----------------------------------------------------------------------------
(***************************************************************************)
(* The inductive invariant.                                                *)
(***************************************************************************)

Brought(n) ==
  \/ n \in written /\ (n \in touched \/ local[n] \in held[n])
  \/ None \in held[n]

\* Where the client is in its list.
Progress ==
  /\ \A k, l \in 1..Len(files) : files[k] = files[l] => k = l
  /\ pc = "find" => i = 1
  /\ pc \in {"find", "sigs"} => written = {}
  /\ pc \in {"sigs", "getting"} => i <= Len(files)
  /\ pc \in {"recv", "get", "getting"} =>
       /\ i <= Len(files) + 1
       /\ \A n \in written : \E k \in 1..(i - 1) : files[k] = n
       /\ \A k \in 1..(i - 1) : Brought(files[k])
  /\ pc \in {"lock", "locking", "done"} => \A k \in 1..Len(files) : Brought(files[k])

\* What is not in use.
Quiet ==
  /\ pc \in {"find", "get", "getting", "lock", "locking", "done"} =>
       /\ buf = <<>>
       /\ apc \in {"off", "idle", "gone"}
       /\ apc = "off" => toAgent = <<>>
  /\ pc \in {"find", "get", "lock", "done"} => wire = <<>>
  /\ pc = "find" => apc \in {"off", "gone"} /\ toAgent = <<>>

\* A signature is the one of the local file, or no longer needed, or the file has
\* been built since.
Fresh(n, sig) == n \in touched \/ n \in written \/ sig = local[n]
Usable ==
  {ns \in Names \X Copies : ns[2] # None => SigSent(ns[1]) /\ Fresh(ns[1], ns[2])}

SigsOK ==
  /\ \A n \in Names : <<n, sigs[n]>> \in Usable
  /\ \A k \in 1..Len(toAgent) :
       toAgent[k].tag = "FETCH_SIG" => <<toAgent[k].path, toAgent[k].sig>> \in Usable

\* The payloads of a FETCHED: a version that the remote has had, or a delta that
\* makes one of the file its signature was of.
Brings(hdr, data) ==
  /\ hdr \in FileHeader
  /\ ~ hdr.exists => None \in held[hdr.path]
  /\ hdr.exists /\ ~ hdr.delta => data \in Seq(Blocks) /\ data \in held[hdr.path]
  /\ hdr.exists /\ hdr.delta =>
       \E c \in held[hdr.path], base \in Seq(Blocks) :
         c \in Seq(Blocks) /\ data = Delta(c, base) /\ <<hdr.path, base>> \in Usable
Good == {p \in Seq(Cell) : p # <<>> /\ Brings(Head(p), Tail(p))}

\* The headers in a stream of frames are at the positions H.
Aligned(s, H) ==
  /\ H \subseteq 1..Len(s)
  /\ s # <<>> => 1 \in H
  /\ \A h \in H : s[h] \in Header /\ (h + s[h].len < Len(s) => h + s[h].len + 1 \in H)

\* No frame is cut off.
Unbroken(s, H) == \A h \in H : h + s[h].len <= Len(s)

\* What the frames hold.  Nothing comes behind DONE, which ends the answers.
Frames(s, H, good, ended) ==
  \A h \in H :
    /\ s[h].tag = "FETCHED" =>
         /\ s[h].len > 0
         /\ h + s[h].len <= Len(s) => SubSeq(s, h + 1, h + s[h].len) \in good
    /\ s[h].tag = "DONE" => s[h].len = 0 /\ h = Len(s) /\ ended

Stream(s, whole, good, ended) ==
  \E H \in SUBSET Nat :
    Aligned(s, H) /\ (whole => Unbroken(s, H)) /\ Frames(s, H, good, ended)

StreamOK ==
  pc \notin {"getting", "locking"} =>
    Stream(buf \o wire, apc # "gone", Good, apc \in {"idle", "gone"})

\* The first cells of t.
Begins(s, t) == Len(s) <= Len(t) /\ \A k \in 1..Len(s) : s[k] = t[k]

\* What cat has sent, and what is still to come.
CatOK ==
  /\ pc = "getting" => \E c \in held[files[i]] : Begins(out \o wire, Cat(c))
  /\ pc = "locking" => /\ Begins(out \o wire, Append(NewLock, Exit(0)))
                       /\ ~ broken => Len(out \o wire) = Len(NewLock) + 1

Versions == WholeFiles /\ \A n \in Names : remote[n] \in held[n]

IInv ==
  TypeOK /\ Progress /\ Quiet /\ SigsOK /\ StreamOK /\ CatOK /\ Versions /\ LockAsked

-----------------------------------------------------------------------------
(* Lemmas about deltas.                                                     *)

\* A set of numbers has a least one.
LEMMA LeastNumber ==
  ASSUME NEW I \in SUBSET Nat, I # {}
  PROVE  Min(I) \in I /\ \A y \in I : Min(I) <= y
<1> DEFINE R == {xy \in Nat \X Nat : xy[1] < xy[2]}
<1>1. IsWellFoundedOn(R, Nat)
      BY NatLessThanWellFounded, Zenon DEF OpToRel
<1>2. PICK x \in I : \A y \in I : ~ (<<y, x>> \in R)
  <2> HIDE DEF R
  <2> QED
      BY <1>1, WFMin
<1>3. \A y \in I : x <= y
  <2> SUFFICES ASSUME NEW y \in I PROVE x <= y
      OBVIOUS
  <2>1. <<y, x>> \notin R
        BY <1>2
  <2>2. QED
        BY <2>1
<1>4. QED
      BY <1>3 DEF Min

\* A copy names a block of the old file, and the block is the one it stands for.
LEMMA DeltaOpIsRight ==
  ASSUME NEW c \in Seq(Blocks), NEW base \in Seq(Blocks), NEW k \in 1..Len(c)
  PROVE  LET o == Delta(c, base)[k]
         IN  /\ o \in DeltaOp
             /\ o.op = "copy" => o.ix \in 1..Len(base) /\ base[o.ix] = c[k]
             /\ o.op # "copy" => o.block = c[k]
<1> DEFINE o == Delta(c, base)[k]
           I == {m \in 1..Len(base) : base[m] = c[k]}
<1>1. c[k] \in Blocks /\ Len(base) \in Nat
      BY ElementOfSeq
<1>2. CASE c[k] \in ToSet(base)
  <2>1. o = [op |-> "copy", ix |-> SelectInSeq(base, LAMBDA x : x = c[k])]
        BY <1>2 DEF Delta
  <2>2. I # {} /\ I \in SUBSET Nat
        BY <1>2 DEF ToSet
  <2>3. SelectInSeq(base, LAMBDA x : x = c[k]) = Min(I)
        BY <2>2 DEF SelectInSeq
  <2>4. Min(I) \in I
        BY <2>2, LeastNumber
  <2> DEFINE m == Min(I)
  <2>5. o = [op |-> "copy", ix |-> m] /\ m \in 1..Len(base) /\ base[m] = c[k]
        BY <2>1, <2>3, <2>4
  <2> HIDE DEF o, m
  <2>6. m \in Nat \ {0}
        BY <2>5, <1>1
  <2>7. o \in DeltaOp /\ o.op = "copy" /\ o.ix = m
        BY <2>5, <2>6 DEF DeltaOp
  <2>8. QED
        BY <2>5, <2>7 DEF o
<1>3. CASE c[k] \notin ToSet(base)
  <2>1. o = [op |-> "literal", block |-> c[k]]
        BY <1>3 DEF Delta
  <2> HIDE DEF o
  <2>2. o \in DeltaOp /\ o.op = "literal" /\ o.block = c[k]
        BY <2>1, <1>1 DEF DeltaOp
  <2>3. QED
        BY <2>2 DEF o
<1>4. QED
      BY <1>2, <1>3

\* A delta applied to the file its signature was made of gives the new file.
LEMMA DeltaRoundTrip ==
  ASSUME NEW c \in Seq(Blocks), NEW base \in Seq(Blocks)
  PROVE  /\ Delta(c, base) \in Seq(DeltaOp)
         /\ CanPatch(base, Delta(c, base))
         /\ Patch(base, Delta(c, base)) = c
<1> DEFINE d == Delta(c, base)
<1>1. \A k \in 1..Len(c) : /\ d[k] \in DeltaOp
                           /\ d[k].op = "copy" => d[k].ix \in 1..Len(base) /\ base[d[k].ix] = c[k]
                           /\ d[k].op # "copy" => d[k].block = c[k]
      BY DeltaOpIsRight
<1>2. d = [k \in 1..Len(c) |-> d[k]]
      BY DEF Delta
<1> HIDE DEF d
<1>3. Len(c) \in Nat
      OBVIOUS
<1>4. d \in Seq(DeltaOp) /\ Len(d) = Len(c)
  <2>1. d \in [1..Len(c) -> DeltaOp]
        BY <1>1, <1>2
  <2>2. QED
        BY <2>1, <1>3
<1>5. CanPatch(base, d)
      BY <1>1, <1>4 DEF CanPatch
<1>6. Patch(base, d) = c
  <2>1. Patch(base, d) = [k \in 1..Len(c) |-> c[k]]
        BY <1>1, <1>4 DEF Patch
  <2>2. QED
        BY <2>1
<1>7. QED
      BY <1>4, <1>5, <1>6 DEF d

\* Whatever file it is applied to, a delta gives blocks.
LEMMA PatchGivesBlocks ==
  ASSUME NEW old \in Seq(Blocks), NEW d \in Seq(DeltaOp), CanPatch(old, d)
  PROVE  Patch(old, d) \in Seq(Blocks)
<1>1. Len(d) \in Nat
      OBVIOUS
<1>2. ASSUME NEW k \in 1..Len(d)
      PROVE  (IF d[k].op = "copy" THEN old[d[k].ix] ELSE d[k].block) \in Blocks
  <2>1. d[k] \in DeltaOp
        BY ElementOfSeq
  <2>2. CASE d[k].op = "copy"
    <3>1. d[k].ix \in Nat \ {0} /\ d[k].ix <= Len(old)
          BY <2>1, <2>2 DEF DeltaOp, CanPatch
    <3>2. old[d[k].ix] \in Blocks
          BY <3>1, ElementOfSeq
    <3>3. QED
          BY <2>2, <3>2
  <2>3. CASE d[k].op # "copy"
        BY <2>1, <2>3 DEF DeltaOp
  <2>4. QED
        BY <2>2, <2>3
<1>3. Patch(old, d) \in [1..Len(d) -> Blocks]
      BY <1>2 DEF Patch
<1>4. QED
      BY <1>1, <1>3

-----------------------------------------------------------------------------
(* Lemmas about sequences of cells.                                         *)

\* Equal cells make equal parts.
LEMMA SamePart ==
  ASSUME NEW s \in Seq(Cell), NEW t \in Seq(Cell),
         NEW m \in Nat \ {0}, NEW n \in Nat, NEW e \in Nat,
         n <= Len(t), n + e <= Len(s), \A k \in m..n : t[k] = s[k + e]
  PROVE  SubSeq(t, m, n) = SubSeq(s, m + e, n + e)
<1> DEFINE u == SubSeq(t, m, n)
           v == SubSeq(s, m + e, n + e)
<1>1. Len(t) \in Nat /\ Len(s) \in Nat
      OBVIOUS
<1>2. \A k \in m..n : t[k] \in Cell
      BY <1>1, ElementOfSeq
<1>3. \A k \in (m + e)..(n + e) : s[k] \in Cell
      BY <1>1, ElementOfSeq
<1>4. /\ u \in Seq(Cell) /\ Len(u) = IF m <= n THEN n - m + 1 ELSE 0
      /\ \A k \in 1..(n - m + 1) : u[k] = t[m + k - 1]
      BY <1>2, SubSeqProperties
<1>5. /\ v \in Seq(Cell) /\ Len(v) = IF m + e <= n + e THEN (n + e) - (m + e) + 1 ELSE 0
      /\ \A k \in 1..((n + e) - (m + e) + 1) : v[k] = s[(m + e) + k - 1]
      BY <1>3, SubSeqProperties
<1> HIDE DEF u, v
<1>6. Len(u) = Len(v)
      BY <1>4, <1>5
<1>7. ASSUME NEW k \in 1..Len(u) PROVE u[k] = v[k]
  <2>1. k \in 1..(n - m + 1) /\ k \in 1..((n + e) - (m + e) + 1) /\ m + k - 1 \in m..n
        BY <1>4
  <2>2. u[k] = t[m + k - 1] /\ v[k] = s[(m + e) + k - 1]
        BY <2>1, <1>4, <1>5
  <2>3. t[m + k - 1] = s[(m + k - 1) + e] /\ (m + k - 1) + e = (m + e) + k - 1
        BY <2>1
  <2>4. QED
        BY <2>2, <2>3
<1>8. u = v
      BY <1>4, <1>5, <1>6, <1>7, SeqEqual
<1>9. QED
      BY <1>8 DEF u, v

\* Any cut puts a sequence together again.
LEMMA CutAndJoin ==
  ASSUME NEW S, NEW w \in Seq(S), NEW k \in 0..Len(w)
  PROVE  /\ SubSeq(w, 1, k) \in Seq(S) /\ SubSeq(w, k + 1, Len(w)) \in Seq(S)
         /\ SubSeq(w, 1, k) \o SubSeq(w, k + 1, Len(w)) = w
         /\ Len(SubSeq(w, 1, k)) = k /\ Len(SubSeq(w, k + 1, Len(w))) = Len(w) - k
         /\ \A n \in 1..k : SubSeq(w, 1, k)[n] = w[n]
         /\ \A n \in 1..(Len(w) - k) : SubSeq(w, k + 1, Len(w))[n] = w[n + k]
<1>1. Len(w) \in Nat /\ \A n \in 1..Len(w) : w[n] \in S
      BY ElementOfSeq
<1>2. /\ SubSeq(w, 1, k) \in Seq(S) /\ Len(SubSeq(w, 1, k)) = k
      /\ \A n \in 1..k : SubSeq(w, 1, k)[n] = w[n]
      BY <1>1, SubSeqProperties
<1>3. /\ SubSeq(w, k + 1, Len(w)) \in Seq(S) /\ Len(SubSeq(w, k + 1, Len(w))) = Len(w) - k
      /\ \A n \in 1..(Len(w) - k) : SubSeq(w, k + 1, Len(w))[n] = w[n + k]
      BY <1>1, SubSeqProperties
<1>4. SubSeq(w, 1, k) \o SubSeq(w, k + 1, Len(w)) = SubSeq(w, 1, Len(w))
  <2>1. /\ 1 \in 1..(Len(w) + 1) /\ k \in (1 - 1)..Len(w) /\ Len(w) \in k..Len(w)
        BY <1>1
  <2>2. QED
        BY <2>1, ConcatAdjacentSubSeq
<1>5. QED
      BY <1>2, <1>3, <1>4, SubSeqFull

\* A piece of what is to come moves to what has come.
LEMMA PieceMoves ==
  ASSUME NEW S, NEW s \in Seq(S), NEW w \in Seq(S), NEW k \in 0..Len(w)
  PROVE  (s \o SubSeq(w, 1, k)) \o SubSeq(w, k + 1, Len(w)) = s \o w
<1> DEFINE p == SubSeq(w, 1, k)
           r == SubSeq(w, k + 1, Len(w))
<1>1. p \in Seq(S) /\ r \in Seq(S) /\ p \o r = w
      BY CutAndJoin
<1> HIDE DEF p, r
<1>2. ASSUME NEW x \in Seq(S), NEW y \in Seq(S)
      PROVE  (s \o x) \o y = s \o (x \o y)
      BY ConcatAssociative, SMTT(30)
<1>3. (s \o p) \o r = s \o (p \o r)
      BY <1>1, <1>2
<1>4. QED
      BY <1>1, <1>3 DEF p, r

\* The head of what is to come moves to what has come.
LEMMA HeadMoves ==
  ASSUME NEW S, NEW s \in Seq(S), NEW w \in Seq(S), w # <<>>
  PROVE  /\ Append(s, Head(w)) \in Seq(S) /\ Tail(w) \in Seq(S) /\ Head(w) = w[1]
         /\ Append(s, Head(w)) \o Tail(w) = s \o w
<1>1. Head(w) \in S /\ Tail(w) \in Seq(S)
      BY HeadTailProperties
<1>2. Append(s, Head(w)) = s \o <<Head(w)>> /\ Append(s, Head(w)) \in Seq(S)
      BY <1>1, AppendIsConcat, AppendProperties
<1>3. w = <<Head(w)>> \o Tail(w)
      OBVIOUS
<1>4. (s \o <<Head(w)>>) \o Tail(w) = s \o (<<Head(w)>> \o Tail(w))
      BY <1>1, ConcatAssociative
<1>5. QED
      BY <1>1, <1>2, <1>3, <1>4

\* The first cells of what is to come make the first cells of it all.
LEMMA PrefixBegins ==
  ASSUME NEW S, NEW s \in Seq(S), NEW w \in Seq(S), NEW p \in Prefixes(w)
  PROVE  p \in Seq(S) /\ Begins(s \o p, s \o w)
<1>1. PICK k \in 0..Len(w) : p = SubSeq(w, 1, k)
      BY DEF Prefixes
<1>2. p \in Seq(S) /\ Len(p) = k /\ \A n \in 1..k : p[n] = w[n]
      BY <1>1, CutAndJoin
<1>3. /\ Len(s \o p) = Len(s) + k /\ Len(s \o w) = Len(s) + Len(w)
      /\ \A n \in 1..(Len(s) + k) : (s \o p)[n] = IF n <= Len(s) THEN s[n] ELSE p[n - Len(s)]
      /\ \A n \in 1..(Len(s) + Len(w)) : (s \o w)[n] = IF n <= Len(s) THEN s[n] ELSE w[n - Len(s)]
      BY <1>2, ConcatProperties
<1>4. Len(s) \in Nat /\ Len(w) \in Nat /\ k \in Nat /\ k <= Len(w)
      BY <1>1
<1>5. ASSUME NEW n \in 1..(Len(s) + k) PROVE (s \o p)[n] = (s \o w)[n]
  <2>1. n \in 1..(Len(s) + Len(w)) /\ (n > Len(s) => n - Len(s) \in 1..k)
        BY <1>4
  <2>2. QED
        BY <2>1, <1>2, <1>3
<1>6. QED
      BY <1>2, <1>3, <1>4, <1>5 DEF Begins

-----------------------------------------------------------------------------
(* Lemmas about streams of frames.                                          *)

\* t is a part of s, the one that begins behind the cell e.
PartOf(t, s, e) == Len(t) + e <= Len(s) /\ \A k \in 1..Len(t) : t[k] = s[k + e]

\* What is left of a stream of frames when whole frames are taken from its front
\* and any cells from its end is one.
LEMMA StreamPart ==
  ASSUME NEW s \in Seq(Cell), NEW t \in Seq(Cell), NEW e \in Nat,
         PartOf(t, s, e), e = 0 \/ (s # <<>> /\ e = 1 + s[1].len),
         NEW whole, NEW whole2,
         NEW good, NEW good2, NEW ended, NEW ended2,
         Stream(s, whole, good, ended),
         whole2 => whole /\ Len(t) + e = Len(s), good \subseteq good2, ended => ended2
  PROVE  Stream(t, whole2, good2, ended2)
<1>1. PICK H \in SUBSET Nat :
        Aligned(s, H) /\ (whole => Unbroken(s, H)) /\ Frames(s, H, good, ended)
      BY DEF Stream
<1> DEFINE G == {g \in 1..Len(t) : g + e \in H}
<1> USE DEF PartOf
<1>2. Len(s) \in Nat /\ Len(t) \in Nat /\ G \in SUBSET Nat
      OBVIOUS
<1>3. \A g \in G : /\ g \in 1..Len(t) /\ g + e \in H /\ t[g] = s[g + e] /\ t[g] \in Header
                   /\ t[g].len \in Nat
      BY <1>1 DEF Aligned, Header
<1>4. \A g \in 1..Len(t) : g + e \in H => g \in G
      OBVIOUS
<1> HIDE DEF G
<1>5. Aligned(t, G)
  <2>1. t # <<>> => 1 \in G
    <3> SUFFICES ASSUME t # <<>> PROVE 1 \in 1..Len(t) /\ 1 + e \in H
        BY <1>4
    <3>1. 1 \in 1..Len(t) /\ s # <<>>
          BY <1>2, EmptySeq
    <3>2. 1 \in H /\ s[1] \in Header /\ s[1].len \in Nat
          BY <1>1, <3>1 DEF Aligned, Header
    <3>3. CASE e = 0
          BY <3>1, <3>2, <3>3
    <3>4. CASE e = 1 + s[1].len
      <4>1. 1 + s[1].len < Len(s)
            BY <1>2, <3>1, <3>4
      <4>2. 1 + s[1].len + 1 \in H
            BY <1>1, <3>2, <4>1 DEF Aligned
      <4>3. QED
            BY <3>1, <3>2, <3>4, <4>2
    <3>5. QED
          BY <3>3, <3>4
  <2>2. ASSUME NEW g \in G, g + t[g].len < Len(t)
        PROVE  g + t[g].len + 1 \in G
    <3>1. (g + e) + s[g + e].len < Len(s)
          BY <1>2, <1>3, <2>2, SMTT(30)
    <3>2. (g + e) + s[g + e].len + 1 \in H
          BY <1>1, <1>3, <3>1 DEF Aligned
    <3> DEFINE n == t[g].len
    <3>3. n \in Nat /\ g \in Nat /\ g + n < Len(t) /\ s[g + e].len = n
          BY <1>2, <1>3, <2>2
    <3> HIDE DEF n
    <3>4. g + n + 1 \in 1..Len(t) /\ (g + n + 1) + e = (g + e) + n + 1
          BY <1>2, <3>3
    <3>5. g + t[g].len + 1 \in 1..Len(t) /\ (g + t[g].len + 1) + e = (g + e) + s[g + e].len + 1
          BY <3>3, <3>4 DEF n
    <3>6. QED
          BY <1>4, <3>2, <3>5
  <2>3. QED
        BY <1>3, <2>1, <2>2 DEF Aligned
<1>6. whole2 => Unbroken(t, G)
  <2> SUFFICES ASSUME whole2, NEW g \in G PROVE g + t[g].len <= Len(t)
      BY DEF Unbroken
  <2>1. (g + e) + s[g + e].len <= Len(s) /\ Len(t) + e = Len(s)
        BY <1>1, <1>3 DEF Unbroken
  <2>2. QED
        BY <1>2, <1>3, <2>1
<1>7. Frames(t, G, good2, ended2)
  <2> SUFFICES ASSUME NEW g \in G
               PROVE  /\ t[g].tag = "FETCHED" =>
                           /\ t[g].len > 0
                           /\ g + t[g].len <= Len(t) =>
                                SubSeq(t, g + 1, g + t[g].len) \in good2
                      /\ t[g].tag = "DONE" => t[g].len = 0 /\ g = Len(t) /\ ended2
      BY DEF Frames
  <2> DEFINE n == g + t[g].len
  <2>1. g \in Nat /\ n \in Nat /\ g + 1 \in Nat \ {0} /\ n + e = (g + e) + s[g + e].len
        BY <1>2, <1>3
  <2>2. ASSUME t[g].tag = "FETCHED", n <= Len(t)
        PROVE  SubSeq(t, g + 1, n) \in good2
    <3>1. n + e <= Len(s)
          BY <1>2, <2>1, <2>2
    <3>2. SubSeq(s, (g + e) + 1, (g + e) + s[g + e].len) \in good
          BY <1>1, <1>3, <2>1, <2>2, <3>1 DEF Frames
    <3> HIDE DEF n
    <3>3. \A k \in (g + 1)..n : t[k] = s[k + e]
      <4>1. (g + 1)..n \subseteq 1..Len(t)
            BY <1>2, <2>1, <2>2
      <4>2. QED
            BY <4>1
    <3> DEFINE m == g + 1
    <3>4. m \in Nat \ {0} /\ n \in Nat /\ n <= Len(t)
          BY <2>1, <2>2
    <3> HIDE DEF m
    <3>5. \A k \in m..n : t[k] = s[k + e]
          BY <3>3 DEF m
    <3>6. SubSeq(t, m, n) = SubSeq(s, m + e, n + e)
          BY <3>1, <3>4, <3>5, SamePart
    <3>7. SubSeq(t, g + 1, n) = SubSeq(s, (g + 1) + e, n + e)
          BY <3>6 DEF m
    <3>8. (g + 1) + e = (g + e) + 1
          BY <2>1
    <3>9. QED
          BY <2>1, <3>2, <3>7, <3>8 DEF n
  <2>3. t[g].tag = "FETCHED" => t[g].len > 0
        BY <1>1, <1>3 DEF Frames
  <2>4. ASSUME t[g].tag = "DONE"
        PROVE  t[g].len = 0 /\ g = Len(t) /\ ended2
    <3>1. s[g + e].len = 0 /\ g + e = Len(s) /\ ended
          BY <1>1, <1>3, <2>4 DEF Frames
    <3>2. g = Len(t)
          BY <1>2, <1>3, <3>1
    <3>3. QED
          BY <1>3, <3>1, <3>2
  <2>5. QED
        BY <2>2, <2>3, <2>4
<1>8. QED
      BY <1>2, <1>5, <1>6, <1>7 DEF Stream

\* A frame behind a stream of whole frames.
LEMMA StreamGrows ==
  ASSUME NEW s \in Seq(Cell), NEW f \in Seq(Cell), f # <<>>, f[1] \in Header,
         NEW m \in Nat, f[1].len = m, Len(f) = 1 + m,
         NEW whole, NEW good, NEW good2, NEW ended2,
         Stream(s, TRUE, good, FALSE), good \subseteq good2,
         f[1].tag = "FETCHED" => m > 0 /\ SubSeq(f, 2, 1 + m) \in good2,
         f[1].tag = "DONE" => m = 0 /\ ended2
  PROVE  Stream(s \o f, whole, good2, ended2)
<1>1. PICK H \in SUBSET Nat : Aligned(s, H) /\ Unbroken(s, H) /\ Frames(s, H, good, FALSE)
      BY DEF Stream
<1> DEFINE t == s \o f
           l == Len(s)
           G == H \cup {l + 1}
<1>2. l \in Nat /\ t \in Seq(Cell) /\ Len(t) = l + (1 + m)
  <2>1. Len(s) \in Nat
        OBVIOUS
  <2>2. s \o f \in Seq(Cell) /\ Len(s \o f) = Len(s) + Len(f)
        BY ConcatProperties
  <2>3. QED
        BY <2>1, <2>2
<1>3. \A k \in 1..l : t[k] = s[k]
      BY <1>2, ConcatProperties
<1>4. \A k \in 1..(1 + m) : f[k] = t[k + l]
  <2> SUFFICES ASSUME NEW k \in 1..(1 + m) PROVE f[k] = t[k + l]
      OBVIOUS
  <2>1. k + l \in 1..(l + Len(f)) /\ ~ (k + l <= l) /\ (k + l) - l = k
        BY <1>2
  <2>2. QED
        BY <2>1, ConcatProperties
<1>5. \A h \in H : /\ h \in 1..l /\ s[h] \in Header
                   /\ s[h].len \in Nat /\ h + s[h].len <= l
      BY <1>1 DEF Aligned, Unbroken, Header
<1>6. \A h \in H : h + s[h].len < l => h + s[h].len + 1 \in H
      BY <1>1 DEF Aligned
<1>7. s # <<>> => 1 \in H
      BY <1>1 DEF Aligned
<1>8. s = <<>> => l + 1 = 1
      OBVIOUS
<1>9. G \in SUBSET Nat
  <2>1. l + 1 \in Nat
        BY <1>2
  <2> HIDE DEF l
  <2>2. QED
        BY <2>1
<1> HIDE DEF t, l
<1>10. l + 1 \in 1..Len(t) /\ t[l + 1] = f[1] /\ t[l + 1].len = m
  <2>1. 1 \in 1..(1 + m) /\ 1 + l = l + 1 /\ l + 1 \in 1..(l + (1 + m))
        BY <1>2
  <2>2. QED
        BY <1>2, <1>4, <2>1
<1>11. \A h \in H : h \in 1..Len(t) /\ t[h] = s[h] /\ h + s[h].len < Len(t)
  <2> SUFFICES ASSUME NEW h \in H
               PROVE  h \in 1..Len(t) /\ t[h] = s[h] /\ h + s[h].len < Len(t)
      OBVIOUS
  <2>1. h \in 1..l /\ s[h].len \in Nat /\ h + s[h].len <= l
        BY <1>5
  <2>2. QED
        BY <1>2, <1>3, <2>1
<1>12. Aligned(t, G)
  <2>1. G \subseteq 1..Len(t) /\ 1 \in G
        BY <1>7, <1>8, <1>10, <1>11
  <2>2. ASSUME NEW h \in H
        PROVE  t[h] \in Header /\ h + t[h].len + 1 \in G
    <3>1. t[h] = s[h] /\ s[h] \in Header /\ h \in Nat /\ s[h].len \in Nat /\ h + s[h].len <= l
          BY <1>5, <1>11
    <3> DEFINE n == s[h].len
    <3>2. n \in Nat /\ h + n <= l
          BY <3>1
    <3> HIDE DEF n
    <3>3. h + n < l \/ h + n = l
          BY <1>2, <3>1, <3>2
    <3>4. h + s[h].len < l \/ h + s[h].len = l
          BY <3>3 DEF n
    <3>5. QED
          BY <1>6, <3>1, <3>4
  <2>3. t[l + 1] \in Header /\ ~ (l + 1 + t[l + 1].len < Len(t))
        BY <1>2, <1>10
  <2>4. QED
        BY <2>1, <2>2, <2>3 DEF Aligned
<1>13. Unbroken(t, G)
  <2>1. \A h \in H : h + t[h].len <= Len(t)
    <3> SUFFICES ASSUME NEW h \in H PROVE h + t[h].len <= Len(t)
        OBVIOUS
    <3>1. h \in Nat /\ s[h].len \in Nat /\ h + s[h].len < Len(t) /\ t[h] = s[h]
          BY <1>5, <1>11
    <3>2. QED
          BY <1>2, <3>1
  <2>2. l + 1 + t[l + 1].len <= Len(t)
        BY <1>2, <1>10
  <2>3. QED
        BY <2>1, <2>2 DEF Unbroken
<1>14. Frames(t, G, good2, ended2)
  <2>1. ASSUME NEW h \in H
        PROVE  /\ t[h].tag = "FETCHED" =>
                    t[h].len > 0 /\ SubSeq(t, h + 1, h + t[h].len) \in good2
               /\ t[h].tag # "DONE"
    <3> DEFINE n == h + s[h].len
    <3>1. h + 1 \in Nat \ {0} /\ n \in Nat /\ n <= l /\ t[h] = s[h]
          BY <1>5, <1>11
    <3>2. ASSUME s[h].tag = "FETCHED"
          PROVE  SubSeq(t, h + 1, n) \in good2
      <4>1. SubSeq(s, h + 1, n) \in good
            BY <1>1, <1>5, <3>2 DEF Frames, l
      <4>2. h + 1 \in Nat \ {0} /\ n \in Nat /\ n <= l
            BY <3>1
      <4> HIDE DEF n
      <4>3. \A k \in (h + 1)..n : k \in 1..l /\ k + 0 = k
            BY <1>2, <4>2
      <4>4. (h + 1) + 0 = h + 1 /\ n + 0 = n /\ n <= Len(t) /\ 0 \in Nat
            BY <1>2, <4>2
      <4>5. SubSeq(s, h + 1, n) = SubSeq(t, (h + 1) + 0, n + 0)
        <5>1. \A k \in (h + 1)..n : s[k] = t[k + 0]
              BY <1>3, <4>3
        <5>2. n <= Len(s) /\ n + 0 <= Len(t)
              BY <3>1, <4>4 DEF l
        <5>3. QED
              BY <1>2, <3>1, <4>4, <4>2, <5>1, <5>2, SamePart
      <4>6. QED
            BY <4>1, <4>4, <4>5
    <3>3. s[h].tag = "FETCHED" => s[h].len > 0
          BY <1>1 DEF Frames
    <3>4. s[h].tag # "DONE"
          BY <1>1 DEF Frames
    <3>5. QED
          BY <3>1, <3>2, <3>3, <3>4
  <2>2. ASSUME f[1].tag = "FETCHED"
        PROVE  SubSeq(t, l + 1 + 1, l + 1 + t[l + 1].len) \in good2
    <3>1. \A k \in 2..(1 + m) : f[k] = t[k + l]
          BY <1>4
    <3>2. 2 \in Nat \ {0} /\ 1 + m \in Nat /\ 1 + m <= Len(f) /\ (1 + m) + l <= Len(t)
          BY <1>2
    <3>3. SubSeq(f, 2, 1 + m) = SubSeq(t, 2 + l, (1 + m) + l)
          BY <1>2, <3>1, <3>2, SamePart
    <3>4. 2 + l = l + 1 + 1 /\ (1 + m) + l = l + 1 + t[l + 1].len
          BY <1>2, <1>10
    <3>5. QED
          BY <2>2, <3>3, <3>4
  <2>3. f[1].tag = "DONE" => l + 1 = Len(t)
        BY <1>2
  <2>4. QED
        BY <1>10, <2>1, <2>2, <2>3 DEF Frames
<1>15. QED
      BY <1>9, <1>12, <1>13, <1>14 DEF Stream, t

\* Nothing is a stream of frames.
LEMMA StreamOfNothing ==
  ASSUME NEW whole, NEW good, NEW ended
  PROVE  Stream(<<>>, whole, good, ended)
<1>1. Aligned(<<>>, {}) /\ Unbroken(<<>>, {}) /\ Frames(<<>>, {}, good, ended)
      BY DEF Aligned, Unbroken, Frames
<1>2. QED
      BY <1>1 DEF Stream

\* The first frame of a stream, when it has come whole.
LEMMA FirstFrame ==
  ASSUME NEW b \in Seq(Cell), NEW w \in Seq(Cell), b # <<>>,
         NEW whole, NEW good, NEW ended,
         Stream(b \o w, whole, good, ended)
  PROVE  LET n == b[1].len
         IN  /\ Head(b) = b[1] /\ b[1] \in Header /\ n \in Nat
             /\ Len(b) >= 1 + n /\ b[1].tag = "FETCHED" =>
                  n > 0 /\ SubSeq(b, 2, 1 + n) \in good
             /\ b[1].tag = "DONE" => n = 0 /\ Len(b) = 1 /\ w = <<>> /\ ended
<1>1. PICK H \in SUBSET Nat :
        Aligned(b \o w, H) /\ Frames(b \o w, H, good, ended)
      BY DEF Stream
<1> DEFINE s == b \o w
           n == b[1].len
<1>2. Len(b) \in Nat \ {0} /\ Len(w) \in Nat
      BY EmptySeq
<1>3. /\ s \in Seq(Cell) /\ Len(s) = Len(b) + Len(w)
      /\ \A k \in 1..(Len(b) + Len(w)) : s[k] = IF k <= Len(b) THEN b[k] ELSE w[k - Len(b)]
      BY ConcatProperties
<1>4. s[1] = b[1] /\ s # <<>>
      BY <1>2, <1>3
<1> HIDE DEF s
<1>5. 1 \in H /\ b[1] \in Header /\ n \in Nat
      BY <1>1, <1>4 DEF Aligned, Header, s
<1>6. Frames(s, H, good, ended)
      BY <1>1 DEF s
<1>7. ASSUME Len(b) >= 1 + n, b[1].tag = "FETCHED"
      PROVE  n > 0 /\ SubSeq(b, 2, 1 + n) \in good
  <2>1. n > 0 /\ (1 + n <= Len(s) => SubSeq(s, 1 + 1, 1 + n) \in good)
        BY <1>4, <1>5, <1>6, <1>7 DEF Frames
  <2>2. 1 + n \in Nat /\ 1 + n + 0 <= Len(s) /\ \A k \in 2..(1 + n) : b[k] = s[k + 0]
        BY <1>2, <1>3, <1>5, <1>7
  <2>3. SubSeq(b, 2, 1 + n) = SubSeq(s, 2 + 0, (1 + n) + 0)
        BY <1>2, <1>3, <1>7, <2>2, SamePart
  <2>4. (1 + n) + 0 = 1 + n /\ 2 + 0 = 1 + 1 /\ 1 + n <= Len(s)
        BY <1>2, <1>3, <1>5, <1>7
  <2>5. QED
        BY <2>1, <2>2, <2>3, <2>4
<1>8. ASSUME b[1].tag = "DONE"
      PROVE  n = 0 /\ Len(b) = 1 /\ w = <<>> /\ ended
  <2>1. n = 0 /\ 1 = Len(s) /\ ended
        BY <1>4, <1>5, <1>6, <1>8 DEF Frames
  <2> DEFINE x == Len(b)
             y == Len(w)
  <2>2. x \in Nat \ {0} /\ y \in Nat /\ x + y = 1
        BY <1>2, <1>3, <2>1
  <2> HIDE DEF x, y
  <2>3. x = 1 /\ y = 0
        BY <2>2
  <2>4. QED
        BY <2>1, <2>3 DEF x, y
<1>9. QED
      BY <1>5, <1>7, <1>8

-----------------------------------------------------------------------------
(* What a step keeps.                                                       *)

\* A signature that could be used still can be, unless the step changes the local
\* file without saying so.
LEMMA UsableKept ==
  ASSUME \A n \in Names : SigSent(n) =>
           /\ SigSent(n)'
           /\ n \in touched => n \in touched'
           /\ n \in written => n \in written'
           /\ local'[n] = local[n] \/ n \in touched' \/ n \in written'
  PROVE  Usable \subseteq Usable'
BY DEF Usable, Fresh

\* What is good to bring stays good.
LEMMA GoodKept ==
  ASSUME Usable \subseteq Usable', \A n \in Names : held[n] \subseteq held'[n]
  PROVE  Good \subseteq Good'
<1> SUFFICES ASSUME NEW p \in Good
             PROVE  p \in Good'
    OBVIOUS
<1> DEFINE hdr == Head(p)
           data == Tail(p)
<1>1. /\ p \in Seq(Cell) /\ p # <<>>
      /\ hdr \in FileHeader
      /\ ~ hdr.exists => None \in held[hdr.path]
      /\ hdr.exists /\ ~ hdr.delta => data \in Seq(Blocks) /\ data \in held[hdr.path]
      /\ hdr.exists /\ hdr.delta =>
           \E c \in held[hdr.path], base \in Seq(Blocks) :
             c \in Seq(Blocks) /\ data = Delta(c, base) /\ <<hdr.path, base>> \in Usable
      BY DEF Good, Brings
<1> HIDE DEF hdr, data
<1>2. hdr.path \in Names
      BY <1>1 DEF FileHeader
<1>3. /\ p \in Seq(Cell) /\ p # <<>>
      /\ hdr \in FileHeader
      /\ ~ hdr.exists => None \in held'[hdr.path]
      /\ hdr.exists /\ ~ hdr.delta => data \in Seq(Blocks) /\ data \in held'[hdr.path]
      /\ hdr.exists /\ hdr.delta =>
           \E c \in held'[hdr.path], base \in Seq(Blocks) :
             c \in Seq(Blocks) /\ data = Delta(c, base) /\ <<hdr.path, base>> \in Usable'
      BY <1>1, <1>2
<1>4. QED
      BY <1>3 DEF Good, Brings, hdr, data

\* The stream is as it was, or has been cut off with the connection.
LEMMA StreamKept ==
  ASSUME TypeOK, TypeOK', StreamOK, Good \subseteq Good',
         pc' \notin {"getting", "locking"} => pc \notin {"getting", "locking"},
         \/ (buf \o wire)' = buf \o wire
         \/ apc' = "gone" /\ Begins((buf \o wire)', buf \o wire),
         apc' # "gone" => apc # "gone",
         apc \in {"idle", "gone"} => apc' \in {"idle", "gone"}
  PROVE  StreamOK'
<1> DEFINE s == buf \o wire
           t == (buf \o wire)'
           whole == apc # "gone"
           whole2 == apc' # "gone"
           ended == apc \in {"idle", "gone"}
           ended2 == apc' \in {"idle", "gone"}
<1> SUFFICES ASSUME pc' \notin {"getting", "locking"}
             PROVE  Stream(t, whole2, Good', ended2)
    BY DEF StreamOK
<1>1. Stream(s, whole, Good, ended)
      BY DEF StreamOK
<1>2. s \in Seq(Cell) /\ t \in Seq(Cell) /\ Len(s) \in Nat /\ Len(t) \in Nat
  <2>1. buf \in Seq(Cell) /\ wire \in Seq(Cell) /\ buf' \in Seq(Cell) /\ wire' \in Seq(Cell)
        BY DEF TypeOK
  <2> HIDE DEF s, t
  <2>2. s \in Seq(Cell) /\ t \in Seq(Cell)
        BY <2>1, ConcatProperties DEF s, t
  <2>3. QED
        BY <2>2
<1>3. Len(t) + 0 <= Len(s) /\ \A k \in 1..Len(t) : t[k] = s[k + 0]
  <2>1. Len(t) <= Len(s) /\ \A k \in 1..Len(t) : t[k] = s[k]
        BY <1>2 DEF Begins
  <2> HIDE DEF s, t
  <2>2. \A k \in 1..Len(t) : k + 0 = k
        BY <1>2
  <2>3. QED
        BY <1>2, <2>1, <2>2
<1>4. whole2 => whole /\ Len(t) + 0 = Len(s)
  <2>1. whole2 => whole /\ t = s
        OBVIOUS
  <2> HIDE DEF s, t
  <2>2. QED
        BY <1>2, <2>1
<1>5. ended => ended2
      OBVIOUS
<1> HIDE DEF s, t, whole, whole2, ended, ended2
<1>6. PartOf(t, s, 0)
      BY <1>3 DEF PartOf
<1>7. QED
      BY <1>1, <1>2, <1>4, <1>5, <1>6, StreamPart

\* Nothing has come and nothing is to come.
LEMMA StreamEmpty ==
  ASSUME buf = <<>>, wire = <<>>
  PROVE  StreamOK
<1>1. buf \o wire = <<>>
      BY ConcatEmptySeq, EmptySeq
<1> DEFINE whole == apc # "gone"
           ended == apc \in {"idle", "gone"}
<1> HIDE DEF whole, ended
<1>2. Stream(<<>>, whole, Good, ended)
      BY StreamOfNothing
<1>3. QED
      BY <1>1, <1>2 DEF StreamOK, whole, ended

\* Frames are taken from those on their way to the agent, or get lost.
LEMMA SigsKept ==
  ASSUME TypeOK, SigsOK, Usable \subseteq Usable', sigs' = sigs,
         \/ toAgent' = toAgent \/ toAgent' = <<>>
         \/ toAgent # <<>> /\ toAgent' = Tail(toAgent)
         \/ toAgent' = Append(toAgent, [tag |-> "QUIT"])
  PROVE  SigsOK'
<1> DEFINE Fine(f) == f.tag = "FETCH_SIG" => <<f.path, f.sig>> \in Usable'
<1>1. toAgent \in Seq(ToAgent)
      BY DEF TypeOK
<1>2. \A k \in 1..Len(toAgent) : Fine(toAgent[k])
      BY DEF SigsOK
<1>3. \A k \in 1..Len(toAgent') : Fine(toAgent'[k])
  <2> HIDE DEF Fine
  <2>1. CASE toAgent' = toAgent \/ toAgent' = <<>>
        BY <1>2, <2>1
  <2>2. CASE toAgent # <<>> /\ toAgent' = Tail(toAgent)
    <3>1. /\ Len(toAgent') = Len(toAgent) - 1
          /\ \A k \in 1..Len(toAgent') : toAgent'[k] = toAgent[k + 1]
          BY <1>1, <2>2, HeadTailProperties
    <3>2. Len(toAgent) \in Nat
          BY <1>1
    <3>3. \A k \in 1..Len(toAgent') : k + 1 \in 1..Len(toAgent)
          BY <3>1, <3>2
    <3>4. QED
          BY <1>2, <3>1, <3>3
  <2>3. CASE toAgent' = Append(toAgent, [tag |-> "QUIT"])
    <3> DEFINE q == [tag |-> "QUIT"]
    <3>1. q \in ToAgent /\ Fine(q)
          BY DEF ToAgent, Fine
    <3> HIDE DEF q
    <3>2. /\ Len(toAgent') = Len(toAgent) + 1
          /\ \A k \in 1..Len(toAgent) : toAgent'[k] = toAgent[k]
          /\ toAgent'[Len(toAgent) + 1] = q
          BY <1>1, <2>3, <3>1, AppendProperties DEF q
    <3>3. Len(toAgent) \in Nat
          BY <1>1
    <3>4. \A k \in 1..Len(toAgent') : k \in 1..Len(toAgent) \/ k = Len(toAgent) + 1
          BY <3>2, <3>3
    <3>5. QED
          BY <1>2, <3>1, <3>2, <3>4
  <2>4. QED
        BY <2>1, <2>2, <2>3
<1>4. QED
      BY <1>3 DEF SigsOK

\* Before anything has been done the invariant holds.
LEMMA InitInvariant ==
  Init => IInv
<1> SUFFICES ASSUME Init PROVE IInv
    OBVIOUS
<1>1. PICK pair \in [Names -> Pairs] :
        /\ local = [n \in Names |-> pair[n].local]
        /\ remote = [n \in Names |-> pair[n].remote]
      BY DEF Init
<1>2. \A n \in Names : pair[n].local \in Copies /\ pair[n].remote \in Copies
  <2> SUFFICES ASSUME NEW n \in Names
               PROVE  pair[n].local \in Copies /\ pair[n].remote \in Copies
      OBVIOUS
  <2>1. pair[n] \in [local : Copies, remote : Copies]
        BY <1>1, CopiesAssumption
  <2>2. QED
        BY <2>1
<1>3. local \in [Names -> Copies] /\ remote \in [Names -> Copies]
      BY <1>1, <1>2
<1>4. None \in Copies /\ OldLock \in Seq(Blocks)
      BY LockAssumption DEF Copies
<1>5. /\ held \in [Names -> SUBSET Copies] /\ mine \in [Names -> SUBSET Copies]
      /\ \A n \in Names : remote[n] \in held[n] /\ local[n] \in mine[n]
      BY <1>3 DEF Init
<1>6. sigs \in [Names -> Copies] /\ \A n \in Names : sigs[n] = None
      BY <1>4 DEF Init
<1>7. TypeOK
  <2>1. used \in [local : Nat, remote : Nat, faults : Nat]
        BY DEF Init
  <2>2. <<>> \in Seq(Names) /\ <<>> \in Seq(Cell) /\ <<>> \in Seq(Blocks) /\ <<>> \in Seq(ToAgent)
        BY EmptySeq
  <2>3. /\ lock = OldLock /\ side = None /\ update \in BOOLEAN /\ agentRuns \in BOOLEAN
        /\ pc = "find" /\ files = <<>> /\ i = 1 /\ written = {} /\ buf = <<>> /\ out = <<>>
        /\ apc = "off" /\ j = 1 /\ toAgent = <<>> /\ wire = <<>> /\ broken = FALSE
        /\ touched = {}
        BY DEF Init
  <2>4. /\ files \in Seq(Names) /\ i \in Nat \ {0} /\ written \in SUBSET Names
        /\ buf \in Seq(Cell) /\ out \in Seq(Blocks) /\ j \in Nat \ {0}
        /\ toAgent \in Seq(ToAgent) /\ wire \in Seq(Cell) /\ touched \in SUBSET Names
        BY <2>2, <2>3
  <2>5. QED
        BY <1>3, <1>4, <1>5, <1>6, <2>1, <2>3, <2>4 DEF TypeOK
<1>8. Progress
      BY DEF Init, Progress
<1>9. Quiet
      BY DEF Init, Quiet
<1>10. SigsOK
  <2>1. \A n \in Names : <<n, sigs[n]>> \in Usable
        BY <1>4, <1>6 DEF Usable
  <2>2. QED
        BY <2>1 DEF Init, SigsOK
<1>11. StreamOK
      BY StreamEmpty DEF Init
<1>12. CatOK
      BY DEF Init, CatOK
<1>13. Versions
      BY <1>5 DEF Versions, WholeFiles
<1>14. LockAsked
      BY DEF Init, LockAsked
<1>15. QED
      BY <1>7, <1>8, <1>9, <1>10, <1>11, <1>12, <1>13, <1>14 DEF IInv

\* A step that touches neither side's files nor the client keeps what is known of
\* them.
LEMMA ClientKept ==
  ASSUME IInv, UNCHANGED <<local, remote, locals, client, history>>, broken => broken'
  PROVE  /\ Progress' /\ Versions' /\ LockAsked'
         /\ Usable \subseteq Usable' /\ Good \subseteq Good'
<1> USE DEF locals, client, history
<1>1. Progress'
      BY DEF IInv, Progress, Brought
<1>2. Versions'
      BY DEF IInv, Versions, WholeFiles
<1>3. LockAsked'
      BY DEF IInv, LockAsked
<1>4. Usable \subseteq Usable'
      BY UsableKept DEF SigSent
<1>5. Good \subseteq Good'
      BY <1>4, GoodKept
<1>6. QED
      BY <1>1, <1>2, <1>3, <1>4, <1>5

\* The copy back may be given up whenever nothing of a file is on its way.
LEMMA GiveUpKeeps ==
  ASSUME IInv, GiveUp,
         \/ wire' = wire /\ pc \notin {"getting", "locking"}
         \/ wire' = <<>> /\ pc = "getting",
         UNCHANGED <<local, remote, locals, agent, toAgent, broken, used, history>>
  PROVE  IInv'
<1> USE DEF locals, agent, history, GiveUp
<1>1. TypeOK'
      BY EmptySeq, ZenonT(60) DEF IInv, TypeOK
<1>2. Progress'
      BY DEF IInv, Progress
<1>3. Quiet'
      BY DEF Quiet
<1>4. Usable \subseteq Usable'
      BY UsableKept DEF SigSent
<1>5. Good \subseteq Good'
      BY <1>4, GoodKept
<1>6. SigsOK'
      BY <1>4, SigsKept DEF IInv
<1>7. StreamOK'
  <2>1. CASE pc = "getting"
    <3>1. buf' = <<>> /\ wire' = <<>>
          BY <2>1 DEF IInv, Quiet
    <3>2. (buf = <<>> /\ wire = <<>> => StreamOK)'
          BY StreamEmpty, PTL
    <3>3. QED
          BY <3>1, <3>2
  <2>2. CASE pc \notin {"getting", "locking"}
        BY <1>1, <1>5, <2>2, StreamKept DEF IInv
  <2>3. QED
        BY <2>1, <2>2
<1>8. CatOK'
      BY DEF CatOK
<1>9. Versions'
      BY DEF IInv, Versions, WholeFiles
<1>10. LockAsked'
      BY DEF IInv, LockAsked
<1>11. QED
      BY <1>1, <1>2, <1>3, <1>6, <1>7, <1>8, <1>9, <1>10 DEF IInv

-----------------------------------------------------------------------------
(* The steps of the client.                                                 *)

\* find lists each file once.
LEMMA FindKeeps ==
  ASSUME IInv, Find
  PROVE  IInv'
<1> USE DEF locals, agent, history
<1>1. CASE GiveUp /\ UNCHANGED toAgent
  <2>1. GiveUp /\ pc = "find"
        BY <1>1 DEF Find
  <2>2. QED
        BY <1>1, <2>1, GiveUpKeeps DEF Find
<1>2. CASE ~ (GiveUp /\ UNCHANGED toAgent)
  <2> DEFINE there == {n \in Names : remote[n] # None}
  <2>1. PICK found \in SetToSeqs(there) :
          /\ files' = found
          /\ pc' = IF found = <<>> THEN "lock" ELSE IF agentRuns THEN "sigs" ELSE "get"
          /\ toAgent' = IF found = <<>> \/ ~ agentRuns THEN <<>>
                        ELSE <<[tag |-> "FETCH_REQ", paths |-> found]>>
          /\ UNCHANGED <<i, written, buf, out>>
        BY <1>2 DEF Find
  <2>2. Cardinality(there) \in Nat
    <3>1. IsFiniteSet(there)
          BY NamesAssumption, FS_Subset
    <3>2. QED
          BY <3>1, FS_CardinalityType
  <2>3. found \in Seq(Names) /\ \A k, l \in 1..Len(found) : found[k] = found[l] => k = l
    <3> DEFINE D == 1..Cardinality(there)
    <3>1. found \in [D -> there] /\ \A k, l \in D : k # l => found[k] # found[l]
          BY DEF SetToSeqs
    <3>2. found \in Seq(there) /\ Len(found) = Cardinality(there)
          BY <2>2, <3>1
    <3>3. QED
          BY <3>1, <3>2
  <2>4. /\ pc = "find" /\ i' = 1 /\ i = 1 /\ written' = {} /\ buf = <<>> /\ wire = <<>>
        /\ buf' = <<>> /\ wire' = <<>> /\ apc \in {"off", "gone"} /\ apc' = apc
        BY <2>1 DEF Find, IInv, Progress, Quiet
  <2>5. TypeOK'
    <3> DEFINE req == [tag |-> "FETCH_REQ", paths |-> found]
    <3>1. req \in ToAgent
          BY <2>3 DEF ToAgent
    <3> HIDE DEF req
    <3>2. <<req>> \in Seq(ToAgent) /\ <<>> \in Seq(ToAgent)
          BY <3>1, EmptySeq
    <3>3. toAgent' \in Seq(ToAgent)
          BY <2>1, <3>2 DEF req
    <3>4. files' \in Seq(Names) /\ pc' \in {"sigs", "lock", "get"}
          BY <2>1, <2>3
    <3>5. QED
          BY <2>1, <3>3, <3>4 DEF Find, IInv, TypeOK
  <2>6. Progress'
    <3>1. Len(found) \in Nat /\ (found # <<>> => 1 <= Len(found)) /\ (found = <<>> => Len(found) = 0)
          BY <2>3, EmptySeq
    <3>2. QED
          BY <2>1, <2>3, <2>4, <3>1 DEF Progress
  <2>7. Quiet'
        BY <2>1, <2>4 DEF Quiet
  <2>8. Usable \subseteq Usable'
        BY <2>4, UsableKept DEF SigSent
  <2>9. SigsOK'
    <3>1. \A n \in Names : <<n, sigs'[n]>> \in Usable'
          BY <2>8 DEF Find, IInv, SigsOK
    <3>2. \A k \in 1..Len(toAgent') : toAgent'[k].tag # "FETCH_SIG"
          BY <2>1
    <3>3. QED
          BY <3>1, <3>2 DEF SigsOK
  <2>10. StreamOK'
    <3>1. (buf = <<>> /\ wire = <<>> => StreamOK)'
          BY StreamEmpty, PTL
    <3>2. QED
          BY <2>4, <3>1
  <2>11. CatOK'
        BY <2>1 DEF CatOK
  <2>12. Versions'
        BY DEF Find, IInv, Versions, WholeFiles
  <2>13. LockAsked'
        BY <2>1 DEF Find, IInv, LockAsked
  <2>14. QED
        BY <2>5, <2>6, <2>7, <2>9, <2>10, <2>11, <2>12, <2>13 DEF IInv
<1>3. QED
      BY <1>1, <1>2

\* The signature of the local file is sent.
LEMMA SendSigKeeps ==
  ASSUME IInv, SendSig
  PROVE  IInv'
<1> USE DEF locals, agent, history
<1>1. PICK n, sig : n = files[i] /\ sig = IF local[n] \in {None, <<>>} THEN None ELSE local[n]
      OBVIOUS
<1> DEFINE msg == [tag |-> "FETCH_SIG", path |-> n, sig |-> sig]
<1>2. /\ pc = "sigs" /\ i' = (IF i = Len(files) THEN 1 ELSE i + 1)
      /\ pc' = (IF i = Len(files) THEN "recv" ELSE "sigs")
      /\ toAgent' = toAgent \/ toAgent' = Append(toAgent, msg)
      /\ UNCHANGED <<files, written, buf, out>>
      /\ UNCHANGED <<local, remote, locals, agent, wire, broken, used, history>>
      BY <1>1 DEF SendSig, Signature
<1>3. /\ local \in [Names -> Copies] /\ files \in Seq(Names) /\ Len(files) \in Nat
      /\ i \in Nat \ {0} /\ i <= Len(files) /\ toAgent \in Seq(ToAgent) /\ written = {}
      BY <1>2 DEF IInv, TypeOK, Progress
<1>4. n \in Names /\ i \in 1..Len(files)
  <2>1. i \in 1..Len(files)
        BY <1>3
  <2>2. QED
        BY <1>3, <1>1, <2>1, ElementOfSeq
<1>5. sig \in Copies /\ (sig # None => sig = local[n])
      BY <1>3, <1>4, <1>1 DEF Copies
<1>6. msg \in ToAgent
      BY <1>4, <1>5 DEF ToAgent
<1>7. \A m \in Names : SigSent(m) => SigSent(m)'
      BY <1>2, <1>3 DEF SigSent
<1>8. SigSent(n)'
      BY <1>2, <1>3, <1>4, <1>1 DEF SigSent
<1>9. Usable \subseteq Usable'
      BY <1>2, <1>7, UsableKept
<1>10. <<n, sig>> \in Usable'
      BY <1>2, <1>4, <1>5, <1>8 DEF Usable, Fresh
<1>11. Good \subseteq Good'
      BY <1>2, <1>9, GoodKept
<1>12. TypeOK'
  <2>1. toAgent' \in Seq(ToAgent)
    <3> HIDE DEF msg
    <3>1. Append(toAgent, msg) \in Seq(ToAgent)
          BY <1>3, <1>6, AppendProperties
    <3>2. QED
          BY <1>2, <1>3, <3>1
  <2>2. i' \in Nat \ {0} /\ pc' \in {"recv", "sigs"}
        BY <1>2, <1>3
  <2>3. QED
        BY <1>2, <2>1, <2>2 DEF IInv, TypeOK
<1>13. Progress'
      BY <1>2, <1>3 DEF IInv, Progress
<1>14. Quiet'
      BY <1>2 DEF Quiet
<1>15. SigsOK'
  <2>1. CASE toAgent' = toAgent
        BY <1>2, <1>9, <2>1, SigsKept DEF IInv
  <2>2. CASE toAgent' = Append(toAgent, msg)
    <3>1. \A m \in Names : <<m, sigs'[m]>> \in Usable'
          BY <1>2, <1>9 DEF IInv, SigsOK
    <3>2. msg.tag = "FETCH_SIG" /\ msg.path = n /\ msg.sig = sig
          OBVIOUS
    <3> HIDE DEF msg
    <3>3. /\ Len(toAgent') = Len(toAgent) + 1
          /\ \A k \in 1..Len(toAgent) : toAgent'[k] = toAgent[k]
          /\ toAgent'[Len(toAgent) + 1] = msg
          BY <1>3, <1>6, <2>2, AppendProperties
    <3>4. Len(toAgent) \in Nat
          BY <1>3
    <3>5. \A k \in 1..Len(toAgent') : k \in 1..Len(toAgent) \/ k = Len(toAgent) + 1
          BY <3>3, <3>4
    <3>6. \A k \in 1..Len(toAgent) :
            toAgent[k].tag = "FETCH_SIG" => <<toAgent[k].path, toAgent[k].sig>> \in Usable'
          BY <1>9 DEF IInv, SigsOK
    <3>7. QED
          BY <1>10, <3>1, <3>2, <3>3, <3>5, <3>6 DEF SigsOK
  <2>3. QED
        BY <1>2, <2>1, <2>2
<1>16. StreamOK'
      BY <1>2, <1>11, <1>12, StreamKept DEF IInv
<1>17. CatOK'
      BY <1>2 DEF CatOK
<1>18. Versions'
      BY <1>2 DEF IInv, Versions, WholeFiles
<1>19. LockAsked'
      BY <1>2 DEF IInv, LockAsked
<1>20. QED
      BY <1>12, <1>13, <1>14, <1>15, <1>16, <1>17, <1>18, <1>19 DEF IInv

\* However the stream is cut up, what has come and what is to come make it up.
LEMMA ReceiveKeeps ==
  ASSUME IInv, Receive
  PROVE  IInv'
<1> USE DEF locals, agent, history
<1>1. PICK k \in 1..Len(wire) :
        /\ buf' = buf \o SubSeq(wire, 1, k)
        /\ wire' = SubSeq(wire, k + 1, Len(wire))
      BY DEF Receive
<1>2. /\ pc = "recv" /\ UNCHANGED <<pc, files, i, written, out>>
      /\ UNCHANGED <<local, remote, locals, agent, toAgent, broken, used, history>>
      BY DEF Receive
<1>3. buf \in Seq(Cell) /\ wire \in Seq(Cell) /\ k \in 0..Len(wire)
      BY DEF IInv, TypeOK
<1>4. /\ SubSeq(wire, 1, k) \in Seq(Cell) /\ SubSeq(wire, k + 1, Len(wire)) \in Seq(Cell)
      /\ SubSeq(wire, 1, k) \o SubSeq(wire, k + 1, Len(wire)) = wire
      BY <1>3, CutAndJoin
<1>5. buf' \in Seq(Cell) /\ wire' \in Seq(Cell)
      BY <1>1, <1>3, <1>4, ConcatProperties
<1>6. buf' \o wire' = buf \o wire
  <2>1. (buf \o SubSeq(wire, 1, k)) \o SubSeq(wire, k + 1, Len(wire)) = buf \o wire
        BY <1>3, PieceMoves
  <2>2. QED
        BY <1>1, <2>1
<1>7. TypeOK'
      BY <1>2, <1>5 DEF IInv, TypeOK
<1>8. Progress'
      BY <1>2 DEF IInv, Progress, Brought
<1>9. Quiet'
      BY <1>2 DEF Quiet
<1>10. Usable \subseteq Usable'
      BY <1>2, UsableKept DEF SigSent
<1>11. Good \subseteq Good'
      BY <1>2, <1>10, GoodKept
<1>12. SigsOK'
      BY <1>2, <1>10, SigsKept DEF IInv
<1>13. StreamOK'
      BY <1>2, <1>6, <1>7, <1>11, StreamKept DEF IInv
<1>14. CatOK'
      BY <1>2 DEF CatOK
<1>15. Versions'
      BY <1>2 DEF IInv, Versions, WholeFiles
<1>16. LockAsked'
      BY <1>2 DEF IInv, LockAsked
<1>17. QED
      BY <1>7, <1>8, <1>9, <1>12, <1>13, <1>14, <1>15, <1>16 DEF IInv

\* A frame that has come whole is taken.
LEMMA FrameTaken ==
  ASSUME NEW b \in Seq(Cell), NEW w \in Seq(Cell), b # <<>>,
         NEW n \in Nat, b[1].len = n, Len(b) >= 1 + n,
         NEW whole, NEW whole2,
         NEW good, NEW good2, NEW ended, NEW ended2,
         Stream(b \o w, whole, good, ended),
         whole2 => whole, good \subseteq good2, ended => ended2
  PROVE  /\ SubSeq(b, 2 + n, Len(b)) \in Seq(Cell)
         /\ Stream(SubSeq(b, 2 + n, Len(b)) \o w, whole2, good2, ended2)
<1> DEFINE l == Len(b)
           e == 1 + n
           u == SubSeq(b, e + 1, l)
           s == b \o w
           t == u \o w
<1>1. l \in Nat \ {0} /\ Len(w) \in Nat /\ e \in 0..l /\ e \in Nat
  <2>1. l \in Nat \ {0} /\ Len(w) \in Nat
        BY EmptySeq
  <2>2. QED
        BY <2>1
<1>2. u \in Seq(Cell) /\ Len(u) = l - e /\ \A k \in 1..(l - e) : u[k] = b[k + e]
  <2> HIDE DEF e
  <2>1. QED
        BY <1>1, CutAndJoin
<1>3. s \in Seq(Cell) /\ Len(s) = l + Len(w) /\ s[1] = b[1] /\ s # <<>>
  <2>1. s \in Seq(Cell) /\ Len(s) = l + Len(w)
        BY ConcatProperties
  <2>2. 1 \in 1..(Len(b) + Len(w)) /\ 1 <= Len(b)
        BY <1>1
  <2>3. s[1] = b[1]
        BY <2>2, ConcatProperties
  <2> HIDE DEF s, l
  <2>4. Len(s) # 0
        BY <1>1, <2>1
  <2>5. QED
        BY <2>1, <2>3, <2>4
<1> HIDE DEF u
<1>4. t \in Seq(Cell) /\ Len(t) = (l - e) + Len(w)
      BY <1>2, ConcatProperties
<1>5. ASSUME NEW k \in 1..((l - e) + Len(w))
      PROVE  t[k] = s[k + e]
  <2>1. k \in 1..(Len(u) + Len(w)) /\ k + e \in 1..(Len(b) + Len(w)) /\ Len(b) \in Nat /\ Len(u) \in Nat
        BY <1>1, <1>2
  <2>2. t[k] = (IF k <= Len(u) THEN u[k] ELSE w[k - Len(u)])
        BY <1>2, <2>1, ConcatProperties
  <2>3. s[k + e] = (IF k + e <= Len(b) THEN b[k + e] ELSE w[k + e - Len(b)])
        BY <2>1, ConcatProperties
  <2>4. CASE k <= l - e
    <3>1. k \in 1..(l - e) /\ k <= Len(u) /\ k + e <= Len(b)
          BY <1>1, <1>2, <2>1, <2>4
    <3>2. QED
          BY <1>2, <2>2, <2>3, <3>1
  <2>5. CASE ~ (k <= l - e)
    <3>1. ~ (k <= Len(u)) /\ ~ (k + e <= Len(b)) /\ k - Len(u) = k + e - Len(b)
          BY <1>1, <1>2, <2>1, <2>5
    <3>2. QED
          BY <2>2, <2>3, <3>1
  <2>6. QED
        BY <2>4, <2>5
<1>6. Len(t) + e = Len(s)
  <2> DEFINE x == Len(w)
  <2>1. x \in Nat /\ Len(t) = (l - e) + x /\ Len(s) = l + x
        BY <1>1, <1>3, <1>4
  <2> HIDE DEF x, l, e, t, s
  <2>2. QED
        BY <1>1, <2>1
<1>7. e = 1 + s[1].len
      BY <1>3
<1>8. Stream(s, whole, good, ended)
      OBVIOUS
<1> HIDE DEF s, t, l, e
<1>9. Len(t) \in Nat /\ Len(s) \in Nat /\ Len(t) + e <= Len(s)
      BY <1>1, <1>3, <1>4, <1>6
<1>10. \A k \in 1..Len(t) : t[k] = s[k + e]
      BY <1>4, <1>5
<1>11. Stream(t, whole2, good2, ended2)
  <2>1. e = 0 \/ (s # <<>> /\ e = 1 + s[1].len)
        BY <1>3, <1>7
  <2>2. whole2 => whole /\ Len(t) + e = Len(s)
        BY <1>6
  <2>3. PartOf(t, s, e)
        BY <1>9, <1>10 DEF PartOf
  <2>4. QED
        BY <1>1, <1>3, <1>4, <1>8, <2>1, <2>2, <2>3, StreamPart
<1>12. e + 1 = 2 + n
      BY DEF e
<1>13. QED
      BY <1>2, <1>11, <1>12 DEF t, u, l

\* One more file is brought: it now holds a version of the remote, or had been built
\* since; or it is not there any more.
LEMMA BringKeeps ==
  ASSUME IInv, NEW n \in Names, n = files[i], i <= Len(files),
         pc \in {"recv", "getting"}, pc' \in {"recv", "get"}, i' = i + 1, files' = files,
         UNCHANGED <<remote, locals, broken, history>>,
         \/ /\ written' = written \cup {n}
            /\ \E v \in Copies : /\ local' = [local EXCEPT ![n] = v]
                                 /\ v \in held[n] \/ n \in touched
         \/ UNCHANGED <<written, local>> /\ None \in held[n]
  PROVE  /\ local' \in [Names -> Copies] /\ written' \in SUBSET Names
         /\ Progress' /\ Versions' /\ LockAsked'
         /\ Usable \subseteq Usable' /\ Good \subseteq Good'
<1> USE DEF locals, history
<1>1. /\ local \in [Names -> Copies] /\ files \in Seq(Names) /\ Len(files) \in Nat
      /\ i \in Nat \ {0} /\ written \in SUBSET Names
      BY DEF IInv, TypeOK
<1>2. /\ \A k, l \in 1..Len(files) : files[k] = files[l] => k = l
      /\ \A m \in written : \E k \in 1..(i - 1) : files[k] = m
      /\ \A k \in 1..(i - 1) : Brought(files[k])
      BY DEF IInv, Progress
<1>3. /\ i \in 1..Len(files) /\ (i + 1) - 1 = i /\ i + 1 <= Len(files) + 1
      /\ \A k \in 1..(i - 1) : k \in 1..Len(files) /\ k # i
      /\ \A k \in 1..i : k \in 1..(i - 1) \/ k = i
      BY <1>1
<1>4. \A k \in 1..(i - 1) : files[k] \in Names /\ files[k] # n
      BY <1>1, <1>2, <1>3, ElementOfSeq
<1>5. local' \in [Names -> Copies] /\ written' \in SUBSET Names
      BY <1>1
<1>6. \A m \in Names : (m # n => local'[m] = local[m]) /\ (m \in written => m \in written')
      BY <1>1
<1>7. \/ n \in written' /\ (n \in touched \/ local'[n] \in held[n])
      \/ None \in held[n] /\ local' = local
      BY <1>1
<1>8. Progress'
  <2>1. \A k \in 1..(i - 1) : Brought(files[k])'
        BY <1>2, <1>4, <1>6 DEF Brought
  <2>2. Brought(n)'
        BY <1>7 DEF Brought
  <2>3. \A k \in 1..i : Brought(files[k])'
        BY <1>3, <2>1, <2>2
  <2>4. \A m \in written' : \E k \in 1..i : files[k] = m
    <3>1. \A m \in written' : m \in written \/ m = n
          OBVIOUS
    <3>2. \A k \in 1..(i - 1) : k \in 1..i
          BY <1>1
    <3>3. i \in 1..i
          BY <1>1
    <3>4. QED
          BY <1>2, <3>1, <3>2, <3>3
  <2>5. QED
        BY <1>2, <1>3, <2>3, <2>4 DEF Progress, Brought
<1>9. Versions'
  <2>1. ASSUME NEW m \in Names, m \notin touched
        PROVE  local'[m] \in mine[m] \cup held[m]
    <3>1. local[m] \in mine[m] \cup held[m]
          BY <2>1 DEF IInv, Versions, WholeFiles
    <3>2. QED
          BY <1>6, <1>7, <2>1, <3>1
  <2>2. QED
        BY <2>1 DEF IInv, Versions, WholeFiles
<1>10. LockAsked'
      BY DEF IInv, LockAsked
<1>11. Usable \subseteq Usable'
  <2>1. \A m \in Names : local'[m] = local[m] \/ m \in touched' \/ m \in written'
        BY <1>6, <1>7
  <2>2. QED
        BY <1>6, <2>1, UsableKept DEF SigSent
<1>12. Good \subseteq Good'
      BY <1>11, GoodKept
<1>13. QED
      BY <1>5, <1>8, <1>9, <1>10, <1>11, <1>12

\* A FETCHED is good to bring, and taken whole; what is brought is a version of
\* the remote, unless the file has been built since its signature was made.
LEMMA TakeFetchedKeeps ==
  ASSUME IInv, TakeFetched
  PROVE  IInv'
<1> USE DEF locals, agent, link, history
<1> DEFINE whole == apc # "gone"
           whole2 == apc' # "gone"
           ended == apc \in {"idle", "gone"}
           ended2 == apc' \in {"idle", "gone"}
<1>1. PICK hdr, data, n, old, len :
        /\ hdr = Head(Payload) /\ data = Tail(Payload) /\ n = files[i]
        /\ old = IF local[n] = None THEN <<>> ELSE local[n]
        /\ len = Head(buf).len
      OBVIOUS
<1>2. /\ pc = "recv" /\ buf # <<>> /\ Len(buf) >= 1 + len /\ i <= Len(files)
      /\ Head(buf).tag = "FETCHED"
      /\ UNCHANGED <<remote, locals, agent, link, used, history>>
      BY <1>1 DEF TakeFetched, Complete
<1>3. /\ local \in [Names -> Copies] /\ files \in Seq(Names) /\ i \in Nat \ {0}
      /\ buf \in Seq(Cell) /\ wire \in Seq(Cell) /\ Len(files) \in Nat
      BY DEF IInv, TypeOK
<1>4. n \in Names /\ i \in 1..Len(files)
  <2>1. i \in 1..Len(files)
        BY <1>2, <1>3
  <2>2. QED
        BY <1>1, <1>3, <2>1, ElementOfSeq
<1>5. Stream(buf \o wire, whole, Good, ended)
      BY <1>2 DEF IInv, StreamOK
<1> HIDE DEF whole, ended
<1>6. Head(buf) = buf[1] /\ len \in Nat /\ buf[1].len = len /\ Payload \in Good
  <2>1. /\ Head(buf) = buf[1] /\ buf[1].len \in Nat
        /\ Len(buf) >= 1 + buf[1].len /\ buf[1].tag = "FETCHED" =>
             SubSeq(buf, 2, 1 + buf[1].len) \in Good
        BY <1>2, <1>3, <1>5, FirstFrame
  <2>2. QED
        BY <1>1, <1>2, <2>1 DEF Payload
<1>7. /\ hdr \in FileHeader
      /\ ~ hdr.exists => None \in held[hdr.path]
      /\ hdr.exists /\ ~ hdr.delta => data \in Seq(Blocks) /\ data \in held[hdr.path]
      /\ hdr.exists /\ hdr.delta =>
           \E c \in held[hdr.path], base \in Seq(Blocks) :
             c \in Seq(Blocks) /\ data = Delta(c, base) /\ <<hdr.path, base>> \in Usable
      BY <1>1, <1>6 DEF Good, Brings
<1>8. CASE hdr.path # n \/ (hdr.delta /\ ~ CanPatch(old, data))
  <2>1. GiveUp /\ UNCHANGED local
        BY <1>1, <1>8 DEF TakeFetched
  <2>2. QED
        BY <1>2, <2>1, GiveUpKeeps
<1>9. CASE hdr.path = n /\ (hdr.delta => CanPatch(old, data))
  <2>1. /\ buf' = Unread /\ i' = i + 1 /\ UNCHANGED <<pc, files, out>>
        /\ IF hdr.exists
           THEN /\ written' = written \cup {n}
                /\ local' = [local EXCEPT ![n] = IF hdr.delta THEN Patch(old, data) ELSE data]
           ELSE UNCHANGED <<written, local>>
        BY <1>1, <1>9 DEF TakeFetched
  <2>2. ASSUME hdr.exists, hdr.delta
        PROVE  Patch(old, data) \in Copies /\ (Patch(old, data) \in held[n] \/ n \in touched)
    <3>1. PICK c \in held[n], base \in Seq(Blocks) :
            c \in Seq(Blocks) /\ data = Delta(c, base) /\ <<n, base>> \in Usable
          BY <1>7, <1>9, <2>2
    <3>2. old \in Seq(Blocks)
          BY <1>1, <1>3, <1>4, EmptySeq DEF Copies
    <3>3. Patch(old, data) \in Seq(Blocks)
          BY <1>9, <2>2, <3>1, <3>2, DeltaRoundTrip, PatchGivesBlocks
    <3>4. n \in touched \/ n \in written \/ base = local[n]
      <4>1. base # None
            BY NoneAssumption
      <4>2. QED
            BY <3>1, <4>1 DEF Usable, Fresh
    <3>5. n \notin written
      <4>1. \A k \in 1..(i - 1) : k \in 1..Len(files) /\ k # i
            BY <1>3, <1>4
      <4>2. QED
            BY <1>1, <1>2, <1>4, <4>1 DEF IInv, Progress
    <3>6. ASSUME base = local[n] PROVE Patch(old, data) = c
      <4>1. old = base
            BY <1>1, <3>6, NoneAssumption
      <4>2. QED
            BY <3>1, <4>1, DeltaRoundTrip
    <3>7. QED
          BY <3>1, <3>3, <3>4, <3>5, <3>6 DEF Copies
  <2>3. ASSUME hdr.exists, ~ hdr.delta
        PROVE  data \in Copies /\ data \in held[n]
        BY <1>7, <1>9, <2>3 DEF Copies
  <2>4. \/ /\ written' = written \cup {n}
           /\ \E v \in Copies : /\ local' = [local EXCEPT ![n] = v]
                                /\ v \in held[n] \/ n \in touched
        \/ UNCHANGED <<written, local>> /\ None \in held[n]
    <3>1. CASE hdr.exists /\ hdr.delta
          BY <2>1, <2>2, <3>1
    <3>2. CASE hdr.exists /\ ~ hdr.delta
          BY <2>1, <2>3, <3>2
    <3>3. CASE ~ hdr.exists
          BY <1>7, <1>9, <2>1, <3>3
    <3>4. QED
          BY <3>1, <3>2, <3>3
  <2>5. /\ local' \in [Names -> Copies] /\ written' \in SUBSET Names
        /\ Progress' /\ Versions' /\ LockAsked'
        /\ Usable \subseteq Usable' /\ Good \subseteq Good'
        BY <1>1, <1>2, <1>4, <2>1, <2>4, BringKeeps
  <2>6. buf' = SubSeq(buf, 2 + len, Len(buf))
        BY <1>1, <2>1 DEF Unread
  <2>7. buf' \in Seq(Cell) /\ Stream(buf' \o wire', whole2, Good', ended2)
    <3>1. (whole2 => whole) /\ (ended => ended2) /\ wire' = wire
          BY <1>2 DEF whole, ended
    <3> HIDE DEF whole2, ended2
    <3>2. buf # <<>> /\ Len(buf) >= 1 + len /\ Good \subseteq Good'
          BY <1>2, <2>5
    <3>3. ASSUME NEW w, NEW g, NEW d, w => whole, Good \subseteq g, ended => d
          PROVE  /\ SubSeq(buf, 2 + len, Len(buf)) \in Seq(Cell)
                 /\ Stream(SubSeq(buf, 2 + len, Len(buf)) \o wire, w, g, d)
      <4>1. /\ buf[1].len = len /\ len \in Nat /\ buf \in Seq(Cell) /\ wire \in Seq(Cell)
            /\ buf # <<>> /\ Len(buf) >= 1 + len
            BY <1>3, <1>6, <3>2
      <4>2. QED
            BY <1>5, <3>3, <4>1, FrameTaken
    <3>4. /\ SubSeq(buf, 2 + len, Len(buf)) \in Seq(Cell)
          /\ Stream(SubSeq(buf, 2 + len, Len(buf)) \o wire, whole2, Good', ended2)
          BY <3>1, <3>2, <3>3
    <3>5. QED
          BY <2>6, <3>1, <3>4
  <2>8. TypeOK'
    <3>1. i' \in Nat \ {0}
          BY <1>3, <2>1
    <3>2. QED
          BY <1>2, <2>1, <2>5, <2>7, <3>1 DEF IInv, TypeOK
  <2>9. Quiet'
        BY <1>2, <2>1 DEF Quiet
  <2>10. SigsOK'
        BY <1>2, <2>5, SigsKept DEF IInv
  <2>11. StreamOK'
        BY <2>7 DEF StreamOK
  <2>12. CatOK'
        BY <1>2, <2>1 DEF CatOK
  <2>13. QED
        BY <2>5, <2>8, <2>9, <2>10, <2>11, <2>12 DEF IInv
<1>10. QED
      BY <1>8, <1>9

\* DONE is the last frame, so that nothing is left behind it.
LEMMA TakeDoneKeeps ==
  ASSUME IInv, TakeDone
  PROVE  IInv'
<1> USE DEF locals, agent, history
<1> DEFINE whole == apc # "gone"
           ended == apc \in {"idle", "gone"}
<1>1. /\ pc = "recv" /\ pc' = "lock" /\ buf # <<>> /\ i > Len(files)
      /\ Head(buf).tag = "DONE" /\ buf' = Unread
      /\ toAgent' = toAgent \/ toAgent' = Append(toAgent, [tag |-> "QUIT"])
      /\ UNCHANGED <<files, i, written, out>>
      /\ UNCHANGED <<local, remote, locals, agent, wire, broken, used, history>>
      BY DEF TakeDone, Complete
<1>2. /\ buf \in Seq(Cell) /\ wire \in Seq(Cell) /\ toAgent \in Seq(ToAgent)
      /\ i \in Nat \ {0} /\ Len(files) \in Nat
      BY DEF IInv, TypeOK
<1>3. Stream(buf \o wire, whole, Good, ended)
      BY <1>1 DEF IInv, StreamOK
<1> HIDE DEF whole, ended
<1>4. /\ Head(buf) = buf[1] /\ buf[1].len = 0 /\ Len(buf) = 1 /\ wire = <<>> /\ ended
  <2>1. /\ Head(buf) = buf[1]
        /\ buf[1].tag = "DONE" => buf[1].len = 0 /\ Len(buf) = 1 /\ wire = <<>> /\ ended
        BY <1>1, <1>2, <1>3, FirstFrame
  <2>2. QED
        BY <1>1, <2>1
<1>5. buf' = <<>>
  <2>1. buf' = SubSeq(buf, 2, 1)
        BY <1>1, <1>4 DEF Unread
  <2>2. QED
        BY <2>1, SubSeqEmpty
<1>6. Usable \subseteq Usable'
      BY <1>1, UsableKept DEF SigSent
<1>7. TypeOK'
  <2>1. toAgent' \in Seq(ToAgent)
    <3> DEFINE q == [tag |-> "QUIT"]
    <3>1. q \in ToAgent
          BY DEF ToAgent
    <3> HIDE DEF q
    <3>2. Append(toAgent, q) \in Seq(ToAgent)
          BY <1>2, <3>1, AppendProperties
    <3>3. QED
          BY <1>1, <1>2, <3>2 DEF q
  <2>2. buf' \in Seq(Cell)
        BY <1>5, EmptySeq
  <2>3. QED
        BY <1>1, <2>1, <2>2 DEF IInv, TypeOK
<1>8. Progress'
  <2>1. i = Len(files) + 1 /\ i - 1 = Len(files)
        BY <1>1, <1>2 DEF IInv, Progress
  <2>2. \A k \in 1..Len(files) : Brought(files[k])
        BY <1>1, <2>1 DEF IInv, Progress
  <2>3. QED
        BY <1>1, <2>2 DEF IInv, Progress, Brought
<1>9. Quiet'
      BY <1>1, <1>4, <1>5 DEF Quiet, ended
<1>10. SigsOK'
      BY <1>1, <1>6, SigsKept DEF IInv
<1>11. StreamOK'
  <2>1. (buf = <<>> /\ wire = <<>> => StreamOK)'
        BY StreamEmpty, PTL
  <2>2. QED
        BY <1>1, <1>4, <1>5, <2>1
<1>12. CatOK'
      BY <1>1 DEF CatOK
<1>13. Versions'
      BY <1>1 DEF IInv, Versions, WholeFiles
<1>14. LockAsked'
      BY <1>1 DEF IInv, LockAsked
<1>15. QED
      BY <1>7, <1>8, <1>9, <1>10, <1>11, <1>12, <1>13, <1>14 DEF IInv

\* What is not due is refused.
LEMMA RefuseKeeps ==
  ASSUME IInv, Refuse
  PROVE  IInv'
<1>1. pc = "recv" /\ GiveUp /\ wire' = wire
      BY DEF Refuse, link
<1>2. UNCHANGED <<local, remote, locals, agent, toAgent, broken, used, history>>
      BY DEF Refuse, link
<1>3. QED
      BY <1>1, <1>2, GiveUpKeeps

-----------------------------------------------------------------------------
(* What cat sends.                                                          *)

\* The blocks of the file, then the exit status.
LEMMA CatCells ==
  ASSUME NEW c \in Copies
  PROVE  /\ Cat(c) \in Seq(Cell)
         /\ \A k \in 1..Len(Cat(c)) : Cat(c)[k] \in Blocks \cup {Exit(0), Exit(1)}
<1>1. CASE c = None
  <2>1. Cat(c) = <<Exit(1)>>
        BY <1>1 DEF Cat
  <2>2. Exit(1) \in Cell
        BY DEF Cell
  <2>3. QED
        BY <2>1, <2>2
<1>2. CASE c # None
  <2> DEFINE S == Blocks \cup {Exit(0), Exit(1)}
  <2>1. c \in Seq(S) /\ Exit(0) \in S
        BY <1>2, SeqMonotonic DEF Copies
  <2>2. S \subseteq Cell
        BY DEF Cell
  <2> HIDE DEF S
  <2>3. Cat(c) = Append(c, Exit(0)) /\ Append(c, Exit(0)) \in Seq(S)
        BY <1>2, <2>1, AppendProperties DEF Cat
  <2>4. Cat(c) \in Seq(S) /\ Cat(c) \in Seq(Cell)
        BY <2>2, <2>3, SeqMonotonic
  <2>5. \A k \in 1..Len(Cat(c)) : Cat(c)[k] \in S
        BY <2>4, ElementOfSeq
  <2>6. QED
        BY <2>4, <2>5 DEF S
<1>3. QED
      BY <1>1, <1>2

\* The exit status 0 comes behind the whole file only.
LEMMA CatGives ==
  ASSUME NEW c \in Copies, NEW o \in Seq(Blocks), Begins(o \o <<Exit(0)>>, Cat(c))
  PROVE  o = c
<1> DEFINE l == Len(o)
           s == o \o <<Exit(0)>>
<1>1. Exit(0) # Exit(1)
      BY DEF Exit
<1>2. l \in Nat /\ Len(s) = l + 1 /\ s[l + 1] = Exit(0) /\ \A k \in 1..l : s[k] = o[k]
  <2> DEFINE S == Blocks \cup {Exit(0)}
  <2>1. o \in Seq(S) /\ Exit(0) \in S
        BY SeqMonotonic
  <2> HIDE DEF S
  <2>2. s = Append(o, Exit(0))
        BY <2>1, AppendIsConcat
  <2>3. QED
        BY <2>1, <2>2, AppendProperties
<1> HIDE DEF s
<1>3. Len(s) <= Len(Cat(c)) /\ \A k \in 1..Len(s) : s[k] = Cat(c)[k]
      BY DEF Begins, s
<1>4. l + 1 \in 1..Len(s)
      BY <1>2
<1>5. CASE c = None
  <2>1. Cat(c) = <<Exit(1)>>
        BY <1>5 DEF Cat
  <2>2. Len(Cat(c)) = 1 /\ Cat(c)[1] = Exit(1)
        BY <2>1
  <2> HIDE DEF l
  <2>3. l + 1 = 1
        BY <1>2, <1>3, <2>2
  <2>4. QED
        BY <1>1, <1>2, <1>3, <1>4, <2>2, <2>3
<1>6. CASE c # None
  <2>1. c \in Seq(Blocks) /\ Len(c) \in Nat /\ Cat(c) = Append(c, Exit(0))
        BY <1>6 DEF Cat, Copies
  <2> DEFINE S == Blocks \cup {Exit(0)}
  <2>2. c \in Seq(S) /\ Exit(0) \in S
        BY <2>1, SeqMonotonic
  <2> HIDE DEF S
  <2>3. Len(Cat(c)) = Len(c) + 1 /\ \A k \in 1..Len(c) : Cat(c)[k] = c[k]
        BY <2>1, <2>2, AppendProperties
  <2>4. l + 1 \notin 1..Len(c)
    <3> SUFFICES ASSUME l + 1 \in 1..Len(c) PROVE FALSE
        OBVIOUS
    <3>1. c[l + 1] \in Blocks
          BY <2>1, ElementOfSeq
    <3>2. c[l + 1] = Exit(0)
          BY <1>2, <1>3, <1>4, <2>3
    <3>3. QED
          BY <3>1, <3>2, ExitAssumption
  <2>5. l = Len(c)
    <3> HIDE DEF l
    <3>1. QED
          BY <1>2, <1>3, <2>1, <2>3, <2>4
  <2>6. \A k \in 1..l : o[k] = c[k]
    <3>1. \A k \in 1..l : k \in 1..Len(s) /\ k \in 1..Len(c)
          BY <1>2, <2>5
    <3>2. QED
          BY <1>2, <1>3, <2>3, <3>1
  <2>7. QED
        BY <2>1, <2>5, <2>6, SeqEqual
<1>7. QED
      BY <1>5, <1>6

\* What is next is one of the cells still to come.
LEMMA NextCell ==
  ASSUME NEW o \in Seq(Cell), NEW w \in Seq(Cell), w # <<>>, NEW t, Len(t) \in Nat,
         Begins(o \o w, t)
  PROVE  \E k \in 1..Len(t) : Head(w) = t[k]
<1> DEFINE l == Len(o)
           x == Len(w)
<1>1. l \in Nat /\ x \in Nat \ {0} /\ Head(w) = w[1]
      BY EmptySeq
<1>2. /\ Len(o \o w) = l + x
      /\ \A k \in 1..(l + x) : (o \o w)[k] = IF k <= l THEN o[k] ELSE w[k - l]
      BY ConcatProperties
<1>3. Len(o \o w) <= Len(t) /\ \A k \in 1..Len(o \o w) : (o \o w)[k] = t[k]
      BY DEF Begins
<1> HIDE DEF l, x
<1>4. l + 1 \in 1..(l + x) /\ ~ (l + 1 <= l) /\ (l + 1) - l = 1 /\ l + 1 \in 1..Len(t)
      BY <1>1, <1>2, <1>3
<1>5. (o \o w)[l + 1] = w[1]
      BY <1>2, <1>4
<1>6. QED
      BY <1>1, <1>2, <1>3, <1>4, <1>5

\* Blocks are cells.
LEMMA BlocksAreCells ==
  ASSUME NEW o \in Seq(Blocks)
  PROVE  o \in Seq(Cell)
<1>1. Blocks \subseteq Cell
      BY DEF Cell
<1>2. QED
      BY <1>1, SeqMonotonic

-----------------------------------------------------------------------------
(* The steps of the client with cat.                                        *)

\* The next file, or the end of the list.
LEMMA GetKeeps ==
  ASSUME IInv, Get
  PROVE  IInv'
<1> USE DEF locals, agent, history
<1>1. /\ pc = "get" /\ buf = <<>> /\ wire = <<>>
      /\ UNCHANGED <<local, remote, locals, agent, toAgent, broken, used, history>>
      BY DEF Get, IInv, Quiet
<1>2. /\ files \in Seq(Names) /\ i \in Nat \ {0} /\ Len(files) \in Nat
      /\ remote \in [Names -> Copies] /\ i <= Len(files) + 1
      BY <1>1 DEF IInv, TypeOK, Progress
<1>3. CASE i <= Len(files) /\ broken
  <2>1. GiveUp /\ wire' = wire
        BY <1>2, <1>3 DEF Get
  <2>2. QED
        BY <1>1, <2>1, GiveUpKeeps
<1>4. CASE i > Len(files) \/ ~ broken
  <2>1. \/ i > Len(files) /\ pc' = "lock" /\ out' = out /\ wire' = <<>>
        \/ i <= Len(files) /\ pc' = "getting" /\ out' = <<>> /\ wire' = Cat(remote[files[i]])
        BY <1>1, <1>2, <1>4 DEF Get
  <2>2. UNCHANGED <<files, i, written, buf>>
        BY <1>1, <1>2, <1>4 DEF Get
  <2>3. ASSUME i <= Len(files)
        PROVE  /\ Cat(remote[files[i]]) \in Seq(Cell)
               /\ remote[files[i]] \in held[files[i]]
    <3>1. i \in 1..Len(files)
          BY <1>2, <2>3
    <3>2. files[i] \in Names
          BY <1>2, <3>1, ElementOfSeq
    <3>3. QED
          BY <1>2, <3>2, CatCells DEF IInv, Versions
  <2>4. Usable \subseteq Usable'
        BY <1>1, <2>1, <2>2, UsableKept DEF SigSent
  <2>5. TypeOK'
    <3>1. wire' \in Seq(Cell) /\ out' \in Seq(Blocks)
          BY <1>1, <2>1, <2>3, EmptySeq, ZenonT(60) DEF IInv, TypeOK
    <3>2. pc' \in {"lock", "getting"}
          BY <2>1
    <3>3. QED
          BY <1>1, <2>2, <3>1, <3>2 DEF IInv, TypeOK
  <2>6. Progress'
    <3>1. i > Len(files) => i - 1 = Len(files)
          BY <1>2
    <3>2. QED
          BY <1>1, <2>1, <2>2, <3>1 DEF IInv, Progress, Brought
  <2>7. Quiet'
        BY <1>1, <2>1, <2>2 DEF IInv, Quiet
  <2>8. SigsOK'
        BY <1>1, <2>4, SigsKept DEF IInv
  <2>9. StreamOK'
    <3>1. CASE pc' = "lock"
      <4>1. (buf = <<>> /\ wire = <<>> => StreamOK)'
            BY StreamEmpty, PTL
      <4>2. QED
            BY <1>1, <2>1, <2>2, <3>1, <4>1
    <3>2. CASE pc' = "getting"
          BY <3>2 DEF StreamOK
    <3>3. QED
          BY <2>1, <3>1, <3>2
  <2>10. CatOK'
    <3> SUFFICES ASSUME pc' = "getting"
                 PROVE  Begins(out' \o wire', Cat(remote[files[i]]))
        BY <1>1, <2>1, <2>2, <2>3 DEF CatOK
    <3>1. out' \o wire' = Cat(remote[files[i]])
          BY <2>1, <2>3, ConcatEmptySeq
    <3>2. QED
          BY <3>1 DEF Begins
  <2>11. Versions'
        BY <1>1 DEF IInv, Versions, WholeFiles
  <2>12. LockAsked'
        BY <1>1, <2>1 DEF IInv, LockAsked
  <2>13. QED
        BY <2>5, <2>6, <2>7, <2>8, <2>9, <2>10, <2>11, <2>12 DEF IInv
<1>5. QED
      BY <1>2, <1>3, <1>4

\* What cat is to send when it sends Cargo.lock.
LEMMA LockCells ==
  Append(NewLock, Exit(0)) = Cat(NewLock) /\ NewLock \in Copies
BY LockAssumption, NoneAssumption DEF Cat, Copies

\* Blocks move from what is to come to what has come.
LEMMA DataKeeps ==
  ASSUME IInv, Data
  PROVE  IInv'
<1> USE DEF locals, agent, history
<1>1. /\ pc \in {"getting", "locking"} /\ wire # <<>> /\ Head(wire) \notin {Exit(0), Exit(1)}
      /\ out' = Append(out, Head(wire)) /\ wire' = Tail(wire)
      /\ UNCHANGED <<pc, files, i, written, buf>>
      /\ UNCHANGED <<local, remote, locals, agent, toAgent, broken, used, history>>
      BY DEF Data
<1>2. out \in Seq(Blocks) /\ wire \in Seq(Cell) /\ held \in [Names -> SUBSET Copies]
      BY DEF IInv, TypeOK
<1>3. out \in Seq(Cell)
      BY <1>2, BlocksAreCells
<1>4. PICK c \in Copies : Begins(out \o wire, Cat(c))
  <2>1. CASE pc = "getting"
    <3>1. PICK c \in held[files[i]] : Begins(out \o wire, Cat(c))
          BY <2>1 DEF IInv, CatOK
    <3>2. files[i] \in Names
      <4>1. /\ files \in Seq(Names) /\ i \in Nat \ {0} /\ Len(files) \in Nat
            /\ i <= Len(files)
            BY <2>1 DEF IInv, TypeOK, Progress
      <4>2. i \in 1..Len(files)
            BY <4>1
      <4>3. QED
            BY <4>1, <4>2, ElementOfSeq
    <3>3. QED
          BY <1>2, <3>1, <3>2
  <2>2. CASE pc = "locking"
        BY <2>2, LockCells DEF IInv, CatOK
  <2>3. QED
        BY <1>1, <2>1, <2>2
<1>5. Head(wire) \in Blocks
  <2> DEFINE t == Cat(c)
  <2>1. t \in Seq(Cell) /\ \A k \in 1..Len(t) : t[k] \in Blocks \cup {Exit(0), Exit(1)}
        BY CatCells
  <2>2. Begins(out \o wire, t)
        BY <1>4
  <2> HIDE DEF t
  <2>3. Len(t) \in Nat
        BY <2>1
  <2>4. PICK k \in 1..Len(t) : Head(wire) = t[k]
        BY <1>1, <1>2, <1>3, <2>2, <2>3, NextCell
  <2>5. QED
        BY <1>1, <2>1, <2>4
<1>6. out' \o wire' = out \o wire /\ wire' \in Seq(Cell) /\ out' \in Seq(Blocks)
  <2>1. Append(out, Head(wire)) \in Seq(Blocks)
        BY <1>2, <1>5, AppendProperties
  <2>2. QED
        BY <1>1, <1>2, <1>3, <2>1, HeadMoves
<1>7. Usable \subseteq Usable'
      BY <1>1, UsableKept DEF SigSent
<1>8. TypeOK'
      BY <1>1, <1>6 DEF IInv, TypeOK
<1>9. Progress'
      BY <1>1 DEF IInv, Progress, Brought
<1>10. Quiet'
      BY <1>1 DEF IInv, Quiet
<1>11. SigsOK'
      BY <1>1, <1>7, SigsKept DEF IInv
<1>12. StreamOK'
      BY <1>1 DEF StreamOK
<1>13. CatOK'
      BY <1>1, <1>6 DEF IInv, CatOK
<1>14. Versions'
      BY <1>1 DEF IInv, Versions, WholeFiles
<1>15. LockAsked'
      BY <1>1 DEF IInv, LockAsked
<1>16. QED
      BY <1>8, <1>9, <1>10, <1>11, <1>12, <1>13, <1>14, <1>15 DEF IInv

\* The file is renamed when all of it has come.
LEMMA GotKeeps ==
  ASSUME IInv, Got
  PROVE  IInv'
<1> USE DEF locals, agent, history
<1>1. /\ pc = "getting" /\ wire' = <<>> /\ buf = <<>>
      /\ UNCHANGED <<remote, locals, agent, toAgent, broken, used, history>>
      BY DEF Got, IInv, Quiet
<1>2. /\ files \in Seq(Names) /\ i \in Nat \ {0} /\ Len(files) \in Nat /\ i <= Len(files)
      /\ out \in Seq(Blocks) /\ held \in [Names -> SUBSET Copies]
      BY <1>1 DEF IInv, TypeOK, Progress
<1>3. PICK n \in Names : n = files[i]
  <2>1. i \in 1..Len(files)
        BY <1>2
  <2>2. QED
        BY <1>2, <2>1, ElementOfSeq
<1>4. CASE wire # <<Exit(0)>>
  <2>1. GiveUp /\ UNCHANGED local
        BY <1>4 DEF Got
  <2>2. QED
        BY <1>1, <2>1, GiveUpKeeps
<1>5. CASE wire = <<Exit(0)>>
  <2>1. /\ local' = [local EXCEPT ![n] = out] /\ written' = written \cup {n}
        /\ i' = i + 1 /\ pc' = "get" /\ out' = <<>> /\ UNCHANGED <<files, buf>>
        BY <1>3, <1>5 DEF Got
  <2>2. PICK c \in held[n] : Begins(out \o wire, Cat(c))
        BY <1>1, <1>3 DEF IInv, CatOK
  <2>3. out = c
        BY <1>2, <1>3, <1>5, <2>2, CatGives
  <2>4. out \in Copies /\ out \in held[n]
        BY <1>2, <2>3 DEF Copies
  <2>5. /\ local' \in [Names -> Copies] /\ written' \in SUBSET Names
        /\ Progress' /\ Versions' /\ LockAsked'
        /\ Usable \subseteq Usable' /\ Good \subseteq Good'
        BY <1>1, <1>2, <1>3, <2>1, <2>4, BringKeeps
  <2>6. TypeOK'
    <3>1. wire' \in Seq(Cell) /\ out' \in Seq(Blocks) /\ i' \in Nat \ {0}
          BY <1>1, <1>2, <2>1, EmptySeq
    <3>2. QED
          BY <1>1, <2>1, <2>5, <3>1 DEF IInv, TypeOK
  <2>7. Quiet'
        BY <1>1, <2>1 DEF IInv, Quiet
  <2>8. SigsOK'
        BY <1>1, <2>5, SigsKept DEF IInv
  <2>9. StreamOK'
    <3>1. (buf = <<>> /\ wire = <<>> => StreamOK)'
          BY StreamEmpty, PTL
    <3>2. QED
          BY <1>1, <2>1, <3>1
  <2>10. CatOK'
        BY <2>1 DEF CatOK
  <2>11. QED
        BY <2>5, <2>6, <2>7, <2>8, <2>9, <2>10 DEF IInv
<1>6. QED
      BY <1>4, <1>5

\* Cargo.lock is asked for.
LEMMA GetLockKeeps ==
  ASSUME IInv, GetLock
  PROVE  IInv'
<1> USE DEF locals, agent, history
<1>1. /\ pc = "lock" /\ buf = <<>> /\ wire = <<>>
      /\ UNCHANGED <<local, remote, locals, agent, toAgent, broken, used, history>>
      BY DEF GetLock, IInv, Quiet
<1>2. CASE broken
  <2>1. GiveUp /\ wire' = wire
        BY <1>2 DEF GetLock
  <2>2. QED
        BY <1>1, <2>1, GiveUpKeeps
<1>3. CASE ~ broken
  <2>1. /\ pc' = "locking" /\ out' = <<>> /\ wire' = Cat(NewLock)
        /\ UNCHANGED <<files, i, written, buf>>
        BY <1>3, LockCells DEF GetLock
  <2>2. Cat(NewLock) \in Seq(Cell) /\ Len(Cat(NewLock)) = Len(NewLock) + 1
    <3> DEFINE S == Blocks \cup {Exit(0)}
    <3>1. NewLock \in Seq(S) /\ Exit(0) \in S
          BY LockAssumption, SeqMonotonic
    <3> HIDE DEF S
    <3>2. Len(Cat(NewLock)) = Len(NewLock) + 1
          BY <3>1, LockCells, AppendProperties
    <3>3. QED
          BY <3>2, LockCells, CatCells
  <2>3. out' \o wire' = Cat(NewLock)
        BY <2>1, <2>2, ConcatEmptySeq
  <2>4. Usable \subseteq Usable'
        BY <1>1, <2>1, UsableKept DEF SigSent
  <2>5. TypeOK'
    <3>1. wire' \in Seq(Cell) /\ out' \in Seq(Blocks)
          BY <2>1, <2>2, EmptySeq
    <3>2. QED
          BY <1>1, <2>1, <3>1 DEF IInv, TypeOK
  <2>6. Progress'
        BY <1>1, <2>1 DEF IInv, Progress, Brought
  <2>7. Quiet'
        BY <1>1, <2>1 DEF IInv, Quiet
  <2>8. SigsOK'
        BY <1>1, <2>4, SigsKept DEF IInv
  <2>9. StreamOK'
        BY <2>1 DEF StreamOK
  <2>10. CatOK'
    <3>1. Begins(out' \o wire', Append(NewLock, Exit(0)))
      <4>1. Begins(Cat(NewLock), Cat(NewLock))
            BY <2>2 DEF Begins
      <4>2. QED
            BY <2>3, <4>1, LockCells
    <3>2. Len(out' \o wire') = Len(NewLock) + 1
          BY <2>2, <2>3
    <3>3. QED
          BY <2>1, <3>1, <3>2 DEF CatOK
  <2>11. Versions'
        BY <1>1 DEF IInv, Versions, WholeFiles
  <2>12. LockAsked'
        BY <1>1, <2>1 DEF IInv, LockAsked
  <2>13. QED
        BY <2>5, <2>6, <2>7, <2>8, <2>9, <2>10, <2>11, <2>12 DEF IInv
<1>4. QED
      BY <1>2, <1>3

\* Unless the connection is lost, the whole remote Cargo.lock has come.
LEMMA ApplyLockKeeps ==
  ASSUME IInv, ApplyLock
  PROVE  IInv'
<1> USE DEF agent, history
<1>1. /\ pc = "locking" /\ Closed /\ buf = <<>> /\ wire' = <<>> /\ pc' = "done"
      /\ lock' = (IF out # <<>> /\ out # lock /\ update THEN out ELSE lock)
      /\ side' = (IF out # <<>> /\ out # lock /\ ~ update THEN out ELSE side)
      /\ UNCHANGED <<files, i, written, buf, out, update, agentRuns>>
      /\ UNCHANGED <<local, remote, agent, toAgent, broken, used, history>>
      BY DEF ApplyLock, IInv, Quiet
<1>2. /\ out \in Seq(Blocks) /\ lock \in Seq(Blocks) /\ side \in Copies /\ update \in BOOLEAN
      BY DEF IInv, TypeOK
<1>3. ASSUME ~ broken
      PROVE  out = NewLock
  <2>1. /\ Begins(out \o wire, Cat(NewLock)) /\ Len(out \o wire) = Len(NewLock) + 1
        BY <1>1, <1>3, LockCells DEF IInv, CatOK
  <2>2. PICK e \in Cell : wire = <<e>>
    <3>1. Exit(0) \in Cell /\ Exit(1) \in Cell
          BY DEF Cell
    <3>2. QED
          BY <1>1, <1>3, <3>1 DEF Closed
  <2>3. Len(out) \in Nat /\ Len(NewLock) \in Nat /\ Len(out \o wire) = Len(out) + 1
        /\ \A k \in 1..Len(out) : (out \o wire)[k] = out[k]
    <3>1. out \in Seq(Cell)
          BY <1>2, BlocksAreCells
    <3>2. out \o wire = Append(out, e)
          BY <2>2, <3>1, AppendIsConcat
    <3>3. Len(out) \in Nat /\ Len(NewLock) \in Nat
          BY <1>2, LockAssumption
    <3>4. QED
          BY <2>2, <3>1, <3>2, <3>3, AppendProperties
  <2>4. Len(out) = Len(NewLock)
        BY <2>1, <2>3
  <2>5. \A k \in 1..Len(NewLock) : Cat(NewLock)[k] = NewLock[k]
    <3> DEFINE S == Blocks \cup {Exit(0)}
    <3>1. NewLock \in Seq(S) /\ Exit(0) \in S
          BY LockAssumption, SeqMonotonic
    <3> HIDE DEF S
    <3>2. QED
          BY <3>1, LockCells, AppendProperties
  <2>6. \A k \in 1..Len(out) : out[k] = NewLock[k]
    <3>1. \A k \in 1..Len(out) : k \in 1..Len(out \o wire)
          BY <2>3
    <3>2. QED
          BY <2>1, <2>3, <2>4, <2>5, <3>1 DEF Begins
  <2>7. QED
        BY <1>2, <2>4, <2>6, LockAssumption, SeqEqual
<1>4. Usable \subseteq Usable'
      BY <1>1, UsableKept DEF SigSent
<1>5. TypeOK'
  <2>1. wire' \in Seq(Cell) /\ lock' \in Seq(Blocks) /\ side' \in Copies
        BY <1>1, <1>2, EmptySeq DEF Copies
  <2>2. QED
        BY <1>1, <2>1 DEF IInv, TypeOK
<1>6. Progress'
      BY <1>1 DEF IInv, Progress, Brought
<1>7. Quiet'
      BY <1>1 DEF IInv, Quiet
<1>8. SigsOK'
      BY <1>1, <1>4, SigsKept DEF IInv
<1>9. StreamOK'
  <2>1. (buf = <<>> /\ wire = <<>> => StreamOK)'
        BY StreamEmpty, PTL
  <2>2. QED
        BY <1>1, <2>1
<1>10. CatOK'
      BY <1>1 DEF CatOK
<1>11. Versions'
      BY <1>1 DEF IInv, Versions, WholeFiles
<1>12. LockAsked'
  <2>1. (~ update => lock = OldLock) /\ (update => side = None)
        BY DEF IInv, LockAsked
  <2>2. ~ broken => NewLock \in {lock', side'}
        BY <1>1, <1>2, <1>3, LockAssumption
  <2>3. QED
        BY <1>1, <1>2, <2>1, <2>2 DEF LockAsked
<1>13. QED
      BY <1>5, <1>6, <1>7, <1>8, <1>9, <1>10, <1>11, <1>12 DEF IInv

-----------------------------------------------------------------------------
(* The steps of the agent.                                                  *)

\* What is taken from the frames on their way to the agent.
LEMMA AgentTakes ==
  ASSUME TypeOK, toAgent # <<>>, toAgent' = Tail(toAgent)
  PROVE  toAgent' \in Seq(ToAgent) /\ Head(toAgent) = toAgent[1] /\ Head(toAgent) \in ToAgent
         /\ 1 \in 1..Len(toAgent)
<1>1. toAgent \in Seq(ToAgent)
      BY DEF TypeOK
<1>2. Len(toAgent) \in Nat \ {0}
      BY <1>1, EmptySeq
<1>3. QED
      BY <1>1, <1>2, HeadTailProperties

\* The agent begins.
LEMMA RequestKeeps ==
  ASSUME IInv, Request
  PROVE  IInv'
<1> USE DEF locals, client, history
<1>1. /\ apc = "off" /\ apc' = "sigs" /\ toAgent # <<>> /\ toAgent' = Tail(toAgent)
      /\ UNCHANGED <<local, remote, locals, client, sigs, j, wire, broken, used, history>>
      BY DEF Request
<1>2. /\ Progress' /\ Versions' /\ LockAsked'
      /\ Usable \subseteq Usable' /\ Good \subseteq Good'
      BY <1>1, ClientKept
<1>3. TypeOK'
  <2>1. toAgent' \in Seq(ToAgent)
        BY <1>1, AgentTakes DEF IInv
  <2>2. QED
        BY <1>1, <2>1 DEF IInv, TypeOK
<1>4. Quiet'
      BY <1>1 DEF IInv, Quiet
<1>5. SigsOK'
      BY <1>1, <1>2, SigsKept DEF IInv
<1>6. StreamOK'
      BY <1>1, <1>2, <1>3, StreamKept DEF IInv
<1>7. CatOK'
      BY <1>1 DEF IInv, CatOK
<1>8. QED
      BY <1>2, <1>3, <1>4, <1>5, <1>6, <1>7 DEF IInv

\* The signature that is filed is one that has been on its way.
LEMMA TakeSigKeeps ==
  ASSUME IInv, TakeSig
  PROVE  IInv'
<1> USE DEF locals, client, history
<1>1. PICK f : f = Head(toAgent)
      OBVIOUS
<1>2. /\ apc = "sigs" /\ apc' \in {"sigs", "answer"} /\ j' \in {1, j + 1}
      /\ toAgent # <<>> /\ toAgent' = Tail(toAgent) /\ f.tag = "FETCH_SIG"
      /\ sigs' = [sigs EXCEPT ![f.path] = f.sig]
      /\ UNCHANGED <<local, remote, locals, client, wire, broken, used, history>>
      BY <1>1 DEF TakeSig
<1>3. /\ Progress' /\ Versions' /\ LockAsked'
      /\ Usable \subseteq Usable' /\ Good \subseteq Good'
      BY <1>2, ClientKept
<1>4. /\ toAgent' \in Seq(ToAgent) /\ f = toAgent[1] /\ f \in ToAgent /\ 1 \in 1..Len(toAgent)
      BY <1>1, <1>2, AgentTakes DEF IInv
<1>5. f.path \in Names /\ f.sig \in Copies
      BY <1>2, <1>4 DEF ToAgent
<1>6. <<f.path, f.sig>> \in Usable
      BY <1>2, <1>4 DEF IInv, SigsOK
<1>7. sigs \in [Names -> Copies] /\ j \in Nat \ {0}
      BY DEF IInv, TypeOK
<1>8. TypeOK'
  <2>1. sigs' \in [Names -> Copies] /\ j' \in Nat \ {0}
        BY <1>2, <1>5, <1>7
  <2>2. QED
        BY <1>2, <1>4, <2>1 DEF IInv, TypeOK
<1>9. Quiet'
      BY <1>2 DEF IInv, Quiet
<1>10. SigsOK'
  <2>1. \A n \in Names : <<n, sigs'[n]>> \in Usable'
    <3> SUFFICES ASSUME NEW n \in Names PROVE <<n, sigs'[n]>> \in Usable
        BY <1>3
    <3>1. CASE n = f.path
          BY <1>2, <1>6, <1>7, <3>1
    <3>2. CASE n # f.path
          BY <1>2, <1>7, <3>2 DEF IInv, SigsOK
    <3>3. QED
          BY <3>1, <3>2
  <2>2. \A k \in 1..Len(toAgent') :
          toAgent'[k].tag = "FETCH_SIG" => <<toAgent'[k].path, toAgent'[k].sig>> \in Usable'
    <3> SUFFICES ASSUME NEW k \in 1..Len(toAgent')
                 PROVE  toAgent'[k].tag = "FETCH_SIG" =>
                          <<toAgent'[k].path, toAgent'[k].sig>> \in Usable
        BY <1>3
    <3>1. toAgent \in Seq(ToAgent) /\ Len(toAgent) \in Nat
          BY DEF IInv, TypeOK
    <3>2. Len(toAgent') = Len(toAgent) - 1 /\ toAgent'[k] = toAgent[k + 1]
          BY <1>2, <3>1, HeadTailProperties
    <3>3. k + 1 \in 1..Len(toAgent)
          BY <3>1, <3>2
    <3>4. QED
          BY <3>2, <3>3 DEF IInv, SigsOK
  <2>3. QED
        BY <2>1, <2>2 DEF SigsOK
<1>11. StreamOK'
      BY <1>2, <1>3, <1>8, StreamKept DEF IInv
<1>12. CatOK'
      BY <1>2 DEF IInv, CatOK
<1>13. QED
      BY <1>3, <1>8, <1>9, <1>10, <1>11, <1>12 DEF IInv

\* A frame is its header and so many cells.
LEMMA FrameShape ==
  ASSUME NEW tag \in {"FETCHED", "DONE", "ERROR"}, NEW payload \in Seq(Cell)
  PROVE  LET f == Frame(tag, payload)
         IN  /\ f \in Seq(Cell) /\ f # <<>> /\ f[1] \in Header
             /\ f[1].tag = tag /\ f[1].len = Len(payload) /\ Len(payload) \in Nat
             /\ Len(f) = 1 + Len(payload) /\ SubSeq(f, 2, 1 + Len(payload)) = payload
<1> DEFINE hdr == [len |-> Len(payload), tag |-> tag]
           l == Len(payload)
           f == <<hdr>> \o payload
<1>1. l \in Nat
      OBVIOUS
<1>2. hdr \in Header /\ hdr.tag = tag /\ hdr.len = l
      BY <1>1 DEF Header
<1> HIDE DEF hdr
<1>3. hdr \in Cell
      BY <1>2 DEF Cell
<1>4. <<hdr>> \in Seq(Cell) /\ Len(<<hdr>>) = 1 /\ <<hdr>>[1] = hdr
      BY <1>3
<1> DEFINE h == <<hdr>>
<1> HIDE DEF h
<1>5. h \in Seq(Cell) /\ Len(h) = 1 /\ h[1] = hdr
      BY <1>4 DEF h
<1>6. f = h \o payload
      BY DEF h
<1>7. f \in Seq(Cell) /\ Len(f) = 1 + l
      /\ \A k \in 1..(1 + l) : f[k] = IF k <= 1 THEN h[k] ELSE payload[k - 1]
      BY <1>5, <1>6, ConcatProperties
<1> HIDE DEF f
<1>8. f # <<>> /\ f[1] = hdr
      BY <1>1, <1>5, <1>7
<1>9. SubSeq(f, 2, 1 + l) = payload
  <2>1. \A k \in 1..l : payload[k] = f[k + 1]
    <3> SUFFICES ASSUME NEW k \in 1..l PROVE payload[k] = f[k + 1]
        OBVIOUS
    <3>1. k + 1 \in 1..(1 + l) /\ ~ (k + 1 <= 1) /\ (k + 1) - 1 = k
          BY <1>1
    <3>2. QED
          BY <1>7, <3>1
  <2>2. l <= Len(payload) /\ l + 1 <= Len(f) /\ 1 \in Nat \ {0} /\ 1 \in Nat
        BY <1>1, <1>7
  <2>3. SubSeq(payload, 1, l) = SubSeq(f, 1 + 1, l + 1)
        BY <1>1, <1>7, <2>1, <2>2, SamePart
  <2>4. 1 + 1 = 2 /\ l + 1 = 1 + l /\ SubSeq(payload, 1, l) = payload
        BY <1>1, SubSeqFull
  <2>5. QED
        BY <2>3, <2>4
<1>10. QED
      BY <1>1, <1>2, <1>7, <1>8, <1>9 DEF Frame, f, hdr

\* The answer for a file brings what it holds.
LEMMA FetchedIsGood ==
  ASSUME IInv, NEW n \in Names
  PROVE  LET f == Fetched(n, remote[n])
         IN  \E m \in Nat :
               /\ f \in Seq(Cell) /\ f # <<>> /\ f[1] \in Header /\ f[1].tag = "FETCHED"
               /\ f[1].len = m /\ Len(f) = 1 + m /\ m > 0 /\ SubSeq(f, 2, 1 + m) \in Good
<1>1. PICK content, sig : content = remote[n] /\ sig = sigs[n]
      OBVIOUS
<1> DEFINE delta == Delta(content, sig)
           isDelta == content # None /\ sig # None /\ IsShorter(delta)
           hdr == [path |-> n, exists |-> content # None, delta |-> isDelta]
           data == IF content = None THEN <<>> ELSE IF isDelta THEN delta ELSE content
           payload == <<hdr>> \o data
<1>2. Fetched(n, remote[n]) = Frame("FETCHED", payload)
      BY <1>1 DEF Fetched, Packed
<1>3. /\ content \in Copies /\ sig \in Copies /\ content \in held[n] /\ <<n, sig>> \in Usable
      BY <1>1 DEF IInv, TypeOK, Versions, SigsOK
<1>4. hdr \in FileHeader /\ hdr.path = n /\ (hdr.exists <=> content # None) /\ (hdr.delta <=> isDelta)
  <2>1. isDelta \in BOOLEAN /\ (content # None) \in BOOLEAN
        OBVIOUS
  <2> HIDE DEF isDelta
  <2>2. QED
        BY <2>1 DEF FileHeader
<1>5. isDelta => content \in Seq(Blocks) /\ sig \in Seq(Blocks)
      BY <1>3 DEF Copies
<1>6. data \in Seq(Cell)
  <2>1. CASE content = None
        BY <2>1, EmptySeq
  <2>2. CASE isDelta
    <3>1. delta \in Seq(DeltaOp)
          BY <1>5, <2>2, DeltaRoundTrip
    <3>2. DeltaOp \subseteq Cell
          BY DEF Cell
    <3>3. data = delta
          BY <2>2
    <3> HIDE DEF delta, data
    <3>4. QED
          BY <3>1, <3>2, <3>3, SeqMonotonic
  <2>3. CASE content # None /\ ~ isDelta
    <3>1. content \in Seq(Blocks) /\ data = content
          BY <1>3, <2>3 DEF Copies
    <3>2. QED
          BY <3>1, BlocksAreCells
  <2>4. QED
        BY <2>1, <2>2, <2>3
<1>7. Brings(hdr, data)
  <2>1. hdr.exists /\ ~ hdr.delta => data \in Seq(Blocks) /\ data \in held[hdr.path]
        BY <1>3, <1>4 DEF Copies
  <2>2. hdr.exists /\ hdr.delta => data = Delta(content, sig)
        BY <1>4
  <2>3. ~ hdr.exists => None \in held[hdr.path]
        BY <1>3, <1>4
  <2>4. hdr.exists /\ hdr.delta => content \in Seq(Blocks) /\ sig \in Seq(Blocks)
        BY <1>4, <1>5
  <2> HIDE DEF hdr, data, delta
  <2>5. QED
        BY <1>3, <1>4, <2>1, <2>2, <2>3, <2>4 DEF Brings
<1> HIDE DEF hdr, data
<1>8. hdr \in Cell
      BY <1>4 DEF Cell
<1>9. <<hdr>> \in Seq(Cell) /\ Len(<<hdr>>) = 1 /\ <<hdr>>[1] = hdr
      BY <1>8
<1>10. /\ payload \in Seq(Cell) /\ payload # <<>> /\ Len(payload) \in Nat /\ Len(payload) > 0
       /\ Head(payload) = hdr /\ Tail(payload) = data
  <2>1. payload \in Seq(Cell) /\ Len(payload) = 1 + Len(data)
        BY <1>6, <1>9, ConcatProperties
  <2>2. Len(data) \in Nat
        BY <1>6
  <2>3. Head(payload) = hdr /\ Tail(payload) = data
        BY <1>6, <1>8
  <2> HIDE DEF payload
  <2>4. Len(payload) \in Nat /\ Len(payload) > 0 /\ payload # <<>>
        BY <2>1, <2>2
  <2>5. QED
        BY <2>1, <2>3, <2>4
<1>11. payload \in Good
      BY <1>7, <1>10 DEF Good
<1> HIDE DEF payload
<1> DEFINE f == Frame("FETCHED", payload)
<1>12. /\ f \in Seq(Cell) /\ f # <<>> /\ f[1] \in Header
       /\ f[1].tag = "FETCHED" /\ f[1].len = Len(payload)
       /\ Len(f) = 1 + Len(payload) /\ SubSeq(f, 2, 1 + Len(payload)) = payload
      BY <1>10, FrameShape
<1> HIDE DEF f
<1>13. QED
      BY <1>2, <1>10, <1>11, <1>12 DEF f

\* A frame goes behind the stream.
LEMMA FrameSent ==
  ASSUME TypeOK, StreamOK, pc \notin {"getting", "locking"}, apc \notin {"idle", "gone"},
         Good \subseteq Good', NEW f \in Seq(Cell), f # <<>>, f[1] \in Header,
         NEW m \in Nat, f[1].len = m, Len(f) = 1 + m,
         f[1].tag = "FETCHED" => m > 0 /\ SubSeq(f, 2, 1 + m) \in Good,
         f[1].tag = "DONE" => m = 0 /\ apc' = "idle",
         buf' = buf, wire' = wire \o f
  PROVE  StreamOK' /\ wire' \in Seq(Cell)
<1> DEFINE whole == apc' # "gone"
           ended == apc' \in {"idle", "gone"}
<1>1. buf \in Seq(Cell) /\ wire \in Seq(Cell)
      BY DEF TypeOK
<1>2. Stream(buf \o wire, TRUE, Good, FALSE)
  <2>1. (apc # "gone") = TRUE /\ (apc \in {"idle", "gone"}) = FALSE
        OBVIOUS
  <2>2. QED
        BY <2>1 DEF StreamOK
<1>3. buf \o wire \in Seq(Cell) /\ wire \o f \in Seq(Cell)
      BY <1>1, ConcatProperties
<1>4. /\ f[1].tag = "FETCHED" => m > 0 /\ SubSeq(f, 2, 1 + m) \in Good'
      /\ f[1].tag = "DONE" => m = 0 /\ ended
      OBVIOUS
<1> HIDE DEF whole, ended
<1>5. Stream((buf \o wire) \o f, whole, Good', ended)
      BY <1>2, <1>3, <1>4, StreamGrows
<1>6. (buf \o wire) \o f = buf' \o wire'
      BY <1>1, ConcatAssociative
<1>7. QED
      BY <1>3, <1>5, <1>6 DEF StreamOK, whole, ended

\* A FETCHED for each file, then DONE.
LEMMA AnswerKeeps ==
  ASSUME IInv, Answer
  PROVE  IInv'
<1> USE DEF locals, client, history
<1>1. /\ apc = "answer" /\ apc' \in {"answer", "idle"}
      /\ UNCHANGED <<local, remote, locals, client, sigs, toAgent, broken, used, history>>
      BY DEF Answer
<1>2. pc \notin {"getting", "locking"}
      BY <1>1 DEF IInv, Quiet
<1>3. /\ Progress' /\ Versions' /\ LockAsked'
      /\ Usable \subseteq Usable' /\ Good \subseteq Good'
      BY <1>1, ClientKept
<1>4. files \in Seq(Names) /\ j \in Nat \ {0} /\ Len(files) \in Nat
      BY DEF IInv, TypeOK
<1>5. StreamOK' /\ wire' \in Seq(Cell) /\ j' \in Nat \ {0}
  <2>1. CASE j <= Len(files)
    <3>1. PICK n \in Names : n = files[j]
      <4>1. j \in 1..Len(files)
            BY <1>4, <2>1
      <4>2. QED
            BY <1>4, <4>1, ElementOfSeq
    <3> DEFINE f == Fetched(n, remote[n])
    <3>2. PICK m \in Nat :
            /\ f \in Seq(Cell) /\ f # <<>> /\ f[1] \in Header /\ f[1].tag = "FETCHED"
            /\ f[1].len = m /\ Len(f) = 1 + m /\ m > 0 /\ SubSeq(f, 2, 1 + m) \in Good
          BY FetchedIsGood
    <3>3. wire' = wire \o f /\ j' = j + 1 /\ buf' = buf
          BY <2>1, <3>1 DEF Answer
    <3> HIDE DEF f
    <3>4. StreamOK' /\ wire' \in Seq(Cell)
          BY <1>1, <1>2, <1>3, <3>2, <3>3, FrameSent DEF IInv
    <3>5. QED
          BY <1>4, <3>3, <3>4
  <2>2. CASE ~ (j <= Len(files))
    <3> DEFINE f == Frame("DONE", <<>>)
    <3>1. <<>> \in Seq(Cell) /\ Len(<<>>) = 0
          BY EmptySeq
    <3>2. /\ f \in Seq(Cell) /\ f # <<>> /\ f[1] \in Header /\ f[1].tag = "DONE"
          /\ f[1].len = Len(<<>>) /\ Len(f) = 1 + Len(<<>>)
      <4>1. "DONE" \in {"FETCHED", "DONE", "ERROR"}
            OBVIOUS
      <4>2. QED
            BY <3>1, <4>1, FrameShape, Zenon
    <3>3. wire' = wire \o f /\ j' = j /\ buf' = buf /\ apc' = "idle"
          BY <2>2 DEF Answer
    <3> HIDE DEF f
    <3>4. StreamOK' /\ wire' \in Seq(Cell)
          BY <1>1, <1>2, <1>3, <3>1, <3>2, <3>3, FrameSent DEF IInv
    <3>5. QED
          BY <1>4, <3>3, <3>4
  <2>3. QED
        BY <2>1, <2>2
<1>6. TypeOK'
      BY <1>1, <1>5 DEF IInv, TypeOK
<1>7. Quiet'
      BY <1>1 DEF IInv, Quiet
<1>8. SigsOK'
      BY <1>1, <1>3, SigsKept DEF IInv
<1>9. CatOK'
      BY <1>1, <1>2 DEF CatOK
<1>10. QED
      BY <1>3, <1>5, <1>6, <1>7, <1>8, <1>9 DEF IInv

\* The agent leaves when it is told to.
LEMMA LeaveKeeps ==
  ASSUME IInv, Leave
  PROVE  IInv'
<1> USE DEF locals, client, history
<1>1. /\ apc = "idle" /\ apc' = "gone" /\ toAgent # <<>> /\ toAgent' = Tail(toAgent)
      /\ UNCHANGED <<local, remote, locals, client, sigs, j, wire, broken, used, history>>
      BY DEF Leave
<1>2. /\ Progress' /\ Versions' /\ LockAsked'
      /\ Usable \subseteq Usable' /\ Good \subseteq Good'
      BY <1>1, ClientKept
<1>3. TypeOK'
  <2>1. toAgent' \in Seq(ToAgent)
        BY <1>1, AgentTakes DEF IInv
  <2>2. QED
        BY <1>1, <2>1 DEF IInv, TypeOK
<1>4. Quiet'
      BY <1>1 DEF IInv, Quiet
<1>5. SigsOK'
      BY <1>1, <1>2, SigsKept DEF IInv
<1>6. StreamOK'
      BY <1>1, <1>2, <1>3, StreamKept DEF IInv
<1>7. CatOK'
      BY <1>1 DEF IInv, CatOK
<1>8. QED
      BY <1>2, <1>3, <1>4, <1>5, <1>6, <1>7 DEF IInv

-----------------------------------------------------------------------------
(* The steps of the rest of the world.                                      *)

\* What is spent stays a number.
LEMMA SpendKeepsType ==
  ASSUME TypeOK, NEW what \in {"local", "remote", "faults"}, NEW max, Spend(what, max)
  PROVE  used' \in [local : Nat, remote : Nat, faults : Nat] /\ pc \notin {"done", "failed"}
<1>1. used \in [local : Nat, remote : Nat, faults : Nat]
      BY DEF TypeOK
<1>2. used' = [used EXCEPT ![what] = @ + 1] /\ pc \notin {"done", "failed"}
      BY DEF Spend, Ended
<1>3. CASE what = "local"
      BY <1>1, <1>2, <1>3
<1>4. CASE what = "remote"
      BY <1>1, <1>2, <1>4
<1>5. CASE what = "faults"
      BY <1>1, <1>2, <1>5
<1>6. QED
      BY <1>2, <1>3, <1>4, <1>5

\* A local build makes the signature of the file it changes an old one.
LEMMA LocalEditKeeps ==
  ASSUME IInv, NEW n \in Names, LocalEdit(n)
  PROVE  IInv'
<1> USE DEF locals, client, agent, link
<1>1. PICK c \in Copies :
        /\ local' = [local EXCEPT ![n] = c]
        /\ mine' = [mine EXCEPT ![n] = @ \cup {c}]
      BY CopiesAssumption DEF LocalEdit, Copies
<1>2. /\ touched' = IF SigSent(n) THEN touched \cup {n} ELSE touched
      /\ UNCHANGED <<remote, locals, client, agent, link, held>>
      BY DEF LocalEdit
<1>3. used' \in [local : Nat, remote : Nat, faults : Nat]
      BY SpendKeepsType DEF LocalEdit, IInv
<1>4. /\ local \in [Names -> Copies] /\ mine \in [Names -> SUBSET Copies]
      /\ touched \in SUBSET Names
      BY DEF IInv, TypeOK
<1>5. \A m \in Names : /\ m # n => local'[m] = local[m] /\ mine'[m] = mine[m]
                       /\ m \in touched => m \in touched'
      BY <1>1, <1>2, <1>4
<1>6. local'[n] \in mine'[n] /\ (SigSent(n) => n \in touched')
      BY <1>1, <1>2, <1>4
<1>7. Usable \subseteq Usable'
  <2>1. \A m \in Names : SigSent(m) => SigSent(m)'
        BY <1>2 DEF SigSent
  <2>2. QED
        BY <1>2, <1>5, <1>6, <2>1, UsableKept
<1>8. Good \subseteq Good'
      BY <1>2, <1>7, GoodKept
<1>9. TypeOK'
  <2>1. /\ local' \in [Names -> Copies] /\ mine' \in [Names -> SUBSET Copies]
        /\ touched' \in SUBSET Names
        BY <1>1, <1>2, <1>4
  <2>2. QED
        BY <1>2, <1>3, <2>1 DEF IInv, TypeOK
<1>10. Progress'
  <2>1. CASE pc \in {"find", "sigs", "failed"}
        BY <1>2, <2>1 DEF IInv, Progress
  <2>2. CASE pc \notin {"find", "sigs", "failed"}
    <3>1. SigSent(n)
          BY <2>2 DEF SigSent
    <3>2. \A k \in 1..Len(files) : files[k] \in Names
          BY ElementOfSeq DEF IInv, TypeOK
    <3>3. ASSUME NEW k \in 1..Len(files), Brought(files[k])
          PROVE  Brought(files[k])'
          BY <1>2, <1>5, <1>6, <3>1, <3>2, <3>3 DEF Brought
    <3>4. pc \in {"recv", "get", "getting"} => \A k \in 1..(i - 1) : k \in 1..Len(files)
      <4>1. i \in Nat /\ Len(files) \in Nat
            BY DEF IInv, TypeOK
      <4>2. pc \in {"recv", "get", "getting"} => i <= Len(files) + 1
            BY DEF IInv, Progress
      <4>3. QED
            BY <4>1, <4>2
    <3>5. pc \in {"recv", "get", "getting"} => \A k \in 1..(i - 1) : Brought(files[k])'
          BY <3>3, <3>4 DEF IInv, Progress
    <3>6. pc \in {"lock", "locking", "done"} => \A k \in 1..Len(files) : Brought(files[k])'
          BY <3>3 DEF IInv, Progress
    <3>7. QED
          BY <1>2, <2>2, <3>5, <3>6 DEF IInv, Progress, Brought
  <2>3. QED
        BY <2>1, <2>2
<1>11. Quiet'
      BY <1>2 DEF IInv, Quiet
<1>12. SigsOK'
      BY <1>2, <1>7, SigsKept DEF IInv
<1>13. StreamOK'
      BY <1>2, <1>8, <1>9, StreamKept DEF IInv
<1>14. CatOK'
      BY <1>2 DEF IInv, CatOK
<1>15. Versions'
  <2>1. \A m \in Names : m \notin touched' => local'[m] \in mine'[m] \cup held[m]
        BY <1>5, <1>6 DEF IInv, Versions, WholeFiles
  <2>2. QED
        BY <1>2, <2>1 DEF IInv, Versions, WholeFiles
<1>16. LockAsked'
      BY <1>2 DEF IInv, LockAsked
<1>17. QED
      BY <1>9, <1>10, <1>11, <1>12, <1>13, <1>14, <1>15, <1>16 DEF IInv

\* A remote build adds to what the remote has had.
LEMMA RemoteEditKeeps ==
  ASSUME IInv, NEW n \in Names, RemoteEdit(n)
  PROVE  IInv'
<1> USE DEF locals, client, agent, link
<1>1. PICK c \in Copies :
        /\ remote' = [remote EXCEPT ![n] = c]
        /\ held' = [held EXCEPT ![n] = @ \cup {c}]
      BY CopiesAssumption DEF RemoteEdit, Copies
<1>2. UNCHANGED <<local, locals, client, agent, link, mine, touched>>
      BY DEF RemoteEdit
<1>3. used' \in [local : Nat, remote : Nat, faults : Nat]
      BY SpendKeepsType DEF RemoteEdit, IInv
<1>4. remote \in [Names -> Copies] /\ held \in [Names -> SUBSET Copies]
      BY DEF IInv, TypeOK
<1>5. \A m \in Names : held[m] \subseteq held'[m]
      BY <1>1, <1>4
<1>6. Usable \subseteq Usable'
      BY <1>2, UsableKept DEF SigSent
<1>7. Good \subseteq Good'
      BY <1>5, <1>6, GoodKept
<1>8. TypeOK'
  <2>1. remote' \in [Names -> Copies] /\ held' \in [Names -> SUBSET Copies]
        BY <1>1, <1>4
  <2>2. QED
        BY <1>2, <1>3, <2>1 DEF IInv, TypeOK
<1>9. \A k \in 1..Len(files) : files[k] \in Names
      BY ElementOfSeq DEF IInv, TypeOK
<1>10. i \in Nat /\ Len(files) \in Nat
      BY DEF IInv, TypeOK
<1>11. Progress'
  <2>1. ASSUME NEW k \in 1..Len(files), Brought(files[k])
        PROVE  Brought(files[k])'
        BY <1>2, <1>5, <1>9, <2>1 DEF Brought
  <2>2. pc \in {"recv", "get", "getting"} => \A k \in 1..(i - 1) : k \in 1..Len(files)
    <3>1. pc \in {"recv", "get", "getting"} => i <= Len(files) + 1
          BY DEF IInv, Progress
    <3>2. QED
          BY <1>10, <3>1
  <2>3. pc \in {"recv", "get", "getting"} => \A k \in 1..(i - 1) : Brought(files[k])'
        BY <2>1, <2>2 DEF IInv, Progress
  <2>4. pc \in {"lock", "locking", "done"} => \A k \in 1..Len(files) : Brought(files[k])'
        BY <2>1 DEF IInv, Progress
  <2>5. QED
        BY <1>2, <2>3, <2>4 DEF IInv, Progress, Brought
<1>12. Quiet'
      BY <1>2 DEF IInv, Quiet
<1>13. SigsOK'
      BY <1>2, <1>6, SigsKept DEF IInv
<1>14. StreamOK'
      BY <1>2, <1>7, <1>8, StreamKept DEF IInv
<1>15. CatOK'
  <2>1. pc = "getting" => files[i] \in Names
    <3>1. pc = "getting" => i \in 1..Len(files)
      <4>1. i # 0 /\ (pc = "getting" => i <= Len(files))
            BY DEF IInv, TypeOK, Progress
      <4>2. QED
            BY <1>10, <4>1
    <3>2. QED
          BY <1>9, <3>1
  <2>2. QED
        BY <1>2, <1>5, <2>1 DEF IInv, CatOK
<1>16. Versions'
  <2>1. \A m \in Names : remote'[m] \in held'[m]
        BY <1>1, <1>4 DEF IInv, Versions
  <2>2. QED
        BY <1>2, <1>5, <2>1 DEF IInv, Versions, WholeFiles
<1>17. LockAsked'
      BY <1>2 DEF IInv, LockAsked
<1>18. QED
      BY <1>8, <1>11, <1>12, <1>13, <1>14, <1>15, <1>16, <1>17 DEF IInv

\* With the connection goes the end of what was to come.
LEMMA BreakKeeps ==
  ASSUME IInv, Break
  PROVE  IInv'
<1> USE DEF locals, client, history
<1>1. /\ broken' = TRUE /\ toAgent' = <<>> /\ apc' = "gone"
      /\ UNCHANGED <<local, remote, locals, client, sigs, j, history>>
      BY DEF Break
<1>2. PICK p \in Prefixes(wire) : wire' = p
      BY DEF Break
<1>3. used' \in [local : Nat, remote : Nat, faults : Nat]
      BY SpendKeepsType DEF Break, IInv
<1>4. /\ buf \in Seq(Cell) /\ wire \in Seq(Cell) /\ out \in Seq(Cell)
      BY BlocksAreCells DEF IInv, TypeOK
<1>5. /\ wire' \in Seq(Cell)
      /\ Begins(buf \o wire', buf \o wire) /\ Begins(out \o wire', out \o wire)
      BY <1>2, <1>4, PrefixBegins
<1>6. /\ Progress' /\ Versions' /\ LockAsked'
      /\ Usable \subseteq Usable' /\ Good \subseteq Good'
      BY <1>1, ClientKept
<1>7. TypeOK'
  <2>1. toAgent' \in Seq(ToAgent) /\ broken' \in BOOLEAN
        BY <1>1, EmptySeq
  <2>2. QED
        BY <1>1, <1>3, <1>5, <2>1 DEF IInv, TypeOK
<1>8. Quiet'
  <2>1. wire = <<>> => wire' = <<>>
    <3> SUFFICES ASSUME wire = <<>> PROVE wire' = <<>>
        OBVIOUS
    <3>1. PICK k \in 0..Len(wire) : p = SubSeq(wire, 1, k)
          BY DEF Prefixes
    <3>2. k = 0
          OBVIOUS
    <3>3. QED
          BY <1>2, <3>1, <3>2, SubSeqEmpty
  <2>2. QED
        BY <1>1, <2>1 DEF IInv, Quiet
<1>9. SigsOK'
      BY <1>1, <1>6, SigsKept DEF IInv
<1>10. StreamOK'
  <2>1. apc' = "gone" /\ Begins((buf \o wire)', buf \o wire)
        BY <1>1, <1>5
  <2>2. QED
        BY <1>1, <1>6, <1>7, <2>1, StreamKept DEF IInv
<1>11. CatOK'
  <2>1. ASSUME NEW t, Begins(out \o wire, t), Len(t) \in Nat
        PROVE  Begins(out \o wire', t)
    <3> DEFINE u == out \o wire'
               v == out \o wire
    <3>1. Begins(u, v) /\ Begins(v, t)
          BY <1>5, <2>1
    <3>2. u \in Seq(Cell) /\ v \in Seq(Cell)
          BY <1>4, <1>5, ConcatProperties
    <3> HIDE DEF u, v
    <3>3. Len(u) \in Nat /\ Len(v) \in Nat
          BY <3>2
    <3>4. Begins(u, t)
          BY <2>1, <3>1, <3>3 DEF Begins
    <3>5. QED
          BY <3>4 DEF u
  <2>2. CASE pc = "getting"
    <3>1. PICK c \in held[files[i]] : Begins(out \o wire, Cat(c))
          BY <2>2 DEF IInv, CatOK
    <3>2. c \in Copies
      <4>1. /\ files \in Seq(Names) /\ i \in Nat \ {0} /\ Len(files) \in Nat
            /\ i <= Len(files) /\ held \in [Names -> SUBSET Copies]
            BY <2>2 DEF IInv, TypeOK, Progress
      <4>2. i \in 1..Len(files)
            BY <4>1
      <4>3. files[i] \in Names
            BY <4>1, <4>2, ElementOfSeq
      <4>4. QED
            BY <4>1, <4>3
    <3>3. Len(Cat(c)) \in Nat
          BY <3>2, CatCells
    <3>4. Begins(out \o wire', Cat(c))
          BY <2>1, <3>1, <3>3
    <3>5. QED
          BY <1>1, <2>2, <3>4 DEF CatOK
  <2>3. CASE pc = "locking"
    <3>1. Len(Cat(NewLock)) \in Nat
          BY LockCells, CatCells
    <3>2. Begins(out \o wire', Append(NewLock, Exit(0)))
          BY <2>1, <2>3, <3>1, LockCells DEF IInv, CatOK
    <3>3. QED
          BY <1>1, <2>3, <3>2 DEF CatOK
  <2>4. CASE pc \notin {"getting", "locking"}
        BY <1>1, <2>4 DEF CatOK
  <2>5. QED
        BY <2>2, <2>3, <2>4
<1>12. QED
      BY <1>6, <1>7, <1>8, <1>9, <1>10, <1>11 DEF IInv

\* An agent that fails says so behind whole frames, or nothing.
LEMMA AgentFailsKeeps ==
  ASSUME IInv, AgentFails
  PROVE  IInv'
<1> USE DEF locals, client, history
<1>1. /\ apc \in {"sigs", "answer"} /\ apc' = "gone" /\ toAgent' = <<>>
      /\ wire' \in {wire, wire \o Frame("ERROR", <<"message">>)}
      /\ UNCHANGED <<local, remote, locals, client, sigs, j, broken, history>>
      BY DEF AgentFails
<1>2. pc \notin {"getting", "locking"}
      BY <1>1 DEF IInv, Quiet
<1>3. used' \in [local : Nat, remote : Nat, faults : Nat]
      BY SpendKeepsType DEF AgentFails, IInv
<1>4. /\ Progress' /\ Versions' /\ LockAsked'
      /\ Usable \subseteq Usable' /\ Good \subseteq Good'
      BY <1>1, ClientKept
<1>5. toAgent' \in Seq(ToAgent) /\ wire \in Seq(Cell)
      BY <1>1, EmptySeq DEF IInv, TypeOK
<1>6. StreamOK' /\ wire' \in Seq(Cell)
  <2>1. CASE wire' = wire
    <3>1. TypeOK'
          BY <1>1, <1>3, <1>5, <2>1 DEF IInv, TypeOK
    <3>2. (buf \o wire)' = buf \o wire
          BY <1>1, <2>1
    <3>3. QED
          BY <1>1, <1>2, <1>4, <1>5, <2>1, <3>1, <3>2, StreamKept DEF IInv
  <2>2. CASE wire' = wire \o Frame("ERROR", <<"message">>)
    <3> DEFINE f == Frame("ERROR", <<"message">>)
               p == <<"message">>
    <3>1. p \in Seq(Cell) /\ Len(p) = 1
      <4>1. "message" \in Cell
            BY DEF Cell
      <4>2. QED
            BY <4>1
    <3>2. "ERROR" \in {"FETCHED", "DONE", "ERROR"}
          OBVIOUS
    <3>3. /\ f \in Seq(Cell) /\ f # <<>> /\ f[1] \in Header /\ f[1].tag = "ERROR"
          /\ f[1].len = Len(p) /\ Len(f) = 1 + Len(p)
          BY <3>1, <3>2, FrameShape, Zenon
    <3>4. wire' = wire \o f /\ buf' = buf
          BY <1>1, <2>2
    <3> HIDE DEF f
    <3>5. f[1].len = 1 /\ Len(f) = 1 + 1
          BY <3>1, <3>3
    <3>6. QED
          BY <1>1, <1>2, <1>4, <3>3, <3>4, <3>5, FrameSent DEF IInv
  <2>3. QED
        BY <1>1, <2>1, <2>2
<1>7. TypeOK'
      BY <1>1, <1>3, <1>5, <1>6 DEF IInv, TypeOK
<1>8. Quiet'
      BY <1>1 DEF IInv, Quiet
<1>9. SigsOK'
      BY <1>1, <1>4, SigsKept DEF IInv
<1>10. CatOK'
      BY <1>1, <1>2 DEF CatOK
<1>11. QED
      BY <1>4, <1>6, <1>7, <1>8, <1>9, <1>10 DEF IInv

-----------------------------------------------------------------------------
(* The theorems.                                                            *)

\* The invariant holds always: what is on its way is what the other side will
\* understand.
THEOREM CopyBackInvariant == Spec => []IInv
<1>1. Init => IInv
      BY InitInvariant
<1>2. IInv /\ [Next]_vars => IInv'
  <2> SUFFICES ASSUME IInv, [Next]_vars PROVE IInv'
      OBVIOUS
  <2>1. CASE Find
        BY <2>1, FindKeeps
  <2>2. CASE SendSig
        BY <2>2, SendSigKeeps
  <2>3. CASE Receive
        BY <2>3, ReceiveKeeps
  <2>4. CASE TakeFetched
        BY <2>4, TakeFetchedKeeps
  <2>5. CASE TakeDone
        BY <2>5, TakeDoneKeeps
  <2>6. CASE Refuse
        BY <2>6, RefuseKeeps
  <2>7. CASE Get
        BY <2>7, GetKeeps
  <2>8. CASE Data
        BY <2>8, DataKeeps
  <2>9. CASE Got
        BY <2>9, GotKeeps
  <2>10. CASE GetLock
        BY <2>10, GetLockKeeps
  <2>11. CASE ApplyLock
        BY <2>11, ApplyLockKeeps
  <2>12. CASE Request
        BY <2>12, RequestKeeps
  <2>13. CASE TakeSig
        BY <2>13, TakeSigKeeps
  <2>14. CASE Answer
        BY <2>14, AnswerKeeps
  <2>15. CASE Leave
        BY <2>15, LeaveKeeps
  <2>16. CASE \E n \in Names : LocalEdit(n) \/ RemoteEdit(n)
        BY <2>16, LocalEditKeeps, RemoteEditKeeps
  <2>17. CASE Break
        BY <2>17, BreakKeeps
  <2>18. CASE AgentFails
        BY <2>18, AgentFailsKeeps
  <2>19. CASE UNCHANGED vars
    <3> USE <2>19 DEF vars, locals, client, agent, link, history
    <3>1. /\ Progress' /\ Versions' /\ LockAsked'
          /\ Usable \subseteq Usable' /\ Good \subseteq Good'
          BY ClientKept
    <3>2. TypeOK' /\ Quiet'
          BY DEF IInv, TypeOK, Quiet
    <3>3. SigsOK'
          BY <3>1, SigsKept DEF IInv
    <3>4. StreamOK'
          BY <3>1, <3>2, StreamKept DEF IInv
    <3>5. CatOK'
          BY DEF IInv, CatOK
    <3>6. QED
          BY <3>1, <3>2, <3>3, <3>4, <3>5 DEF IInv
  <2>20. QED
        BY <2>1, <2>2, <2>3, <2>4, <2>5, <2>6, <2>7, <2>8, <2>9, <2>10, <2>11, <2>12,
           <2>13, <2>14, <2>15, <2>16, <2>17, <2>18, <2>19
           DEF Next, ClientStep, AgentStep
<1>3. QED
      BY <1>1, <1>2, PTL DEF Spec

\* Each file that has been brought is one that the remote has had since the copy
\* back began, unless it vanished there or was built locally meanwhile.
THEOREM DeliveredHolds == Spec => []Delivered
<1>1. IInv => Delivered
  <2> SUFFICES ASSUME IInv, pc \in {"lock", "locking", "done"}, NEW n \in ToSet(files)
               PROVE  \/ n \in written /\ (n \in touched \/ local[n] \in held[n])
                      \/ None \in held[n]
      BY DEF Delivered
  <2>1. PICK k \in 1..Len(files) : files[k] = n
        BY DEF IInv, TypeOK, ToSet
  <2>2. QED
        BY <2>1 DEF IInv, Progress, Brought
<1>2. QED
      BY <1>1, CopyBackInvariant, PTL

\* No local file is ever a mix of two versions, unless it was built while its delta
\* was on its way.
THEOREM WholeFilesHolds == Spec => []WholeFiles
<1>1. IInv => WholeFiles
      BY DEF IInv, Versions
<1>2. QED
      BY <1>1, CopyBackInvariant, PTL

\* The buffer begins with a frame and is empty when the last one has been taken.
THEOREM FramesAlignedHolds == Spec => []FramesAligned
<1>1. IInv => FramesAligned
  <2> SUFFICES ASSUME IInv PROVE FramesAligned
      OBVIOUS
  <2>1. pc \in {"lock", "locking", "done"} => buf = <<>>
        BY DEF IInv, Quiet
  <2>2. ASSUME buf # <<>>
        PROVE  Head(buf) \in [len : Nat, tag : {"FETCHED", "DONE", "ERROR"}]
    <3> DEFINE whole == apc # "gone"
               ended == apc \in {"idle", "gone"}
    <3>1. pc \notin {"getting", "locking"} /\ buf \in Seq(Cell) /\ wire \in Seq(Cell)
          BY <2>2 DEF IInv, Quiet, TypeOK
    <3>2. Stream(buf \o wire, whole, Good, ended)
          BY <3>1 DEF IInv, StreamOK
    <3> HIDE DEF whole, ended
    <3>3. Head(buf) = buf[1] /\ buf[1] \in Header
          BY <2>2, <3>1, <3>2, FirstFrame
    <3>4. QED
          BY <3>3 DEF Header
  <2>3. QED
        BY <2>1, <2>2 DEF FramesAligned
<1>2. QED
      BY <1>1, CopyBackInvariant, PTL

\* Cargo.lock changes only when asked for, and a copy back that succeeds has put the
\* whole remote one here or beside it.
THEOREM LockAskedHolds == Spec => []LockAsked
<1>1. IInv => LockAsked
      BY DEF IInv
<1>2. QED
      BY <1>1, CopyBackInvariant, PTL

=============================================================================
