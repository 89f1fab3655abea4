------------------------- MODULE SyncSessionProofs -------------------------
(***************************************************************************)
(* Proofs about SyncSession, for any tree, any contents and any number of  *)
(* edits, breaks and syncs: the remote tree stays a tree, holds nothing    *)
(* but whole local versions (Replica), and no file goes missing.           *)
(***************************************************************************)
EXTENDS SyncSession, SequenceTheorems, FiniteSetTheorems, WellFoundedInduction, TLAPS

-----------------------------------------------------------------------------
(***************************************************************************)
(* The inductive invariant: types.                                         *)
(***************************************************************************)

\* What a walk may find: a link whose target has room for what may be below.
Walkable == {e \in Entry : e.kind = "link" => e.to = Escape \/ Holds(e.to)}
Listing == [Paths -> Walkable]

Op == [op : {"copy"}, ix : Nat \ {0}] \cup [op : {"literal"}, block : Blocks]

PutFrames ==
  [tag : {"PUT"}, paths : {<<p>> : p \in Paths}, entry : Walkable, delta : Seq(Op), len : Nat]

AgentFrame ==
  [tag : {"SYNC_REQ", "PLAN_DONE"}, paths : {<<>>}]
    \cup [tag : {"MKDIR", "SIG_REQ", "DELETE"}, paths : Seq(Paths) \ {<<>>}]
    \cup {f \in PutFrames : f.entry # Absent /\ (f.delta # <<>> => f.entry.kind = "file")}

ClientFrame ==
  [tag : {"LIST"}, tree : Listing] \cup [tag : {"SIG"}, sig : Seq(Blocks)]
    \cup [tag : {"DONE", "ERROR"}]

Types ==
  /\ WellFormed(local) /\ WellFormed(remote) /\ Confined(remote)
  /\ now \in 1..MaxTime /\ lag \in Nat
  /\ cpc \in Active \cup {"idle", "done", "failed"}
  /\ apc \in {"off", "start", "serve", "idle", "gone"}
  /\ walk \in Listing /\ list \in Listing
  /\ want \in Seq(Paths) /\ check \in Seq(Paths) /\ sends \in Seq(Paths)
  /\ sigs \in [Paths -> Seq(Blocks)]
  /\ reading \in {Shut} \cup [path : Paths, data : Seq(Blocks)]
  /\ toAgent \in Seq(AgentFrame) /\ toClient \in Seq(ClientFrame)
  /\ stray \in Seq(AgentFrame)
  /\ used \in [local : Nat, remote : Nat, breaks : Nat, sessions : Nat]
  /\ versions \in [Paths -> SUBSET Entry] /\ shaken \subseteq Paths

-----------------------------------------------------------------------------
(***************************************************************************)
(* The inductive invariant: where the two processes are.                   *)
(***************************************************************************)

\* The paths of the directories above p, and these with p.
Above(p) == {SubSeq(p, 1, k) : k \in 1..(Len(p) - 1)}
UpTo(p) == {SubSeq(p, 1, k) : k \in 1..Len(p)}

\* What is on its way at each stage of the client.
Stages ==
  /\ cpc = "idle" => apc = "off" /\ toAgent = <<>> /\ toClient = <<>>
  /\ cpc \in {"idle", "list"} => want = <<>> /\ check = <<>> /\ sends = <<>>
  /\ apc = "off" => cpc = "idle"
  /\ apc = "start" => /\ cpc \in {"list", "failed"} /\ toClient = <<>>
                      /\ Len(toAgent) <= 1
                      /\ \A k \in 1..Len(toAgent) : toAgent[k].tag = "SYNC_REQ"
  /\ cpc = "list" => \A k \in 1..Len(toAgent) : toAgent[k].tag = "SYNC_REQ"
  /\ cpc = "list" /\ apc = "serve" => toAgent = <<>>
  /\ cpc = "list" => \/ toClient = <<>>
                     \/ Len(toClient) = 1 /\ toClient[1].tag = "LIST" /\ apc # "start"
  /\ cpc \in {"sigs", "send", "await"} => apc \in {"serve", "idle", "gone"}
  /\ cpc = "send" => want = <<>> /\ check = <<>>
  /\ apc = "idle" => cpc \in {"await", "done", "failed"}
  /\ cpc \in {"list", "sigs", "send"} =>
       \A k \in 1..Len(toAgent) : toAgent[k].tag \notin {"DELETE", "PLAN_DONE"}
  /\ cpc = "sigs" /\ want \o check # <<>> =>
       \A k \in 1..Len(toAgent) : toAgent[k].tag # "PUT"

\* What the client has planned and not done yet.
Planned ==
  /\ \A k \in 1..Len(want) : walk[want[k]].kind = "file"
  /\ \A k \in 1..Len(check) : walk[check[k]].kind = "file"
  /\ \A k \in 1..Len(sends) :
       walk[sends[k]] # Absent /\ (sigs[sends[k]] # <<>> => walk[sends[k]].kind = "file")
  /\ \A j, k \in 1..Len(sends) : sends[j] = sends[k] => j = k
  /\ \A j, k \in 1..Len(check) : check[j] = check[k] => j = k
  /\ \A j \in 1..Len(check) :
       /\ \A k \in 1..Len(sends) : check[j] # sends[k]
       /\ \A k \in 1..Len(want) : check[j] # want[k]
       /\ sigs[check[j]] = <<>>

\* The file the client has open is the next to be verified or sent.
Opened ==
  reading # Shut =>
    /\ cpc \in {"sigs", "send"} /\ want = <<>>
    /\ check # <<>> => /\ reading.path = check[1]
                       /\ toClient # <<>> /\ toClient[1].tag = "SIG"
    /\ check = <<>> => /\ sends # <<>> /\ reading.path = sends[1]
                       /\ walk[sends[1]].kind = "file"
    /\ File(reading.data, 0) \in versions[reading.path]

\* PUTs are of different paths, and come before what is deleted.
Ordering(frames) ==
  \A j, k \in 1..Len(frames) :
    j < k /\ frames[k].tag = "PUT" =>
      /\ frames[j].tag \notin {"DELETE", "PLAN_DONE"}
      /\ frames[j].tag = "PUT" => frames[j].paths # frames[k].paths

\* What is still to be sent is not on its way yet, and the frames of the sync under
\* way are about what it has walked.
OwnFrame(f, w, s) ==
  /\ f.tag = "DELETE" => \A i \in 1..Len(f.paths) : w[f.paths[i]] = Absent
  /\ f.tag = "PUT" => /\ w[f.paths[1]].kind = f.entry.kind
                      /\ \A i \in 1..Len(s) : s[i] # f.paths[1]

Own == cpc \in Active => \A k \in 1..Len(toAgent) : OwnFrame(toAgent[k], walk, sends)

-----------------------------------------------------------------------------
(***************************************************************************)
(* The inductive invariant: the trees.                                     *)
(***************************************************************************)

\* Something is promised.
Covered == shaken # Paths

\* No link is here on either side: a path that goes through here only leads to
\* itself.  Links are made for local links only, so this stays so.
Linkless(l, r) == {p \in Paths : l[p].kind # "link" /\ r[p].kind # "link"}
NoLink == Linkless(local, remote)

\* A directory may be here, once or now.
MayBeDir(p, N, v) == p \in N /\ Dir \in v[p]

\* What the local tree has at p now is one of its versions, and no directory is a
\* link on the other side.
Apart(l, r) ==
  \A p \in Paths : /\ l[p].kind = "link" => r[p] # Dir
                   /\ l[p] = Dir => r[p].kind # "link"

Sides ==
  /\ \A p \in Paths : Bare(local[p]) \in versions[p]
  /\ Covered => Apart(local, remote)

\* What was walked is a version, below local directories.
Walked ==
  \A p \in Paths :
    /\ walk[p].kind \in {"dir", "link"} => local[p] = walk[p]
    /\ walk[p] # Absent =>
         /\ ~ IsExcluded(p)
         /\ Bare(walk[p]) \in versions[p]
         /\ \A q \in Above(p) : local[q] = Dir

\* What was listed was below directories.
Listed(t, N) == \A p \in Paths : t[p] # Absent => ~ IsExcluded(p) /\ Above(p) \subseteq N

Lists ==
  Covered =>
    /\ Listed(list, NoLink)
    /\ \A k \in 1..Len(toClient) :
         toClient[k].tag = "LIST" => Listed(toClient[k].tree, NoLink)

\* Applied to a path it names, a frame does what it is meant to do: l is the local
\* tree, N where no links are, and v the versions.
SoundAt(f, p, l, N, v) ==
  /\ ~ IsExcluded(p)
  /\ f.tag = "MKDIR" => \A q \in UpTo(p) : MayBeDir(q, N, v)
  /\ f.tag = "DELETE" => Above(p) \subseteq N
  /\ f.tag = "PUT" =>
       /\ \A q \in Above(p) : MayBeDir(q, N, v)
       /\ f.entry.kind = "dir" => MayBeDir(p, N, v)
       /\ f.entry.kind = "link" => f.entry \in v[p] /\ l[p].kind = "link"
       /\ f.entry.kind = "file" /\ f.delta = <<>> => Bare(f.entry) \in v[p]

Sound(f, l, N, v) == \A i \in 1..Len(f.paths) : SoundAt(f, f.paths[i], l, N, v)

Frames ==
  Covered => /\ \A k \in 1..Len(toAgent) : Sound(toAgent[k], local, NoLink, versions)
             /\ \A k \in 1..Len(stray) : Sound(stray[k], local, NoLink, versions)

-----------------------------------------------------------------------------
(***************************************************************************)
(* The inductive invariant: signatures and deltas.                         *)
(***************************************************************************)

\* A signature is that of the remote file, at a path that others have left alone.
SigFresh(p, sig, r, others) ==
  \/ sig = <<>> \/ p \in others
  \/ r[p].kind = "file" /\ r[p].data = sig

\* A delta makes a version of the remote file.
DeltaFresh(f, r, v, others) ==
  f.tag = "PUT" /\ f.delta # <<>> =>
    LET p == f.paths[1]
    IN  \/ p \in others
        \/ /\ r[p].kind = "file"
           /\ File(Patch(r[p].data, f.delta), 0) \in v[p]

\* An abandoned agent may apply the deltas it finds as long as no other agent has
\* changed anything; after that their paths are shaken.
Deltas ==
  /\ apc = "serve" => \A k \in 1..Len(toAgent) : DeltaFresh(toAgent[k], remote, versions, shaken)
  /\ apc \in {"off", "start"} =>
       \A k \in 1..Len(stray) : DeltaFresh(stray[k], remote, versions, shaken)

Sigs ==
  cpc \in {"sigs", "send"} /\ apc = "serve" =>
    \A k \in 1..Len(sends) : SigFresh(sends[k], sigs[sends[k]], remote, shaken)

\* The SIGs that have come, and the paths still asked for, are those the client
\* waits for, in order.
Answered(due, frames, answers, r, others) ==
  LET n == Len(answers)
      m == Len(frames)
  IN  /\ n <= Len(due)
      /\ \A k \in 1..n : answers[k].tag = "SIG" /\ SigFresh(due[k], answers[k].sig, r, others)
      /\ n < Len(due) =>
           /\ m > 0 /\ frames[m].tag = "SIG_REQ"
           /\ frames[m].paths = SubSeq(due, n + 1, Len(due))
           /\ \A k \in 1..(m - 1) : frames[k].tag = "MKDIR"
      /\ n = Len(due) => \A k \in 1..m : frames[k].tag # "SIG_REQ"

Answers ==
  cpc = "sigs" /\ apc = "serve" => Answered(want \o check, toAgent, toClient, remote, shaken)

IInv ==
  /\ Types /\ Stages /\ Planned /\ Opened
  /\ Ordering(toAgent) /\ Ordering(stray) /\ Own
  /\ Sides /\ Walked /\ Lists /\ Frames
  /\ Deltas /\ Sigs /\ Answers

-----------------------------------------------------------------------------
(***************************************************************************)
(* Lemmas about paths.                                                     *)
(***************************************************************************)

\* Induction over the natural numbers, of a set.
LEMMA SetInduction ==
  ASSUME NEW S, 0 \in S, \A n \in Nat : n \in S => n + 1 \in S
  PROVE  Nat \subseteq S
<1> DEFINE T == Nat \ S
           R == {xy \in Nat \X Nat : xy[1] < xy[2]}
<1> SUFFICES ASSUME T # {} PROVE FALSE
    OBVIOUS
<1>1. IsWellFoundedOn(R, Nat)
      BY NatLessThanWellFounded, Zenon DEF OpToRel
<1>2. T \subseteq Nat
      OBVIOUS
<1>3. PICK n \in T : \A m \in T : ~ (<<m, n>> \in R)
  <2> HIDE DEF R, T
  <2> QED
      BY <1>1, <1>2, WFMin
<1>4. n # 0 /\ n - 1 \in Nat
      OBVIOUS
<1>5. n - 1 \in S
  <2>1. <<n - 1, n>> \in R
        BY <1>4
  <2>2. QED
        BY <1>3, <1>4, <2>1
<1>6. QED
      BY <1>4, <1>5

\* The first names of a sequence.
LEMMA FirstPart ==
  ASSUME NEW S, NEW p \in Seq(S), NEW n \in 0..Len(p)
  PROVE  /\ SubSeq(p, 1, n) \in Seq(S) /\ Len(SubSeq(p, 1, n)) = n
         /\ \A k \in 1..n : SubSeq(p, 1, n)[k] = p[k]
<1>1. Len(p) \in Nat /\ \A k \in 1..Len(p) : p[k] \in S
      BY ElementOfSeq
<1>2. QED
      BY <1>1, SubSeqProperties

LEMMA PartOfPart ==
  ASSUME NEW S, NEW p \in Seq(S), NEW n \in 0..Len(p), NEW k \in 0..n
  PROVE  SubSeq(SubSeq(p, 1, n), 1, k) = SubSeq(p, 1, k)
<1> DEFINE u == SubSeq(p, 1, n)
           v == SubSeq(p, 1, k)
           w == SubSeq(u, 1, k)
<1>1. Len(p) \in Nat /\ k \in 0..Len(p)
      OBVIOUS
<1>2. u \in Seq(S) /\ Len(u) = n /\ \A j \in 1..n : u[j] = p[j]
      BY FirstPart
<1>3. v \in Seq(S) /\ Len(v) = k /\ \A j \in 1..k : v[j] = p[j]
      BY <1>1, FirstPart
<1> HIDE DEF u, v
<1>4. w \in Seq(S) /\ Len(w) = k /\ \A j \in 1..k : w[j] = u[j]
      BY <1>2, FirstPart
<1> HIDE DEF w
<1>5. \A j \in 1..Len(w) : w[j] = v[j]
      BY <1>2, <1>3, <1>4
<1>6. w = v
      BY <1>3, <1>4, <1>5, SeqEqual
<1>7. QED
      BY <1>6 DEF u, v, w

\* One name more.
LEMMA PartStep ==
  ASSUME NEW S, NEW p \in Seq(S), NEW n \in 1..Len(p)
  PROVE  /\ SubSeq(p, 1, n) = Append(SubSeq(p, 1, n - 1), p[n])
         /\ Front(SubSeq(p, 1, n)) = SubSeq(p, 1, n - 1)
<1>1. Len(p) \in Nat /\ n - 1 \in 0..Len(p) /\ n \in 0..Len(p) /\ n - 1 \in 0..n /\ p[n] \in S
      BY ElementOfSeq
<1> DEFINE u == SubSeq(p, 1, n)
           v == SubSeq(p, 1, n - 1)
           w == Append(v, p[n])
<1>2. u \in Seq(S) /\ Len(u) = n /\ \A k \in 1..n : u[k] = p[k]
      BY <1>1, FirstPart
<1>3. v \in Seq(S) /\ Len(v) = n - 1 /\ \A k \in 1..(n - 1) : v[k] = p[k]
      BY <1>1, FirstPart
<1> HIDE DEF u, v
<1>4. w \in Seq(S) /\ Len(w) = n /\ w[n] = p[n] /\ \A k \in 1..(n - 1) : w[k] = p[k]
      BY <1>1, <1>3, AppendProperties
<1> HIDE DEF w
<1>5. \A k \in 1..n : w[k] = u[k]
      BY <1>2, <1>4
<1>6. u = w
      BY <1>2, <1>4, <1>5, SeqEqual
<1>7. Front(u) = v
      BY <1>1, <1>2, PartOfPart DEF Front, u, v
<1>8. QED
      BY <1>6, <1>7 DEF u, v, w

\* A path is a sequence of names, and so is each directory above it.
LEMMA PathParts ==
  ASSUME NEW p \in Paths
  PROVE  /\ p \in Seq(STRING) /\ Len(p) \in Nat \ {0} /\ p # <<>>
         /\ \A n \in 0..Len(p) : SubSeq(p, 1, n) \in Seq(STRING) /\ Len(SubSeq(p, 1, n)) = n
         /\ \A n \in 1..Len(p) : SubSeq(p, 1, n) \in Paths
<1>1. /\ PathOrder \in Seq(Seq(STRING) \ {<<>>})
      /\ \A q \in Paths : Len(q) > 1 => Front(q) \in Paths
      BY PathAssumption
<1>2. PICK i \in 1..Len(PathOrder) : p = PathOrder[i]
      BY <1>1 DEF Paths, ToSet
<1>3. p \in Seq(STRING) /\ p # <<>>
      BY <1>1, <1>2, ElementOfSeq
<1>4. Len(p) \in Nat \ {0}
      BY <1>3, EmptySeq
<1>5. \A n \in 0..Len(p) : SubSeq(p, 1, n) \in Seq(STRING) /\ Len(SubSeq(p, 1, n)) = n
      BY <1>3, FirstPart
<1> DEFINE T == {m \in Nat : m < Len(p) => SubSeq(p, 1, Len(p) - m) \in Paths}
<1>6. 0 \in T
  <2>1. Len(p) - 0 = Len(p) /\ SubSeq(p, 1, Len(p)) = p
        BY <1>3, <1>4, SubSeqFull
  <2>2. SubSeq(p, 1, Len(p) - 0) \in Paths
        BY <2>1
  <2>3. QED
        BY <2>2
<1>7. ASSUME NEW m \in Nat, m \in T PROVE m + 1 \in T
  <2> SUFFICES ASSUME m + 1 < Len(p) PROVE SubSeq(p, 1, Len(p) - (m + 1)) \in Paths
      OBVIOUS
  <2>1. Len(p) - m \in 1..Len(p) /\ Len(p) - m \in 0..Len(p) /\ Len(p) - m > 1
        BY <1>4
  <2>2. SubSeq(p, 1, Len(p) - m) \in Paths
        BY <1>7, <2>1
  <2>3. Front(SubSeq(p, 1, Len(p) - m)) = SubSeq(p, 1, (Len(p) - m) - 1)
        BY <1>3, <2>1, PartStep
  <2>4. Front(SubSeq(p, 1, Len(p) - m)) \in Paths
        BY <1>1, <1>5, <2>1, <2>2
  <2>5. (Len(p) - m) - 1 = Len(p) - (m + 1)
        BY <1>4
  <2>6. QED
        BY <2>3, <2>4, <2>5
<1> HIDE DEF T
<1>8. Nat \subseteq T
      BY <1>6, <1>7, SetInduction
<1>9. ASSUME NEW n \in 1..Len(p) PROVE SubSeq(p, 1, n) \in Paths
  <2>1. Len(p) - n \in Nat /\ Len(p) - n < Len(p) /\ Len(p) - (Len(p) - n) = n
        BY <1>4
  <2>2. QED
        BY <1>8, <2>1 DEF T
<1>10. QED
      BY <1>3, <1>4, <1>5, <1>9

LEMMA AbovePath ==
  ASSUME NEW p \in Paths, NEW q \in Above(p)
  PROVE  q \in Paths /\ q \in UpTo(p) /\ Len(q) < Len(p) /\ q # p
<1>1. PICK k \in 1..(Len(p) - 1) : q = SubSeq(p, 1, k)
      BY DEF Above
<1>2. Len(p) \in Nat /\ k \in 1..Len(p) /\ k \in 0..Len(p) /\ k < Len(p)
      BY PathParts
<1>3. q \in Paths /\ Len(q) = k
      BY <1>1, <1>2, PathParts
<1>4. QED
      BY <1>1, <1>2, <1>3 DEF UpTo

\* A path is the last of those up to it.
LEMMA UpToPath ==
  ASSUME NEW p \in Paths
  PROVE  UpTo(p) = Above(p) \cup {p} /\ UpTo(p) \subseteq Paths
<1>1. p \in Seq(STRING) /\ Len(p) \in Nat \ {0} /\ SubSeq(p, 1, Len(p)) = p
      BY PathParts, SubSeqFull
<1>2. 1..Len(p) = (1..(Len(p) - 1)) \cup {Len(p)}
      BY <1>1
<1>3. UpTo(p) = Above(p) \cup {p}
      BY <1>1, <1>2 DEF UpTo, Above
<1>4. QED
      BY <1>3, AbovePath

\* What is above a directory above p is above p.
LEMMA AboveAbove ==
  ASSUME NEW p \in Paths, NEW n \in 1..Len(p)
  PROVE  /\ UpTo(SubSeq(p, 1, n)) = {SubSeq(p, 1, k) : k \in 1..n}
         /\ Above(SubSeq(p, 1, n)) = {SubSeq(p, 1, k) : k \in 1..(n - 1)}
         /\ UpTo(SubSeq(p, 1, n)) \subseteq UpTo(p)
         /\ Above(SubSeq(p, 1, n)) \subseteq Above(p)
<1>1. p \in Seq(STRING) /\ Len(p) \in Nat \ {0} /\ n \in 0..Len(p) /\ Len(SubSeq(p, 1, n)) = n
      BY PathParts
<1>2. \A k \in 1..n : SubSeq(SubSeq(p, 1, n), 1, k) = SubSeq(p, 1, k)
      BY <1>1, PartOfPart
<1>3. UpTo(SubSeq(p, 1, n)) = {SubSeq(p, 1, k) : k \in 1..n}
      BY <1>1, <1>2 DEF UpTo
<1>4. Above(SubSeq(p, 1, n)) = {SubSeq(p, 1, k) : k \in 1..(n - 1)}
      BY <1>1, <1>2 DEF Above
<1>5. 1..n \subseteq 1..Len(p) /\ 1..(n - 1) \subseteq 1..(Len(p) - 1)
      BY <1>1
<1>6. QED
      BY <1>3, <1>4, <1>5 DEF UpTo, Above

\* What is not excluded is not below something excluded.
LEMMA NotExcludedAbove ==
  ASSUME NEW p \in Paths, ~ IsExcluded(p), NEW q \in UpTo(p)
  PROVE  ~ IsExcluded(q)
<1>1. PICK n \in 1..Len(p) : q = SubSeq(p, 1, n)
      BY DEF UpTo
<1>2. p \in Seq(STRING) /\ Len(p) \in Nat /\ n \in 0..Len(p) /\ Len(q) = n
      BY <1>1, PathParts
<1>3. ASSUME NEW e \in Excludes, IsPrefix(e, q) PROVE IsPrefix(e, p)
  <2>1. Len(e) \in Nat /\ Len(e) <= n /\ SubSeq(e, 1, Len(e)) = SubSeq(q, 1, Len(e))
        BY <1>2, <1>3, ExcludesAssumption DEF IsPrefix
  <2>2. SubSeq(q, 1, Len(e)) = SubSeq(p, 1, Len(e))
        BY <1>1, <1>2, <2>1, PartOfPart
  <2>3. QED
        BY <1>2, <2>1, <2>2 DEF IsPrefix
<1>4. QED
      BY <1>3 DEF IsExcluded

-----------------------------------------------------------------------------
(***************************************************************************)
(* Lemmas about the resolution of paths.                                   *)
(***************************************************************************)

\* Real takes one name after another: from the path resolved so far to the next.
Onward(t, q, name) == Append(Hop(t, q), name)

\* The equations that define Real, as one and one by one.
Defines(t, p, n, f) == f = [k \in 0..n |-> IF k = 0 THEN <<>> ELSE Onward(t, f[k - 1], p[k])]
Solves(t, p, n, f) == f[0] = <<>> /\ \A k \in 1..n : f[k] = Onward(t, f[k - 1], p[k])

\* They have a solution.
LEMMA RealExists ==
  ASSUME NEW t, NEW p, NEW n \in Nat
  PROVE  \E f : Defines(t, p, n, f)
<1> DEFINE T == {m \in Nat : \E f : Defines(t, p, m, f)}
<1>1. 0 \in T
  <2> DEFINE f == [k \in 0..0 |-> <<>>]
  <2>1. Defines(t, p, 0, f)
        BY DEF Defines
  <2>2. QED
        BY <2>1
<1>2. ASSUME NEW m \in Nat, m \in T PROVE m + 1 \in T
  <2>1. PICK f : Defines(t, p, m, f)
        BY <1>2
  <2> DEFINE g == [k \in 0..(m + 1) |-> IF k <= m THEN f[k]
                                        ELSE Onward(t, f[m], p[m + 1])]
  <2>2. \A k \in 0..(m + 1) : g[k] = IF k = 0 THEN <<>> ELSE Onward(t, g[k - 1], p[k])
        BY <2>1 DEF Defines
  <2>3. Defines(t, p, m + 1, g)
        BY <2>2 DEF Defines
  <2>4. m + 1 \in Nat
        OBVIOUS
  <2> HIDE DEF g
  <2>5. QED
        BY <2>3, <2>4
<1> HIDE DEF T
<1>3. n \in T
      BY <1>1, <1>2, SetInduction
<1>4. QED
      BY <1>3 DEF T

LEMMA RealSolves ==
  ASSUME NEW t, NEW p, Len(p) \in Nat
  PROVE  \E f : Solves(t, p, Len(p), f) /\ Real(t, p) = f[Len(p)]
<1> DEFINE n == Len(p)
           f == CHOOSE f : f = [k \in 0..n |->
                                 IF k = 0 THEN <<>> ELSE Onward(t, f[k - 1], p[k])]
<1>1. \E g : Defines(t, p, n, g)
      BY RealExists
<1>2. f = [k \in 0..n |-> IF k = 0 THEN <<>> ELSE Onward(t, f[k - 1], p[k])]
      BY <1>1 DEF Defines
<1>3. Real(t, p) = f[n]
      BY DEF Real, Onward
<1> HIDE DEF f
<1>4. Solves(t, p, n, f)
  <2> HIDE DEF n
  <2>1. n \in Nat
        BY DEF n
  <2>2. QED
        BY <1>2, <2>1 DEF Solves
<1>5. QED
      BY <1>3, <1>4

\* Two that solve the equations agree.
LEMMA RealUnique ==
  ASSUME NEW t, NEW p, NEW q, NEW f, NEW g, NEW n \in Nat,
         Solves(t, p, n, f), Solves(t, q, n, g), \A k \in 1..n : q[k] = p[k]
  PROVE  f[n] = g[n]
<1> DEFINE T == {m \in Nat : m <= n => f[m] = g[m]}
<1>1. 0 \in T
      BY DEF Solves
<1>2. ASSUME NEW m \in Nat, m \in T PROVE m + 1 \in T
  <2> SUFFICES ASSUME m + 1 <= n PROVE f[m + 1] = g[m + 1]
      OBVIOUS
  <2>1. m + 1 \in 1..n /\ (m + 1) - 1 = m /\ f[m] = g[m]
        BY <1>2
  <2>2. QED
        BY <2>1 DEF Solves
<1> HIDE DEF T
<1>3. n \in T
      BY <1>1, <1>2, SetInduction
<1>4. QED
      BY <1>3 DEF T

\* Real resolves one name after another.
LEMMA RealSteps ==
  ASSUME NEW t, NEW p \in Seq(STRING)
  PROVE  /\ Real(t, SubSeq(p, 1, 0)) = <<>>
         /\ \A n \in 1..Len(p) :
              Real(t, SubSeq(p, 1, n)) = Onward(t, Real(t, SubSeq(p, 1, n - 1)), p[n])
<1> DEFINE l == Len(p)
<1>1. l \in Nat
      OBVIOUS
<1>2. PICK f : Solves(t, p, l, f)
      BY <1>1, RealSolves
<1>3. ASSUME NEW n \in 0..l PROVE Real(t, SubSeq(p, 1, n)) = f[n]
  <2> DEFINE q == SubSeq(p, 1, n)
  <2>1. Len(q) = n /\ n \in Nat /\ \A k \in 1..n : q[k] = p[k]
        BY <1>1, FirstPart
  <2>2. \A k \in 1..n : k \in 1..l
        BY <1>1
  <2> HIDE DEF q, l
  <2>3. PICK g : Solves(t, q, n, g) /\ Real(t, q) = g[n]
        BY <2>1, RealSolves
  <2>4. Solves(t, p, n, f)
        BY <1>2, <2>2 DEF Solves
  <2>5. f[n] = g[n]
        BY <2>1, <2>3, <2>4, RealUnique
  <2>6. QED
        BY <2>3, <2>5 DEF q
<1>4. ASSUME NEW n \in 1..l
      PROVE  Real(t, SubSeq(p, 1, n)) = Onward(t, Real(t, SubSeq(p, 1, n - 1)), p[n])
  <2>1. n \in 0..l /\ n - 1 \in 0..l
        BY <1>1
  <2>2. Real(t, SubSeq(p, 1, n)) = f[n] /\ Real(t, SubSeq(p, 1, n - 1)) = f[n - 1]
        BY <1>3, <2>1
  <2>3. QED
        BY <1>2, <2>2 DEF Solves
<1>5. 0 \in 0..l
      BY <1>1
<1>6. QED
      BY <1>2, <1>3, <1>4, <1>5 DEF Solves

\* The root is no path of the tree, and is not resolved.
LEMMA HopOfRoot == ASSUME NEW t PROVE Hop(t, <<>>) = <<>>
BY PathParts DEF Hop

\* Where no link is on the way, a path is where it says.
LEMMA RealSelf ==
  ASSUME NEW t, NEW p \in Paths, \A q \in Above(p) : t[q].kind # "link"
  PROVE  Real(t, p) = p
<1> DEFINE T == {m \in Nat : m <= Len(p) => Real(t, SubSeq(p, 1, m)) = SubSeq(p, 1, m)}
<1>1. p \in Seq(STRING) /\ Len(p) \in Nat \ {0} /\ SubSeq(p, 1, Len(p)) = p
      BY PathParts, SubSeqFull
<1>2. 0 \in T
  <2>1. Real(t, SubSeq(p, 1, 0)) = <<>> /\ SubSeq(p, 1, 0) = <<>>
        BY <1>1, RealSteps, SubSeqEmpty
  <2>2. QED
        BY <2>1
<1>3. ASSUME NEW m \in Nat, m \in T PROVE m + 1 \in T
  <2> SUFFICES ASSUME m + 1 <= Len(p)
               PROVE  Real(t, SubSeq(p, 1, m + 1)) = SubSeq(p, 1, m + 1)
      OBVIOUS
  <2>1. m + 1 \in 1..Len(p) /\ (m + 1) - 1 = m /\ m <= Len(p)
        BY <1>1
  <2> DEFINE u == SubSeq(p, 1, m)
  <2>2. Real(t, u) = u
        BY <1>3, <2>1
  <2>3. Hop(t, u) = u
    <3>1. CASE m = 0
      <4>1. u = <<>>
            BY <3>1, SubSeqEmpty
      <4>2. QED
            BY <4>1, HopOfRoot
    <3>2. CASE m # 0
      <4>1. m \in 1..(Len(p) - 1)
            BY <1>1, <2>1, <3>2
      <4>2. u \in Above(p)
            BY <4>1 DEF Above
      <4>3. t[u].kind # "link"
            BY <4>2
      <4>4. QED
            BY <4>3 DEF Hop
    <3>3. QED
          BY <3>1, <3>2
  <2>4. Real(t, SubSeq(p, 1, m + 1)) = Onward(t, Real(t, u), p[m + 1])
        BY <1>1, <2>1, RealSteps
  <2>5. SubSeq(p, 1, m + 1) = Append(u, p[m + 1])
        BY <1>1, <2>1, PartStep
  <2>6. QED
        BY <2>2, <2>3, <2>4, <2>5 DEF Onward
<1> HIDE DEF T
<1>4. Len(p) \in T
      BY <1>1, <1>2, <1>3, SetInduction
<1>5. Real(t, SubSeq(p, 1, Len(p))) = SubSeq(p, 1, Len(p))
  <2>1. Len(p) <= Len(p)
        BY <1>1
  <2>2. QED
        BY <1>4, <2>1 DEF T
<1>6. QED
      BY <1>1, <1>5

\* Only the links of a tree count.
LEMMA RealSame ==
  ASSUME NEW t, NEW u, NEW p \in Seq(STRING), \A q : Hop(t, q) = Hop(u, q)
  PROVE  Real(t, p) = Real(u, p)
<1> DEFINE T == {m \in Nat : m <= Len(p) => Real(t, SubSeq(p, 1, m)) = Real(u, SubSeq(p, 1, m))}
<1>1. Len(p) \in Nat /\ SubSeq(p, 1, Len(p)) = p
      BY SubSeqFull
<1>2. 0 \in T
      BY RealSteps
<1>3. ASSUME NEW m \in Nat, m \in T PROVE m + 1 \in T
  <2> SUFFICES ASSUME m + 1 <= Len(p)
               PROVE  Real(t, SubSeq(p, 1, m + 1)) = Real(u, SubSeq(p, 1, m + 1))
      OBVIOUS
  <2>1. m + 1 \in 1..Len(p) /\ (m + 1) - 1 = m /\ m <= Len(p)
        BY <1>1
  <2>2. Real(t, SubSeq(p, 1, m)) = Real(u, SubSeq(p, 1, m))
        BY <1>3, <2>1
  <2>3. /\ Real(t, SubSeq(p, 1, m + 1)) = Onward(t, Real(t, SubSeq(p, 1, m)), p[m + 1])
        /\ Real(u, SubSeq(p, 1, m + 1)) = Onward(u, Real(u, SubSeq(p, 1, m)), p[m + 1])
        BY <2>1, RealSteps
  <2>4. QED
        BY <2>2, <2>3 DEF Onward
<1> HIDE DEF T
<1>4. Len(p) \in T
      BY <1>1, <1>2, <1>3, SetInduction
<1>5. Real(t, SubSeq(p, 1, Len(p))) = Real(u, SubSeq(p, 1, Len(p)))
  <2>1. Len(p) <= Len(p)
        BY <1>1
  <2>2. QED
        BY <1>4, <2>1 DEF T
<1>6. QED
      BY <1>1, <1>5

-----------------------------------------------------------------------------
(***************************************************************************)
(* Lemmas about trees.                                                     *)
(***************************************************************************)

\* A path is its directory with one name more.
LEMMA FrontOfPath ==
  ASSUME NEW p \in Paths
  PROVE  /\ Front(p) = SubSeq(p, 1, Len(p) - 1) /\ Len(Front(p)) = Len(p) - 1
         /\ Front(p) \in Seq(STRING) /\ p[Len(p)] \in STRING
         /\ p = Append(Front(p), p[Len(p)])
         /\ Len(p) > 1 => Front(p) \in Paths /\ Front(p) \in Above(p)
         /\ Len(p) = 1 => Front(p) = <<>>
<1>1. p \in Seq(STRING) /\ Len(p) \in Nat \ {0} /\ SubSeq(p, 1, Len(p)) = p
      BY PathParts, SubSeqFull
<1>2. Len(p) \in 1..Len(p) /\ Len(p) - 1 \in 0..Len(p)
      BY <1>1
<1>3. p[Len(p)] \in STRING
      BY <1>1, <1>2, ElementOfSeq
<1>4. Front(p) = SubSeq(p, 1, Len(p) - 1)
      BY DEF Front
<1>5. Len(Front(p)) = Len(p) - 1 /\ Front(p) \in Seq(STRING)
      BY <1>2, <1>4, PathParts
<1>6. p = Append(Front(p), p[Len(p)])
      BY <1>1, <1>2, <1>4, PartStep
<1>7. Len(p) > 1 => Front(p) \in Paths /\ Front(p) \in Above(p)
  <2>1. Len(p) > 1 => Len(p) - 1 \in 1..(Len(p) - 1)
        BY <1>1
  <2>2. Len(p) > 1 => Front(p) \in Above(p)
        BY <1>4, <2>1 DEF Above
  <2>3. QED
        BY <2>2, AbovePath
<1>8. Len(p) = 1 => Front(p) = <<>>
      BY <1>5, EmptySeq
<1>9. QED
      BY <1>3, <1>4, <1>5, <1>6, <1>7, <1>8

LEMMA FrontOfAppend ==
  ASSUME NEW S, NEW u \in Seq(S), NEW n \in S
  PROVE  /\ Append(u, n) \in Seq(S) /\ Len(Append(u, n)) = Len(u) + 1
         /\ Front(Append(u, n)) = u
<1> DEFINE v == Append(u, n)
<1>1. v \in Seq(S) /\ Len(v) = Len(u) + 1 /\ \A k \in 1..Len(u) : v[k] = u[k]
      BY AppendProperties
<1> HIDE DEF v
<1>2. Len(u) \in Nat /\ Len(u) \in 0..Len(v) /\ Len(v) - 1 = Len(u)
      BY <1>1
<1>3. /\ SubSeq(v, 1, Len(u)) \in Seq(S) /\ Len(SubSeq(v, 1, Len(u))) = Len(u)
      /\ \A k \in 1..Len(u) : SubSeq(v, 1, Len(u))[k] = v[k]
      BY <1>1, <1>2, FirstPart
<1>4. \A k \in 1..Len(SubSeq(v, 1, Len(u))) : SubSeq(v, 1, Len(u))[k] = u[k]
      BY <1>1, <1>3
<1>5. SubSeq(v, 1, Len(u)) = u
      BY <1>3, <1>4, SeqEqual
<1>6. Front(v) = u
      BY <1>2, <1>5 DEF Front
<1>7. QED
      BY <1>1, <1>6 DEF v

LEMMA ChildOf ==
  ASSUME NEW t, NEW p \in Paths, NEW q \in Paths
  PROVE  q \in Children(t, p) <=> Len(q) > 1 /\ Front(q) = p /\ t[q] # Absent
<1>1. /\ p \in Seq(STRING) /\ Len(p) \in Nat \ {0} /\ SubSeq(p, 1, Len(p)) = p
      /\ q \in Seq(STRING) /\ Len(q) \in Nat \ {0}
      BY PathParts, SubSeqFull
<1>2. Front(q) = SubSeq(q, 1, Len(q) - 1) /\ Len(Front(q)) = Len(q) - 1
      BY FrontOfPath
<1>3. ASSUME Len(q) = Len(p) + 1, IsPrefix(p, q) PROVE Len(q) > 1 /\ Front(q) = p
  <2>1. Len(q) - 1 = Len(p) /\ Len(q) > 1
        BY <1>1, <1>3
  <2>2. SubSeq(q, 1, Len(p)) = p
        BY <1>1, <1>3 DEF IsPrefix
  <2>3. QED
        BY <1>2, <2>1, <2>2
<1>4. ASSUME Len(q) > 1, Front(q) = p PROVE Len(q) = Len(p) + 1 /\ IsPrefix(p, q)
  <2>1. Len(q) = Len(p) + 1 /\ Len(p) = Len(q) - 1 /\ Len(p) <= Len(q)
        BY <1>1, <1>2, <1>4
  <2>2. SubSeq(q, 1, Len(p)) = SubSeq(p, 1, Len(p))
        BY <1>1, <1>2, <1>4, <2>1
  <2>3. QED
        BY <2>1, <2>2 DEF IsPrefix
<1>5. QED
      BY <1>3, <1>4 DEF Children

\* The four kinds of entries.
LEMMA EntryKinds ==
  ASSUME NEW e \in Entry
  PROVE  /\ e.kind \in {"none", "file", "dir", "link"}
         /\ e.kind = "none" <=> e = Absent
         /\ e.kind = "dir" <=> e = Dir
         /\ e.kind = "file" => e.data \in Seq(Blocks) /\ e.mtime \in Int
                               /\ e = File(e.data, e.mtime)
         /\ e.kind = "link" => e.to \in Paths \cup {Escape} /\ e = Link(e.to)
BY DEF Entry, Absent, Dir, File, Link

LEMMA DirIsThere == Dir # Absent
BY DEF Dir, Absent

LEMMA MakesEntries ==
  /\ Absent \in Walkable /\ Absent.kind = "none" /\ Dir \in Walkable /\ Dir.kind = "dir"
  /\ \A d \in Seq(Blocks), m \in Int :
       /\ File(d, m) \in Walkable /\ File(d, m).kind = "file"
       /\ File(d, m).data = d /\ File(d, m).mtime = m
  /\ \A to \in Paths : Link(to).kind = "link" /\ Link(to).to = to /\ Link(to) \in Entry
                       /\ (Holds(to) => Link(to) \in Walkable)
BY DEF Walkable, Entry, Absent, Dir, File, Link

\* What is there is in a directory.
Rooted(t) == \A q \in Paths : t[q] # Absent /\ Len(q) > 1 => t[Front(q)] = Dir

LEMMA TreeIs ==
  ASSUME NEW t
  PROVE  WellFormed(t) <=> t \in Listing /\ Rooted(t)
<1>1. ASSUME WellFormed(t) PROVE t \in Listing /\ Rooted(t)
  <2>1. t \in Listing
        BY <1>1 DEF WellFormed, Listing, Walkable
  <2>2. ASSUME NEW q \in Paths, t[q] # Absent, Len(q) > 1, t[Front(q)] # Dir PROVE FALSE
    <3>1. Front(q) \in Paths
          BY <2>2, FrontOfPath
    <3>2. q \in Children(t, Front(q))
          BY <2>2, <3>1, ChildOf
    <3>3. QED
          BY <1>1, <2>2, <3>1, <3>2 DEF WellFormed
  <2>3. QED
        BY <2>1, <2>2 DEF Rooted
<1>2. ASSUME t \in Listing, Rooted(t) PROVE WellFormed(t)
  <2>1. ASSUME NEW p \in Paths, NEW q \in Children(t, p), t[p] # Dir PROVE FALSE
    <3>1. q \in Paths
          BY DEF Children
    <3>2. Len(q) > 1 /\ Front(q) = p /\ t[q] # Absent
          BY <3>1, ChildOf
    <3>3. QED
          BY <1>2, <2>1, <3>1, <3>2 DEF Rooted
  <2>2. QED
        BY <1>2, <2>1 DEF WellFormed, Listing, Walkable
<1>3. QED
      BY <1>1, <1>2

\* All above something that is there are directories.
LEMMA BelowDirs ==
  ASSUME NEW t, WellFormed(t), NEW p \in Paths, t[p] # Absent, NEW q \in Above(p)
  PROVE  t[q] = Dir
<1> DEFINE T == {m \in Nat : m + 1 < Len(p) => t[SubSeq(p, 1, Len(p) - (m + 1))] = Dir}
<1>1. Rooted(t) /\ Len(p) \in Nat \ {0} /\ p \in Seq(STRING)
      BY TreeIs, PathParts
<1>2. 0 \in T
  <2>1. Len(p) > 1 => t[Front(p)] = Dir
        BY <1>1 DEF Rooted
  <2>2. Front(p) = SubSeq(p, 1, Len(p) - 1) /\ Len(p) - (0 + 1) = Len(p) - 1
        BY FrontOfPath, <1>1
  <2>3. 0 + 1 < Len(p) => t[SubSeq(p, 1, Len(p) - (0 + 1))] = Dir
        BY <2>1, <2>2
  <2>4. QED
        BY <2>3
<1>3. ASSUME NEW m \in Nat, m \in T PROVE m + 1 \in T
  <2> SUFFICES ASSUME (m + 1) + 1 < Len(p)
               PROVE  t[SubSeq(p, 1, Len(p) - ((m + 1) + 1))] = Dir
      OBVIOUS
  <2> DEFINE n == Len(p) - (m + 1)
             u == SubSeq(p, 1, n)
  <2>1. n \in 1..Len(p) /\ n > 1 /\ n - 1 = Len(p) - ((m + 1) + 1) /\ m + 1 < Len(p)
        BY <1>1
  <2>2. t[u] = Dir
        BY <1>3, <2>1
  <2> HIDE DEF n
  <2>3. u \in Paths /\ Len(u) = n
        BY <2>1, PathParts
  <2>4. Front(u) = SubSeq(p, 1, n - 1)
        BY <1>1, <2>1, PartStep
  <2>5. t[Front(u)] = Dir
    <3>1. t[u] # Absent /\ Len(u) > 1
          BY <2>1, <2>2, <2>3, DirIsThere
    <3> HIDE DEF u
    <3>2. QED
          BY <1>1, <2>3, <3>1 DEF Rooted
  <2>6. QED
        BY <2>1, <2>4, <2>5
<1> HIDE DEF T
<1>4. Nat \subseteq T
      BY <1>2, <1>3, SetInduction
<1>5. PICK k \in 1..(Len(p) - 1) : q = SubSeq(p, 1, k)
      BY DEF Above
<1>6. /\ (Len(p) - k) - 1 \in Nat /\ ((Len(p) - k) - 1) + 1 < Len(p)
      /\ Len(p) - (((Len(p) - k) - 1) + 1) = k
      BY <1>1
<1>7. QED
      BY <1>4, <1>5, <1>6 DEF T

\* One entry is replaced.
LEMMA SetEntry ==
  ASSUME NEW t, WellFormed(t), NEW at \in Paths, NEW e \in Walkable,
         e # Absent /\ Len(at) > 1 => t[Front(at)] = Dir,
         e = Dir \/ t[at] # Dir \/ Children(t, at) = {}
  PROVE  /\ WellFormed([t EXCEPT ![at] = e])
         /\ Confined(t) /\ (e.kind = "link" => e.to # Escape) => Confined([t EXCEPT ![at] = e])
<1> DEFINE u == [t EXCEPT ![at] = e]
<1>1. t \in Listing /\ Rooted(t)
      BY TreeIs
<1>2. u \in Listing /\ u[at] = e /\ \A q \in Paths : q # at => u[q] = t[q]
      BY <1>1 DEF Listing
<1> HIDE DEF u
<1>3. ASSUME NEW q \in Paths, u[q] # Absent, Len(q) > 1 PROVE u[Front(q)] = Dir
  <2>1. Front(q) \in Paths /\ Len(Front(q)) = Len(q) - 1 /\ Len(q) \in Nat
        BY <1>3, FrontOfPath, PathParts
  <2>2. t[Front(q)] = Dir
        BY <1>1, <1>2, <1>3 DEF Rooted
  <2>3. CASE Front(q) # at
        BY <1>2, <2>1, <2>2, <2>3
  <2>4. CASE Front(q) = at
    <3>1. q # at
          BY <2>1, <2>4
    <3>2. t[at] = Dir /\ q \in Children(t, at)
          BY <1>2, <1>3, <2>2, <2>4, <3>1, ChildOf
    <3>3. e = Dir
          BY <3>2
    <3>4. QED
          BY <1>2, <2>4, <3>3
  <2>5. QED
        BY <2>3, <2>4
<1>4. WellFormed(u)
      BY <1>2, <1>3, TreeIs DEF Rooted
<1>5. Confined(t) /\ (e.kind = "link" => e.to # Escape) => Confined(u)
      BY <1>2 DEF Confined
<1>6. QED
      BY <1>4, <1>5 DEF u

\* Lemmas about a path that is taken apart and put together.
LEMMA MiddlePart ==
  ASSUME NEW S, NEW p \in Seq(S), NEW i \in Nat \ {0}, NEW k \in Nat, k <= Len(p)
  PROVE  /\ SubSeq(p, i, k) \in Seq(S)
         /\ Len(SubSeq(p, i, k)) = IF i <= k THEN (k - i) + 1 ELSE 0
         /\ \A j \in 1..((k - i) + 1) : SubSeq(p, i, k)[j] = p[(i + j) - 1]
<1>1. Len(p) \in Nat /\ \A j \in i..k : p[j] \in S
      BY ElementOfSeq
<1>2. i \in Int /\ k \in Int
      OBVIOUS
<1>3. QED
      BY <1>1, <1>2, SubSeqProperties

LEMMA MoveName ==
  ASSUME NEW u \in Seq(STRING), NEW p \in Seq(STRING), NEW m \in Nat, NEW k \in Nat,
         m + 1 <= k, k <= Len(p)
  PROVE  Append(u, p[m + 1]) \o SubSeq(p, (m + 1) + 1, k) = u \o SubSeq(p, m + 1, k)
<1> DEFINE w == SubSeq(p, (m + 1) + 1, k)
<1>1. Len(p) \in Nat /\ m + 1 \in 1..Len(p) /\ k \in (m + 1)..Len(p)
      OBVIOUS
<1>2. p[m + 1] \in STRING
      BY <1>1, ElementOfSeq
<1>3. w \in Seq(STRING)
      BY MiddlePart
<1>4. SubSeq(p, m + 1, k) = <<p[m + 1]>> \o w
      BY <1>1, SubSeqRecursiveFirst
<1>5. Append(u, p[m + 1]) = u \o <<p[m + 1]>>
      BY <1>2, AppendIsConcat
<1> DEFINE n == <<p[m + 1]>>
<1>6. n \in Seq(STRING)
      BY <1>2
<1> HIDE DEF w, n
<1>7. (u \o n) \o w = u \o (n \o w)
  <2>1. u \in Seq(STRING) /\ n \in Seq(STRING) /\ w \in Seq(STRING)
        BY <1>3, <1>6
  <2>2. QED
        BY <2>1, ConcatAssociative
<1>8. QED
      BY <1>4, <1>5, <1>7 DEF w, n

LEMMA PartBehind ==
  ASSUME NEW S, NEW u \in Seq(S), NEW w \in Seq(S)
  PROVE  SubSeq(u \o w, Len(u) + 1, Len(u \o w)) = w
<1> DEFINE q == u \o w
           v == SubSeq(q, Len(u) + 1, Len(q))
<1>1. /\ Len(u) \in Nat /\ Len(w) \in Nat /\ q \in Seq(S) /\ Len(q) = Len(u) + Len(w)
      /\ \A j \in 1..(Len(u) + Len(w)) : q[j] = IF j <= Len(u) THEN u[j] ELSE w[j - Len(u)]
      BY ConcatProperties
<1> HIDE DEF q
<1>2. Len(u) + 1 \in Nat \ {0} /\ Len(q) \in Nat
      BY <1>1
<1>3. /\ v \in Seq(S)
      /\ Len(v) = IF Len(u) + 1 <= Len(q) THEN (Len(q) - (Len(u) + 1)) + 1 ELSE 0
      /\ \A j \in 1..((Len(q) - (Len(u) + 1)) + 1) : v[j] = q[((Len(u) + 1) + j) - 1]
      BY <1>1, <1>2, MiddlePart
<1> HIDE DEF v
<1>4. Len(v) = Len(w)
      BY <1>1, <1>3
<1>5. ASSUME NEW j \in 1..Len(v) PROVE v[j] = w[j]
  <2>1. v[j] = q[((Len(u) + 1) + j) - 1]
        BY <1>1, <1>3, <1>4
  <2>2. /\ ((Len(u) + 1) + j) - 1 \in 1..(Len(u) + Len(w))
        /\ ~ ((Len(u) + 1) + j) - 1 <= Len(u) /\ (((Len(u) + 1) + j) - 1) - Len(u) = j
        BY <1>1, <1>4
  <2>3. QED
        BY <1>1, <2>1, <2>2
<1>6. v = w
      BY <1>3, <1>4, <1>5, SeqEqual
<1>7. QED
      BY <1>6 DEF v, q

\* A link leads to a path of the tree, and what may be below a path may be below
\* where it leads.
LEMMA HopInPaths ==
  ASSUME NEW t, WellFormed(t), Confined(t), NEW q \in Paths
  PROVE  /\ Hop(t, q) \in Paths
         /\ \A w \in Seq(STRING) : q \o w \in Paths => Hop(t, q) \o w \in Paths
<1>1. CASE t[q].kind # "link"
      BY <1>1 DEF Hop
<1>2. CASE t[q].kind = "link"
  <2> DEFINE to == t[q].to
  <2>1. Hop(t, q) = to
        BY <1>2 DEF Hop
  <2>2. t[q] \in Walkable
        BY TreeIs DEF Listing
  <2>3. to \in Paths /\ Holds(to)
        BY <1>2, <2>2, EntryKinds DEF Confined, Walkable
  <2> HIDE DEF to
  <2>4. ASSUME NEW w \in Seq(STRING), q \o w \in Paths PROVE to \o w \in Paths
    <3> DEFINE v == q \o w
    <3>1. q \in Seq(STRING) /\ Len(q) \in Nat \ {0}
          BY PathParts
    <3>2. SubSeq(v, Len(q) + 1, Len(v)) = w
          BY <3>1, PartBehind
    <3>3. Len(v) = Len(q) + Len(w) /\ Len(w) \in Nat
          BY <3>1, ConcatProperties
    <3>4. v \in Paths
          BY <2>4
    <3> HIDE DEF v
    <3>5. Len(q) \in 1..Len(v)
          BY <3>1, <3>3
    <3>6. to \o SubSeq(v, Len(q) + 1, Len(v)) \in Paths
          BY <2>3, <3>4, <3>5 DEF Holds
    <3>7. QED
          BY <3>2, <3>6
  <2>5. QED
        BY <2>1, <2>3, <2>4
<1>3. QED
      BY <1>1, <1>2

\* A path leads to a path of the tree.
LEMMA RealInPaths ==
  ASSUME NEW t, WellFormed(t), Confined(t), NEW p \in Paths
  PROVE  Real(t, p) \in Paths
<1> DEFINE At(m) == Real(t, SubSeq(p, 1, m))
           Fine(m) == /\ At(m) \in Seq(STRING) /\ (m = 0 => At(m) = <<>>)
                      /\ m # 0 => At(m) \in Paths
                      /\ \A k \in 1..Len(p) : m <= k => At(m) \o SubSeq(p, m + 1, k) \in Paths
           T == {m \in Nat : m <= Len(p) => Fine(m)}
<1>1. p \in Seq(STRING) /\ Len(p) \in Nat \ {0} /\ SubSeq(p, 1, Len(p)) = p
      BY PathParts, SubSeqFull
<1>2. 0 \in T
  <2>1. At(0) = <<>>
        BY <1>1, RealSteps
  <2>2. ASSUME NEW k \in 1..Len(p) PROVE At(0) \o SubSeq(p, 0 + 1, k) \in Paths
    <3>1. SubSeq(p, 1, k) \in Paths /\ SubSeq(p, 1, k) \in Seq(STRING) /\ 0 + 1 = 1
          BY PathParts
    <3> HIDE DEF At
    <3>2. At(0) \o SubSeq(p, 1, k) = SubSeq(p, 1, k)
          BY <2>1, <3>1, ConcatEmptySeq
    <3>3. QED
          BY <3>1, <3>2
  <2>3. <<>> \in Seq(STRING)
        BY EmptySeq
  <2> HIDE DEF At
  <2>4. QED
        BY <2>1, <2>2, <2>3
<1>3. ASSUME NEW m \in Nat, m \in T PROVE m + 1 \in T
  <2> SUFFICES ASSUME m + 1 <= Len(p) PROVE Fine(m + 1)
      OBVIOUS
  <2> DEFINE r == At(m)
             h == Hop(t, r)
             s == At(m + 1)
  <2>1. m + 1 \in 1..Len(p) /\ (m + 1) - 1 = m /\ m <= Len(p) /\ p[m + 1] \in STRING
        BY <1>1, ElementOfSeq
  <2>2. s = Append(h, p[m + 1])
        BY <1>1, <2>1, RealSteps DEF Onward
  <2>3. /\ r \in Seq(STRING) /\ (m = 0 => r = <<>>) /\ (m # 0 => r \in Paths)
        /\ \A k \in 1..Len(p) : m <= k => r \o SubSeq(p, m + 1, k) \in Paths
        BY <1>3, <2>1
  <2> HIDE DEF At, r, h
  <2>4. /\ h \in Seq(STRING)
        /\ \A w \in Seq(STRING) : r \o w \in Paths => h \o w \in Paths
    <3>1. CASE m = 0
      <4>1. h = r
            BY <2>3, <3>1, HopOfRoot DEF h
      <4>2. QED
            BY <2>3, <4>1
    <3>2. CASE m # 0
      <4>1. r \in Paths
            BY <2>3, <3>2
      <4>2. QED
            BY <4>1, HopInPaths, PathParts DEF h
    <3>3. QED
          BY <3>1, <3>2
  <2>5. s \in Seq(STRING)
    <3>1. Append(h, p[m + 1]) \in Seq(STRING)
          BY <2>1, <2>4, FrontOfAppend
    <3>2. QED
          BY <2>2, <3>1
  <2>6. ASSUME NEW k \in 1..Len(p), m + 1 <= k PROVE s \o SubSeq(p, (m + 1) + 1, k) \in Paths
    <3>1. k \in Nat /\ k <= Len(p) /\ m <= k /\ m + 1 \in Nat \ {0}
          BY <1>1, <2>6
    <3>2. r \o SubSeq(p, m + 1, k) \in Paths
          BY <2>3, <3>1
    <3>3. SubSeq(p, m + 1, k) \in Seq(STRING)
          BY <1>1, <3>1, MiddlePart
    <3>4. h \o SubSeq(p, m + 1, k) \in Paths
          BY <2>4, <3>2, <3>3
    <3>5. Append(h, p[m + 1]) \o SubSeq(p, (m + 1) + 1, k) = h \o SubSeq(p, m + 1, k)
      <4>1. h \in Seq(STRING)
            BY <2>4
      <4>2. p \in Seq(STRING)
            BY <1>1
      <4>3. m \in Nat
            BY <1>1
      <4>4. k \in Nat
            BY <3>1
      <4>5. k <= Len(p)
            BY <3>1
      <4>6. QED
            BY <2>6, <4>1, <4>2, <4>3, <4>4, <4>5, MoveName
    <3>6. QED
          BY <2>2, <3>4, <3>5
  <2>7. s \in Paths
    <3>1. SubSeq(p, (m + 1) + 1, m + 1) = <<>>
          BY SubSeqEmpty
    <3>2. s \o SubSeq(p, (m + 1) + 1, m + 1) \in Paths
          BY <2>1, <2>6
    <3>3. s \o <<>> = s
          BY <2>5, ConcatEmptySeq
    <3>4. QED
          BY <3>1, <3>2, <3>3
  <2>8. m + 1 # 0
        OBVIOUS
  <2>9. QED
        BY <2>5, <2>6, <2>7, <2>8
<1> HIDE DEF T, Fine
<1>4. Len(p) \in T
      BY <1>1, <1>2, <1>3, SetInduction
<1>5. Fine(Len(p))
      BY <1>1, <1>4 DEF T
<1>6. QED
      BY <1>1, <1>5 DEF Fine

\* It is below where its directory leads.
LEMMA RealFront ==
  ASSUME NEW t, WellFormed(t), Confined(t), NEW p \in Paths
  PROVE  LET at == Real(t, p)
             in == Hop(t, Real(t, Front(p)))
         IN  /\ at \in Paths /\ at = Append(in, p[Len(p)])
             /\ Front(p) = <<>> => Len(at) = 1
             /\ Front(p) # <<>> => in \in Paths /\ Len(at) > 1 /\ Front(at) = in
<1> DEFINE at == Real(t, p)
           in == Hop(t, Real(t, Front(p)))
<1>1. /\ p \in Seq(STRING) /\ Len(p) \in Nat \ {0} /\ SubSeq(p, 1, Len(p)) = p
      /\ Len(p) \in 1..Len(p) /\ Front(p) = SubSeq(p, 1, Len(p) - 1) /\ p[Len(p)] \in STRING
      /\ Len(Front(p)) = Len(p) - 1
      BY PathParts, SubSeqFull, FrontOfPath
<1>2. at = Append(in, p[Len(p)])
      BY <1>1, RealSteps DEF Onward
<1>3. at \in Paths
      BY RealInPaths
<1> HIDE DEF at
<1>4. CASE Front(p) = <<>>
  <2>1. SubSeq(p, 1, 0) = <<>>
        BY SubSeqEmpty
  <2>2. Real(t, Front(p)) = <<>>
        BY <1>1, <1>4, <2>1, RealSteps
  <2>3. in = <<>> /\ <<>> \in Seq(STRING) /\ Len(<<>>) = 0
        BY <2>2, HopOfRoot, EmptySeq
  <2> HIDE DEF in
  <2>4. Len(Append(in, p[Len(p)])) = Len(in) + 1
        BY <1>1, <2>3, FrontOfAppend
  <2>5. Len(at) = 1
        BY <1>2, <2>3, <2>4
  <2>6. QED
        BY <1>2, <1>3, <1>4, <2>5 DEF at, in
<1>5. CASE Front(p) # <<>>
  <2>1. Len(p) > 1
    <3>1. Len(p) = 1 => Front(p) = <<>>
          BY FrontOfPath
    <3>2. QED
          BY <1>1, <1>5, <3>1
  <2>2. Front(p) \in Paths
        BY <2>1, FrontOfPath
  <2>3. in \in Paths
        BY <2>2, RealInPaths, HopInPaths
  <2> HIDE DEF in
  <2>4. in \in Seq(STRING) /\ Len(in) \in Nat \ {0}
        BY <2>3, PathParts
  <2>5. Front(Append(in, p[Len(p)])) = in /\ Len(Append(in, p[Len(p)])) = Len(in) + 1
        BY <1>1, <2>4, FrontOfAppend
  <2>6. Front(at) = in /\ Len(at) > 1
        BY <1>2, <2>4, <2>5
  <2>7. QED
        BY <1>2, <1>3, <1>5, <2>3, <2>6 DEF at, in
<1>6. QED
      BY <1>4, <1>5

-----------------------------------------------------------------------------
(***************************************************************************)
(* Lemmas about the file-system calls: a tree stays a tree, and where no   *)
(* link is on the way only the path that is named, and the directories     *)
(* above it, change.                                                       *)
(***************************************************************************)

Outcome == [ok : BOOLEAN, tree : Listing]

\* Nothing but new directories.
Grown(t, u) == \A q \in Paths : u[q] = t[q] \/ (t[q] = Absent /\ u[q] = Dir)

LEMMA GrownSame ==
  ASSUME NEW t, NEW u, Grown(t, u), NEW p \in Seq(STRING)
  PROVE  (\A q : Hop(t, q) = Hop(u, q)) /\ Real(t, p) = Real(u, p)
<1>1. \A q : Hop(t, q) = Hop(u, q)
      BY MakesEntries DEF Grown, Hop
<1>2. QED
      BY <1>1, RealSame

\* The path leads to a directory, perhaps through a link.
LeadsTo(t, p) == p = <<>> \/ (Hop(t, Real(t, p)) \in Paths /\ t[Hop(t, Real(t, p))] = Dir)

\* What a path leads to can be made when its directory is there.
LEMMA PlaceFor ==
  ASSUME NEW t, WellFormed(t), Confined(t), NEW p \in Paths, LeadsTo(t, Front(p))
  PROVE  Len(Real(t, p)) > 1 => t[Front(Real(t, p))] = Dir
BY RealFront DEF LeadsTo

LEMMA MakeDirGrows ==
  ASSUME NEW r \in Outcome, WellFormed(r.tree), Confined(r.tree), NEW p \in Paths,
         r.ok => LeadsTo(r.tree, Front(p))
  PROVE  LET m == MakeDir(r, p)
             at == Real(r.tree, p)
         IN  /\ m \in Outcome /\ WellFormed(m.tree) /\ Confined(m.tree)
             /\ m.ok => LeadsTo(m.tree, p)
             /\ Grown(r.tree, m.tree)
             /\ \A q \in Paths : m.tree[q] # r.tree[q] => q = at
<1> DEFINE t == r.tree
           m == MakeDir(r, p)
           at == Real(t, p)
           to == Hop(t, at)
           isDir == to \in Paths /\ t[to] = Dir
<1>1. at \in Paths /\ t \in Listing /\ r = [ok |-> r.ok, tree |-> t] /\ r.ok \in BOOLEAN
      BY RealInPaths DEF Outcome
<1>2. CASE r.ok /\ t[at] = Absent
  <2> DEFINE u == [t EXCEPT ![at] = Dir]
  <2>1. m = Yields(u)
        BY <1>2 DEF MakeDir
  <2>2. m = [ok |-> TRUE, tree |-> u]
        BY <2>1 DEF Yields
  <2>3. WellFormed(u) /\ Confined(u)
    <3>1. Len(at) > 1 => t[Front(at)] = Dir
          BY <1>2, PlaceFor
    <3>2. Dir \in Walkable /\ Dir.kind # "link"
          BY MakesEntries
    <3> HIDE DEF at, t
    <3>3. QED
          BY <1>1, <3>1, <3>2, SetEntry DEF t
  <2>4. u \in Listing
        BY <2>3, TreeIs
  <2>5. u[at] = Dir /\ \A q \in Paths : q # at => u[q] = t[q]
        BY <1>1 DEF Listing
  <2> HIDE DEF u, m, t
  <2>6. Grown(t, u)
        BY <1>2, <2>5 DEF Grown
  <2>7. Real(u, p) = at /\ Hop(u, at) = at
    <3>1. p \in Seq(STRING)
          BY PathParts
    <3>2. Real(u, p) = at
          BY <2>6, <3>1, GrownSame
    <3>3. Hop(u, at) = at
          BY <2>5, MakesEntries DEF Hop
    <3>4. QED
          BY <3>2, <3>3
  <2>8. LeadsTo(u, p)
        BY <1>1, <2>5, <2>7 DEF LeadsTo
  <2>9. m \in Outcome /\ m.tree = u
        BY <2>2, <2>4 DEF Outcome
  <2>10. QED
        BY <2>3, <2>5, <2>6, <2>8, <2>9 DEF m, t
<1>3. CASE ~ (r.ok /\ t[at] = Absent)
  <2>1. m = [r EXCEPT !.ok = @ /\ isDir]
        BY <1>3 DEF MakeDir
  <2> DEFINE b == r.ok /\ isDir
  <2>2. m = [ok |-> b, tree |-> t] /\ b \in BOOLEAN /\ (b => isDir)
        BY <1>1, <2>1
  <2> HIDE DEF m, b, isDir
  <2>3. m.tree = t /\ (m.ok => isDir) /\ m.ok \in BOOLEAN
        BY <2>2
  <2>4. m \in Outcome
        BY <1>1, <2>2 DEF Outcome
  <2>5. m.ok => LeadsTo(m.tree, p)
        BY <2>3 DEF LeadsTo, isDir
  <2>6. Grown(r.tree, m.tree)
        BY <2>3 DEF Grown
  <2>7. QED
        BY <2>3, <2>4, <2>5, <2>6 DEF m
<1>4. QED
      BY <1>2, <1>3

\* create_dir_all makes one directory after another.
Makes(t, p, n, f) ==
  f = [k \in 0..n |-> IF k = 0 THEN Yields(t) ELSE MakeDir(f[k - 1], SubSeq(p, 1, k))]

LEMMA MakesExists ==
  ASSUME NEW t, NEW p, NEW n \in Nat
  PROVE  \E f : Makes(t, p, n, f)
<1> DEFINE T == {m \in Nat : \E f : Makes(t, p, m, f)}
<1>1. 0 \in T
  <2> DEFINE f == [k \in 0..0 |-> Yields(t)]
  <2>1. Makes(t, p, 0, f)
        BY DEF Makes
  <2>2. QED
        BY <2>1
<1>2. ASSUME NEW m \in Nat, m \in T PROVE m + 1 \in T
  <2>1. PICK f : Makes(t, p, m, f)
        BY <1>2
  <2> DEFINE g == [k \in 0..(m + 1) |-> IF k <= m THEN f[k]
                                        ELSE MakeDir(f[m], SubSeq(p, 1, m + 1))]
  <2>2. \A k \in 0..(m + 1) :
          g[k] = IF k = 0 THEN Yields(t) ELSE MakeDir(g[k - 1], SubSeq(p, 1, k))
        BY <2>1 DEF Makes
  <2>3. Makes(t, p, m + 1, g)
        BY <2>2 DEF Makes
  <2>4. m + 1 \in Nat
        OBVIOUS
  <2> HIDE DEF g
  <2>5. QED
        BY <2>3, <2>4
<1> HIDE DEF T
<1>3. n \in T
      BY <1>1, <1>2, SetInduction
<1>4. QED
      BY <1>3 DEF T

LEMMA CreateSolves ==
  ASSUME NEW t, NEW p, Len(p) \in Nat
  PROVE  \E f : /\ f[0] = Yields(t) /\ CreateDirAll(t, p) = f[Len(p)]
                /\ \A k \in 1..Len(p) : f[k] = MakeDir(f[k - 1], SubSeq(p, 1, k))
<1> DEFINE n == Len(p)
           f == CHOOSE f : f = [k \in 0..n |-> IF k = 0 THEN Yields(t)
                                               ELSE MakeDir(f[k - 1], SubSeq(p, 1, k))]
<1>1. \E g : Makes(t, p, n, g)
      BY MakesExists
<1>2. f = [k \in 0..n |-> IF k = 0 THEN Yields(t) ELSE MakeDir(f[k - 1], SubSeq(p, 1, k))]
      BY <1>1 DEF Makes
<1>3. CreateDirAll(t, p) = f[n]
      BY DEF CreateDirAll
<1> HIDE DEF f
<1>4. f[0] = Yields(t) /\ \A k \in 1..n : f[k] = MakeDir(f[k - 1], SubSeq(p, 1, k))
  <2> HIDE DEF n
  <2>1. n \in Nat
        BY DEF n
  <2>2. QED
        BY <1>2, <2>1
<1>5. QED
      BY <1>3, <1>4

LEMMA CreateGrows ==
  ASSUME NEW t, WellFormed(t), Confined(t), NEW p \in Paths \cup {<<>>}
  PROVE  LET c == CreateDirAll(t, p)
         IN  /\ c \in Outcome /\ WellFormed(c.tree) /\ Confined(c.tree)
             /\ c.ok => LeadsTo(c.tree, p)
             /\ Grown(t, c.tree)
             /\ (\A q \in Above(p) : t[q].kind # "link") =>
                  \A q \in Paths : c.tree[q] # t[q] => q \in UpTo(p)
<1>1. p \in Seq(STRING) /\ Len(p) \in Nat /\ SubSeq(p, 1, Len(p)) = p
  <2>1. CASE p \in Paths
        BY <2>1, PathParts, SubSeqFull
  <2>2. CASE p = <<>>
        BY <2>2, EmptySeq, SubSeqFull
  <2>3. QED
        BY <2>1, <2>2
<1>2. PICK f : /\ f[0] = Yields(t) /\ CreateDirAll(t, p) = f[Len(p)]
               /\ \A k \in 1..Len(p) : f[k] = MakeDir(f[k - 1], SubSeq(p, 1, k))
      BY <1>1, CreateSolves
<1> DEFINE Free == \A q \in Above(p) : t[q].kind # "link"
           Fine(k) == /\ f[k] \in Outcome /\ WellFormed(f[k].tree) /\ Confined(f[k].tree)
                      /\ f[k].ok => LeadsTo(f[k].tree, SubSeq(p, 1, k))
                      /\ Grown(t, f[k].tree)
                      /\ Free => \A q \in Paths :
                           f[k].tree[q] # t[q] => \E j \in 1..k : q = SubSeq(p, 1, j)
           T == {k \in Nat : k <= Len(p) => Fine(k)}
<1>3. 0 \in T
  <2>1. f[0] = [ok |-> TRUE, tree |-> t] /\ t \in Listing
        BY <1>2, TreeIs DEF Yields
  <2>2. f[0] \in Outcome /\ f[0].tree = t
        BY <2>1 DEF Outcome
  <2>3. Grown(t, t)
        BY DEF Grown
  <2>4. LeadsTo(t, SubSeq(p, 1, 0))
        BY SubSeqEmpty DEF LeadsTo
  <2>5. Fine(0)
        BY <2>2, <2>3, <2>4
  <2> HIDE DEF Fine
  <2>6. QED
        BY <2>5
<1>4. ASSUME NEW k \in Nat, k \in T PROVE k + 1 \in T
  <2> SUFFICES ASSUME k + 1 <= Len(p) PROVE Fine(k + 1)
      OBVIOUS
  <2> DEFINE q == SubSeq(p, 1, k + 1)
             r == f[k]
             m == f[k + 1]
             at == Real(r.tree, q)
  <2>1. k + 1 \in 1..Len(p) /\ (k + 1) - 1 = k /\ k <= Len(p)
        BY <1>1
  <2>2. m = MakeDir(r, q)
        BY <1>2, <2>1
  <2>3. /\ r \in Outcome /\ WellFormed(r.tree) /\ Confined(r.tree)
        /\ r.ok => LeadsTo(r.tree, SubSeq(p, 1, k))
        /\ Grown(t, r.tree)
        /\ Free => \A x \in Paths :
             r.tree[x] # t[x] => \E j \in 1..k : x = SubSeq(p, 1, j)
        BY <1>4, <2>1
  <2> HIDE DEF r, m, Free
  <2>4. p \in Paths
    <3>1. Len(<<>>) = 0
          BY EmptySeq
    <3>2. QED
          BY <2>1, <3>1
  <2>5. q \in Paths /\ Front(q) = SubSeq(p, 1, k)
        BY <1>1, <2>1, <2>4, PathParts, PartStep
  <2>6. /\ m \in Outcome /\ WellFormed(m.tree) /\ Confined(m.tree)
        /\ m.ok => LeadsTo(m.tree, q)
        /\ Grown(r.tree, m.tree)
        /\ \A x \in Paths : m.tree[x] # r.tree[x] => x = at
        BY <2>2, <2>3, <2>5, MakeDirGrows
  <2>7. Grown(t, m.tree)
        BY <2>3, <2>6, DirIsThere DEF Grown
  <2>8. ASSUME Free, NEW x \in Paths, m.tree[x] # t[x]
        PROVE  \E j \in 1..(k + 1) : x = SubSeq(p, 1, j)
    <3>1. at = q
      <4>1. Above(q) = {SubSeq(p, 1, j) : j \in 1..((k + 1) - 1)}
            BY <2>1, <2>4, AboveAbove
      <4>2. \A j \in 1..((k + 1) - 1) : j \in 1..(Len(p) - 1)
            BY <1>1, <2>1
      <4>3. \A y \in Above(q) : y \in Above(p)
            BY <4>1, <4>2 DEF Above
      <4>4. ASSUME NEW y \in Above(q) PROVE r.tree[y].kind # "link"
        <5>1. t[y].kind # "link" /\ y \in Paths
              BY <2>8, <4>3, <2>5, AbovePath DEF Free
        <5>2. QED
              BY <5>1, <2>3, MakesEntries DEF Grown
      <4>5. QED
            BY <2>5, <4>4, RealSelf
    <3>2. CASE m.tree[x] # r.tree[x]
          BY <2>1, <2>6, <3>1, <3>2
    <3>3. CASE m.tree[x] = r.tree[x]
      <4>1. PICK j \in 1..k : x = SubSeq(p, 1, j)
            BY <2>3, <2>8, <3>3
      <4>2. QED
            BY <4>1
    <3>4. QED
          BY <3>2, <3>3
  <2>9. QED
        BY <2>6, <2>7, <2>8 DEF m
<1> HIDE DEF T, Fine
<1>5. Len(p) \in T
      BY <1>1, <1>3, <1>4, SetInduction
<1>6. Fine(Len(p))
      BY <1>1, <1>5 DEF T
<1>7. QED
      BY <1>1, <1>2, <1>6 DEF Fine, UpTo

\* The directories above p, as create_dir_all takes them.
LEMMA FrontAbove ==
  ASSUME NEW p \in Paths
  PROVE  /\ Front(p) \in Paths \cup {<<>>}
         /\ UpTo(Front(p)) \subseteq Above(p) /\ Above(Front(p)) \subseteq Above(p)
<1>1. Len(p) \in Nat \ {0} /\ Len(<<>>) = 0
      BY PathParts, EmptySeq
<1>2. CASE Len(p) = 1
  <2>1. Front(p) = <<>>
        BY <1>2, FrontOfPath
  <2>2. UpTo(<<>>) = {} /\ Above(<<>>) = {}
        BY <1>1 DEF UpTo, Above
  <2>3. QED
        BY <2>1, <2>2
<1>3. CASE Len(p) > 1
  <2>1. Len(p) - 1 \in 1..Len(p)
        BY <1>1, <1>3
  <2>2. Front(p) \in Paths /\ Front(p) = SubSeq(p, 1, Len(p) - 1)
        BY <1>3, FrontOfPath
  <2>3. UpTo(Front(p)) = Above(p)
        BY <2>1, <2>2, AboveAbove DEF Above
  <2>4. Above(Front(p)) \subseteq Above(p)
        BY <2>1, <2>2, AboveAbove
  <2>5. QED
        BY <2>2, <2>3, <2>4
<1>4. Len(p) = 1 \/ Len(p) > 1
      BY <1>1
<1>5. QED
      BY <1>2, <1>3, <1>4

LEMMA WriteEffect ==
  ASSUME NEW t, WellFormed(t), Confined(t), NEW p \in Paths,
         NEW d \in Seq(Blocks), NEW m \in Int
  PROVE  LET w == WriteFileAtomic(t, p, File(d, m))
         IN  /\ w \in Outcome /\ WellFormed(w.tree) /\ Confined(w.tree)
             /\ (\A q \in Above(p) : t[q].kind # "link") =>
                  \A q \in Paths :
                    \/ w.tree[q] = t[q]
                    \/ q \in Above(p) /\ t[q] = Absent /\ w.tree[q] = Dir
                    \/ q = p /\ w.tree[q] = File(d, m)
<1> DEFINE c == CreateDirAll(t, Front(p))
           u == c.tree
           at == Real(u, p)
           e == File(d, m)
           w == WriteFileAtomic(t, p, e)
           Free == \A q \in Above(p) : t[q].kind # "link"
<1>1. /\ c \in Outcome /\ WellFormed(u) /\ Confined(u)
      /\ c.ok => LeadsTo(u, Front(p))
      /\ Grown(t, u)
      /\ (\A q \in Above(Front(p)) : t[q].kind # "link") =>
           \A q \in Paths : u[q] # t[q] => q \in UpTo(Front(p))
      BY FrontAbove, CreateGrows
<1>2. at \in Paths
      BY <1>1, RealInPaths
<1>3. e \in Walkable /\ e.kind = "file" /\ e # Absent
      BY MakesEntries
<1>4. Free => \A q \in Paths : u[q] = t[q] \/ (q \in Above(p) /\ t[q] = Absent /\ u[q] = Dir)
      BY <1>1, FrontAbove DEF Grown
<1>5. Free => at = p
  <2> SUFFICES ASSUME Free PROVE at = p
      OBVIOUS
  <2>1. ASSUME NEW q \in Above(p) PROVE u[q].kind # "link"
    <3>1. q \in Paths
          BY AbovePath
    <3>2. QED
          BY <1>4, <3>1, MakesEntries
  <2>2. QED
        BY <2>1, RealSelf
<1>6. CASE c.ok /\ u[at] # Dir
  <2> DEFINE v == [u EXCEPT ![at] = e]
  <2>1. w = [ok |-> TRUE, tree |-> v]
        BY <1>6 DEF WriteFileAtomic, Yields
  <2> HIDE DEF c, e, at, Free
  <2>2. Len(at) > 1 => u[Front(at)] = Dir
        BY <1>1, <1>6, PlaceFor DEF at
  <2>3. WellFormed(v) /\ Confined(v)
    <3> HIDE DEF u
    <3>1. QED
          BY <1>1, <1>2, <1>3, <1>6, <2>2, SetEntry
  <2>4. v \in Listing
        BY <2>3, TreeIs
  <2>5. w \in Outcome /\ w.tree = v
    <3> HIDE DEF v, w
    <3>1. QED
          BY <2>1, <2>4 DEF Outcome
  <2>6. u \in Listing
        BY <1>1, TreeIs
  <2>7. v[at] = e /\ \A q \in Paths : q # at => v[q] = u[q]
    <3> HIDE DEF u
    <3>1. QED
          BY <1>2, <2>6 DEF Listing
  <2> HIDE DEF u, v, w
  <2>8. ASSUME Free, NEW q \in Paths, v[q] # t[q]
        PROVE  \/ q \in Above(p) /\ t[q] = Absent /\ v[q] = Dir
               \/ q = p /\ v[q] = e
    <3>1. CASE q = p
          BY <1>5, <2>7, <2>8, <3>1
    <3>2. CASE q # p
          BY <1>4, <1>5, <2>7, <2>8, <3>2
    <3>3. QED
          BY <3>1, <3>2
  <2>9. QED
        BY <2>3, <2>5, <2>8 DEF w, e, Free
<1>7. CASE ~ (c.ok /\ u[at] # Dir)
  <2>1. w = [ok |-> FALSE, tree |-> u]
        BY <1>7 DEF WriteFileAtomic, Fails
  <2>2. u \in Listing
        BY <1>1, TreeIs
  <2> HIDE DEF w, u
  <2>3. w \in Outcome /\ w.tree = u
        BY <2>1, <2>2 DEF Outcome
  <2> HIDE DEF Free
  <2>4. QED
        BY <1>1, <1>4, <2>3 DEF w, Free
<1>8. QED
      BY <1>6, <1>7

LEMMA LinkEffect ==
  ASSUME NEW t, WellFormed(t), Confined(t), NEW p \in Paths, NEW to,
         to # Escape => to \in Paths /\ Holds(to)
  PROVE  LET w == PutLink(t, p, to, rooted)
         IN  /\ w \in Outcome /\ WellFormed(w.tree) /\ Confined(w.tree)
             /\ (\A q \in Above(p) : t[q].kind # "link") =>
                  \A q \in Paths : w.tree[q] = t[q] \/ (q = p /\ w.tree[q] = Link(to))
<1> DEFINE at == Real(t, p)
           w == PutLink(t, p, to, rooted)
           there == IF Len(at) > 1 THEN t[Front(at)] = Dir ELSE rooted
<1>1. at \in Paths /\ t \in Listing
      BY RealInPaths, TreeIs
<1>2. (\A q \in Above(p) : t[q].kind # "link") => at = p
      BY RealSelf
<1>3. CASE to # Escape /\ t[at] # Dir /\ there
  <2> DEFINE u == [t EXCEPT ![at] = Link(to)]
  <2>1. w = [ok |-> TRUE, tree |-> u]
        BY <1>3 DEF PutLink, Yields
  <2>2. Link(to) \in Walkable /\ Link(to).kind = "link" /\ Link(to).to # Escape
        BY <1>3, MakesEntries
  <2>3. WellFormed(u) /\ Confined(u)
    <3>1. Len(at) > 1 => t[Front(at)] = Dir
          BY <1>3
    <3> HIDE DEF at
    <3>2. QED
          BY <1>1, <1>3, <2>2, <3>1, SetEntry
  <2>4. u \in Listing
        BY <2>3, TreeIs
  <2>5. u[at] = Link(to) /\ \A q \in Paths : q # at => u[q] = t[q]
        BY <1>1 DEF Listing
  <2> HIDE DEF u, w, at
  <2>6. w \in Outcome /\ w.tree = u
        BY <2>1, <2>4 DEF Outcome
  <2>7. QED
        BY <1>2, <2>3, <2>5, <2>6 DEF w
<1>4. CASE ~ (to # Escape /\ t[at] # Dir /\ there)
  <2>1. w = [ok |-> FALSE, tree |-> t]
        BY <1>4 DEF PutLink, Fails
  <2> HIDE DEF w
  <2>2. w \in Outcome /\ w.tree = t
        BY <1>1, <2>1 DEF Outcome
  <2>3. QED
        BY <2>2 DEF w
<1>5. QED
      BY <1>3, <1>4

LEMMA RemoveEffect ==
  ASSUME NEW t, WellFormed(t), Confined(t), NEW p \in Paths
  PROVE  LET u == RemoveEntry(t, p)
         IN  /\ WellFormed(u) /\ Confined(u)
             /\ (\A q \in Above(p) : t[q].kind # "link") =>
                  \A q \in Paths : u[q] = t[q] \/ (q = p /\ u[q] = Absent)
<1> DEFINE at == Real(t, p)
           u == RemoveEntry(t, p)
<1>1. at \in Paths /\ t \in Listing
      BY RealInPaths, TreeIs
<1>2. (\A q \in Above(p) : t[q].kind # "link") => at = p
      BY RealSelf
<1>3. CASE t[at] = Dir /\ Children(t, at) # {}
  <2>1. u = t
        BY <1>3 DEF RemoveEntry
  <2>2. QED
        BY <2>1
<1>4. CASE ~ (t[at] = Dir /\ Children(t, at) # {})
  <2>1. u = [t EXCEPT ![at] = Absent]
        BY <1>4 DEF RemoveEntry
  <2>2. WellFormed(u) /\ Confined(u)
    <3>1. Absent \in Walkable /\ Absent.kind # "link"
          BY MakesEntries
    <3> HIDE DEF at, u
    <3>2. QED
          BY <1>1, <1>4, <2>1, <3>1, SetEntry
  <2>3. u[at] = Absent /\ \A q \in Paths : q # at => u[q] = t[q]
        BY <1>1, <2>1 DEF Listing
  <2> HIDE DEF at, u
  <2>4. QED
        BY <1>2, <2>2, <2>3 DEF u
<1>5. QED
      BY <1>3, <1>4

LEMMA ReadEffect ==
  ASSUME NEW t, WellFormed(t), Confined(t), NEW p \in Paths
  PROVE  /\ ReadNoFollow(t, p) \in Seq(Blocks)
         /\ (\A q \in Above(p) : t[q].kind # "link") =>
              \/ ReadNoFollow(t, p) = <<>>
              \/ t[p].kind = "file" /\ ReadNoFollow(t, p) = t[p].data
<1> DEFINE at == Real(t, p)
<1>1. at \in Paths /\ t[at] \in Entry
      BY RealInPaths, TreeIs DEF Listing, Walkable
<1>2. (\A q \in Above(p) : t[q].kind # "link") => at = p
      BY RealSelf
<1>3. ReadNoFollow(t, p) = IF t[at].kind = "file" THEN t[at].data ELSE <<>>
      BY DEF ReadNoFollow
<1> HIDE DEF at
<1>4. <<>> \in Seq(Blocks)
      BY EmptySeq
<1>5. t[at].kind = "file" => t[at].data \in Seq(Blocks)
      BY <1>1, EntryKinds
<1>6. QED
      BY <1>2, <1>3, <1>4, <1>5

-----------------------------------------------------------------------------
(***************************************************************************)
(* Lemmas about deltas.                                                    *)
(***************************************************************************)

\* A set of numbers has a least one.
LEMMA LeastNumber ==
  ASSUME NEW I \in SUBSET Nat, I # {}
  PROVE  Min(I) \in I /\ \A y \in I : Min(I) <= y
<1> DEFINE R == {xy \in Nat \X Nat : xy[1] < xy[2]}
<1>1. IsWellFoundedOn(R, Nat)
      BY NatLessThanWellFounded, Zenon DEF OpToRel
<1>2. PICK x \in I : \A y \in I : ~ (<<y, x>> \in R)
  <2> HIDE DEF R
  <2> QED
      BY <1>1, WFMin
<1>3. \A y \in I : x <= y
  <2> SUFFICES ASSUME NEW y \in I PROVE x <= y
      OBVIOUS
  <2>1. <<y, x>> \notin R
        BY <1>2
  <2>2. QED
        BY <2>1
<1>4. QED
      BY <1>3 DEF Min

\* A copy names a block of the old file, and the block is the one it stands for.
LEMMA DeltaOpIsRight ==
  ASSUME NEW c \in Seq(Blocks), NEW base \in Seq(Blocks), NEW k \in 1..Len(c)
  PROVE  LET o == Delta(c, base)[k]
         IN  /\ o \in Op
             /\ o.op = "copy" => o.ix \in 1..Len(base) /\ base[o.ix] = c[k]
             /\ o.op # "copy" => o.block = c[k]
<1> DEFINE o == Delta(c, base)[k]
           I == {m \in 1..Len(base) : base[m] = c[k]}
<1>1. c[k] \in Blocks /\ Len(base) \in Nat
      BY ElementOfSeq
<1>2. CASE c[k] \in ToSet(base)
  <2>1. o = [op |-> "copy", ix |-> SelectInSeq(base, LAMBDA x : x = c[k])]
        BY <1>2 DEF Delta
  <2>2. I # {} /\ I \in SUBSET Nat
        BY <1>2 DEF ToSet
  <2>3. SelectInSeq(base, LAMBDA x : x = c[k]) = Min(I)
        BY <2>2 DEF SelectInSeq
  <2>4. Min(I) \in I
        BY <2>2, LeastNumber
  <2> DEFINE m == Min(I)
  <2>5. o = [op |-> "copy", ix |-> m] /\ m \in 1..Len(base) /\ base[m] = c[k]
        BY <2>1, <2>3, <2>4
  <2> HIDE DEF o, m
  <2>6. m \in Nat \ {0}
        BY <2>5, <1>1
  <2>7. o \in Op /\ o.op = "copy" /\ o.ix = m
        BY <2>5, <2>6 DEF Op
  <2>8. QED
        BY <2>5, <2>7 DEF o
<1>3. CASE c[k] \notin ToSet(base)
  <2>1. o = [op |-> "literal", block |-> c[k]]
        BY <1>3 DEF Delta
  <2> HIDE DEF o
  <2>2. o \in Op /\ o.op = "literal" /\ o.block = c[k]
        BY <2>1, <1>1 DEF Op
  <2>3. QED
        BY <2>2 DEF o
<1>4. QED
      BY <1>2, <1>3

\* A delta applied to the file its signature was made of gives the new file.
LEMMA DeltaRoundTrip ==
  ASSUME NEW c \in Seq(Blocks), NEW base \in Seq(Blocks)
  PROVE  /\ Delta(c, base) \in Seq(Op)
         /\ CanPatch(base, Delta(c, base))
         /\ Patch(base, Delta(c, base)) = c
<1> DEFINE d == Delta(c, base)
<1>1. \A k \in 1..Len(c) : /\ d[k] \in Op
                           /\ d[k].op = "copy" => d[k].ix \in 1..Len(base) /\ base[d[k].ix] = c[k]
                           /\ d[k].op # "copy" => d[k].block = c[k]
      BY DeltaOpIsRight
<1>2. d = [k \in 1..Len(c) |-> d[k]]
      BY DEF Delta
<1> HIDE DEF d
<1>3. Len(c) \in Nat
      OBVIOUS
<1>4. d \in Seq(Op) /\ Len(d) = Len(c)
  <2>1. d \in [1..Len(c) -> Op]
        BY <1>1, <1>2
  <2>2. QED
        BY <2>1, <1>3
<1>5. CanPatch(base, d)
      BY <1>1, <1>4 DEF CanPatch
<1>6. Patch(base, d) = c
  <2>1. Patch(base, d) = [k \in 1..Len(c) |-> c[k]]
        BY <1>1, <1>4 DEF Patch
  <2>2. QED
        BY <2>1
<1>7. QED
      BY <1>4, <1>5, <1>6 DEF d

\* Whatever file it is applied to, a delta gives blocks.
LEMMA PatchGivesBlocks ==
  ASSUME NEW old \in Seq(Blocks), NEW d \in Seq(Op), CanPatch(old, d)
  PROVE  Patch(old, d) \in Seq(Blocks)
<1>1. Len(d) \in Nat
      OBVIOUS
<1>2. ASSUME NEW k \in 1..Len(d)
      PROVE  (IF d[k].op = "copy" THEN old[d[k].ix] ELSE d[k].block) \in Blocks
  <2>1. d[k] \in Op
        BY ElementOfSeq
  <2>2. CASE d[k].op = "copy"
    <3>1. d[k].ix \in Nat \ {0} /\ d[k].ix <= Len(old)
          BY <2>1, <2>2 DEF Op, CanPatch
    <3>2. old[d[k].ix] \in Blocks
          BY <3>1, ElementOfSeq
    <3>3. QED
          BY <2>2, <3>2
  <2>3. CASE d[k].op # "copy"
        BY <2>1, <2>3 DEF Op
  <2>4. QED
        BY <2>2, <2>3
<1>3. Patch(old, d) \in [1..Len(d) -> Blocks]
      BY <1>2 DEF Patch
<1>4. QED
      BY <1>1, <1>3

\* What a delta saves something with is not empty, and neither is its signature.
LEMMA ShorterUses ==
  ASSUME NEW c \in Seq(Blocks), NEW base \in Seq(Blocks), IsShorter(Delta(c, base))
  PROVE  base # <<>>
<1> DEFINE d == Delta(c, base)
<1>1. PICK k \in 1..Len(d) : d[k].op = "copy"
      BY DEF IsShorter
<1>2. Len(d) = Len(c) /\ Len(c) \in Nat
      BY DEF Delta
<1>3. d[k].ix \in 1..Len(base)
      BY <1>1, <1>2, DeltaOpIsRight
<1>4. QED
      BY <1>3, EmptySeq

-----------------------------------------------------------------------------
(***************************************************************************)
(* Lemmas about frames.                                                    *)
(***************************************************************************)

\* One sequence behind another.
LEMMA Joined ==
  ASSUME NEW S, NEW u \in Seq(S), NEW w \in Seq(S)
  PROVE  /\ u \o w \in Seq(S) /\ Len(u \o w) = Len(u) + Len(w)
         /\ Len(u) \in Nat /\ Len(w) \in Nat
         /\ \A k \in 1..Len(u) : (u \o w)[k] = u[k]
         /\ \A k \in 1..Len(w) : (u \o w)[Len(u) + k] = w[k]
<1>1. Len(u) \in Nat /\ Len(w) \in Nat
      OBVIOUS
<1>2. /\ u \o w \in Seq(S) /\ Len(u \o w) = Len(u) + Len(w)
      /\ \A i \in 1..(Len(u) + Len(w)) :
           (u \o w)[i] = IF i <= Len(u) THEN u[i] ELSE w[i - Len(u)]
      BY ConcatProperties
<1> DEFINE v == u \o w
<1> HIDE DEF v
<1>3. ASSUME NEW k \in 1..Len(u) PROVE v[k] = u[k]
      BY <1>1, <1>2 DEF v
<1>4. ASSUME NEW k \in 1..Len(w) PROVE v[Len(u) + k] = w[k]
  <2>1. Len(u) + k \in 1..(Len(u) + Len(w)) /\ ~ Len(u) + k <= Len(u) /\ (Len(u) + k) - Len(u) = k
        BY <1>1
  <2>2. QED
        BY <1>2, <2>1 DEF v
<1>5. QED
      BY <1>1, <1>2, <1>3, <1>4 DEF v

LEMMA FrameKinds ==
  ASSUME NEW f \in AgentFrame
  PROVE  /\ f.tag \in {"SYNC_REQ", "PLAN_DONE", "MKDIR", "SIG_REQ", "DELETE", "PUT"}
         /\ f.paths \in Seq(Paths)
         /\ f.tag \in {"SYNC_REQ", "PLAN_DONE"} => f.paths = <<>>
         /\ f.tag \in {"MKDIR", "SIG_REQ", "DELETE", "PUT"} =>
              /\ Len(f.paths) \in Nat \ {0} /\ Head(f.paths) = f.paths[1]
              /\ f.paths[1] \in Paths
         /\ f.tag \in {"MKDIR", "SIG_REQ", "DELETE"} => f = [tag |-> f.tag, paths |-> f.paths]
         /\ f.tag = "PUT" =>
              /\ f.paths = <<f.paths[1]>> /\ Len(f.paths) = 1
              /\ f.entry \in Walkable /\ f.entry # Absent
              /\ f.delta \in Seq(Op) /\ f.len \in Nat
              /\ f.delta # <<>> => f.entry.kind = "file"
<1>1. CASE f \in [tag : {"SYNC_REQ", "PLAN_DONE"}, paths : {<<>>}]
  <2>1. f.tag \in {"SYNC_REQ", "PLAN_DONE"} /\ f.paths = <<>> /\ f.paths \in Seq(Paths)
        BY <1>1, EmptySeq
  <2>2. QED
        BY <2>1
<1>2. CASE f \in [tag : {"MKDIR", "SIG_REQ", "DELETE"}, paths : Seq(Paths) \ {<<>>}]
  <2>1. f.tag \in {"MKDIR", "SIG_REQ", "DELETE"} /\ f.paths \in Seq(Paths) /\ f.paths # <<>>
        BY <1>2
  <2>2. f = [tag |-> f.tag, paths |-> f.paths]
        BY <1>2
  <2>3. Len(f.paths) \in Nat \ {0} /\ Head(f.paths) = f.paths[1] /\ f.paths[1] \in Paths
    <3>1. Len(f.paths) \in Nat \ {0}
          BY <2>1, EmptySeq
    <3>2. 1 \in 1..Len(f.paths)
          BY <3>1
    <3>3. QED
          BY <2>1, <3>1, <3>2, ElementOfSeq
  <2>4. QED
        BY <2>1, <2>2, <2>3
<1>3. CASE f \in {g \in PutFrames : g.entry # Absent /\ (g.delta # <<>> => g.entry.kind = "file")}
  <2>1. /\ f.tag = "PUT" /\ f.paths \in {<<p>> : p \in Paths} /\ f.entry \in Walkable
        /\ f.delta \in Seq(Op) /\ f.len \in Nat
        /\ f.entry # Absent /\ (f.delta # <<>> => f.entry.kind = "file")
        BY <1>3 DEF PutFrames
  <2>2. PICK p \in Paths : f.paths = <<p>>
        BY <2>1
  <2>3. Len(f.paths) = 1 /\ Head(f.paths) = f.paths[1] /\ f.paths[1] = p /\ f.paths \in Seq(Paths)
        BY <2>2
  <2>4. QED
        BY <2>1, <2>2, <2>3
<1>4. QED
      BY <1>1, <1>2, <1>3 DEF AgentFrame

\* A thinner frame names fewer paths.
Thinner(x, y) ==
  \/ x = y
  \/ /\ x.tag = y.tag /\ y.tag \in {"MKDIR", "SIG_REQ", "DELETE"}
     /\ \A i \in 1..Len(x.paths) : \E j \in 1..Len(y.paths) : x.paths[i] = y.paths[j]

\* The frames that are left.
Within(g, f) ==
  \E d \in Nat : Len(g) + d <= Len(f) /\ \A k \in 1..Len(g) : Thinner(g[k], f[k + d])

LEMMA NoneWithin == \A f \in Seq(AgentFrame) : Within(<<>>, f)
<1>1. Len(<<>>) = 0 /\ \A f \in Seq(AgentFrame) : Len(f) \in Nat
      BY EmptySeq
<1>2. QED
      BY <1>1 DEF Within

LEMMA PrefixWithin ==
  ASSUME NEW f \in Seq(AgentFrame), NEW g \in Prefixes(f)
  PROVE  g \in Seq(AgentFrame) /\ Within(g, f)
<1>1. PICK l \in 0..Len(f) : g = SubSeq(f, 1, l)
      BY DEF Prefixes
<1>2. g \in Seq(AgentFrame) /\ Len(g) = l /\ \A k \in 1..l : g[k] = f[k]
      BY <1>1, FirstPart
<1>3. Len(g) + 0 <= Len(f) /\ \A k \in 1..Len(g) : k + 0 = k
      BY <1>2
<1>4. QED
      BY <1>2, <1>3 DEF Within, Thinner

LEMMA TailWithin ==
  ASSUME NEW f \in Seq(AgentFrame), f # <<>>
  PROVE  Tail(f) \in Seq(AgentFrame) /\ Within(Tail(f), f)
<1> DEFINE g == Tail(f)
<1>1. /\ g \in Seq(AgentFrame) /\ Len(g) = Len(f) - 1 /\ Len(f) \in Nat \ {0}
      /\ \A k \in 1..Len(g) : g[k] = f[k + 1]
      BY HeadTailProperties, EmptySeq
<1> HIDE DEF g
<1>2. Len(g) + 1 <= Len(f)
      BY <1>1
<1>3. QED
      BY <1>1, <1>2 DEF Within, Thinner, g

\* The first of a sequence is replaced.
LEMMA HeadReplaced ==
  ASSUME NEW S, NEW s \in Seq(S), Len(s) > 0, NEW n \in S, NEW r, r = <<n>> \o Tail(s)
  PROVE  /\ r \in Seq(S) /\ Len(r) = Len(s)
         /\ r[1] = n /\ \A k \in 2..Len(s) : r[k] = s[k]
<1>1. PICK m : m = <<n>>
      OBVIOUS
<1>2. PICK w : w = Tail(s)
      OBVIOUS
<1>3. m \in Seq(S) /\ Len(m) = 1 /\ m[1] = n
      BY <1>1
<1>4. Len(s) \in Nat /\ s # <<>>
      BY EmptySeq
<1>5. w \in Seq(S) /\ Len(w) = Len(s) - 1 /\ \A k \in 1..Len(w) : w[k] = s[k + 1]
      BY <1>2, <1>4, HeadTailProperties
<1>6. /\ m \o w \in Seq(S) /\ Len(m \o w) = Len(m) + Len(w)
      /\ \A k \in 1..Len(m) : (m \o w)[k] = m[k]
      /\ \A k \in 1..Len(w) : (m \o w)[Len(m) + k] = w[k]
  <2>1. m \in Seq(S)
        BY <1>3
  <2>2. w \in Seq(S)
        BY <1>5
  <2>3. QED
        BY <2>1, <2>2, Joined
<1>7. r = m \o w
      BY <1>1, <1>2
<1>8. r \in Seq(S) /\ Len(r) = Len(s) /\ r[1] = n
      BY <1>3, <1>4, <1>5, <1>6, <1>7
<1>9. ASSUME NEW k \in 2..Len(s) PROVE r[k] = s[k]
  <2>1. k - 1 \in 1..Len(w) /\ Len(m) + (k - 1) = k /\ (k - 1) + 1 = k
        BY <1>3, <1>4, <1>5
  <2>2. r[k] = w[k - 1]
        BY <1>6, <1>7, <2>1
  <2>3. w[k - 1] = s[k]
        BY <1>5, <2>1
  <2>4. QED
        BY <2>2, <2>3
<1>10. QED
       BY <1>8, <1>9

\* A frame without the first of its paths.
LEMMA FewerPaths ==
  ASSUME NEW h \in AgentFrame, ~ Len(h.paths) <= 1
  PROVE  LET n == [h EXCEPT !.paths = Tail(@)]
         IN  /\ h.tag \in {"MKDIR", "SIG_REQ", "DELETE"}
             /\ n \in AgentFrame /\ n.tag = h.tag /\ n.paths = Tail(h.paths)
             /\ Thinner(n, h) /\ n # h
<1>1. PICK ps : ps = h.paths
      OBVIOUS
<1>2. PICK ts : ts = Tail(ps)
      OBVIOUS
<1>3. PICK n : n = [tag |-> h.tag, paths |-> ts]
      OBVIOUS
<1>4. ps \in Seq(Paths) /\ Len(ps) \in Nat /\ Len(<<>>) = 0 /\ ~ Len(ps) <= 1
      BY <1>1, FrameKinds, EmptySeq, LenProperties
<1>5. Len(ps) > 1 /\ Len(ps) # 1 /\ ps # <<>>
  <2>1. Len(ps) > 1
        BY <1>4
  <2>2. \A m \in Nat : m > 1 => m # 1 /\ m # 0
        OBVIOUS
  <2>3. QED
        BY <1>4, <2>1, <2>2, Zenon
<1>6. h.tag \in {"MKDIR", "SIG_REQ", "DELETE"} /\ h = [tag |-> h.tag, paths |-> ps]
      BY <1>1, <1>5, FrameKinds
<1>7. ts \in Seq(Paths) /\ Len(ts) = Len(ps) - 1 /\ \A i \in 1..Len(ts) : ts[i] = ps[i + 1]
      BY <1>2, <1>4, <1>5, HeadTailProperties
<1>8. ts # <<>>
      BY <1>4, <1>5, <1>7
<1>9. n \in AgentFrame /\ n.tag = h.tag /\ n.paths = ts
  <2>1. n \in [tag : {"MKDIR", "SIG_REQ", "DELETE"}, paths : Seq(Paths) \ {<<>>}]
        BY <1>3, <1>6, <1>7, <1>8
  <2>2. QED
        BY <1>3, <2>1 DEF AgentFrame
<1>10. [h EXCEPT !.paths = Tail(@)] = n
  <2>1. [h EXCEPT !.paths = ts] = n
        BY <1>3, <1>6
  <2>2. Tail(h.paths) = ts
        BY <1>1, <1>2
  <2>3. QED
        BY <2>1, <2>2, Zenon
<1>11. Thinner(n, h)
  <2>1. \A i \in 1..Len(ts) : i + 1 \in 1..Len(ps) /\ ts[i] = ps[i + 1]
        BY <1>4, <1>5, <1>7
  <2>2. \A i \in 1..Len(n.paths) : \E j \in 1..Len(h.paths) : n.paths[i] = h.paths[j]
        BY <1>1, <1>9, <2>1
  <2>3. QED
        BY <1>6, <1>9, <2>2 DEF Thinner
<1>12. n # h
  <2>1. Len(ts) # Len(ps)
        BY <1>4, <1>7
  <2>2. QED
        BY <1>1, <1>9, <2>1, Zenon
<1>13. QED
       BY <1>1, <1>2, <1>6, <1>9, <1>10, <1>11, <1>12

LEMMA RestWithin ==
  ASSUME NEW s \in Seq(AgentFrame), s # <<>>
  PROVE  LET r == Rest(s)
         IN  /\ r \in Seq(AgentFrame) /\ Within(r, s) /\ r # s
             /\ Len(s[1].paths) <= 1 => r = Tail(s)
             /\ ~ Len(s[1].paths) <= 1 =>
                  /\ s[1].tag \in {"MKDIR", "SIG_REQ", "DELETE"}
                  /\ Len(r) = Len(s) /\ r[1].tag = s[1].tag /\ r[1].paths = Tail(s[1].paths)
                  /\ \A k \in 2..Len(s) : r[k] = s[k]
<1> DEFINE r == Rest(s)
<1>1. PICK h : h = s[1]
      OBVIOUS
<1>2. PICK w : w = Tail(s)
      OBVIOUS
<1>3. Len(s) \in Nat \ {0} /\ Len(s) > 0
      BY EmptySeq
<1>4. Head(s) = h /\ h \in AgentFrame
  <2>1. 1 \in 1..Len(s)
        BY <1>3
  <2>2. s[1] \in AgentFrame /\ Head(s) = s[1]
        BY <2>1, ElementOfSeq
  <2>3. QED
        BY <1>1, <2>2
<1>5. CASE Len(h.paths) <= 1
  <2>1. r = w
        BY <1>2, <1>4, <1>5 DEF Rest
  <2>2. Len(w) = Len(s) - 1
        BY <1>2, HeadTailProperties
  <2>3. Len(w) # Len(s)
        BY <1>3, <2>2
  <2>4. w # s
        BY <2>3, Zenon
  <2>5. w \in Seq(AgentFrame) /\ Within(w, s)
        BY <1>2, TailWithin
  <2> HIDE DEF r
  <2>6. QED
        BY <1>1, <1>2, <1>5, <2>1, <2>4, <2>5 DEF r
<1>6. CASE ~ Len(h.paths) <= 1
  <2>1. PICK n : n = [h EXCEPT !.paths = Tail(@)]
        OBVIOUS
  <2>2. r = <<n>> \o Tail(s)
        BY <1>4, <1>6, <2>1 DEF Rest
  <2>3. /\ h.tag \in {"MKDIR", "SIG_REQ", "DELETE"}
        /\ n \in AgentFrame /\ n.tag = h.tag /\ n.paths = Tail(h.paths)
        /\ Thinner(n, h) /\ n # h
        BY <1>4, <1>6, <2>1, FewerPaths
  <2> HIDE DEF r
  <2>4. /\ r \in Seq(AgentFrame) /\ Len(r) = Len(s)
        /\ r[1] = n /\ \A k \in 2..Len(s) : r[k] = s[k]
        BY <1>3, <2>2, <2>3, HeadReplaced
  <2>5. r # s
        BY <1>1, <2>3, <2>4
  <2>6. Within(r, s)
    <3>1. Len(r) + 0 <= Len(s) /\ \A k \in 1..Len(r) : k + 0 = k /\ (k = 1 \/ k \in 2..Len(s))
          BY <1>3, <2>4
    <3>2. ASSUME NEW k \in 1..Len(r) PROVE Thinner(r[k], s[k])
      <4>1. CASE k = 1
            BY <1>1, <2>3, <2>4, <4>1
      <4>2. CASE k \in 2..Len(s)
            BY <2>4, <4>2 DEF Thinner
      <4>3. QED
            BY <3>1, <4>1, <4>2
    <3>3. \A k \in 1..Len(r) : Thinner(r[k], s[k + 0])
          BY <3>1, <3>2
    <3>4. QED
          BY <3>1, <3>3 DEF Within
  <2>7. QED
        BY <1>1, <1>6, <2>3, <2>4, <2>5, <2>6 DEF r
<1>7. QED
      BY <1>5, <1>6

\* What holds of frames holds of those that are left.
LEMMA ThinnerKeeps ==
  ASSUME NEW x \in AgentFrame, NEW y \in AgentFrame, Thinner(x, y)
  PROVE  /\ x.tag = y.tag
         /\ x.tag = "PUT" => x = y
         /\ \A l, N, v : Sound(y, l, N, v) => Sound(x, l, N, v)
         /\ \A r, v, o : DeltaFresh(y, r, v, o) => DeltaFresh(x, r, v, o)
         /\ \A w, s : OwnFrame(y, w, s) => OwnFrame(x, w, s)
<1>1. CASE x = y
      BY <1>1
<1>2. CASE x # y
  <2>1. /\ x.tag = y.tag /\ y.tag \in {"MKDIR", "SIG_REQ", "DELETE"}
        /\ \A i \in 1..Len(x.paths) : \E j \in 1..Len(y.paths) : x.paths[i] = y.paths[j]
        BY <1>2 DEF Thinner
  <2>2. x.tag = y.tag /\ x.tag # "PUT"
        BY <2>1
  <2>3. ASSUME NEW l, NEW N, NEW v, Sound(y, l, N, v) PROVE Sound(x, l, N, v)
    <3>1. ASSUME NEW i \in 1..Len(x.paths) PROVE SoundAt(x, x.paths[i], l, N, v)
      <4>1. PICK j \in 1..Len(y.paths) : x.paths[i] = y.paths[j]
            BY <2>1
      <4>2. SoundAt(y, x.paths[i], l, N, v)
            BY <2>3, <4>1 DEF Sound
      <4>3. QED
            BY <2>2, <4>2 DEF SoundAt
    <3>2. QED
          BY <3>1 DEF Sound
  <2>4. \A r, v, o : DeltaFresh(x, r, v, o)
        BY <2>2 DEF DeltaFresh
  <2>5. ASSUME NEW w, NEW s, OwnFrame(y, w, s) PROVE OwnFrame(x, w, s)
    <3>1. ASSUME x.tag = "DELETE", NEW i \in 1..Len(x.paths) PROVE w[x.paths[i]] = Absent
      <4>1. PICK j \in 1..Len(y.paths) : x.paths[i] = y.paths[j]
            BY <2>1
      <4>2. QED
            BY <2>2, <2>5, <3>1, <4>1 DEF OwnFrame
    <3>2. QED
          BY <2>2, <3>1 DEF OwnFrame
  <2>6. QED
        BY <2>2, <2>3, <2>4, <2>5
<1>3. QED
      BY <1>1, <1>2

LEMMA WithinKeeps ==
  ASSUME NEW f \in Seq(AgentFrame), NEW g \in Seq(AgentFrame), Within(g, f)
  PROVE  /\ Len(g) <= Len(f)
         /\ \A T : (\A k \in 1..Len(f) : f[k].tag \in T) => \A k \in 1..Len(g) : g[k].tag \in T
         /\ \A l, N, v : (\A k \in 1..Len(f) : Sound(f[k], l, N, v)) =>
                           \A k \in 1..Len(g) : Sound(g[k], l, N, v)
         /\ \A r, v, o : (\A k \in 1..Len(f) : DeltaFresh(f[k], r, v, o)) =>
                           \A k \in 1..Len(g) : DeltaFresh(g[k], r, v, o)
         /\ \A w, s : (\A k \in 1..Len(f) : OwnFrame(f[k], w, s)) =>
                        \A k \in 1..Len(g) : OwnFrame(g[k], w, s)
         /\ Ordering(f) => Ordering(g)
<1>1. PICK d \in Nat : Len(g) + d <= Len(f) /\ \A k \in 1..Len(g) : Thinner(g[k], f[k + d])
      BY DEF Within
<1>2. Len(g) \in Nat /\ Len(f) \in Nat /\ Len(g) <= Len(f)
      BY <1>1
<1>3. ASSUME NEW k \in 1..Len(g)
      PROVE  /\ k + d \in 1..Len(f) /\ Thinner(g[k], f[k + d])
             /\ g[k] \in AgentFrame /\ f[k + d] \in AgentFrame
  <2>1. k + d \in 1..Len(f)
        BY <1>1, <1>2
  <2>2. g[k] \in AgentFrame /\ f[k + d] \in AgentFrame
        BY <2>1, ElementOfSeq
  <2>3. QED
        BY <1>1, <2>1, <2>2
<1>4. \A T : (\A k \in 1..Len(f) : f[k].tag \in T) => \A k \in 1..Len(g) : g[k].tag \in T
      BY <1>3, ThinnerKeeps
<1>5. \A l, N, v : (\A k \in 1..Len(f) : Sound(f[k], l, N, v)) =>
                     \A k \in 1..Len(g) : Sound(g[k], l, N, v)
      BY <1>3, ThinnerKeeps
<1>6. \A r, v, o : (\A k \in 1..Len(f) : DeltaFresh(f[k], r, v, o)) =>
                     \A k \in 1..Len(g) : DeltaFresh(g[k], r, v, o)
      BY <1>3, ThinnerKeeps
<1>7. \A w, s : (\A k \in 1..Len(f) : OwnFrame(f[k], w, s)) =>
                  \A k \in 1..Len(g) : OwnFrame(g[k], w, s)
      BY <1>3, ThinnerKeeps
<1>8. ASSUME Ordering(f) PROVE Ordering(g)
  <2>1. ASSUME NEW j \in 1..Len(g), NEW k \in 1..Len(g), j < k, g[k].tag = "PUT"
        PROVE  /\ g[j].tag \notin {"DELETE", "PLAN_DONE"}
               /\ g[j].tag = "PUT" => g[j].paths # g[k].paths
    <3>1. g[k] = f[k + d]
          BY <1>3, <2>1, ThinnerKeeps
    <3>2. g[j].tag = f[j + d].tag /\ (g[j].tag = "PUT" => g[j] = f[j + d])
          BY <1>3, ThinnerKeeps
    <3>3. j + d < k + d /\ j + d \in 1..Len(f) /\ k + d \in 1..Len(f)
          BY <1>2, <1>3, <2>1
    <3>4. /\ f[j + d].tag \notin {"DELETE", "PLAN_DONE"}
          /\ f[j + d].tag = "PUT" => f[j + d].paths # f[k + d].paths
          BY <1>8, <2>1, <3>1, <3>3 DEF Ordering
    <3>5. QED
          BY <3>1, <3>2, <3>4
  <2>2. QED
        BY <2>1 DEF Ordering
<1>9. QED
      BY <1>2, <1>4, <1>5, <1>6, <1>7, <1>8

\* What may become of an entry.
Effect(t, f, q, e) ==
  LET p == f.paths[1]
  IN  \/ e = t[q]
      \/ /\ t[q] = Absent /\ e = Dir
         /\ \/ f.tag = "MKDIR" /\ q \in UpTo(p)
            \/ f.tag = "PUT" /\ q \in Above(p)
            \/ f.tag = "PUT" /\ f.entry.kind = "dir" /\ q = p
      \/ q = p /\ f.tag = "DELETE" /\ e = Absent
      \/ q = p /\ f.tag = "PUT" /\ f.entry.kind = "link" /\ e = f.entry
      \/ /\ q = p /\ f.tag = "PUT" /\ f.entry.kind = "file"
         /\ e.kind = "file" /\ e \in Entry
         /\ f.delta = <<>> => e.data = f.entry.data
         /\ f.delta # <<>> /\ t[p].kind = "file" => e.data = Patch(t[p].data, f.delta)

Free(t, p) == \A q \in Above(p) : t[q].kind # "link"

\* apply_put and its neighbours.
LEMMA ApplyEffect ==
  ASSUME NEW t, WellFormed(t), Confined(t), now \in Int, lag \in Int,
         NEW f \in AgentFrame, f.tag \in {"MKDIR", "DELETE", "PUT"}
  PROVE  LET w == Apply(t, f)
         IN  /\ w \in Outcome /\ WellFormed(w.tree) /\ Confined(w.tree)
             /\ Free(t, f.paths[1]) => \A q \in Paths : Effect(t, f, q, w.tree[q])
<1>1. PICK p \in Paths : p = f.paths[1] /\ Head(f.paths) = p
      BY FrameKinds
<1>2. PICK w : w = Apply(t, f)
      OBVIOUS
<1>3. p \in UpTo(p) /\ UpTo(p) = Above(p) \cup {p}
      BY UpToPath
<1>4. ASSUME NEW c, c = CreateDirAll(t, p), w = c, f.tag = "MKDIR" \/ (f.tag = "PUT" /\ f.entry.kind = "dir")
      PROVE  /\ w \in Outcome /\ WellFormed(w.tree) /\ Confined(w.tree)
             /\ Free(t, p) => \A q \in Paths : Effect(t, f, q, w.tree[q])
  <2>1. /\ w \in Outcome /\ WellFormed(w.tree) /\ Confined(w.tree)
        /\ Grown(t, w.tree)
        /\ (\A q \in Above(p) : t[q].kind # "link") =>
             \A q \in Paths : w.tree[q] # t[q] => q \in UpTo(p)
        BY <1>4, CreateGrows
  <2>2. ASSUME Free(t, p), NEW q \in Paths, w.tree[q] # t[q]
        PROVE  t[q] = Absent /\ w.tree[q] = Dir /\ q \in UpTo(p)
        BY <2>1, <2>2 DEF Free, Grown
  <2>3. QED
        BY <1>1, <1>3, <1>4, <2>1, <2>2 DEF Effect
<1>5. CASE f.tag = "MKDIR"
  <2>1. w = CreateDirAll(t, p)
        BY <1>1, <1>2, <1>5 DEF Apply
  <2>2. QED
        BY <1>1, <1>2, <1>4, <1>5, <2>1
<1>6. CASE f.tag = "DELETE"
  <2>1. w = [ok |-> TRUE, tree |-> RemoveEntry(t, p)]
        BY <1>1, <1>2, <1>6 DEF Apply, Yields
  <2>2. PICK u : u = RemoveEntry(t, p)
        OBVIOUS
  <2>3. /\ WellFormed(u) /\ Confined(u)
        /\ (\A q \in Above(p) : t[q].kind # "link") =>
             \A q \in Paths : u[q] = t[q] \/ (q = p /\ u[q] = Absent)
        BY <2>2, RemoveEffect
  <2>4. w = [ok |-> TRUE, tree |-> u] /\ u \in Listing
        BY <2>1, <2>2, <2>3, TreeIs
  <2>5. w.tree = u /\ w \in Outcome
        BY <2>4 DEF Outcome
  <2>6. QED
        BY <1>1, <1>2, <1>6, <2>3, <2>5 DEF Effect, Free
<1>7. CASE f.tag = "PUT"
  <2>1. PICK e : e = f.entry
        OBVIOUS
  <2>2. /\ e \in Walkable /\ e \in Entry /\ e # Absent
        /\ f.delta \in Seq(Op) /\ (f.delta # <<>> => e.kind = "file")
        BY <1>7, <2>1, FrameKinds DEF Walkable
  <2>3. Receivable(f) => w = ApplyPut(t, p, f)
        BY <1>1, <1>2, <1>7 DEF Apply
  <2>4. CASE Receivable(f) /\ e.kind = "dir"
    <3>1. w = CreateDirAll(t, p)
          BY <2>1, <2>3, <2>4 DEF ApplyPut
    <3>2. QED
          BY <1>1, <1>2, <1>4, <1>7, <2>1, <2>4, <3>1
  <2>5. CASE Receivable(f) /\ e.kind = "link"
    <3>1. w = PutLink(t, p, e.to, rooted)
          BY <2>1, <2>3, <2>5 DEF ApplyPut
    <3>2. e.to # Escape => e.to \in Paths /\ Holds(e.to)
          BY <2>2, <2>5, EntryKinds DEF Walkable
    <3>3. e = Link(e.to)
          BY <2>2, <2>5, EntryKinds
    <3>4. /\ w \in Outcome /\ WellFormed(w.tree) /\ Confined(w.tree)
          /\ (\A q \in Above(p) : t[q].kind # "link") =>
               \A q \in Paths : w.tree[q] = t[q] \/ (q = p /\ w.tree[q] = e)
          BY <3>1, <3>2, <3>3, LinkEffect
    <3>5. QED
          BY <1>1, <1>2, <1>7, <2>1, <2>5, <3>4 DEF Effect, Free
  <2>6. CASE Receivable(f) /\ e.kind = "file"
    <3> DEFINE at == Real(t, p)
               to == Hop(t, at)
               old == IF t[to].kind = "file" THEN t[to].data ELSE <<>>
               data == IF f.delta = <<>> THEN e.data ELSE Patch(old, f.delta)
    <3>1. old \in Seq(Blocks)
      <4>1. to \in Paths
            BY RealInPaths, HopInPaths
      <4>2. t[to] \in Entry
            BY <4>1, TreeIs DEF Listing, Walkable
      <4>3. <<>> \in Seq(Blocks)
            BY EmptySeq
      <4> HIDE DEF to
      <4>4. QED
            BY <4>2, <4>3, EntryKinds
    <3>2. CASE CanPatch(old, f.delta) /\ (f.delta # <<>> => Len(data) = f.len)
      <4>1. PICK m \in Int : m = Clamp(e.mtime)
        <5>1. e.mtime \in Int
              BY <2>2, <2>6, EntryKinds
        <5>2. QED
              BY <5>1 DEF Clamp
      <4>2. PICK d : d = data
            OBVIOUS
      <4>3. d \in Seq(Blocks)
        <5>1. e.data \in Seq(Blocks)
              BY <2>2, <2>6, EntryKinds
        <5>2. Patch(old, f.delta) \in Seq(Blocks)
          <6> HIDE DEF old
          <6>1. QED
                BY <2>2, <3>1, <3>2, PatchGivesBlocks
        <5>3. QED
              BY <4>2, <5>1, <5>2
      <4>4. w = WriteFileAtomic(t, p, File(d, m))
            BY <2>1, <2>3, <2>6, <3>2, <4>1, <4>2 DEF ApplyPut
      <4>5. /\ w \in Outcome /\ WellFormed(w.tree) /\ Confined(w.tree)
            /\ (\A q \in Above(p) : t[q].kind # "link") =>
                 \A q \in Paths :
                   \/ w.tree[q] = t[q]
                   \/ q \in Above(p) /\ t[q] = Absent /\ w.tree[q] = Dir
                   \/ q = p /\ w.tree[q] = File(d, m)
            BY <4>3, <4>4, WriteEffect
      <4>6. File(d, m).kind = "file" /\ File(d, m) \in Entry /\ File(d, m).data = d
            BY <4>3, MakesEntries DEF Walkable
      <4>7. f.delta = <<>> => d = e.data
            BY <4>2
      <4>8. ASSUME Free(t, p), f.delta # <<>>, t[p].kind = "file"
            PROVE  d = Patch(t[p].data, f.delta)
        <5>1. at = p
              BY <4>8, RealSelf DEF Free
        <5>2. to = p
              BY <4>8, <5>1 DEF Hop
        <5>3. QED
              BY <4>2, <4>8, <5>2
      <4>9. ASSUME Free(t, p), NEW q \in Paths PROVE Effect(t, f, q, w.tree[q])
        <5>1. CASE q = p /\ w.tree[q] = File(d, m)
              BY <1>1, <1>7, <2>1, <2>6, <4>6, <4>7, <4>8, <4>9, <5>1 DEF Effect
        <5>2. CASE q \in Above(p) /\ t[q] = Absent /\ w.tree[q] = Dir
              BY <1>1, <1>7, <5>2 DEF Effect
        <5>3. CASE w.tree[q] = t[q]
              BY <5>3 DEF Effect
        <5>4. QED
              BY <4>5, <4>9, <5>1, <5>2, <5>3 DEF Free
      <4>10. QED
             BY <1>1, <1>2, <4>5, <4>9
    <3>3. CASE ~ (CanPatch(old, f.delta) /\ (f.delta # <<>> => Len(data) = f.len))
      <4>1. w = [ok |-> FALSE, tree |-> t]
            BY <2>1, <2>3, <2>6, <3>3 DEF ApplyPut, Fails
      <4>2. w.tree = t /\ w \in Outcome
            BY <4>1, TreeIs DEF Outcome
      <4>3. QED
            BY <1>2, <4>2 DEF Effect
    <3>4. QED
          BY <3>2, <3>3
  <2>7. CASE ~ Receivable(f)
    <3>1. w = [ok |-> FALSE, tree |-> t]
          BY <1>1, <1>2, <1>7, <2>7 DEF Apply, Fails
    <3>2. w.tree = t /\ w \in Outcome
          BY <3>1, TreeIs DEF Outcome
    <3>3. QED
          BY <1>2, <3>2 DEF Effect
  <2>8. QED
        BY <2>2, <2>4, <2>5, <2>6, <2>7, EntryKinds
<1>8. QED
      BY <1>5, <1>6, <1>7

-----------------------------------------------------------------------------
(***************************************************************************)
(* Lemmas about what a sync does to the remote tree.                       *)
(***************************************************************************)

\* A frame stays sound while links only disappear and versions only come.
LEMMA SoundStays ==
  ASSUME NEW f \in AgentFrame, NEW l, NEW N, NEW v, Sound(f, l, N, v),
         NEW l2, \A p \in Paths : l[p].kind = "link" => l2[p].kind = "link",
         NEW N2, N \subseteq N2,
         NEW v2, \A p \in Paths : v[p] \subseteq v2[p]
  PROVE  Sound(f, l2, N2, v2)
<1>1. ASSUME NEW i \in 1..Len(f.paths) PROVE SoundAt(f, f.paths[i], l2, N2, v2)
  <2>1. PICK p \in Paths : p = f.paths[i]
        BY FrameKinds, ElementOfSeq
  <2>2. SoundAt(f, p, l, N, v)
        BY <2>1 DEF Sound
  <2>3. \A q \in UpTo(p) : q \in Paths
        BY UpToPath
  <2>4. \A q \in Above(p) : q \in Paths
        BY AbovePath
  <2>5. SoundAt(f, p, l2, N2, v2)
        BY <2>2, <2>3, <2>4 DEF SoundAt, MayBeDir
  <2>6. QED
        BY <2>1, <2>5
<1>2. QED
      BY <1>1 DEF Sound

\* A sound frame goes through no link, and only makes directories where there are
\* none.
LEMMA SoundFree ==
  ASSUME NEW f \in AgentFrame, f.tag \in {"MKDIR", "DELETE", "PUT"},
         NEW l, NEW t, NEW v, Sound(f, l, Linkless(l, t), v)
  PROVE  /\ Free(t, f.paths[1])
         /\ \A q \in Paths : \A e : Effect(t, f, q, e) =>
              \/ e = t[q]
              \/ /\ ~ IsExcluded(q)
                 /\ e = Dir => l[q].kind # "link" /\ Dir \in v[q]
                 /\ e.kind = "link" => l[q].kind = "link" /\ e \in v[q]
<1>1. PICK p \in Paths : p = f.paths[1]
      BY FrameKinds
<1>2. SoundAt(f, p, l, Linkless(l, t), v)
  <2>1. 1 \in 1..Len(f.paths)
        BY FrameKinds
  <2>2. QED
        BY <1>1, <2>1 DEF Sound
<1>3. UpTo(p) = Above(p) \cup {p} /\ UpTo(p) \subseteq Paths
      BY UpToPath
<1>4. ASSUME NEW q \in Above(p) PROVE t[q].kind # "link"
      BY <1>2, <1>3 DEF SoundAt, MayBeDir, Linkless
<1>5. \A q \in UpTo(p) : ~ IsExcluded(q)
      BY <1>2, NotExcludedAbove DEF SoundAt
<1>6. ASSUME NEW q \in Paths, NEW e, Effect(t, f, q, e), e # t[q]
      PROVE  /\ ~ IsExcluded(q)
             /\ e = Dir => l[q].kind # "link" /\ Dir \in v[q]
             /\ e.kind = "link" => l[q].kind = "link" /\ e \in v[q]
  <2>1. Dir.kind = "dir" /\ Absent.kind = "none"
        BY MakesEntries
  <2>2. CASE /\ t[q] = Absent /\ e = Dir
             /\ \/ f.tag = "MKDIR" /\ q \in UpTo(p)
                \/ f.tag = "PUT" /\ q \in Above(p)
                \/ f.tag = "PUT" /\ f.entry.kind = "dir" /\ q = p
    <3>1. q \in UpTo(p)
          BY <1>3, <2>2
    <3>2. MayBeDir(q, Linkless(l, t), v)
          BY <1>2, <2>2 DEF SoundAt
    <3>3. QED
          BY <1>5, <2>1, <2>2, <3>1, <3>2 DEF MayBeDir, Linkless
  <2>3. CASE q = p /\ f.tag = "DELETE" /\ e = Absent
        BY <1>3, <1>5, <2>1, <2>3
  <2>4. CASE q = p /\ f.tag = "PUT" /\ f.entry.kind = "link" /\ e = f.entry
        BY <1>2, <1>3, <1>5, <2>1, <2>4 DEF SoundAt
  <2>5. CASE q = p /\ f.tag = "PUT" /\ f.entry.kind = "file" /\ e.kind = "file"
        BY <1>3, <1>5, <2>1, <2>5
  <2>6. QED
        BY <1>1, <1>6, <2>2, <2>3, <2>4, <2>5 DEF Effect
<1>7. QED
      BY <1>1, <1>4, <1>6 DEF Free

\* Links stay where they belong.
LEMMA SyncKeeps ==
  ASSUME NEW f \in AgentFrame, f.tag \in {"MKDIR", "DELETE", "PUT"},
         NEW l, NEW t, NEW v, Sound(f, l, Linkless(l, t), v), Apart(l, t),
         NEW u, \A q \in Paths : Effect(t, f, q, u[q])
  PROVE  Linkless(l, t) \subseteq Linkless(l, u) /\ Apart(l, u)
<1>1. ASSUME NEW q \in Paths
      PROVE  \/ u[q] = t[q]
             \/ /\ u[q] = Dir => l[q].kind # "link"
                /\ u[q].kind = "link" => l[q].kind = "link"
      BY SoundFree
<1>2. Dir.kind = "dir"
      BY MakesEntries
<1>3. Linkless(l, t) \subseteq Linkless(l, u)
      BY <1>1 DEF Linkless
<1>4. Apart(l, u)
      BY <1>1, <1>2 DEF Apart
<1>5. QED
      BY <1>3, <1>4

\* What a sync writes is a version, unless others have interfered.
LEMMA SyncPublishes ==
  ASSUME NEW f \in AgentFrame, f.tag \in {"MKDIR", "DELETE", "PUT"},
         NEW l, NEW t, NEW v, Sound(f, l, Linkless(l, t), v),
         NEW o, DeltaFresh(f, t, v, o) \/ f.paths[1] \in o,
         NEW q \in Paths, NEW e, Effect(t, f, q, e)
  PROVE  \/ e = t[q]
         \/ /\ ~ IsExcluded(q)
            /\ Bare(e) \in v[q] \cup {Absent} \/ q \in o
<1>1. PICK p \in Paths : p = f.paths[1]
      BY FrameKinds
<1>2. SoundAt(f, p, l, Linkless(l, t), v)
  <2>1. 1 \in 1..Len(f.paths)
        BY FrameKinds
  <2>2. QED
        BY <1>1, <2>1 DEF Sound
<1>3. Dir.kind = "dir" /\ Absent.kind = "none" /\ Bare(Dir) = Dir /\ Bare(Absent) = Absent
      BY MakesEntries DEF Bare
<1>4. \/ e = t[q]
      \/ /\ ~ IsExcluded(q)
         /\ e = Dir => Dir \in v[q]
         /\ e.kind = "link" => e \in v[q]
      BY SoundFree
<1>5. CASE q = p /\ f.tag = "PUT" /\ f.entry.kind = "file" /\ e.kind = "file"
           /\ (f.delta = <<>> => e.data = f.entry.data)
           /\ (f.delta # <<>> /\ t[p].kind = "file" => e.data = Patch(t[p].data, f.delta))
  <2>1. Bare(e) = File(e.data, 0) /\ Bare(f.entry) = File(f.entry.data, 0)
        BY <1>5 DEF Bare
  <2>2. f.delta = <<>> => Bare(e) \in v[p]
        BY <1>2, <1>5, <2>1 DEF SoundAt
  <2>3. f.delta # <<>> => Bare(e) \in v[p] \/ p \in o
        BY <1>1, <1>5, <2>1 DEF DeltaFresh
  <2>4. QED
        BY <1>4, <1>5, <2>2, <2>3
<1>6. CASE q = p /\ f.tag = "PUT" /\ f.entry.kind = "link" /\ e = f.entry
  <2>1. Bare(e) = e
        BY <1>6 DEF Bare
  <2>2. QED
        BY <1>4, <1>6, <2>1
<1>7. QED
      BY <1>1, <1>3, <1>4, <1>5, <1>6 DEF Effect

-----------------------------------------------------------------------------
(***************************************************************************)
(* Lemmas about plans.                                                     *)
(***************************************************************************)

\* The paths of S among the first k.
Firsts(S, n, f) ==
  f = [k \in 0..n |-> IF k = 0 THEN <<>>
                      ELSE IF PathOrder[k] \in S THEN Append(f[k - 1], PathOrder[k]) ELSE f[k - 1]]

LEMMA FirstsExists ==
  ASSUME NEW S, NEW n \in Nat
  PROVE  \E f : Firsts(S, n, f)
<1> DEFINE Good == {m \in Nat : \E f : Firsts(S, m, f)}
<1>1. 0 \in Good
  <2>1. Firsts(S, 0, [k \in 0..0 |-> <<>>])
        BY DEF Firsts
  <2>2. QED
        BY <2>1
<1>2. ASSUME NEW m \in Nat, m \in Good PROVE m + 1 \in Good
  <2>1. PICK f : Firsts(S, m, f)
        BY <1>2
  <2>2. PICK last : last = IF PathOrder[m + 1] \in S THEN Append(f[m], PathOrder[m + 1]) ELSE f[m]
        OBVIOUS
  <2> DEFINE g == [k \in 0..(m + 1) |-> IF k = m + 1 THEN last ELSE f[k]]
  <2>3. \A k \in 0..m : f[k] = IF k = 0 THEN <<>>
                               ELSE IF PathOrder[k] \in S THEN Append(f[k - 1], PathOrder[k]) ELSE f[k - 1]
        BY <2>1 DEF Firsts
  <2>4. ASSUME NEW k \in 0..(m + 1)
        PROVE  g[k] = IF k = 0 THEN <<>>
                      ELSE IF PathOrder[k] \in S THEN Append(g[k - 1], PathOrder[k]) ELSE g[k - 1]
    <3>1. CASE k = m + 1
      <4>1. g[k] = last /\ g[k - 1] = f[m] /\ k # 0
            BY <3>1
      <4>2. QED
            BY <2>2, <3>1, <4>1
    <3>2. CASE k = 0
      <4>1. g[k] = f[0] /\ f[0] = <<>>
            BY <2>3, <3>2
      <4>2. QED
            BY <3>2, <4>1
    <3>3. CASE k \in 1..m
      <4>1. g[k] = f[k] /\ g[k - 1] = f[k - 1] /\ k # 0 /\ k \in 0..m
            BY <3>3
      <4>2. QED
            BY <2>3, <4>1
    <3>4. QED
          BY <3>1, <3>2, <3>3
  <2>5. Firsts(S, m + 1, g)
        BY <2>4 DEF Firsts
  <2>6. QED
        BY <2>5
<1>3. QED
      BY <1>1, <1>2, SetInduction

LEMMA FirstsSolves ==
  ASSUME NEW S
  PROVE  \E f : /\ f[0] = <<>> /\ Ordered(S) = f[Len(PathOrder)]
                /\ \A k \in 1..Len(PathOrder) :
                     f[k] = IF PathOrder[k] \in S THEN Append(f[k - 1], PathOrder[k]) ELSE f[k - 1]
<1> DEFINE n == Len(PathOrder)
           f == CHOOSE f : f = [k \in 0..n |->
                  IF k = 0 THEN <<>>
                  ELSE IF PathOrder[k] \in S THEN Append(f[k - 1], PathOrder[k]) ELSE f[k - 1]]
<1>1. n \in Nat
      BY PathAssumption
<1>2. \E g : Firsts(S, n, g)
  <2> HIDE DEF n
  <2>1. QED
        BY <1>1, FirstsExists
<1>3. f = [k \in 0..n |-> IF k = 0 THEN <<>>
             ELSE IF PathOrder[k] \in S THEN Append(f[k - 1], PathOrder[k]) ELSE f[k - 1]]
      BY <1>2 DEF Firsts
<1>4. Ordered(S) = f[n]
      BY DEF Ordered
<1> HIDE DEF f
<1>5. f[0] = <<>> /\ \A k \in 1..n : f[k] = IF PathOrder[k] \in S THEN Append(f[k - 1], PathOrder[k]) ELSE f[k - 1]
  <2> HIDE DEF n
  <2>1. \A k \in 0..n : f[k] = IF k = 0 THEN <<>>
                               ELSE IF PathOrder[k] \in S THEN Append(f[k - 1], PathOrder[k]) ELSE f[k - 1]
        BY <1>3, Zenon
  <2>2. 0 \in 0..n /\ \A k \in 1..n : k \in 0..n /\ k # 0
        BY <1>1
  <2>3. QED
        BY <2>1, <2>2
<1>6. QED
      BY <1>4, <1>5

\* s has the paths of S among the first n, each once.
Lineup(S, n, s) ==
  /\ s \in Seq(Paths)
  /\ \A k \in 1..Len(s) : s[k] \in S /\ \E j \in 1..n : s[k] = PathOrder[j]
  /\ \A j, k \in 1..Len(s) : s[j] = s[k] => j = k
  /\ \A j \in 1..n : PathOrder[j] \in S => \E k \in 1..Len(s) : s[k] = PathOrder[j]

LEMMA OneMore ==
  ASSUME NEW T, NEW s \in Seq(T), NEW e \in T
  PROVE  /\ Append(s, e) \in Seq(T) /\ Len(Append(s, e)) = Len(s) + 1 /\ Len(s) \in Nat
         /\ Append(s, e)[Len(s) + 1] = e
         /\ \A k \in 1..Len(s) : Append(s, e)[k] = s[k]
      BY AppendProperties

LEMMA LineupGrows ==
  ASSUME NEW S, NEW n \in 1..Len(PathOrder), NEW s, Lineup(S, n - 1, s)
  PROVE  Lineup(S, n, IF PathOrder[n] \in S THEN Append(s, PathOrder[n]) ELSE s)
<1>1. PICK p : p = PathOrder[n]
      OBVIOUS
<1>2. PathOrder \in Seq(Seq(STRING) \ {<<>>}) /\ Len(PathOrder) \in Nat
      BY PathAssumption
<1>3. p \in Paths
      BY <1>1, <1>2 DEF Paths, ToSet
<1>4. s \in Seq(Paths) /\ Len(s) \in Nat
      BY DEF Lineup
<1>5. n \in Nat /\ n - 1 \in Nat /\ 1..n = 1..(n - 1) \cup {n} /\ n \notin 1..(n - 1)
      BY <1>2
<1>6. CASE p \in S
  <2>1. PICK u : u = Append(s, p)
        OBVIOUS
  <2>2. PICK m \in Nat : m = Len(s)
        BY <1>4
  <2>3. u \in Seq(Paths) /\ Len(u) = m + 1 /\ u[m + 1] = p /\ \A k \in 1..m : u[k] = s[k]
        BY <1>3, <1>4, <2>1, <2>2, OneMore
  <2>4. 1..(m + 1) = 1..m \cup {m + 1} /\ m + 1 \notin 1..m
        BY <2>2
  <2>5. \A k \in 1..m : s[k] # p
    <3>1. ASSUME NEW k \in 1..m, s[k] = p PROVE FALSE
      <4>1. PICK j \in 1..(n - 1) : s[k] = PathOrder[j]
            BY <2>2 DEF Lineup
      <4>2. j \in 1..Len(PathOrder) /\ j # n
            BY <1>2
      <4>3. QED
            BY <1>1, <3>1, <4>1, <4>2, PathAssumption
    <3>2. QED
          BY <3>1
  <2>6. ASSUME NEW k \in 1..(m + 1) PROVE u[k] \in S /\ \E j \in 1..n : u[k] = PathOrder[j]
    <3>1. CASE k = m + 1
          BY <1>1, <1>5, <1>6, <2>3, <3>1
    <3>2. CASE k \in 1..m
      <4>1. s[k] \in S /\ \E j \in 1..(n - 1) : s[k] = PathOrder[j]
            BY <2>2, <3>2 DEF Lineup
      <4>2. QED
            BY <1>5, <2>3, <3>2, <4>1
    <3>3. QED
          BY <2>4, <3>1, <3>2
  <2>7. ASSUME NEW j \in 1..(m + 1), NEW k \in 1..(m + 1), u[j] = u[k] PROVE j = k
    <3>1. CASE j \in 1..m /\ k \in 1..m
      <4>1. s[j] = s[k] => j = k
            BY <2>2, <3>1 DEF Lineup
      <4>2. QED
            BY <2>3, <2>7, <3>1, <4>1
    <3>2. CASE j = m + 1 \/ k = m + 1
          BY <2>3, <2>4, <2>5, <2>7, <3>2
    <3>3. QED
          BY <2>4, <3>1, <3>2
  <2>8. ASSUME NEW j \in 1..n, PathOrder[j] \in S
        PROVE  \E k \in 1..(m + 1) : u[k] = PathOrder[j]
    <3>1. CASE j = n
          BY <1>1, <2>3, <2>4, <3>1
    <3>2. CASE j \in 1..(n - 1)
      <4>1. PICK k \in 1..m : s[k] = PathOrder[j]
            BY <2>2, <2>8, <3>2 DEF Lineup
      <4>2. QED
            BY <2>3, <2>4, <4>1
    <3>3. QED
          BY <1>5, <3>1, <3>2
  <2>9. Lineup(S, n, u)
        BY <2>3, <2>6, <2>7, <2>8 DEF Lineup
  <2>10. QED
         BY <1>1, <1>6, <2>1, <2>9
<1>7. CASE p \notin S
  <2>1. \A k \in 1..Len(s) : s[k] \in S /\ \E j \in 1..n : s[k] = PathOrder[j]
        BY <1>5 DEF Lineup
  <2>2. \A j \in 1..n : PathOrder[j] \in S => \E k \in 1..Len(s) : s[k] = PathOrder[j]
        BY <1>1, <1>5, <1>7 DEF Lineup
  <2>3. Lineup(S, n, s)
        BY <1>4, <2>1, <2>2 DEF Lineup
  <2>4. QED
        BY <1>1, <1>7, <2>3
<1>8. QED
      BY <1>6, <1>7

\* The paths of a set, in walk order: all of them, each once.
LEMMA OrderedOf ==
  ASSUME NEW S
  PROVE  LET s == Ordered(S)
         IN  /\ s \in Seq(Paths)
             /\ \A k \in 1..Len(s) : s[k] \in S
             /\ \A j, k \in 1..Len(s) : s[j] = s[k] => j = k
             /\ \A p \in S \cap Paths : \E k \in 1..Len(s) : s[k] = p
<1>1. PICK f : /\ f[0] = <<>> /\ Ordered(S) = f[Len(PathOrder)]
               /\ \A k \in 1..Len(PathOrder) :
                    f[k] = IF PathOrder[k] \in S THEN Append(f[k - 1], PathOrder[k]) ELSE f[k - 1]
      BY FirstsSolves
<1>2. PICK N \in Nat : N = Len(PathOrder)
      BY PathAssumption
<1> DEFINE Good == {m \in Nat : m <= N => Lineup(S, m, f[m])}
<1>3. 0 \in Good
  <2>1. <<>> \in Seq(Paths) /\ Len(<<>>) = 0 /\ 1..0 = {}
        BY EmptySeq
  <2>2. Lineup(S, 0, <<>>)
        BY <2>1 DEF Lineup
  <2>3. QED
        BY <1>1, <2>2
<1>4. ASSUME NEW m \in Nat, m \in Good PROVE m + 1 \in Good
  <2>1. CASE m + 1 <= N
    <3>1. m + 1 \in 1..Len(PathOrder) /\ (m + 1) - 1 = m /\ m <= N
          BY <1>2, <2>1
    <3>2. Lineup(S, (m + 1) - 1, f[m])
          BY <1>4, <3>1
    <3>3. Lineup(S, m + 1, IF PathOrder[m + 1] \in S THEN Append(f[m], PathOrder[m + 1]) ELSE f[m])
          BY <3>1, <3>2, LineupGrows
    <3>4. f[m + 1] = IF PathOrder[m + 1] \in S THEN Append(f[m], PathOrder[m + 1]) ELSE f[m]
          BY <1>1, <3>1
    <3>5. QED
          BY <3>3, <3>4
  <2>2. QED
        BY <2>1
<1>5. Lineup(S, N, f[N])
  <2>1. N \in Good
    <3> HIDE DEF Good
    <3>1. QED
          BY <1>3, <1>4, SetInduction
  <2>2. QED
        BY <2>1
<1>6. \A p \in Paths : \E j \in 1..N : p = PathOrder[j]
      BY <1>2 DEF Paths, ToSet
<1>7. PICK s : s = Ordered(S)
      OBVIOUS
<1>8. s = f[N]
      BY <1>1, <1>2, <1>7
<1>9. Lineup(S, N, s)
      BY <1>5, <1>8
<1>10. \A p \in S \cap Paths : \E k \in 1..Len(s) : s[k] = p
  <2>1. ASSUME NEW p \in S \cap Paths PROVE \E k \in 1..Len(s) : s[k] = p
    <3>1. PICK j \in 1..N : p = PathOrder[j]
          BY <1>6
    <3>2. QED
          BY <1>9, <3>1 DEF Lineup
  <2>2. QED
        BY <2>1
<1>11. QED
       BY <1>7, <1>9, <1>10 DEF Lineup

LEMMA PathsFinite == IsFiniteSet(Paths)
<1>1. PathOrder \in [1..Len(PathOrder) -> Paths] /\ Len(PathOrder) \in Nat
  <2>1. PathOrder \in Seq(Seq(STRING) \ {<<>>})
        BY PathAssumption
  <2>2. Len(PathOrder) \in Nat /\ DOMAIN PathOrder = 1..Len(PathOrder)
        BY <2>1
  <2>3. PathOrder = [i \in 1..Len(PathOrder) |-> PathOrder[i]]
        BY <2>1
  <2>4. \A i \in 1..Len(PathOrder) : PathOrder[i] \in Paths
        BY <2>2 DEF Paths, ToSet
  <2>5. QED
        BY <2>2, <2>3, <2>4
<1>2. \A p \in Paths : \E i \in 1..Len(PathOrder) : PathOrder[i] = p
  <2>1. DOMAIN PathOrder = 1..Len(PathOrder)
        BY <1>1
  <2>2. QED
        BY <2>1 DEF Paths, ToSet
<1>3. PathOrder \in Surjection(1..Len(PathOrder), Paths)
      BY <1>1, <1>2 DEF Surjection
<1>4. IsFiniteSet(1..Len(PathOrder))
  <2>1. 1 \in Int /\ Len(PathOrder) \in Int
        BY <1>1
  <2>2. QED
        BY <2>1, FS_Interval
<1>5. QED
      BY <1>3, <1>4, FS_Surjection

\* All that is to be deleted, in some order.
LEMMA DeletesOf ==
  ASSUME NEW r, NEW s \in Deletes(r)
  PROVE  /\ s \in Seq(Paths) /\ \A k \in 1..Len(s) : s[k] \in ToDelete(r)
         /\ \A p \in ToDelete(r) : \E k \in 1..Len(s) : s[k] = p
<1>1. ToDelete(r) \in SUBSET Paths
      BY DEF ToDelete
<1>2. IsFiniteSet(ToDelete(r))
      BY <1>1, PathsFinite, FS_Subset
<1>3. PICK n \in Nat : n = Cardinality(ToDelete(r))
      BY <1>2, FS_CardinalityType
<1>4. s \in SetToSeqs(ToDelete(r))
      BY DEF Deletes
<1>5. s \in [1..n -> ToDelete(r)] /\ \A i, j \in 1..n : i # j => s[i] # s[j]
      BY <1>3, <1>4 DEF SetToSeqs
<1>6. s \in Seq(ToDelete(r)) /\ Len(s) = n
      BY <1>5
<1>7. \A p \in ToDelete(r) : \E k \in 1..n : s[k] = p
  <2>1. s \in Injection(1..n, ToDelete(r))
    <3>1. DOMAIN s = 1..n
          BY <1>5
    <3>2. \A i, j \in DOMAIN s : s[i] = s[j] => i = j
          BY <1>5, <3>1
    <3>3. QED
          BY <1>5, <3>2 DEF Injection, IsInjective
  <2>2. Cardinality(1..n) = n
    <3>1. 1 \in Int /\ n \in Int
          BY <1>3
    <3>2. Cardinality(1..n) = IF 1 > n THEN 0 ELSE (n - 1) + 1
          BY <3>1, FS_Interval
    <3>3. QED
          BY <3>2
  <2>3. s \in Surjection(1..n, ToDelete(r))
        BY <1>2, <1>3, <2>1, <2>2, FS_Injection
  <2>4. QED
        BY <2>3 DEF Surjection
<1>8. QED
      BY <1>1, <1>5, <1>6, <1>7

\* What a walk finds.
LEMMA WalkFinds ==
  ASSUME NEW t, WellFormed(t), NEW p \in Paths
  PROVE  /\ Walk(t)[p] \in Walkable
         /\ Walk(t)[p] # Absent => ~ IsExcluded(p) /\ t[p] # Absent
         /\ Walk(t)[p].kind = "dir" => t[p] = Dir
         /\ Walk(t)[p].kind \in {"dir", "link"} => t[p] = Walk(t)[p]
         /\ Walk(t)[p] # Absent => Bare(Walk(t)[p]) = Bare(t[p])
<1>1. t[p] \in Walkable /\ t[p] \in Entry
      BY TreeIs DEF Listing, Walkable
<1>2. PICK e : e = Walk(t)[p]
      OBVIOUS
<1>3. Absent \in Walkable /\ Absent.kind = "none" /\ Dir.kind = "dir"
      BY MakesEntries
<1>4. CASE IsExcluded(p)
  <2>1. e = Absent
        BY <1>2, <1>4 DEF Walk
  <2>2. QED
        BY <1>2, <1>3, <2>1
<1>5. CASE ~ IsExcluded(p) /\ t[p].kind = "file" /\ t[p].mtime < 0
  <2>1. e = File(t[p].data, 0)
        BY <1>2, <1>5 DEF Walk
  <2>2. t[p].data \in Seq(Blocks) /\ 0 \in Int
        BY <1>1, <1>5, EntryKinds
  <2>3. e \in Walkable /\ e.kind = "file" /\ e.data = t[p].data
        BY <2>1, <2>2, MakesEntries
  <2>4. Bare(e) = Bare(t[p])
        BY <1>5, <2>3 DEF Bare
  <2>5. QED
        BY <1>2, <1>3, <1>5, <2>3, <2>4
<1>6. CASE ~ IsExcluded(p) /\ ~ (t[p].kind = "file" /\ t[p].mtime < 0)
  <2>1. e = t[p]
        BY <1>2, <1>6 DEF Walk
  <2>2. QED
        BY <1>1, <1>2, <1>6, <2>1, EntryKinds
<1>7. QED
      BY <1>4, <1>5, <1>6

LEMMA WalkListing ==
  ASSUME NEW t, WellFormed(t)
  PROVE  Walk(t) \in Listing
<1>1. Walk(t) = [p \in Paths |-> Walk(t)[p]]
      BY DEF Walk
<1>2. QED
      BY <1>1, WalkFinds DEF Listing

\* A frame for a plan of many paths, or none.
LEMMA PathFrameOf ==
  ASSUME NEW tag \in {"MKDIR", "SIG_REQ", "DELETE"}, NEW ps \in Seq(Paths)
  PROVE  /\ PathFrame(tag, ps) \in Seq(AgentFrame)
         /\ ps = <<>> => PathFrame(tag, ps) = <<>>
         /\ ps # <<>> => /\ Len(PathFrame(tag, ps)) = 1
                         /\ PathFrame(tag, ps)[1].tag = tag
                         /\ PathFrame(tag, ps)[1].paths = ps
<1>1. CASE ps = <<>>
  <2>1. PathFrame(tag, ps) = <<>>
        BY <1>1 DEF PathFrame
  <2>2. QED
        BY <1>1, <2>1, EmptySeq
<1>2. CASE ps # <<>>
  <2>1. PICK f : f = [tag |-> tag, paths |-> ps]
        OBVIOUS
  <2>2. f \in AgentFrame
        BY <1>2, <2>1 DEF AgentFrame
  <2>3. PathFrame(tag, ps) = <<f>>
        BY <1>2, <2>1 DEF PathFrame
  <2>4. QED
        BY <1>2, <2>1, <2>2, <2>3
<1>3. QED
      BY <1>1, <1>2

-----------------------------------------------------------------------------
(***************************************************************************)
(* The invariant holds at first.                                           *)
(***************************************************************************)

LEMMA EmptyFrames ==
  /\ <<>> \in Seq(AgentFrame) /\ <<>> \in Seq(ClientFrame) /\ <<>> \in Seq(Paths)
  /\ <<>> \in Seq(Blocks) /\ Len(<<>>) = 0 /\ 1..0 = {}
  BY EmptySeq

LEMMA EmptyListing == NoTree \in Listing /\ \A p \in Paths : NoTree[p] = Absent
  BY MakesEntries DEF NoTree, Listing

LEMMA BareOf ==
  ASSUME NEW e \in Entry
  PROVE  Bare(e) \in Entry /\ Bare(e).kind = e.kind /\ (e.kind # "file" => Bare(e) = e)
<1>1. CASE e.kind = "file"
  <2>1. Bare(e) = File(e.data, 0) /\ e.data \in Seq(Blocks) /\ 0 \in Int
        BY <1>1, EntryKinds DEF Bare
  <2>2. Bare(e) \in Walkable /\ Bare(e).kind = "file"
        BY <2>1, MakesEntries
  <2>3. QED
        BY <1>1, <2>2 DEF Walkable
<1>2. CASE e.kind # "file"
      BY <1>2 DEF Bare
<1>3. QED
      BY <1>1, <1>2

LEMMA TreeEntry ==
  ASSUME NEW t, WellFormed(t), NEW p \in Paths
  PROVE  t[p] \in Entry /\ t[p] \in Walkable
  BY TreeIs DEF Listing, Walkable

LEMMA InitIInv == Init => IInv
<1> SUFFICES ASSUME Init PROVE IInv
    OBVIOUS
<1>1. PICK t \in Starts : /\ local = t.local /\ remote = t.remote
                          /\ now = t.now /\ lag = t.lag /\ used = t.used
      BY DEF Init
<1>2. /\ WellFormed(local) /\ WellFormed(remote) /\ Confined(remote)
      /\ now \in 1..MaxTime /\ lag \in Nat
      /\ used \in [local : Nat, remote : Nat, breaks : Nat, sessions : Nat]
      BY <1>1, StartsAssumption
<1>3. /\ cpc = "idle" /\ apc = "off"
      /\ walk = NoTree /\ list = NoTree
      /\ want = <<>> /\ check = <<>> /\ sends = <<>>
      /\ sigs = NoSigs /\ reading = Shut
      /\ toAgent = <<>> /\ toClient = <<>> /\ stray = <<>>
      /\ versions = [p \in Paths |-> {Bare(local[p])}]
      BY DEF Init
<1>4. shaken \subseteq Paths /\ (Covered => Clash(local, remote) = {})
      BY DEF Init, Covered
<1>5. \A p \in Paths : local[p] \in Entry /\ remote[p] \in Entry
      BY <1>2, TreeEntry
<1>6. Types
  <2>1. versions \in [Paths -> SUBSET Entry]
        BY <1>3, <1>5, BareOf
  <2>2. sigs \in [Paths -> Seq(Blocks)]
        BY <1>3, EmptyFrames DEF NoSigs
  <2>3. walk \in Listing /\ list \in Listing
        BY <1>3, EmptyListing
  <2>4. /\ want \in Seq(Paths) /\ check \in Seq(Paths) /\ sends \in Seq(Paths)
        /\ toAgent \in Seq(AgentFrame) /\ toClient \in Seq(ClientFrame) /\ stray \in Seq(AgentFrame)
        BY <1>3, EmptyFrames
  <2>5. QED
        BY <1>2, <1>3, <1>4, <2>1, <2>2, <2>3, <2>4 DEF Types
<1>7. Stages
      BY <1>3, EmptyFrames DEF Stages
<1>8. Planned
      BY <1>3, EmptyFrames DEF Planned
<1>9. Opened
      BY <1>3 DEF Opened
<1>10. Ordering(toAgent) /\ Ordering(stray)
       BY <1>3, EmptyFrames DEF Ordering
<1>11. Own
       BY <1>3 DEF Own, Active
<1>12. Sides
  <2>1. \A p \in Paths : Bare(local[p]) \in versions[p]
        BY <1>3
  <2>2. Covered => Apart(local, remote)
    <3> SUFFICES ASSUME Covered, NEW p \in Paths
                 PROVE  /\ local[p].kind = "link" => remote[p] # Dir
                        /\ local[p] = Dir => remote[p].kind # "link"
        BY DEF Apart
    <3>1. p \notin Clash(local, remote)
          BY <1>4
    <3>2. /\ Dir.kind = "dir" /\ Absent.kind = "none"
          BY MakesEntries
    <3>3. QED
          BY <3>1, <3>2 DEF Clash
  <2>3. QED
        BY <2>1, <2>2 DEF Sides
<1>13. Walked
       BY <1>3, EmptyListing, MakesEntries DEF Walked
<1>14. Lists
       BY <1>3, EmptyListing, EmptyFrames DEF Lists, Listed
<1>15. Frames
       BY <1>3, EmptyFrames DEF Frames
<1>16. Deltas
       BY <1>3, EmptyFrames DEF Deltas
<1>17. Sigs
       BY <1>3 DEF Sigs
<1>18. Answers
       BY <1>3 DEF Answers
<1>19. QED
       BY <1>6, <1>7, <1>8, <1>9, <1>10, <1>11, <1>12, <1>13, <1>14, <1>15, <1>16, <1>17, <1>18 DEF IInv

-----------------------------------------------------------------------------
(***************************************************************************)
(* Steps that leave the trees and the plan alone.                          *)
(***************************************************************************)

LEMMA TickKeeps == IInv /\ Tick => IInv'
<1> SUFFICES ASSUME IInv, Tick PROVE IInv'
    OBVIOUS
<1>1. UNCHANGED <<local, remote, lag, cpc, walk, list, want, check, sigs, sends, reading, apc,
                  toAgent, toClient, stray, used, versions, shaken>>
      BY DEF Tick, client, history
<1>2. now' \in 1..MaxTime
      BY ContentsAssumption DEF IInv, Types, Tick
<1>3. Types'
      BY <1>1, <1>2 DEF IInv, Types, Active
<1>4. Stages' /\ Planned' /\ Opened' /\ Own'
      BY <1>1 DEF IInv, Stages, Planned, Opened, Own, Active
<1>5. Ordering(toAgent)' /\ Ordering(stray)' /\ Sides' /\ Walked'
      BY <1>1 DEF IInv, Ordering, Sides, Walked, Covered, Apart
<1>6. Lists' /\ Frames'
      BY <1>1 DEF IInv, Lists, Frames, Covered, NoLink
<1>7. Deltas' /\ Sigs' /\ Answers'
      BY <1>1 DEF IInv, Deltas, Sigs, Answers
<1>8. QED
      BY <1>3, <1>4, <1>5, <1>6, <1>7 DEF IInv

LEMMA StutterKeeps == IInv /\ UNCHANGED vars => IInv'
<1> SUFFICES ASSUME IInv, UNCHANGED vars PROVE IInv'
    OBVIOUS
<1>1. UNCHANGED <<local, remote, now, lag, cpc, walk, list, want, check, sigs, sends, reading, apc,
                  toAgent, toClient, stray, used, versions, shaken>>
      BY DEF vars, world, client, history
<1>2. Types'
      BY <1>1 DEF IInv, Types, Active
<1>3. Stages' /\ Planned' /\ Opened' /\ Own'
      BY <1>1 DEF IInv, Stages, Planned, Opened, Own, Active
<1>4. Ordering(toAgent)' /\ Ordering(stray)' /\ Sides' /\ Walked'
      BY <1>1 DEF IInv, Ordering, Sides, Walked, Covered, Apart
<1>5. Lists' /\ Frames'
      BY <1>1 DEF IInv, Lists, Frames, Covered, NoLink
<1>6. Deltas' /\ Sigs' /\ Answers'
      BY <1>1 DEF IInv, Deltas, Sigs, Answers
<1>7. QED
      BY <1>2, <1>3, <1>4, <1>5, <1>6 DEF IInv

\* The client ends its sync; frames may be lost.
LEMMA EndKeeps ==
  ASSUME IInv, cpc \in Active, cpc' \in {"failed", "done"}, cpc' = "done" => apc # "start",
         reading' = Shut,
         UNCHANGED <<local, remote, now, lag, walk, list, want, check, sigs, sends, apc, stray,
                     versions, shaken>>,
         used' \in [local : Nat, remote : Nat, breaks : Nat, sessions : Nat],
         toAgent' \in Seq(AgentFrame), Within(toAgent', toAgent),
         toClient' \in Seq(ClientFrame),
         \A k \in 1..Len(toClient') : \E j \in 1..Len(toClient) : toClient'[k] = toClient[j],
         apc = "start" => toClient' = <<>>
  PROVE  IInv'
<1>1. Types'
      BY DEF IInv, Types
<1>2. PICK f \in Seq(AgentFrame) : f = toAgent
      BY DEF IInv, Types
<1>3. PICK g \in Seq(AgentFrame) : g = toAgent'
      OBVIOUS
<1>4. Len(f) \in Nat /\ Len(g) \in Nat /\ Within(g, f)
      BY <1>2, <1>3
<1>5. /\ Len(g) <= Len(f)
      /\ \A T : (\A k \in 1..Len(f) : f[k].tag \in T) => \A k \in 1..Len(g) : g[k].tag \in T
      /\ \A l, N, v : (\A k \in 1..Len(f) : Sound(f[k], l, N, v)) =>
                        \A k \in 1..Len(g) : Sound(g[k], l, N, v)
      /\ \A r, v, o : (\A k \in 1..Len(f) : DeltaFresh(f[k], r, v, o)) =>
                        \A k \in 1..Len(g) : DeltaFresh(g[k], r, v, o)
      /\ Ordering(f) => Ordering(g)
      BY <1>4, WithinKeeps
<1>6. apc # "off"
      BY DEF IInv, Stages, Active
<1>7. Stages'
  <2>1. ASSUME apc = "start"
        PROVE  Len(g) <= 1 /\ \A k \in 1..Len(g) : g[k].tag = "SYNC_REQ"
    <3>1. Len(f) <= 1 /\ \A k \in 1..Len(f) : f[k].tag \in {"SYNC_REQ"}
          BY <1>2, <2>1 DEF IInv, Stages
    <3>2. \A k \in 1..Len(g) : g[k].tag \in {"SYNC_REQ"}
          BY <1>5, <3>1
    <3>3. QED
          BY <1>4, <1>5, <3>1, <3>2
  <2>2. cpc' \notin {"idle", "list", "sigs", "send", "await"}
        OBVIOUS
  <2>3. QED
        BY <1>3, <1>6, <2>1, <2>2 DEF Stages
<1>8. Planned' /\ Opened'
      BY DEF IInv, Planned, Opened
<1>9. Ordering(toAgent)' /\ Ordering(stray)'
  <2>1. Ordering(f)
        BY <1>2 DEF IInv
  <2>2. Ordering(g)
        BY <1>5, <2>1
  <2>3. Ordering(toAgent)'
        BY <1>3, <2>2 DEF Ordering
  <2>4. Ordering(stray)'
        BY DEF IInv, Ordering
  <2>5. QED
        BY <2>3, <2>4
<1>10. Own' /\ Sigs' /\ Answers'
       BY DEF Own, Sigs, Answers, Active
<1>11. Sides' /\ Walked'
       BY DEF IInv, Sides, Walked, Covered, Apart
<1>12. Lists'
  <2>1. ASSUME Covered PROVE Listed(list, NoLink) /\ \A k \in 1..Len(toClient) :
                               toClient[k].tag = "LIST" => Listed(toClient[k].tree, NoLink)
        BY <2>1 DEF IInv, Lists
  <2>2. NoLink' = NoLink /\ Covered' = Covered
        BY DEF NoLink, Covered
  <2>3. ASSUME Covered, NEW k \in 1..Len(toClient'), toClient'[k].tag = "LIST"
        PROVE  Listed(toClient'[k].tree, NoLink)
    <3>1. PICK j \in 1..Len(toClient) : toClient'[k] = toClient[j]
          OBVIOUS
    <3>2. QED
          BY <2>1, <2>3, <3>1
  <2>4. QED
        BY <2>1, <2>2, <2>3 DEF Lists
<1>13. Frames'
  <2>1. ASSUME Covered
        PROVE  /\ \A k \in 1..Len(g) : Sound(g[k], local, NoLink, versions)
               /\ \A k \in 1..Len(stray) : Sound(stray[k], local, NoLink, versions)
        BY <1>2, <1>5, <2>1 DEF IInv, Frames
  <2>2. NoLink' = NoLink /\ Covered' = Covered
        BY DEF NoLink, Covered
  <2>3. QED
        BY <1>3, <2>1, <2>2 DEF Frames
<1>14. Deltas'
  <2>1. apc = "serve" => \A k \in 1..Len(g) : DeltaFresh(g[k], remote, versions, shaken)
        BY <1>2, <1>5 DEF IInv, Deltas
  <2>2. QED
        BY <1>3, <2>1 DEF IInv, Deltas
<1>15. QED
       BY <1>1, <1>7, <1>8, <1>9, <1>10, <1>11, <1>12, <1>13, <1>14 DEF IInv

\* All frames are still there.
LEMMA AllWithin == \A f \in Seq(AgentFrame) : Within(f, f)
<1>1. ASSUME NEW f \in Seq(AgentFrame) PROVE Within(f, f)
  <2>1. Len(f) \in Nat /\ Len(f) + 0 <= Len(f) /\ \A k \in 1..Len(f) : k + 0 = k
        OBVIOUS
  <2>2. \A k \in 1..Len(f) : Thinner(f[k], f[k + 0])
        BY <2>1 DEF Thinner
  <2>3. QED
        BY <2>1, <2>2 DEF Within
<1>2. QED
      BY <1>1

LEMMA TailOf ==
  ASSUME NEW S, NEW s \in Seq(S), s # <<>>
  PROVE  /\ Tail(s) \in Seq(S) /\ Len(Tail(s)) = Len(s) - 1 /\ Len(s) \in Nat \ {0}
         /\ \A k \in 1..(Len(s) - 1) : Tail(s)[k] = s[k + 1]
         /\ Head(s) = s[1] /\ s[1] \in S
  BY HeadTailProperties

\* An error ends the sync.
LEMMA GiveUpKeeps ==
  ASSUME IInv, cpc \in Active, GiveUp,
         toClient' = toClient \/ (toClient # <<>> /\ toClient' = Tail(toClient))
  PROVE  IInv'
<1>1. /\ cpc' = "failed" /\ reading' = Shut
      /\ UNCHANGED <<local, remote, now, lag, walk, list, want, check, sigs, sends, apc, toAgent,
                     stray, used, versions, shaken>>
      BY DEF GiveUp, world, history
<1>2. used' \in [local : Nat, remote : Nat, breaks : Nat, sessions : Nat]
      BY <1>1 DEF IInv, Types
<1>3. toAgent' \in Seq(AgentFrame) /\ Within(toAgent', toAgent)
      BY <1>1, AllWithin DEF IInv, Types
<1>4. toClient \in Seq(ClientFrame)
      BY DEF IInv, Types
<1>5. /\ toClient' \in Seq(ClientFrame)
      /\ \A k \in 1..Len(toClient') : \E j \in 1..Len(toClient) : toClient'[k] = toClient[j]
  <2>1. CASE toClient' = toClient
        BY <1>4, <2>1
  <2>2. CASE toClient # <<>> /\ toClient' = Tail(toClient)
    <3>1. PICK c : c = toClient
          OBVIOUS
    <3>2. PICK d : d = Tail(c)
          OBVIOUS
    <3>3. d \in Seq(ClientFrame) /\ Len(d) = Len(c) - 1 /\ Len(c) \in Nat \ {0}
          /\ \A k \in 1..(Len(c) - 1) : d[k] = c[k + 1]
          BY <1>4, <2>2, <3>1, <3>2, TailOf
    <3>4. \A k \in 1..(Len(c) - 1) : k + 1 \in 1..Len(c)
          BY <3>3
    <3>5. \A k \in 1..Len(d) : \E j \in 1..Len(c) : d[k] = c[j]
          BY <3>3, <3>4
    <3>6. toClient' = d /\ toClient = c
          BY <2>2, <3>1, <3>2
    <3>7. QED
          BY <3>3, <3>5, <3>6
  <2>3. QED
        BY <2>1, <2>2
<1>6. apc = "start" => toClient' = <<>>
      BY DEF IInv, Stages
<1>7. QED
      BY <1>1, <1>2, <1>3, <1>5, <1>6, EndKeeps

LEMMA FailKeeps == IInv /\ Fail => IInv'
  BY GiveUpKeeps DEF Fail

LEMMA SpendKeeps ==
  ASSUME NEW what \in {"local", "remote", "breaks", "sessions"}, NEW max, IInv, Spend(what, max)
  PROVE  used' \in [local : Nat, remote : Nat, breaks : Nat, sessions : Nat]
<1>1. used \in [local : Nat, remote : Nat, breaks : Nat, sessions : Nat]
      BY DEF IInv, Types
<1>2. used[what] \in Nat
      BY <1>1
<1>3. used' = [used EXCEPT ![what] = used[what] + 1]
      BY DEF Spend
<1>4. QED
      BY <1>1, <1>2, <1>3

LEMMA BreakKeeps == IInv /\ Break => IInv'
<1> SUFFICES ASSUME IInv, Break PROVE IInv'
    OBVIOUS
<1>1. /\ cpc \in Active /\ cpc' = "failed" /\ reading' = Shut /\ toClient' = <<>>
      /\ toAgent' \in Prefixes(toAgent)
      /\ UNCHANGED <<local, remote, now, lag, walk, list, want, check, sigs, sends, apc,
                     stray, versions, shaken>>
      BY DEF Break, world
<1>2. used' \in [local : Nat, remote : Nat, breaks : Nat, sessions : Nat]
      BY SpendKeeps DEF Break
<1>3. toAgent' \in Seq(AgentFrame) /\ Within(toAgent', toAgent)
  <2>1. PICK f \in Seq(AgentFrame) : f = toAgent
        BY DEF IInv, Types
  <2>2. PICK g : g = toAgent'
        OBVIOUS
  <2>3. g \in Seq(AgentFrame) /\ Within(g, f)
        BY <1>1, <2>1, <2>2, PrefixWithin
  <2>4. QED
        BY <2>1, <2>2, <2>3
<1>4. toClient' \in Seq(ClientFrame) /\ 1..Len(toClient') = {}
      BY <1>1, EmptyFrames
<1>5. QED
      BY <1>1, <1>2, <1>3, <1>4, EndKeeps

LEMMA SucceedKeeps == IInv /\ Succeed => IInv'
<1> SUFFICES ASSUME IInv, Succeed PROVE IInv'
    OBVIOUS
<1>1. /\ cpc = "await" /\ cpc' = "done" /\ toClient # <<>> /\ toClient' = Tail(toClient)
      /\ UNCHANGED <<local, remote, now, lag, walk, list, want, check, sigs, sends, reading, apc,
                     toAgent, stray, used, versions, shaken>>
      BY DEF Succeed, world
<1>2. reading' = Shut /\ cpc \in Active /\ apc # "start"
      BY <1>1 DEF IInv, Opened, Stages, Active
<1>3. used' \in [local : Nat, remote : Nat, breaks : Nat, sessions : Nat]
      BY <1>1 DEF IInv, Types
<1>4. toAgent' \in Seq(AgentFrame) /\ Within(toAgent', toAgent)
      BY <1>1, AllWithin DEF IInv, Types
<1>5. PICK c \in Seq(ClientFrame) : c = toClient
      BY DEF IInv, Types
<1>6. PICK d : d = Tail(c)
      OBVIOUS
<1>7. d \in Seq(ClientFrame) /\ Len(d) = Len(c) - 1 /\ Len(c) \in Nat \ {0}
      /\ \A k \in 1..(Len(c) - 1) : d[k] = c[k + 1]
      BY <1>1, <1>5, <1>6, TailOf
<1>8. \A k \in 1..Len(d) : \E j \in 1..Len(c) : d[k] = c[j]
  <2>1. \A k \in 1..(Len(c) - 1) : k + 1 \in 1..Len(c)
        BY <1>7
  <2>2. QED
        BY <1>7, <2>1
<1>9. toClient' = d /\ toClient = c
      BY <1>1, <1>5, <1>6
<1>10. /\ toClient' \in Seq(ClientFrame)
       /\ \A k \in 1..Len(toClient') : \E j \in 1..Len(toClient) : toClient'[k] = toClient[j]
       BY <1>7, <1>8, <1>9
<1>11. QED
       BY <1>1, <1>2, <1>3, <1>4, <1>10, EndKeeps

-----------------------------------------------------------------------------
(***************************************************************************)
(* A sync starts, lists the remote tree, and makes way for the next.       *)
(***************************************************************************)

LEMMA StartKeeps == IInv /\ Start => IInv'
<1> SUFFICES ASSUME IInv, Start PROVE IInv'
    OBVIOUS
<1>1. /\ cpc = "idle" /\ cpc' = "list" /\ apc' = "start" /\ walk' = Walk(local)
      /\ UNCHANGED <<local, remote, now, lag, list, want, check, sigs, sends, reading,
                     toClient, stray, versions, shaken>>
      BY DEF Start, world
<1>2. PICK f : f = [tag |-> "SYNC_REQ", paths |-> <<>>]
      OBVIOUS
<1>3. f \in AgentFrame /\ f.tag = "SYNC_REQ" /\ f.paths = <<>>
      BY <1>2 DEF AgentFrame
<1>4. toAgent' = <<f>>
      BY <1>2 DEF Start
<1>5. toAgent' \in Seq(AgentFrame) /\ Len(toAgent') = 1 /\ toAgent'[1] = f /\ 1..1 = {1}
      BY <1>3, <1>4
<1>6. apc = "off" /\ toClient = <<>> /\ want = <<>> /\ check = <<>> /\ sends = <<>> /\ reading = Shut
      BY <1>1 DEF IInv, Stages, Opened
<1>7. used' \in [local : Nat, remote : Nat, breaks : Nat, sessions : Nat]
      BY SpendKeeps DEF Start
<1>8. walk' \in Listing
      BY <1>1, WalkListing DEF IInv, Types
<1>9. Types'
      BY <1>1, <1>5, <1>7, <1>8 DEF IInv, Types, Active
<1>10. Stages'
       BY <1>1, <1>3, <1>5, <1>6 DEF Stages
<1>11. Planned'
       BY <1>1, <1>6, EmptyFrames DEF Planned
<1>12. Opened'
       BY <1>1, <1>6 DEF Opened
<1>13. Ordering(toAgent)' /\ Ordering(stray)'
  <2>1. Ordering(toAgent)'
        BY <1>3, <1>5 DEF Ordering
  <2>2. Ordering(stray)'
        BY <1>1 DEF IInv, Ordering
  <2>3. QED
        BY <2>1, <2>2
<1>14. Own'
       BY <1>3, <1>5 DEF Own, OwnFrame
<1>15. Sides'
       BY <1>1 DEF IInv, Sides, Covered, Apart
<1>16. Walked'
  <2>1. WellFormed(local) /\ \A p \in Paths : Bare(local[p]) \in versions[p]
        BY DEF IInv, Types, Sides
  <2>2. PICK w : w = Walk(local)
        OBVIOUS
  <2>3. ASSUME NEW p \in Paths
        PROVE  /\ w[p].kind \in {"dir", "link"} => local[p] = w[p]
               /\ w[p] # Absent =>
                    /\ ~ IsExcluded(p)
                    /\ Bare(w[p]) \in versions[p]
                    /\ \A q \in Above(p) : local[q] = Dir
    <3>1. /\ w[p].kind \in {"dir", "link"} => local[p] = w[p]
          /\ w[p] # Absent => ~ IsExcluded(p) /\ local[p] # Absent /\ Bare(w[p]) = Bare(local[p])
          BY <2>1, <2>2, WalkFinds
    <3>2. local[p] # Absent => \A q \in Above(p) : local[q] = Dir
          BY <2>1, BelowDirs
    <3>3. QED
          BY <2>1, <3>1, <3>2
  <2>4. walk' = w
        BY <1>1, <2>2
  <2>5. QED
        BY <1>1, <2>3, <2>4 DEF Walked
<1>17. Lists'
  <2>1. NoLink' = NoLink /\ Covered' = Covered
        BY <1>1 DEF NoLink, Covered
  <2>2. QED
        BY <1>1, <2>1 DEF IInv, Lists
<1>18. Frames'
  <2>1. NoLink' = NoLink /\ Covered' = Covered
        BY <1>1 DEF NoLink, Covered
  <2>2. \A l, N, v : Sound(f, l, N, v)
        BY <1>3, EmptyFrames DEF Sound
  <2>3. \A k \in 1..Len(toAgent') : Sound(toAgent'[k], local, NoLink, versions)
        BY <1>5, <2>2
  <2>4. QED
        BY <1>1, <2>1, <2>3 DEF IInv, Frames
<1>19. Deltas'
       BY <1>1, <1>6 DEF IInv, Deltas
<1>20. Sigs' /\ Answers'
       BY <1>1 DEF Sigs, Answers
<1>21. QED
       BY <1>9, <1>10, <1>11, <1>12, <1>13, <1>14, <1>15, <1>16, <1>17, <1>18, <1>19, <1>20 DEF IInv

\* The frames an abandoned agent finds.
LEMMA AgainKeeps == IInv /\ Again => IInv'
<1> SUFFICES ASSUME IInv, Again PROVE IInv'
    OBVIOUS
<1>1. /\ cpc \in {"done", "failed"} /\ cpc' = "idle" /\ apc' = "off"
      /\ toAgent' = <<>> /\ toClient' = <<>> /\ walk' = NoTree /\ list' = NoTree
      /\ want' = <<>> /\ check' = <<>> /\ sends' = <<>> /\ sigs' = NoSigs
      /\ UNCHANGED <<local, remote, now, lag, reading, used, versions, shaken>>
      BY DEF Again, world, history
<1>2. PICK f \in Seq(AgentFrame) : f = toAgent
      BY DEF IInv, Types
<1>3. PICK g : g = stray'
      OBVIOUS
<1>4. g \in Seq(AgentFrame) /\ Within(g, f) /\ (apc # "serve" => g = <<>>)
  <2>1. CASE apc = "serve"
    <3>1. g \in Prefixes(f)
          BY <1>2, <1>3, <2>1 DEF Again
    <3>2. QED
          BY <2>1, <3>1, PrefixWithin
  <2>2. CASE apc # "serve"
    <3>1. g = <<>>
          BY <1>3, <2>2 DEF Again
    <3>2. QED
          BY <3>1, EmptyFrames, NoneWithin
  <2>3. QED
        BY <2>1, <2>2
<1>5. /\ \A l, N, v : (\A k \in 1..Len(f) : Sound(f[k], l, N, v)) =>
                        \A k \in 1..Len(g) : Sound(g[k], l, N, v)
      /\ \A r, v, o : (\A k \in 1..Len(f) : DeltaFresh(f[k], r, v, o)) =>
                        \A k \in 1..Len(g) : DeltaFresh(g[k], r, v, o)
      /\ Ordering(f) => Ordering(g)
      BY <1>4, WithinKeeps
<1>6. reading = Shut
      BY <1>1 DEF IInv, Opened
<1>7. Types'
  <2>1. sigs' \in [Paths -> Seq(Blocks)]
        BY <1>1, EmptyFrames DEF NoSigs
  <2>2. /\ want' \in Seq(Paths) /\ check' \in Seq(Paths) /\ sends' \in Seq(Paths)
        /\ toAgent' \in Seq(AgentFrame) /\ toClient' \in Seq(ClientFrame)
        BY <1>1, EmptyFrames
  <2>3. walk' \in Listing /\ list' \in Listing
        BY <1>1, EmptyListing
  <2>4. QED
        BY <1>1, <1>3, <1>4, <2>1, <2>2, <2>3 DEF IInv, Types
<1>8. Stages'
      BY <1>1, EmptyFrames DEF Stages
<1>9. Planned' /\ Opened'
      BY <1>1, <1>6, EmptyFrames DEF Planned, Opened
<1>10. Ordering(toAgent)' /\ Ordering(stray)'
  <2>1. Ordering(f)
        BY <1>2 DEF IInv
  <2>2. Ordering(g)
        BY <1>5, <2>1
  <2>3. Ordering(toAgent)'
        BY <1>1, EmptyFrames DEF Ordering
  <2>4. Ordering(stray)'
        BY <1>3, <2>2 DEF Ordering
  <2>5. QED
        BY <2>3, <2>4
<1>11. Own' /\ Sigs' /\ Answers'
       BY <1>1 DEF Own, Sigs, Answers, Active
<1>12. Sides'
       BY <1>1 DEF IInv, Sides, Covered, Apart
<1>13. Walked'
       BY <1>1, EmptyListing, MakesEntries DEF Walked
<1>14. Lists'
       BY <1>1, EmptyListing, EmptyFrames DEF Lists, Listed
<1>15. Frames'
  <2>1. NoLink' = NoLink /\ Covered' = Covered
        BY <1>1 DEF NoLink, Covered
  <2>2. Covered => \A k \in 1..Len(g) : Sound(g[k], local, NoLink, versions)
        BY <1>2, <1>5 DEF IInv, Frames
  <2>3. QED
        BY <1>1, <1>3, <2>1, <2>2, EmptyFrames DEF Frames
<1>16. Deltas'
  <2>1. \A k \in 1..Len(g) : DeltaFresh(g[k], remote, versions, shaken)
    <3>1. CASE apc = "serve"
          BY <1>2, <1>5, <3>1 DEF IInv, Deltas
    <3>2. CASE apc # "serve"
          BY <1>4, <3>2, EmptyFrames
    <3>3. QED
          BY <3>1, <3>2
  <2>2. QED
        BY <1>1, <1>3, <2>1 DEF Deltas
<1>17. QED
       BY <1>7, <1>8, <1>9, <1>10, <1>11, <1>12, <1>13, <1>14, <1>15, <1>16 DEF IInv

\* One more in the pipe to the client.
LEMMA AnswerMore ==
  ASSUME NEW c \in Seq(ClientFrame), NEW e \in ClientFrame
  PROVE  /\ Append(c, e) \in Seq(ClientFrame) /\ Len(Append(c, e)) = Len(c) + 1
         /\ Len(c) \in Nat /\ Append(c, e) # <<>>
         /\ Append(c, e)[Len(c) + 1] = e
         /\ \A k \in 1..Len(c) : Append(c, e)[k] = c[k]
         /\ \A k \in 1..Len(Append(c, e)) : k \in 1..Len(c) \/ k = Len(c) + 1
<1>1. PICK d : d = Append(c, e)
      OBVIOUS
<1>2. /\ d \in Seq(ClientFrame) /\ Len(d) = Len(c) + 1 /\ Len(c) \in Nat
      /\ d[Len(c) + 1] = e /\ \A k \in 1..Len(c) : d[k] = c[k]
      BY <1>1, OneMore
<1>3. d # <<>>
      BY <1>2, EmptyFrames
<1>4. \A k \in 1..Len(d) : k \in 1..Len(c) \/ k = Len(c) + 1
      BY <1>2
<1>5. QED
      BY <1>1, <1>2, <1>3, <1>4

LEMMA ConcludeKeeps == IInv /\ Conclude => IInv'
<1> SUFFICES ASSUME IInv, Conclude PROVE IInv'
    OBVIOUS
<1>1. /\ apc = "serve" /\ apc' = "idle" /\ toAgent # <<>> /\ Head(toAgent).tag = "PLAN_DONE"
      /\ toAgent' = Tail(toAgent)
      /\ UNCHANGED <<local, remote, now, lag, cpc, walk, list, want, check, sigs, sends, reading,
                     stray, used, versions, shaken>>
      BY DEF Conclude, world, client, history
<1>2. PICK e : e = [tag |-> "DONE"]
      OBVIOUS
<1>3. e \in ClientFrame /\ e.tag = "DONE"
      BY <1>2 DEF ClientFrame
<1>4. PICK c \in Seq(ClientFrame) : c = toClient
      BY DEF IInv, Types
<1>5. PICK d : d = Append(c, e)
      OBVIOUS
<1>6. toClient' = d
      BY <1>2, <1>4, <1>5 DEF Conclude
<1>7. /\ d \in Seq(ClientFrame) /\ Len(d) = Len(c) + 1 /\ Len(c) \in Nat
      /\ d[Len(c) + 1] = e /\ \A k \in 1..Len(c) : d[k] = c[k]
      /\ \A k \in 1..Len(d) : k \in 1..Len(c) \/ k = Len(c) + 1
      BY <1>3, <1>5, AnswerMore
<1>8. PICK f \in Seq(AgentFrame) : f = toAgent
      BY DEF IInv, Types
<1>9. PICK g : g = Tail(f)
      OBVIOUS
<1>10. g \in Seq(AgentFrame) /\ Within(g, f)
       BY <1>1, <1>8, <1>9, TailWithin
<1>11. toAgent' = g
       BY <1>1, <1>8, <1>9
<1>12. /\ \A l, N, v : (\A k \in 1..Len(f) : Sound(f[k], l, N, v)) =>
                         \A k \in 1..Len(g) : Sound(g[k], l, N, v)
       /\ \A w, s : (\A k \in 1..Len(f) : OwnFrame(f[k], w, s)) =>
                      \A k \in 1..Len(g) : OwnFrame(g[k], w, s)
       /\ Ordering(f) => Ordering(g)
       BY <1>10, WithinKeeps
<1>13. cpc \in {"await", "done", "failed"}
  <2>1. f[1].tag = "PLAN_DONE" /\ Len(f) \in Nat \ {0} /\ 1 \in 1..Len(f)
        BY <1>1, <1>8, TailOf
  <2>2. cpc \in {"list", "sigs", "send"} => \A k \in 1..Len(f) : f[k].tag \notin {"DELETE", "PLAN_DONE"}
        BY <1>8 DEF IInv, Stages
  <2>3. cpc # "idle"
        BY <1>1 DEF IInv, Stages
  <2>4. QED
        BY <2>1, <2>2, <2>3 DEF IInv, Types, Active
<1>14. Types'
       BY <1>1, <1>6, <1>7, <1>10, <1>11 DEF IInv, Types
<1>15. Stages'
       BY <1>1, <1>13 DEF Stages
<1>16. Planned'
       BY <1>1 DEF IInv, Planned
<1>17. Opened'
       BY <1>1, <1>13 DEF IInv, Opened
<1>18. Ordering(toAgent)' /\ Ordering(stray)'
  <2>1. Ordering(f)
        BY <1>8 DEF IInv
  <2>2. Ordering(g)
        BY <1>12, <2>1
  <2>3. Ordering(toAgent)'
        BY <1>11, <2>2 DEF Ordering
  <2>4. Ordering(stray)'
        BY <1>1 DEF IInv, Ordering
  <2>5. QED
        BY <2>3, <2>4
<1>19. Own'
  <2>1. cpc \in Active => \A k \in 1..Len(g) : OwnFrame(g[k], walk, sends)
        BY <1>8, <1>12 DEF IInv, Own
  <2>2. QED
        BY <1>1, <1>11, <2>1 DEF Own
<1>20. Sides' /\ Walked'
       BY <1>1 DEF IInv, Sides, Walked, Covered, Apart
<1>21. NoLink' = NoLink /\ Covered' = Covered
       BY <1>1 DEF NoLink, Covered
<1>22. Lists'
  <2>1. Covered => /\ Listed(list, NoLink)
                   /\ \A k \in 1..Len(c) : c[k].tag = "LIST" => Listed(c[k].tree, NoLink)
        BY <1>4 DEF IInv, Lists
  <2>2. Covered => \A k \in 1..Len(d) : d[k].tag = "LIST" => Listed(d[k].tree, NoLink)
        BY <1>3, <1>7, <2>1
  <2>3. QED
        BY <1>1, <1>6, <1>21, <2>1, <2>2 DEF Lists
<1>23. Frames'
  <2>1. Covered => /\ \A k \in 1..Len(g) : Sound(g[k], local, NoLink, versions)
                   /\ \A k \in 1..Len(stray) : Sound(stray[k], local, NoLink, versions)
        BY <1>8, <1>12 DEF IInv, Frames
  <2>2. QED
        BY <1>1, <1>11, <1>21, <2>1 DEF Frames
<1>24. Deltas' /\ Sigs' /\ Answers'
       BY <1>1 DEF Deltas, Sigs, Answers
<1>25. QED
       BY <1>14, <1>15, <1>16, <1>17, <1>18, <1>19, <1>20, <1>22, <1>23, <1>24 DEF IInv

LEMMA ListKeeps == IInv /\ List => IInv'
<1> SUFFICES ASSUME IInv, List PROVE IInv'
    OBVIOUS
<1>1. /\ apc = "start" /\ apc' = "serve" /\ toAgent # <<>> /\ toAgent' = Tail(toAgent)
      /\ UNCHANGED <<local, remote, now, lag, cpc, walk, list, want, check, sigs, sends, reading,
                     stray, used, versions, shaken>>
      BY DEF List, world, client
<1>2. cpc \in {"list", "failed"} /\ toClient = <<>> /\ Len(toAgent) <= 1
      BY <1>1 DEF IInv, Stages
<1>3. PICK t : t = Walk(remote)
      OBVIOUS
<1>4. t \in Listing
      BY <1>3, WalkListing DEF IInv, Types
<1>5. PICK e : e = [tag |-> "LIST", tree |-> t]
      OBVIOUS
<1>6. e \in ClientFrame /\ e.tag = "LIST" /\ e.tree = t
      BY <1>4, <1>5 DEF ClientFrame
<1>7. toClient' = <<e>>
      BY <1>2, <1>3, <1>5 DEF List
<1>8. toClient' \in Seq(ClientFrame) /\ Len(toClient') = 1 /\ toClient'[1] = e /\ 1..1 = {1}
      BY <1>6, <1>7
<1>9. toAgent' = <<>>
  <2>1. PICK f \in Seq(AgentFrame) : f = toAgent
        BY DEF IInv, Types
  <2>2. Tail(f) \in Seq(AgentFrame) /\ Len(Tail(f)) = Len(f) - 1 /\ Len(f) \in Nat \ {0}
        BY <1>1, <2>1, TailOf
  <2>3. Len(Tail(f)) = 0
        BY <1>2, <2>1, <2>2
  <2>4. Tail(f) = <<>>
        BY <2>2, <2>3, EmptySeq
  <2>5. QED
        BY <1>1, <2>1, <2>4
<1>10. Types'
       BY <1>1, <1>8, <1>9, EmptyFrames DEF IInv, Types
<1>11. Stages'
       BY <1>1, <1>2, <1>6, <1>8, <1>9, EmptyFrames DEF IInv, Stages
<1>12. Planned'
       BY <1>1 DEF IInv, Planned
<1>13. Opened'
       BY <1>1, <1>2 DEF IInv, Opened
<1>14. Ordering(toAgent)' /\ Ordering(stray)'
       BY <1>1, <1>9, EmptyFrames DEF IInv, Ordering
<1>15. Own'
       BY <1>9, EmptyFrames DEF Own
<1>16. Sides' /\ Walked'
       BY <1>1 DEF IInv, Sides, Walked, Covered, Apart
<1>17. NoLink' = NoLink /\ Covered' = Covered
       BY <1>1 DEF NoLink, Covered
<1>18. ASSUME Covered PROVE Listed(t, NoLink)
  <2>1. WellFormed(remote) /\ Apart(local, remote)
        BY <1>18 DEF IInv, Types, Sides
  <2>2. ASSUME NEW p \in Paths, t[p] # Absent PROVE ~ IsExcluded(p) /\ Above(p) \subseteq NoLink
    <3>1. ~ IsExcluded(p) /\ remote[p] # Absent
          BY <1>3, <2>1, <2>2, WalkFinds
    <3>2. ASSUME NEW q \in Above(p) PROVE q \in NoLink
      <4>1. q \in Paths /\ remote[q] = Dir
            BY <2>1, <3>1, AbovePath, BelowDirs
      <4>2. remote[q].kind = "dir"
            BY <4>1, MakesEntries
      <4>3. local[q].kind # "link"
            BY <2>1, <4>1 DEF Apart
      <4>4. QED
            BY <4>1, <4>2, <4>3 DEF NoLink, Linkless
    <3>3. QED
          BY <3>1, <3>2
  <2>3. QED
        BY <2>2 DEF Listed
<1>19. Lists'
       BY <1>1, <1>6, <1>8, <1>17, <1>18 DEF IInv, Lists
<1>20. Frames'
       BY <1>1, <1>9, <1>17, EmptyFrames DEF IInv, Frames
<1>21. Deltas' /\ Sigs' /\ Answers'
       BY <1>1, <1>2, <1>9, EmptyFrames DEF Deltas, Sigs, Answers
<1>22. QED
       BY <1>10, <1>11, <1>12, <1>13, <1>14, <1>15, <1>16, <1>19, <1>20, <1>21 DEF IInv

-----------------------------------------------------------------------------
(***************************************************************************)
(* The client opens files and collects signatures.                         *)
(***************************************************************************)

LEMMA OpenKeeps ==
  ASSUME NEW p \in Paths, IInv, cpc \in {"sigs", "send"}, want = <<>>, walk[p].kind = "file",
         check # <<>> => p = check[1] /\ toClient # <<>> /\ toClient[1].tag = "SIG",
         check = <<>> => sends # <<>> /\ p = sends[1],
         Open(p), UNCHANGED toClient
  PROVE  IInv'
<1>1. CASE ~ CanRead(p)
  <2>1. GiveUp
        BY <1>1 DEF Open
  <2>2. cpc \in Active
        BY DEF Active
  <2>3. QED
        BY <2>1, <2>2, GiveUpKeeps
<1>2. CASE CanRead(p)
  <2>1. /\ reading' = [path |-> p, data |-> local[p].data]
        /\ UNCHANGED <<local, remote, now, lag, cpc, walk, list, want, check, sigs, sends, apc,
                       toAgent, toClient, stray, used, versions, shaken>>
        BY <1>2 DEF Open, world, history
  <2>2. local[p].kind = "file" /\ local[p] \in Entry
        BY <1>2, TreeEntry DEF CanRead, SameEntry, IInv, Types
  <2>3. local[p].data \in Seq(Blocks)
        BY <2>2, EntryKinds
  <2>4. reading' \in [path : Paths, data : Seq(Blocks)]
        BY <2>1, <2>3
  <2>5. reading'.path = p /\ reading'.data = local[p].data
        BY <2>1
  <2>6. File(local[p].data, 0) \in versions[p]
        BY <2>2 DEF IInv, Sides, Bare
  <2>7. Types'
        BY <2>1, <2>4 DEF IInv, Types, Active
  <2>8. Opened'
        BY <2>1, <2>5, <2>6 DEF Opened
  <2>9. Stages' /\ Planned' /\ Own'
        BY <2>1 DEF IInv, Stages, Planned, Own, Active
  <2>10. Ordering(toAgent)' /\ Ordering(stray)' /\ Sides' /\ Walked'
         BY <2>1 DEF IInv, Ordering, Sides, Walked, Covered, Apart
  <2>11. Lists' /\ Frames'
         BY <2>1 DEF IInv, Lists, Frames, Covered, NoLink
  <2>12. Deltas' /\ Sigs' /\ Answers'
         BY <2>1 DEF IInv, Deltas, Sigs, Answers
  <2>13. QED
         BY <2>7, <2>8, <2>9, <2>10, <2>11, <2>12 DEF IInv
<1>3. QED
      BY <1>1, <1>2

LEMMA FirstOf ==
  ASSUME NEW s \in Seq(Paths), s # <<>>
  PROVE  Head(s) = s[1] /\ s[1] \in Paths /\ 1 \in 1..Len(s)
<1>1. Head(s) = s[1] /\ s[1] \in Paths /\ Len(s) \in Nat \ {0}
      BY TailOf
<1>2. QED
      BY <1>1

LEMMA OpenToVerifyKeeps == IInv /\ OpenToVerify => IInv'
<1> SUFFICES ASSUME IInv, OpenToVerify PROVE IInv'
    OBVIOUS
<1>1. PICK p : p = Head(check)
      OBVIOUS
<1>2. p = check[1] /\ p \in Paths /\ 1 \in 1..Len(check)
      BY <1>1, FirstOf DEF OpenToVerify, IInv, Types
<1>3. walk[p].kind = "file"
      BY <1>2 DEF IInv, Planned
<1>4. toClient # <<>> /\ toClient[1].tag = "SIG"
  <2>1. toClient # <<>> /\ toClient \in Seq(ClientFrame) /\ Head(toClient).tag = "SIG"
        BY DEF OpenToVerify, IInv, Types
  <2>2. Head(toClient) = toClient[1]
        BY <2>1, TailOf
  <2>3. QED
        BY <2>1, <2>2
<1>5. QED
      BY <1>1, <1>2, <1>3, <1>4, OpenKeeps DEF OpenToVerify

LEMMA OpenToSendKeeps == IInv /\ OpenToSend => IInv'
<1> SUFFICES ASSUME IInv, OpenToSend PROVE IInv'
    OBVIOUS
<1>1. PICK p : p = Head(sends)
      OBVIOUS
<1>2. p = sends[1] /\ p \in Paths
      BY <1>1, FirstOf DEF OpenToSend, Sending, IInv, Types
<1>3. QED
      BY <1>1, <1>2, OpenKeeps DEF OpenToSend, Sending

\* What others do elsewhere does not make a signature or a delta stale.
LEMMA SigStays ==
  ASSUME NEW q, NEW sig, NEW r, NEW o, SigFresh(q, sig, r, o),
         NEW r2, NEW o2, o \subseteq o2, r2[q] = r[q] \/ q \in o2 \/ r[q].kind # "file"
  PROVE  SigFresh(q, sig, r2, o2)
  BY DEF SigFresh

\* The next answer is taken.
LEMMA AnsweredNext ==
  ASSUME NEW due \in Seq(Paths), due # <<>>, NEW frames \in Seq(AgentFrame),
         NEW answers \in Seq(ClientFrame), answers # <<>>, NEW r, NEW o,
         Answered(due, frames, answers, r, o)
  PROVE  /\ answers[1].tag = "SIG" /\ SigFresh(due[1], answers[1].sig, r, o)
         /\ Answered(Tail(due), frames, Tail(answers), r, o)
<1>1. PICK d : d = Tail(due)
      OBVIOUS
<1>2. PICK a : a = Tail(answers)
      OBVIOUS
<1>3. PICK n \in Nat, l \in Nat, m \in Nat : n + 1 = Len(answers) /\ l + 1 = Len(due) /\ m = Len(frames)
  <2>1. Len(answers) \in Nat \ {0} /\ Len(due) \in Nat \ {0} /\ Len(frames) \in Nat
        BY TailOf
  <2>2. \A x \in Nat \ {0} : x - 1 \in Nat /\ (x - 1) + 1 = x
        OBVIOUS
  <2>3. QED
        BY <2>1, <2>2
<1>4. /\ d \in Seq(Paths) /\ Len(d) = l /\ \A k \in 1..l : d[k] = due[k + 1]
      /\ a \in Seq(ClientFrame) /\ Len(a) = n /\ \A k \in 1..n : a[k] = answers[k + 1]
  <2>1. (l + 1) - 1 = l /\ (n + 1) - 1 = n
        BY <1>3
  <2>2. /\ d \in Seq(Paths) /\ Len(d) = l /\ \A k \in 1..l : d[k] = due[k + 1]
        BY <1>1, <1>3, <2>1, TailOf
  <2>3. a \in Seq(ClientFrame) /\ Len(a) = n /\ \A k \in 1..n : a[k] = answers[k + 1]
        BY <1>2, <1>3, <2>1, TailOf
  <2>4. QED
        BY <2>2, <2>3
<1>5. /\ n + 1 <= l + 1
      /\ \A k \in 1..(n + 1) : answers[k].tag = "SIG" /\ SigFresh(due[k], answers[k].sig, r, o)
      /\ n + 1 < l + 1 =>
           /\ m > 0 /\ frames[m].tag = "SIG_REQ"
           /\ frames[m].paths = SubSeq(due, (n + 1) + 1, l + 1)
           /\ \A k \in 1..(m - 1) : frames[k].tag = "MKDIR"
      /\ n + 1 = l + 1 => \A k \in 1..m : frames[k].tag # "SIG_REQ"
      BY <1>3 DEF Answered
<1>6. 1 \in 1..(n + 1) /\ \A k \in 1..n : k + 1 \in 1..(n + 1)
      BY <1>3
<1>7. \A k \in 1..n : a[k].tag = "SIG" /\ SigFresh(d[k], a[k].sig, r, o)
  <2>1. \A k \in 1..n : k \in 1..l
        BY <1>3, <1>5
  <2>2. ASSUME NEW k \in 1..n PROVE a[k].tag = "SIG" /\ SigFresh(d[k], a[k].sig, r, o)
    <3>1. a[k] = answers[k + 1] /\ d[k] = due[k + 1]
          BY <1>4, <2>1
    <3>2. PICK j \in 1..(n + 1) : j = k + 1
          BY <1>6
    <3>3. answers[j].tag = "SIG" /\ SigFresh(due[j], answers[j].sig, r, o)
          BY <1>5
    <3>4. QED
          BY <3>1, <3>2, <3>3
  <2>3. QED
        BY <2>2
<1>8. n < l => SubSeq(due, (n + 1) + 1, l + 1) = SubSeq(d, n + 1, l)
  <2>1. ASSUME n < l PROVE SubSeq(due, (n + 1) + 1, l + 1) = SubSeq(d, n + 1, l)
    <3>1. PICK x : x = SubSeq(due, (n + 1) + 1, l + 1)
          OBVIOUS
    <3>2. PICK y : y = SubSeq(d, n + 1, l)
          OBVIOUS
    <3>3. /\ x \in Seq(Paths) /\ Len(x) = l - n
          /\ \A j \in 1..(l - n) : x[j] = due[(n + 1) + j]
      <4>1. (n + 1) + 1 \in Nat \ {0} /\ l + 1 \in Nat /\ l + 1 <= Len(due) /\ (n + 1) + 1 <= l + 1
            BY <1>3, <2>1
      <4>2. /\ x \in Seq(Paths) /\ Len(x) = ((l + 1) - ((n + 1) + 1)) + 1
            /\ \A j \in 1..(((l + 1) - ((n + 1) + 1)) + 1) : x[j] = due[(((n + 1) + 1) + j) - 1]
            BY <3>1, <4>1, MiddlePart
      <4>3. ((l + 1) - ((n + 1) + 1)) + 1 = l - n /\ \A j \in 1..(l - n) : (((n + 1) + 1) + j) - 1 = (n + 1) + j
            BY <1>3
      <4>4. QED
            BY <4>2, <4>3
    <3>4. /\ y \in Seq(Paths) /\ Len(y) = l - n
          /\ \A j \in 1..(l - n) : y[j] = d[n + j]
      <4>1. n + 1 \in Nat \ {0} /\ l \in Nat /\ l <= Len(d) /\ n + 1 <= l
            BY <1>3, <1>4, <2>1
      <4>2. /\ y \in Seq(Paths) /\ Len(y) = (l - (n + 1)) + 1
            /\ \A j \in 1..((l - (n + 1)) + 1) : y[j] = d[((n + 1) + j) - 1]
            BY <1>4, <3>2, <4>1, MiddlePart
      <4>3. (l - (n + 1)) + 1 = l - n /\ \A j \in 1..(l - n) : ((n + 1) + j) - 1 = n + j
            BY <1>3
      <4>4. QED
            BY <4>2, <4>3
    <3>5. \A j \in 1..(l - n) : n + j \in 1..l /\ (n + j) + 1 = (n + 1) + j
          BY <1>3
    <3>6. ASSUME NEW j \in 1..(l - n) PROVE x[j] = y[j]
      <4>1. PICK i \in 1..l : i = n + j /\ i + 1 = (n + 1) + j
            BY <3>5
      <4>2. x[j] = due[i + 1] /\ y[j] = d[i] /\ d[i] = due[i + 1]
            BY <1>4, <3>3, <3>4, <4>1
      <4>3. QED
            BY <4>2
    <3>7. x = y
          BY <3>3, <3>4, <3>6, SeqEqual
    <3>8. QED
          BY <3>1, <3>2, <3>7
  <2>2. QED
        BY <2>1
<1>9. Answered(d, frames, a, r, o)
  <2>1. n <= l /\ (n < l => n + 1 < l + 1) /\ (n = l => n + 1 = l + 1)
        BY <1>3, <1>5
  <2>2. QED
        BY <1>3, <1>4, <1>5, <1>7, <1>8, <2>1 DEF Answered
<1>10. QED
       BY <1>1, <1>2, <1>5, <1>6, <1>9

\* What the client waits for.
LEMMA DueOf ==
  ASSUME NEW u \in Seq(Paths), NEW c \in Seq(Paths)
  PROVE  /\ u \o c \in Seq(Paths)
         /\ u = <<>> => u \o c = c
         /\ u # <<>> => u \o c # <<>> /\ (u \o c)[1] = u[1] /\ Tail(u \o c) = Tail(u) \o c
         /\ c # <<>> => u \o c # <<>>
         /\ \A k \in 1..Len(u \o c) :
              (\E j \in 1..Len(u) : (u \o c)[k] = u[j]) \/ (\E j \in 1..Len(c) : (u \o c)[k] = c[j])
<1>1. PICK w : w = u \o c
      OBVIOUS
<1>2. PICK m \in Nat, n \in Nat : m = Len(u) /\ n = Len(c)
      BY LenProperties
<1>3. /\ w \in Seq(Paths) /\ Len(w) = m + n
      /\ \A k \in 1..m : w[k] = u[k]
      /\ \A k \in 1..n : w[m + k] = c[k]
      BY <1>1, <1>2, Joined
<1>4. u = <<>> => w = c
  <2>1. ASSUME u = <<>> PROVE w = c
    <3>1. m = 0
          BY <1>2, <2>1, EmptyFrames
    <3>2. Len(w) = n /\ \A k \in 1..n : w[k] = c[k]
          BY <1>3, <3>1
    <3>3. QED
          BY <1>2, <1>3, <3>2, SeqEqual
  <2>2. QED
        BY <2>1
<1>5. c # <<>> => w # <<>>
  <2>1. ASSUME c # <<>> PROVE w # <<>>
    <3>1. n > 0
          BY <1>2, <2>1, EmptySeq
    <3>2. Len(w) > 0
          BY <1>3, <3>1
    <3>3. QED
          BY <3>2, EmptyFrames
  <2>2. QED
        BY <2>1
<1>6. ASSUME u # <<>> PROVE w # <<>> /\ w[1] = u[1] /\ Tail(w) = Tail(u) \o c
  <2>1. m > 0
        BY <1>2, <1>6, EmptySeq
  <2>2. PICK t : t = Tail(u)
        OBVIOUS
  <2>3. PICK i \in Nat : i + 1 = m
    <3>1. m - 1 \in Nat /\ (m - 1) + 1 = m
          BY <2>1
    <3>2. QED
          BY <3>1
  <2>4. t \in Seq(Paths) /\ Len(t) = i /\ \A k \in 1..i : t[k] = u[k + 1]
    <3>1. m - 1 = i
          BY <2>3
    <3>2. QED
          BY <1>2, <1>6, <2>2, <3>1, TailOf
  <2>5. Len(w) > 0 /\ 1 \in 1..m /\ Len(w) = (i + n) + 1
        BY <1>3, <2>1, <2>3
  <2>6. w # <<>>
        BY <2>5, EmptyFrames
  <2>7. PICK y : y = Tail(w)
        OBVIOUS
  <2>8. y \in Seq(Paths) /\ Len(y) = i + n /\ \A k \in 1..(i + n) : y[k] = w[k + 1]
    <3>1. Len(w) - 1 = i + n
          BY <2>5
    <3>2. QED
          BY <1>3, <2>6, <2>7, <3>1, TailOf
  <2>9. PICK z : z = t \o c
        OBVIOUS
  <2>10. /\ z \in Seq(Paths) /\ Len(z) = i + n
         /\ \A k \in 1..i : z[k] = t[k]
         /\ \A k \in 1..n : z[i + k] = c[k]
    <3>1. /\ z \in Seq(Paths) /\ Len(z) = Len(t) + Len(c)
          /\ \A k \in 1..Len(t) : z[k] = t[k]
          /\ \A k \in 1..Len(c) : z[Len(t) + k] = c[k]
      <4>1. t \in Seq(Paths)
            BY <2>4
      <4>2. QED
            BY <2>9, <4>1, Joined
    <3>2. QED
          BY <1>2, <2>4, <3>1
  <2>11. ASSUME NEW k \in 1..(i + n) PROVE y[k] = z[k]
    <3>1. y[k] = w[k + 1]
          BY <2>8
    <3>2. CASE k \in 1..i
      <4>1. k + 1 \in 1..m
            BY <2>3, <3>2
      <4>2. w[k + 1] = u[k + 1] /\ z[k] = t[k] /\ t[k] = u[k + 1]
            BY <1>3, <2>4, <2>10, <3>2, <4>1
      <4>3. QED
            BY <3>1, <4>2
    <3>3. CASE k \notin 1..i
      <4>1. PICK j \in 1..n : k = i + j
        <5>1. k - i \in 1..n /\ k = i + (k - i)
              BY <3>3
        <5>2. QED
              BY <5>1
      <4>2. k + 1 = m + j
            BY <2>3, <4>1
      <4>3. w[m + j] = c[j] /\ z[i + j] = c[j]
            BY <1>3, <2>10
      <4>4. QED
            BY <3>1, <4>1, <4>2, <4>3
    <3>4. QED
          BY <3>2, <3>3
  <2>12. y = z
         BY <2>8, <2>10, <2>11, SeqEqual
  <2>13. QED
         BY <1>3, <2>2, <2>5, <2>6, <2>7, <2>9, <2>12
<1>7. ASSUME NEW k \in 1..Len(w)
      PROVE  (\E j \in 1..m : w[k] = u[j]) \/ (\E j \in 1..n : w[k] = c[j])
  <2>1. CASE k \in 1..m
        BY <1>3, <2>1
  <2>2. CASE k \notin 1..m
    <3>1. PICK j \in 1..n : k = m + j
      <4>1. k - m \in 1..n /\ k = m + (k - m)
            BY <1>3, <2>2
      <4>2. QED
            BY <4>1
    <3>2. QED
          BY <1>3, <3>1
  <2>3. QED
        BY <2>1, <2>2
<1>8. QED
      BY <1>1, <1>2, <1>3, <1>4, <1>5, <1>6, <1>7

LEMMA CollectSigKeeps == IInv /\ CollectSig => IInv'
<1> SUFFICES ASSUME IInv, CollectSig PROVE IInv'
    OBVIOUS
<1>1. /\ cpc = "sigs" /\ want # <<>> /\ toClient # <<>> /\ toClient' = Tail(toClient)
      BY DEF CollectSig
<1>2. PICK c \in Seq(ClientFrame) : c = toClient
      BY DEF IInv, Types
<1>3. PICK u \in Seq(Paths) : u = want
      BY DEF IInv, Types
<1>4. PICK p \in Paths : p = u[1] /\ p = Head(want) /\ 1 \in 1..Len(u)
      BY <1>1, <1>3, FirstOf
<1>5. c[1] \in ClientFrame /\ Head(c) = c[1]
      BY <1>1, <1>2, TailOf
<1>6. PICK sig : sig = c[1].sig
      OBVIOUS
<1>7. c[1].tag = "SIG" /\ sig \in Seq(Blocks)
  <2>1. c[1].tag = "SIG"
        BY <1>2, <1>5 DEF CollectSig
  <2>2. QED
        BY <1>5, <1>6, <2>1 DEF ClientFrame
<1>8. CASE ~ SigFits(p, sig)
  <2>1. GiveUp
        BY <1>2, <1>4, <1>5, <1>6, <1>8 DEF CollectSig
  <2>2. cpc \in Active
        BY <1>1 DEF Active
  <2>3. QED
        BY <1>1, <2>1, <2>2, GiveUpKeeps
<1>9. CASE SigFits(p, sig)
  <2>1. /\ sigs' = [sigs EXCEPT ![p] = sig]
        /\ want' = Tail(want)
        /\ UNCHANGED <<local, remote, now, lag, cpc, walk, list, check, sends, reading, apc,
                       toAgent, stray, used, versions, shaken>>
        BY <1>2, <1>4, <1>5, <1>6, <1>9 DEF CollectSig, world, history
  <2>2. PICK v : v = Tail(u)
        OBVIOUS
  <2>3. /\ v \in Seq(Paths) /\ Len(u) \in Nat \ {0} /\ Len(v) = Len(u) - 1
        /\ \A k \in 1..(Len(u) - 1) : v[k] = u[k + 1]
        BY <1>1, <1>3, <2>2, TailOf
  <2>4. \A k \in 1..Len(v) : \E j \in 1..Len(u) : v[k] = u[j]
    <3>1. \A k \in 1..(Len(u) - 1) : k + 1 \in 1..Len(u)
          BY <2>3
    <3>2. QED
          BY <2>3, <3>1
  <2>5. want' = v
        BY <1>3, <2>1, <2>2
  <2>6. PICK d : d = Tail(c)
        OBVIOUS
  <2>7. /\ d \in Seq(ClientFrame) /\ Len(c) \in Nat \ {0} /\ Len(d) = Len(c) - 1
        /\ \A k \in 1..(Len(c) - 1) : d[k] = c[k + 1]
        BY <1>1, <1>2, <2>6, TailOf
  <2>8. \A k \in 1..Len(d) : \E j \in 1..Len(c) : d[k] = c[j]
    <3>1. \A k \in 1..(Len(c) - 1) : k + 1 \in 1..Len(c)
          BY <2>7
    <3>2. QED
          BY <2>7, <3>1
  <2>9. toClient' = d
        BY <1>1, <1>2, <2>6
  <2>10. /\ sigs \in [Paths -> Seq(Blocks)] /\ sigs' \in [Paths -> Seq(Blocks)]
         /\ sigs'[p] = sig /\ \A q \in Paths : q # p => sigs'[q] = sigs[q]
    <3>1. sigs \in [Paths -> Seq(Blocks)]
          BY DEF IInv, Types
    <3>2. QED
          BY <1>7, <2>1, <3>1
  <2>11. walk[p].kind = "file"
         BY <1>3, <1>4 DEF IInv, Planned
  <2>12. /\ sends \in Seq(Paths) /\ check \in Seq(Paths)
         /\ \A k \in 1..Len(sends) : sends[k] \in Paths
         /\ \A k \in 1..Len(check) : check[k] \in Paths
         BY ElementOfSeq DEF IInv, Types
  <2>13. reading = Shut
         BY <1>1 DEF IInv, Opened
  <2>14. Types'
         BY <2>1, <2>3, <2>5, <2>7, <2>9, <2>10 DEF IInv, Types, Active
  <2>15. Stages'
    <3>1. want \o check # <<>>
          BY <1>1, <1>3, <2>12, DueOf
    <3>2. apc \in {"serve", "idle", "gone"} /\ apc # "idle"
          BY <1>1 DEF IInv, Stages
    <3>3. \A k \in 1..Len(toAgent) : toAgent[k].tag \notin {"DELETE", "PLAN_DONE", "PUT"}
          BY <1>1, <3>1 DEF IInv, Stages
    <3>4. QED
          BY <1>1, <2>1, <3>2, <3>3 DEF Stages
  <2>16. Planned'
    <3>1. \A k \in 1..Len(v) : walk[v[k]].kind = "file"
          BY <1>3, <2>4 DEF IInv, Planned
    <3>2. \A k \in 1..Len(sends) :
            walk[sends[k]] # Absent /\ (sigs'[sends[k]] # <<>> => walk[sends[k]].kind = "file")
      <4>1. \A k \in 1..Len(sends) :
              walk[sends[k]] # Absent /\ (sigs[sends[k]] # <<>> => walk[sends[k]].kind = "file")
            BY DEF IInv, Planned
      <4>2. QED
            BY <2>10, <2>11, <2>12, <4>1
    <3>3. \A j \in 1..Len(check) :
            /\ \A k \in 1..Len(sends) : check[j] # sends[k]
            /\ \A k \in 1..Len(v) : check[j] # v[k]
            /\ sigs'[check[j]] = <<>>
      <4>1. \A j \in 1..Len(check) :
              /\ \A k \in 1..Len(sends) : check[j] # sends[k]
              /\ \A k \in 1..Len(u) : check[j] # u[k]
              /\ sigs[check[j]] = <<>>
            BY <1>3 DEF IInv, Planned
      <4>2. ASSUME NEW j \in 1..Len(check)
            PROVE  /\ \A k \in 1..Len(sends) : check[j] # sends[k]
                   /\ \A k \in 1..Len(v) : check[j] # v[k]
                   /\ sigs'[check[j]] = <<>>
        <5>1. check[j] \in Paths /\ check[j] # p /\ sigs[check[j]] = <<>>
              BY <1>4, <2>12, <4>1
        <5>2. sigs'[check[j]] = <<>>
              BY <2>10, <5>1
        <5>3. \A k \in 1..Len(v) : check[j] # v[k]
              BY <2>4, <4>1
        <5>4. QED
              BY <4>1, <5>2, <5>3
      <4>3. QED
            BY <4>2
    <3>4. QED
          BY <2>1, <2>5, <3>1, <3>2, <3>3 DEF IInv, Planned
  <2>17. Opened'
         BY <2>1, <2>13 DEF Opened
  <2>18. Ordering(toAgent)' /\ Ordering(stray)' /\ Own' /\ Sides' /\ Walked'
         BY <2>1 DEF IInv, Ordering, Own, Sides, Walked, Covered, Apart
  <2>19. NoLink' = NoLink /\ Covered' = Covered
         BY <2>1 DEF NoLink, Covered
  <2>20. Lists'
    <3>1. Covered => /\ Listed(list, NoLink)
                     /\ \A k \in 1..Len(c) : c[k].tag = "LIST" => Listed(c[k].tree, NoLink)
          BY <1>2 DEF IInv, Lists
    <3>2. Covered => \A k \in 1..Len(d) : d[k].tag = "LIST" => Listed(d[k].tree, NoLink)
          BY <2>8, <3>1
    <3>3. QED
          BY <2>1, <2>9, <2>19, <3>1, <3>2 DEF Lists
  <2>21. Frames'
         BY <2>1, <2>19 DEF IInv, Frames
  <2>22. Deltas'
         BY <2>1 DEF IInv, Deltas
  <2>23. ASSUME apc = "serve"
         PROVE  SigFresh(p, sig, remote, shaken) /\ Answered(v \o check, toAgent, d, remote, shaken)
    <3>1. PICK due : due = u \o check
          OBVIOUS
    <3>2. due \in Seq(Paths) /\ due # <<>> /\ due[1] = p /\ Tail(due) = v \o check
          BY <1>1, <1>3, <1>4, <2>2, <2>12, <3>1, DueOf
    <3>3. Answered(due, toAgent, c, remote, shaken)
          BY <1>1, <1>2, <1>3, <2>23, <3>1 DEF IInv, Answers
    <3>4. PICK f \in Seq(AgentFrame) : f = toAgent
          BY DEF IInv, Types
    <3>5. SigFresh(due[1], c[1].sig, remote, shaken) /\ Answered(Tail(due), f, Tail(c), remote, shaken)
          BY <1>1, <1>2, <3>2, <3>3, <3>4, AnsweredNext
    <3>6. QED
          BY <1>6, <2>6, <3>2, <3>4, <3>5
  <2>24. Sigs'
    <3>1. ASSUME apc = "serve", NEW k \in 1..Len(sends)
          PROVE  SigFresh(sends[k], sigs'[sends[k]], remote, shaken)
      <4>1. SigFresh(sends[k], sigs[sends[k]], remote, shaken)
            BY <1>1, <3>1 DEF IInv, Sigs
      <4>2. QED
            BY <2>10, <2>12, <2>23, <3>1, <4>1
    <3>2. QED
          BY <2>1, <3>1 DEF Sigs
  <2>25. Answers'
         BY <2>1, <2>5, <2>9, <2>23 DEF Answers
  <2>26. QED
         BY <2>14, <2>15, <2>16, <2>17, <2>18, <2>20, <2>21, <2>22, <2>24, <2>25 DEF IInv
<1>10. QED
       BY <1>8, <1>9

\* What the client reads is a version of the file.
LEMMA DataIsVersion ==
  ASSUME IInv, reading # Shut, NEW data \in DataRead
  PROVE  /\ data \in Seq(Blocks) /\ reading.path \in Paths
         /\ File(data, 0) \in versions[reading.path]
<1>1. reading \in [path : Paths, data : Seq(Blocks)]
      BY DEF IInv, Types
<1>2. PICK p \in Paths : p = reading.path
      BY <1>1
<1>3. File(reading.data, 0) \in versions[p] /\ reading.data \in Seq(Blocks)
      BY <1>1, <1>2 DEF IInv, Opened
<1>4. local[p] \in Entry /\ Bare(local[p]) \in versions[p]
      BY TreeEntry DEF IInv, Types, Sides
<1>5. data = reading.data \/ (local[p].kind = "file" /\ data = local[p].data)
      BY <1>2 DEF DataRead
<1>6. CASE local[p].kind = "file" /\ data = local[p].data
  <2>1. Bare(local[p]) = File(data, 0) /\ data \in Seq(Blocks)
        BY <1>4, <1>6, EntryKinds DEF Bare
  <2>2. QED
        BY <1>2, <1>4, <2>1
<1>7. QED
      BY <1>2, <1>3, <1>5, <1>6

NoneTwice(s) == \A j, k \in 1..Len(s) : s[j] = s[k] => j = k

\* What is looked at can be sent, once.
LEMMA MaybeSent ==
  ASSUME NEW s \in Seq(Paths), NEW p \in Paths, NEW s2, s2 = s \/ s2 = Append(s, p)
  PROVE  /\ s2 \in Seq(Paths)
         /\ \A k \in 1..Len(s2) : s2[k] = p \/ \E j \in 1..Len(s) : s2[k] = s[j]
         /\ (\A k \in 1..Len(s) : s[k] # p) /\ NoneTwice(s) => NoneTwice(s2)
<1>1. CASE s2 = s
      BY <1>1
<1>2. CASE s2 = Append(s, p)
  <2>1. PICK n \in Nat : n = Len(s)
        BY LenProperties
  <2>2. /\ s2 \in Seq(Paths) /\ Len(s2) = n + 1 /\ s2[n + 1] = p
        /\ \A k \in 1..n : s2[k] = s[k]
        BY <1>2, <2>1, OneMore
  <2>3. \A k \in 1..Len(s2) : k \in 1..n \/ k = n + 1
        BY <2>1, <2>2
  <2>4. \A k \in 1..Len(s2) : s2[k] = p \/ \E j \in 1..n : s2[k] = s[j]
        BY <2>2, <2>3
  <2>5. ASSUME \A k \in 1..n : s[k] # p, \A j, k \in 1..n : s[j] = s[k] => j = k,
               NEW j \in 1..Len(s2), NEW k \in 1..Len(s2), s2[j] = s2[k]
        PROVE  j = k
    <3>1. CASE j \in 1..n /\ k \in 1..n
          BY <2>2, <2>5, <3>1
    <3>2. CASE j = n + 1 \/ k = n + 1
      <4>1. \A i \in 1..n : s2[i] # p
            BY <2>2, <2>5
      <4>2. QED
            BY <2>2, <2>3, <2>5, <3>2, <4>1
    <3>3. QED
          BY <2>3, <3>1, <3>2
  <2>6. QED
        BY <2>1, <2>2, <2>4, <2>5 DEF NoneTwice
<1>3. QED
      BY <1>1, <1>2

LEMMA VerifyKeeps == IInv /\ Verify => IInv'
<1> SUFFICES ASSUME IInv, Verify PROVE IInv'
    OBVIOUS
<1>1. /\ cpc = "sigs" /\ want = <<>> /\ check # <<>> /\ reading # Shut
      /\ toClient' = Tail(toClient)
      BY DEF Verify
<1>2. PICK c \in Seq(ClientFrame) : c = toClient
      BY DEF IInv, Types
<1>3. PICK u \in Seq(Paths) : u = check
      BY DEF IInv, Types
<1>4. PICK p \in Paths : p = u[1] /\ p = Head(check) /\ 1 \in 1..Len(u)
      BY <1>1, <1>3, FirstOf
<1>5. c # <<>> /\ c[1].tag = "SIG"
      BY <1>1, <1>2 DEF IInv, Opened
<1>6. PICK sig : sig = Head(c).sig
      OBVIOUS
<1>7. PICK data \in DataRead :
        IF Len(sig) > Len(walk[p].data)
        THEN GiveUp
        ELSE /\ sends' = IF sig = Signature(data) THEN sends ELSE Append(sends, p)
             /\ check' = Tail(check)
             /\ reading' = Shut
             /\ UNCHANGED <<world, cpc, walk, list, want, sigs, apc,
                            toAgent, stray, used, history>>
      BY <1>2, <1>4, <1>6 DEF Verify
<1>8. CASE GiveUp
  <2>1. cpc \in Active
        BY <1>1 DEF Active
  <2>2. QED
        BY <1>1, <1>2, <1>5, <1>8, <2>1, GiveUpKeeps
<1>9. CASE ~ (Len(sig) > Len(walk[p].data))
  <2>1. /\ sends' = sends \/ sends' = Append(sends, p)
        /\ check' = Tail(check) /\ reading' = Shut
        /\ UNCHANGED <<local, remote, now, lag, cpc, walk, list, want, sigs, apc,
                       toAgent, stray, used, versions, shaken>>
        BY <1>7, <1>9 DEF world, history
  <2>2. PICK v : v = Tail(u)
        OBVIOUS
  <2>3. /\ v \in Seq(Paths) /\ Len(u) \in Nat \ {0} /\ Len(v) = Len(u) - 1
        /\ \A k \in 1..(Len(u) - 1) : v[k] = u[k + 1]
        BY <1>1, <1>3, <2>2, TailOf
  <2>4. \A k \in 1..Len(v) : k + 1 \in 1..Len(u) /\ v[k] = u[k + 1] /\ k + 1 # 1
        BY <2>3
  <2>5. check' = v
        BY <1>3, <2>1, <2>2
  <2>6. PICK d : d = Tail(c)
        OBVIOUS
  <2>7. /\ d \in Seq(ClientFrame) /\ Len(c) \in Nat \ {0} /\ Len(d) = Len(c) - 1
        /\ \A k \in 1..(Len(c) - 1) : d[k] = c[k + 1]
        BY <1>5, <2>6, TailOf
  <2>8. \A k \in 1..Len(d) : \E j \in 1..Len(c) : d[k] = c[j]
    <3>1. \A k \in 1..(Len(c) - 1) : k + 1 \in 1..Len(c)
          BY <2>7
    <3>2. QED
          BY <2>7, <3>1
  <2>9. toClient' = d
        BY <1>1, <1>2, <2>6
  <2>10. PICK s \in Seq(Paths) : s = sends
         BY DEF IInv, Types
  <2>11. PICK s2 : s2 = sends'
         OBVIOUS
  <2>12. /\ s2 \in Seq(Paths)
         /\ \A k \in 1..Len(s2) : s2[k] = p \/ \E j \in 1..Len(s) : s2[k] = s[j]
         /\ (\A k \in 1..Len(s) : s[k] # p) /\ NoneTwice(s) => NoneTwice(s2)
    <3>1. s2 = s \/ s2 = Append(s, p)
          BY <2>1, <2>10, <2>11
    <3>2. QED
          BY <3>1, MaybeSent
  <2>13. /\ walk[p].kind = "file" /\ sigs[p] = <<>>
         /\ \A k \in 1..Len(s) : p # s[k]
         /\ \A j, k \in 1..Len(u) : u[j] = u[k] => j = k
    <3>1. Planned
          BY DEF IInv
    <3>2. 1 \in 1..Len(check) /\ check[1] = p
          BY <1>3, <1>4
    <3>3. walk[p].kind = "file" /\ sigs[p] = <<>>
          BY <3>1, <3>2 DEF Planned
    <3>4. \A k \in 1..Len(s) : p # s[k]
          BY <2>10, <3>1, <3>2 DEF Planned
    <3>5. \A j, k \in 1..Len(u) : u[j] = u[k] => j = k
          BY <1>3, <3>1 DEF Planned
    <3>6. QED
          BY <3>3, <3>4, <3>5
  <2>14. walk[p] # Absent
         BY <2>13, MakesEntries
  <2>15. \A k \in 1..Len(v) : v[k] # p
         BY <1>4, <2>4, <2>13
  <2>16. Types'
         BY <2>1, <2>3, <2>5, <2>7, <2>9, <2>11, <2>12 DEF IInv, Types, Active
  <2>17. want \o check # <<>>
         BY <1>1, <1>3, DueOf DEF IInv, Types
  <2>18. \A k \in 1..Len(toAgent) : toAgent[k].tag \notin {"DELETE", "PLAN_DONE", "PUT"}
         BY <1>1, <2>17 DEF IInv, Stages
  <2>19. Stages'
    <3>1. apc \in {"serve", "idle", "gone"} /\ apc # "idle"
          BY <1>1 DEF IInv, Stages
    <3>2. QED
          BY <1>1, <2>1, <2>18, <3>1 DEF Stages
  <2>20. Planned'
    <3>1. \A k \in 1..Len(s2) :
            walk[s2[k]] # Absent /\ (sigs[s2[k]] # <<>> => walk[s2[k]].kind = "file")
      <4>1. \A k \in 1..Len(s) :
              walk[s[k]] # Absent /\ (sigs[s[k]] # <<>> => walk[s[k]].kind = "file")
            BY <2>10 DEF IInv, Planned
      <4>2. QED
            BY <2>12, <2>13, <2>14, <4>1
    <3>2. \A j, k \in 1..Len(s2) : s2[j] = s2[k] => j = k
      <4>1. \A j, k \in 1..Len(s) : s[j] = s[k] => j = k
            BY <2>10 DEF IInv, Planned
      <4>2. QED
            BY <2>12, <2>13, <4>1 DEF NoneTwice
    <3>3. \A j, k \in 1..Len(v) : v[j] = v[k] => j = k
      <4>1. ASSUME NEW j \in 1..Len(v), NEW k \in 1..Len(v), v[j] = v[k] PROVE j = k
        <5>1. j + 1 = k + 1
              BY <2>4, <2>13, <4>1
        <5>2. QED
              BY <2>3, <5>1
      <4>2. QED
            BY <4>1
    <3>4. ASSUME NEW j \in 1..Len(v)
          PROVE  (\A k \in 1..Len(s2) : v[j] # s2[k]) /\ sigs[v[j]] = <<>> /\ walk[v[j]].kind = "file"
      <4>1. PICK i \in 1..Len(u) : v[j] = u[i]
            BY <2>4
      <4>2. sigs[u[i]] = <<>> /\ walk[u[i]].kind = "file" /\ \A k \in 1..Len(s) : u[i] # s[k]
            BY <1>3, <2>10 DEF IInv, Planned
      <4>3. v[j] # p
            BY <2>15
      <4>4. QED
            BY <2>12, <4>1, <4>2, <4>3
    <3>5. 1..Len(want) = {}
          BY <1>1, EmptyFrames
    <3>6. want' = want /\ walk' = walk /\ sigs' = sigs /\ check' = v /\ sends' = s2
          BY <2>1, <2>5, <2>11
    <3>7. QED
          BY <3>1, <3>2, <3>3, <3>4, <3>5, <3>6 DEF Planned
  <2>21. Opened'
         BY <2>1 DEF Opened
  <2>22. Ordering(toAgent)' /\ Ordering(stray)' /\ Sides' /\ Walked'
         BY <2>1 DEF IInv, Ordering, Sides, Walked, Covered, Apart
  <2>23. Own'
    <3>1. \A k \in 1..Len(toAgent) : OwnFrame(toAgent[k], walk, s2)
          BY <2>18 DEF OwnFrame
    <3>2. QED
          BY <2>1, <2>11, <3>1 DEF Own
  <2>24. NoLink' = NoLink /\ Covered' = Covered
         BY <2>1 DEF NoLink, Covered
  <2>25. Lists'
    <3>1. Covered => /\ Listed(list, NoLink)
                     /\ \A k \in 1..Len(c) : c[k].tag = "LIST" => Listed(c[k].tree, NoLink)
          BY <1>2 DEF IInv, Lists
    <3>2. Covered => \A k \in 1..Len(d) : d[k].tag = "LIST" => Listed(d[k].tree, NoLink)
          BY <2>8, <3>1
    <3>3. QED
          BY <2>1, <2>9, <2>24, <3>1, <3>2 DEF Lists
  <2>26. Frames'
         BY <2>1, <2>24 DEF IInv, Frames
  <2>27. Deltas'
         BY <2>1 DEF IInv, Deltas
  <2>28. Sigs'
    <3>1. ASSUME apc = "serve", NEW k \in 1..Len(s2)
          PROVE  SigFresh(s2[k], sigs[s2[k]], remote, shaken)
      <4>1. \A j \in 1..Len(s) : SigFresh(s[j], sigs[s[j]], remote, shaken)
            BY <1>1, <2>10, <3>1 DEF IInv, Sigs
      <4>2. SigFresh(p, sigs[p], remote, shaken)
            BY <2>13 DEF SigFresh
      <4>3. QED
            BY <2>12, <4>1, <4>2
    <3>2. QED
          BY <2>1, <2>11, <3>1 DEF Sigs
  <2>29. Answers'
    <3>1. ASSUME apc = "serve" PROVE Answered(want \o v, toAgent, d, remote, shaken)
      <4>1. want \o u = u /\ want \o v = v
            BY <1>1, <2>3, EmptyFrames, DueOf
      <4>2. Answered(u, toAgent, c, remote, shaken)
            BY <1>1, <1>2, <1>3, <3>1, <4>1 DEF IInv, Answers
      <4>3. PICK f \in Seq(AgentFrame) : f = toAgent
            BY DEF IInv, Types
      <4>4. Answered(v, f, d, remote, shaken)
            BY <1>1, <1>3, <1>5, <2>2, <2>6, <4>2, <4>3, AnsweredNext
      <4>5. QED
            BY <4>1, <4>3, <4>4
    <3>2. QED
          BY <2>1, <2>5, <2>9, <3>1 DEF Answers
  <2>30. QED
         BY <2>16, <2>19, <2>20, <2>21, <2>22, <2>23, <2>25, <2>26, <2>27, <2>28, <2>29 DEF IInv
<1>10. QED
       BY <1>7, <1>8, <1>9

-----------------------------------------------------------------------------
(***************************************************************************)
(* The client plans, sends and deletes.                                    *)
(***************************************************************************)

\* What is a directory locally may be one on the other side.
LEMMA LocalDirs ==
  ASSUME IInv, Covered, NEW q \in Paths, local[q] = Dir
  PROVE  MayBeDir(q, NoLink, versions)
<1>1. Dir.kind = "dir" /\ Bare(Dir) = Dir
      BY MakesEntries DEF Bare
<1>2. Dir \in versions[q]
      BY <1>1 DEF IInv, Sides
<1>3. remote[q].kind # "link"
      BY DEF IInv, Sides, Apart
<1>4. q \in NoLink
      BY <1>1, <1>3 DEF NoLink, Linkless
<1>5. QED
      BY <1>2, <1>4 DEF MayBeDir

\* What was walked can be sent.
LEMMA WalkedPlace ==
  ASSUME IInv, Covered, NEW p \in Paths, walk[p] # Absent
  PROVE  /\ ~ IsExcluded(p)
         /\ \A q \in Above(p) : MayBeDir(q, NoLink, versions)
         /\ walk[p].kind = "dir" => \A q \in UpTo(p) : MayBeDir(q, NoLink, versions)
<1>1. ~ IsExcluded(p) /\ \A q \in Above(p) : local[q] = Dir
      BY DEF IInv, Walked
<1>2. ASSUME NEW q \in Above(p) PROVE MayBeDir(q, NoLink, versions)
  <2>1. q \in Paths
        BY AbovePath
  <2>2. QED
        BY <1>1, <2>1, LocalDirs
<1>3. ASSUME walk[p].kind = "dir", NEW q \in UpTo(p) PROVE MayBeDir(q, NoLink, versions)
  <2>1. q = p \/ q \in Above(p)
        BY UpToPath
  <2>2. local[p] = walk[p] /\ walk[p] \in Entry
        BY <1>3 DEF IInv, Walked, Types, Listing, Walkable
  <2>3. walk[p] = Dir
        BY <1>3, <2>2, EntryKinds
  <2>4. QED
        BY <1>2, <2>1, <2>2, <2>3, LocalDirs
<1>4. QED
      BY <1>1, <1>2, <1>3

LEMMA PutKeeps ==
  ASSUME IInv, Sending, NEW p \in Paths, p = Head(sends),
         NEW entry \in Walkable, NEW delta \in Seq(Op), Put(p, entry, delta),
         entry # Absent, delta # <<>> => entry.kind = "file", walk[p].kind = entry.kind,
         entry.kind \in {"dir", "link"} => entry = walk[p],
         entry.kind = "file" /\ delta = <<>> => Bare(entry) \in versions[p],
         delta # <<>> /\ apc = "serve" =>
           \/ p \in shaken
           \/ remote[p].kind = "file" /\ File(Patch(remote[p].data, delta), 0) \in versions[p]
  PROVE  IInv'
<1>1. /\ cpc \in {"sigs", "send"} /\ want = <<>> /\ check = <<>> /\ sends # <<>>
      /\ cpc' = "send" /\ reading' = Shut /\ sends' = Tail(sends)
      /\ UNCHANGED <<local, remote, now, lag, walk, list, want, check, sigs, apc, toClient, stray,
                     used, versions, shaken>>
      BY DEF Sending, Put, world, history
<1>2. PICK f \in Seq(AgentFrame) : f = toAgent
      BY DEF IInv, Types
<1>3. PICK len \in Nat : len = IF walk[p].kind = "file" THEN Len(walk[p].data) ELSE 0
  <2>1. walk[p] \in Entry
        BY DEF IInv, Types, Listing, Walkable
  <2>2. walk[p].kind = "file" => Len(walk[p].data) \in Nat
        BY <2>1, EntryKinds, LenProperties
  <2>3. QED
        BY <2>2
<1>4. PICK n : n = PutFrame(p, entry, delta, len)
      OBVIOUS
<1>5. /\ n.tag = "PUT" /\ n.paths = <<p>> /\ n.entry = entry /\ n.delta = delta
      /\ n.paths[1] = p /\ Len(n.paths) = 1
      BY <1>4 DEF PutFrame
<1>6. n \in AgentFrame
  <2>1. n \in PutFrames
        BY <1>4 DEF PutFrames, PutFrame
  <2>2. QED
        BY <1>5, <2>1 DEF AgentFrame
<1>7. PICK g : g = Append(f, n)
      OBVIOUS
<1>8. toAgent' = g
      BY <1>2, <1>3, <1>4, <1>7 DEF Put
<1>9. PICK m \in Nat : m = Len(f)
      BY LenProperties
<1>10. g \in Seq(AgentFrame) /\ Len(g) = m + 1 /\ g[m + 1] = n /\ \A k \in 1..m : g[k] = f[k]
       BY <1>6, <1>7, <1>9, OneMore
<1>11. \A k \in 1..Len(g) : k \in 1..m \/ k = m + 1
       BY <1>9, <1>10
<1>12. PICK s \in Seq(Paths) : s = sends
       BY DEF IInv, Types
<1>13. s[1] = p /\ 1 \in 1..Len(s)
       BY <1>1, <1>12, FirstOf
<1>14. PICK t : t = Tail(s)
       OBVIOUS
<1>15. /\ t \in Seq(Paths) /\ Len(s) \in Nat \ {0} /\ Len(t) = Len(s) - 1
       /\ \A k \in 1..(Len(s) - 1) : t[k] = s[k + 1]
       BY <1>1, <1>12, <1>14, TailOf
<1>16. ASSUME NEW k \in 1..Len(t)
       PROVE  k + 1 \in 1..Len(s) /\ t[k] = s[k + 1] /\ k + 1 # 1
  <2>1. k \in 1..(Len(s) - 1)
        BY <1>15
  <2>2. k + 1 \in 1..Len(s) /\ k + 1 # 1
        BY <1>15, <2>1
  <2>3. QED
        BY <1>15, <2>1, <2>2
<1>17. sends' = t
       BY <1>1, <1>12, <1>14
<1>18. \A j, k \in 1..Len(s) : s[j] = s[k] => j = k
       BY <1>12 DEF IInv, Planned
<1>19. \A k \in 1..Len(t) : t[k] # p
       BY <1>13, <1>16, <1>18
<1>20. \A k \in 1..m : f[k].tag \notin {"DELETE", "PLAN_DONE"}
       BY <1>1, <1>2, <1>9 DEF IInv, Stages
<1>21. \A k \in 1..m : OwnFrame(f[k], walk, s)
       BY <1>1, <1>2, <1>9, <1>12 DEF IInv, Own, Active
<1>22. Types'
       BY <1>1, <1>8, <1>10, <1>15, <1>17 DEF IInv, Types, Active
<1>23. Stages'
  <2>1. apc \in {"serve", "gone"}
        BY <1>1 DEF IInv, Stages
  <2>2. \A k \in 1..Len(g) : g[k].tag \notin {"DELETE", "PLAN_DONE"}
        BY <1>5, <1>10, <1>11, <1>20
  <2>3. QED
        BY <1>1, <1>8, <2>1, <2>2 DEF Stages
<1>24. Planned'
  <2>1. \A k \in 1..Len(t) :
          walk[t[k]] # Absent /\ (sigs[t[k]] # <<>> => walk[t[k]].kind = "file")
    <3>1. \A k \in 1..Len(s) :
            walk[s[k]] # Absent /\ (sigs[s[k]] # <<>> => walk[s[k]].kind = "file")
          BY <1>12 DEF IInv, Planned
    <3>2. \A k \in 1..Len(t) : \E j \in 1..Len(s) : t[k] = s[j]
          BY <1>16
    <3>3. QED
          BY <3>1, <3>2
  <2>2. ASSUME NEW j \in 1..Len(t), NEW k \in 1..Len(t), t[j] = t[k] PROVE j = k
    <3>1. j + 1 = k + 1
          BY <1>16, <1>18, <2>2
    <3>2. QED
          BY <1>15, <3>1
  <2>3. 1..Len(want) = {} /\ 1..Len(check) = {}
        BY <1>1, EmptyFrames
  <2>4. want' = want /\ check' = check /\ walk' = walk /\ sigs' = sigs /\ sends' = t
        BY <1>1, <1>17
  <2>5. QED
        BY <2>1, <2>2, <2>3, <2>4 DEF Planned
<1>25. Opened'
       BY <1>1 DEF Opened
<1>26. Ordering(toAgent)' /\ Ordering(stray)'
  <2>1. ASSUME NEW j \in 1..Len(g), NEW k \in 1..Len(g), j < k, g[k].tag = "PUT"
        PROVE  /\ g[j].tag \notin {"DELETE", "PLAN_DONE"}
               /\ g[j].tag = "PUT" => g[j].paths # g[k].paths
    <3>1. j \in 1..m
          BY <1>9, <1>10, <2>1
    <3>2. g[j] = f[j]
          BY <1>10, <3>1
    <3>3. CASE k \in 1..m
      <4>1. g[k] = f[k]
            BY <1>10, <3>3
      <4>2. Ordering(f)
            BY <1>2 DEF IInv
      <4>3. QED
            BY <1>9, <2>1, <3>1, <3>2, <3>3, <4>1, <4>2 DEF Ordering
    <3>4. CASE k = m + 1
      <4>1. f[j].tag \notin {"DELETE", "PLAN_DONE"}
            BY <1>20, <3>1
      <4>2. f[j].tag = "PUT" => s[1] # f[j].paths[1]
            BY <1>13, <1>21, <3>1 DEF OwnFrame
      <4>3. QED
            BY <1>5, <1>10, <1>13, <3>2, <3>4, <4>1, <4>2
    <3>5. QED
          BY <1>11, <3>3, <3>4
  <2>2. Ordering(toAgent)'
        BY <1>8, <2>1 DEF Ordering
  <2>3. Ordering(stray)'
        BY <1>1 DEF IInv, Ordering
  <2>4. QED
        BY <2>2, <2>3
<1>27. Own'
  <2>1. \A k \in 1..m : OwnFrame(f[k], walk, t)
        BY <1>16, <1>21 DEF OwnFrame
  <2>2. OwnFrame(n, walk, t)
        BY <1>5, <1>19 DEF OwnFrame
  <2>3. \A k \in 1..Len(g) : OwnFrame(g[k], walk, t)
        BY <1>10, <1>11, <2>1, <2>2
  <2>4. QED
        BY <1>1, <1>8, <1>17, <2>3 DEF Own
<1>28. Sides' /\ Walked'
       BY <1>1 DEF IInv, Sides, Walked, Covered, Apart
<1>29. NoLink' = NoLink /\ Covered' = Covered
       BY <1>1 DEF NoLink, Covered
<1>30. Lists'
       BY <1>1, <1>29 DEF IInv, Lists
<1>31. Frames'
  <2>1. ASSUME Covered PROVE Sound(n, local, NoLink, versions)
    <3>1. walk[p] # Absent
          BY <1>12, <1>13 DEF IInv, Planned
    <3>2. /\ ~ IsExcluded(p)
          /\ \A q \in Above(p) : MayBeDir(q, NoLink, versions)
          /\ walk[p].kind = "dir" => \A q \in UpTo(p) : MayBeDir(q, NoLink, versions)
          BY <2>1, <3>1, WalkedPlace
    <3>3. entry.kind = "dir" => MayBeDir(p, NoLink, versions)
          BY <3>2, UpToPath
    <3>4. entry.kind = "link" => entry \in versions[p] /\ local[p].kind = "link"
      <4>1. ASSUME entry.kind = "link" PROVE entry \in versions[p] /\ local[p].kind = "link"
        <5>1. entry = walk[p] /\ local[p] = walk[p] /\ Bare(walk[p]) \in versions[p]
              BY <3>1, <4>1 DEF IInv, Walked
        <5>2. Bare(entry) = entry
              BY <4>1 DEF Bare
        <5>3. QED
              BY <4>1, <5>1, <5>2
      <4>2. QED
            BY <4>1
    <3>5. SoundAt(n, p, local, NoLink, versions)
          BY <1>5, <3>2, <3>3, <3>4 DEF SoundAt
    <3>6. \A i \in 1..Len(n.paths) : n.paths[i] = p
          BY <1>5
    <3>7. QED
          BY <3>5, <3>6 DEF Sound
  <2>2. Covered => \A k \in 1..m : Sound(f[k], local, NoLink, versions)
        BY <1>2, <1>9 DEF IInv, Frames
  <2>3. Covered => \A k \in 1..Len(g) : Sound(g[k], local, NoLink, versions)
        BY <1>10, <1>11, <2>1, <2>2
  <2>4. QED
        BY <1>1, <1>8, <1>29, <2>3 DEF IInv, Frames
<1>32. Deltas'
  <2>1. ASSUME apc = "serve" PROVE \A k \in 1..Len(g) : DeltaFresh(g[k], remote, versions, shaken)
    <3>1. \A k \in 1..m : DeltaFresh(f[k], remote, versions, shaken)
          BY <1>2, <1>9, <2>1 DEF IInv, Deltas
    <3>2. DeltaFresh(n, remote, versions, shaken)
          BY <1>5, <2>1 DEF DeltaFresh
    <3>3. QED
          BY <1>10, <1>11, <3>1, <3>2
  <2>2. QED
        BY <1>1, <1>8, <2>1 DEF IInv, Deltas
<1>33. Sigs'
  <2>1. ASSUME apc = "serve", NEW k \in 1..Len(t) PROVE SigFresh(t[k], sigs[t[k]], remote, shaken)
    <3>1. \A j \in 1..Len(s) : SigFresh(s[j], sigs[s[j]], remote, shaken)
          BY <1>1, <1>12, <2>1 DEF IInv, Sigs
    <3>2. QED
          BY <1>16, <3>1
  <2>2. QED
        BY <1>1, <1>17, <2>1 DEF Sigs
<1>34. Answers'
       BY <1>1 DEF Answers
<1>35. QED
       BY <1>22, <1>23, <1>24, <1>25, <1>26, <1>27, <1>28, <1>30, <1>31, <1>32, <1>33, <1>34 DEF IInv

LEMMA SendKeeps == IInv /\ Send => IInv'
<1> SUFFICES ASSUME IInv, Send PROVE IInv'
    OBVIOUS
<1>1. Sending
      BY DEF Send
<1>2. PICK p : p = Head(sends)
      OBVIOUS
<1>3. p = sends[1] /\ p \in Paths /\ 1 \in 1..Len(sends)
      BY <1>1, <1>2, FirstOf DEF Sending, IInv, Types
<1>4. /\ walk[p] # Absent /\ (sigs[p] # <<>> => walk[p].kind = "file")
      /\ walk[p] \in Walkable /\ walk[p] \in Entry
      BY <1>3 DEF IInv, Planned, Types, Listing, Walkable
<1>5. CASE walk[p].kind # "file" /\ Put(p, walk[p], <<>>)
  <2>1. <<>> \in Seq(Op)
        BY EmptySeq
  <2>2. QED
        BY <1>1, <1>2, <1>3, <1>4, <1>5, <2>1, PutKeeps
<1>6. ASSUME reading # Shut, NEW data \in DataRead,
             Put(p, File(data, walk[p].mtime),
                 IF IsShorter(Delta(data, sigs[p])) THEN Delta(data, sigs[p]) ELSE <<>>)
      PROVE  IInv'
  <2>1. /\ data \in Seq(Blocks) /\ File(data, 0) \in versions[reading.path]
        BY <1>6, DataIsVersion
  <2>2. reading.path = p /\ walk[p].kind = "file"
        BY <1>1, <1>3, <1>6 DEF Sending, IInv, Opened
  <2>3. PICK e : e = File(data, walk[p].mtime)
        OBVIOUS
  <2>4. walk[p].mtime \in Int
        BY <1>4, <2>2, EntryKinds
  <2>5. e \in Walkable /\ e.kind = "file" /\ e.data = data
        BY <2>1, <2>3, <2>4, MakesEntries
  <2>6. e # Absent
        BY <2>5, MakesEntries
  <2>7. Bare(e) \in versions[p]
        BY <2>1, <2>2, <2>5 DEF Bare
  <2>8. PICK base \in Seq(Blocks) : base = sigs[p]
        BY <1>3 DEF IInv, Types
  <2>9. PICK d : d = IF IsShorter(Delta(data, base)) THEN Delta(data, base) ELSE <<>>
        OBVIOUS
  <2>10. d \in Seq(Op) /\ (d # <<>> => d = Delta(data, base) /\ base # <<>>)
    <3>1. CASE IsShorter(Delta(data, base))
      <4>1. d = Delta(data, base)
            BY <2>9, <3>1
      <4>2. QED
            BY <2>1, <3>1, <4>1, ShorterUses, DeltaRoundTrip
    <3>2. CASE ~ IsShorter(Delta(data, base))
      <4>1. d = <<>>
            BY <2>9, <3>2
      <4>2. QED
            BY <4>1, EmptySeq
    <3>3. QED
          BY <3>1, <3>2
  <2>11. Put(p, e, d)
         BY <1>6, <2>3, <2>8, <2>9
  <2>12. ASSUME d # <<>>, apc = "serve"
         PROVE  \/ p \in shaken
                \/ remote[p].kind = "file" /\ File(Patch(remote[p].data, d), 0) \in versions[p]
    <3>1. d = Delta(data, base) /\ base # <<>>
          BY <2>10, <2>12
    <3>2. SigFresh(p, base, remote, shaken)
          BY <1>1, <1>3, <2>8, <2>12 DEF Sending, IInv, Sigs
    <3>3. Patch(base, d) = data
          BY <2>1, <3>1, DeltaRoundTrip
    <3>4. QED
          BY <2>1, <2>2, <3>1, <3>2, <3>3 DEF SigFresh
  <2>13. QED
         BY <1>1, <1>2, <1>3, <2>2, <2>5, <2>6, <2>7, <2>10, <2>11, <2>12, PutKeeps
<1>7. QED
      BY <1>2, <1>5, <1>6 DEF Send

\* Frames behind frames.
LEMMA MoreFrames ==
  ASSUME NEW f \in Seq(AgentFrame), NEW g \in Seq(AgentFrame), NEW w, w = f \o g
  PROVE  /\ w \in Seq(AgentFrame) /\ Len(w) = Len(f) + Len(g)
         /\ Len(f) \in Nat /\ Len(g) \in Nat
         /\ \A k \in 1..Len(f) : w[k] = f[k]
         /\ \A k \in 1..Len(g) : w[Len(f) + k] = g[k]
         /\ \A k \in 1..Len(w) : \/ k \in 1..Len(f) /\ w[k] = f[k]
                                 \/ \E j \in 1..Len(g) : k = Len(f) + j /\ w[k] = g[j]
<1>1. /\ w \in Seq(AgentFrame) /\ Len(w) = Len(f) + Len(g)
      /\ Len(f) \in Nat /\ Len(g) \in Nat
      /\ \A k \in 1..Len(f) : w[k] = f[k]
      /\ \A k \in 1..Len(g) : w[Len(f) + k] = g[k]
      BY Joined
<1>2. PICK m \in Nat, n \in Nat : m = Len(f) /\ n = Len(g)
      BY <1>1
<1>3. ASSUME NEW k \in 1..(m + n), k \notin 1..m
      PROVE  \E j \in 1..n : k = m + j /\ w[k] = g[j]
  <2>1. k - m \in 1..n /\ k = m + (k - m)
        BY <1>2, <1>3
  <2>2. PICK j \in 1..n : k = m + j
        BY <2>1
  <2>3. QED
        BY <1>1, <1>2, <2>2
<1>4. QED
      BY <1>1, <1>2, <1>3

Mix(w, f, g) ==
  \A k \in 1..Len(w) : (\E j \in 1..Len(f) : w[k] = f[j]) \/ (\E j \in 1..Len(g) : w[k] = g[j])

LEMMA MixOf ==
  ASSUME NEW f \in Seq(AgentFrame), NEW g \in Seq(AgentFrame), NEW w, w = f \o g
  PROVE  w \in Seq(AgentFrame) /\ Mix(w, f, g)
<1>1. /\ w \in Seq(AgentFrame)
      /\ \A k \in 1..Len(w) : \/ k \in 1..Len(f) /\ w[k] = f[k]
                              \/ \E j \in 1..Len(g) : k = Len(f) + j /\ w[k] = g[j]
      BY MoreFrames
<1>2. QED
      BY <1>1 DEF Mix

\* Frames that are no PUT may come last.
LEMMA OrderingMore ==
  ASSUME NEW f \in Seq(AgentFrame), NEW g \in Seq(AgentFrame), NEW w, w = f \o g,
         Ordering(f), \A k \in 1..Len(g) : g[k].tag # "PUT"
  PROVE  Ordering(w)
<1>1. ASSUME NEW j \in 1..Len(w), NEW k \in 1..Len(w), j < k, w[k].tag = "PUT"
      PROVE  /\ w[j].tag \notin {"DELETE", "PLAN_DONE"}
             /\ w[j].tag = "PUT" => w[j].paths # w[k].paths
  <2>1. k \in 1..Len(f) /\ w[k] = f[k]
        BY <1>1, MoreFrames
  <2>2. j \in 1..Len(f)
        BY <1>1, <2>1
  <2>3. w[j] = f[j]
        BY <2>2, MoreFrames
  <2>4. QED
        BY <1>1, <2>1, <2>2, <2>3 DEF Ordering
<1>2. QED
      BY <1>1 DEF Ordering

LEMMA FinishKeeps == IInv /\ Finish => IInv'
<1> SUFFICES ASSUME IInv, Finish PROVE IInv'
    OBVIOUS
<1>1. /\ cpc \in {"sigs", "send"} /\ want = <<>> /\ check = <<>> /\ sends = <<>> /\ cpc' = "await"
      /\ UNCHANGED <<local, remote, now, lag, walk, list, want, check, sigs, sends, reading, apc,
                     toClient, stray, used, versions, shaken>>
      BY DEF Finish, world, history
<1>2. PICK del \in Deletes(list) :
        toAgent' = toAgent \o PathFrame("DELETE", del) \o <<[tag |-> "PLAN_DONE", paths |-> <<>>]>>
      BY DEF Finish
<1>3. del \in Seq(Paths) /\ \A k \in 1..Len(del) : del[k] \in ToDelete(list)
      BY <1>2, DeletesOf
<1>4. PICK f \in Seq(AgentFrame) : f = toAgent
      BY DEF IInv, Types
<1>5. PICK g : g = PathFrame("DELETE", del)
      OBVIOUS
<1>6. g \in Seq(AgentFrame) /\ \A k \in 1..Len(g) : g[k].tag = "DELETE" /\ g[k].paths = del
  <2>1. /\ g \in Seq(AgentFrame)
        /\ del = <<>> => g = <<>>
        /\ del # <<>> => Len(g) = 1 /\ g[1].tag = "DELETE" /\ g[1].paths = del
        BY <1>3, <1>5, PathFrameOf
  <2>2. QED
        BY <2>1, EmptyFrames
<1>7. PICK e : e = [tag |-> "PLAN_DONE", paths |-> <<>>]
      OBVIOUS
<1>8. e \in AgentFrame /\ e.tag = "PLAN_DONE" /\ e.paths = <<>>
      BY <1>7 DEF AgentFrame
<1>9. PICK h : h = <<e>>
      OBVIOUS
<1>10. h \in Seq(AgentFrame) /\ Len(h) = 1 /\ h[1] = e /\ 1..1 = {1}
       BY <1>8, <1>9
<1>11. PICK w : w = f \o g
       OBVIOUS
<1>12. PICK z : z = w \o h
       OBVIOUS
<1>13. toAgent' = z
       BY <1>2, <1>4, <1>5, <1>7, <1>9, <1>11, <1>12
<1>14. w \in Seq(AgentFrame)
       BY <1>6, <1>11, MoreFrames
<1>15. z \in Seq(AgentFrame)
       BY <1>10, <1>12, <1>14, MoreFrames
<1>16. ASSUME NEW k \in 1..Len(z)
       PROVE  (\E j \in 1..Len(f) : z[k] = f[j]) \/ (\E j \in 1..Len(g) : z[k] = g[j]) \/ z[k] = e
  <2>1. (\E j \in 1..Len(w) : z[k] = w[j]) \/ (\E j \in 1..Len(h) : z[k] = h[j])
    <3>1. h \in Seq(AgentFrame)
          BY <1>10
    <3>2. Mix(z, w, h)
          BY <1>12, <1>14, <3>1, MixOf
    <3>3. QED
          BY <3>2 DEF Mix
  <2>2. \A j \in 1..Len(w) : (\E i \in 1..Len(f) : w[j] = f[i]) \/ (\E i \in 1..Len(g) : w[j] = g[i])
    <3>1. g \in Seq(AgentFrame)
          BY <1>6
    <3>2. Mix(w, f, g)
          BY <1>11, <3>1, MixOf
    <3>3. QED
          BY <3>2 DEF Mix
  <2>3. QED
        BY <1>10, <2>1, <2>2
<1>17. \A k \in 1..Len(f) : f[k].tag \notin {"DELETE", "PLAN_DONE"}
       BY <1>1, <1>4 DEF IInv, Stages
<1>18. reading = Shut
       BY <1>1 DEF IInv, Opened
<1>19. ASSUME NEW k \in 1..Len(del)
       PROVE  del[k] \in Paths /\ walk[del[k]] = Absent /\ list[del[k]] # Absent
       BY <1>3 DEF ToDelete
<1>20. Types'
       BY <1>1, <1>13, <1>15 DEF IInv, Types, Active
<1>21. Stages'
  <2>1. apc \in {"serve", "gone"}
        BY <1>1 DEF IInv, Stages
  <2>2. QED
        BY <1>1, <2>1 DEF Stages
<1>22. Planned' /\ Opened'
       BY <1>1, <1>18 DEF IInv, Planned, Opened
<1>23. Ordering(toAgent)' /\ Ordering(stray)'
  <2>1. Ordering(f)
        BY <1>4 DEF IInv
  <2>2. Ordering(w)
        BY <1>6, <1>11, <2>1, OrderingMore
  <2>3. Ordering(z)
    <3>1. \A k \in 1..Len(h) : h[k].tag # "PUT"
          BY <1>8, <1>10
    <3>2. QED
          BY <1>10, <1>12, <1>14, <2>2, <3>1, OrderingMore
  <2>4. Ordering(toAgent)'
        BY <1>13, <2>3 DEF Ordering
  <2>5. Ordering(stray)'
        BY <1>1 DEF IInv, Ordering
  <2>6. QED
        BY <2>4, <2>5
<1>24. Own'
  <2>1. \A k \in 1..Len(f) : OwnFrame(f[k], walk, sends)
        BY <1>1, <1>4 DEF IInv, Own, Active
  <2>2. \A k \in 1..Len(g) : OwnFrame(g[k], walk, sends)
        BY <1>6, <1>19 DEF OwnFrame
  <2>3. OwnFrame(e, walk, sends)
        BY <1>8 DEF OwnFrame
  <2>4. \A k \in 1..Len(z) : OwnFrame(z[k], walk, sends)
        BY <1>16, <2>1, <2>2, <2>3
  <2>5. QED
        BY <1>1, <1>13, <2>4 DEF Own
<1>25. Sides' /\ Walked'
       BY <1>1 DEF IInv, Sides, Walked, Covered, Apart
<1>26. NoLink' = NoLink /\ Covered' = Covered
       BY <1>1 DEF NoLink, Covered
<1>27. Lists'
       BY <1>1, <1>26 DEF IInv, Lists
<1>28. Frames'
  <2>1. ASSUME Covered PROVE \A k \in 1..Len(z) : Sound(z[k], local, NoLink, versions)
    <3>1. \A k \in 1..Len(f) : Sound(f[k], local, NoLink, versions)
          BY <1>4, <2>1 DEF IInv, Frames
    <3>2. ASSUME NEW k \in 1..Len(g), NEW i \in 1..Len(g[k].paths)
          PROVE  SoundAt(g[k], g[k].paths[i], local, NoLink, versions)
      <4>1. PICK p \in Paths : p = g[k].paths[i] /\ list[p] # Absent
            BY <1>6, <1>19
      <4>2. ~ IsExcluded(p) /\ Above(p) \subseteq NoLink
            BY <2>1, <4>1 DEF IInv, Lists, Listed
      <4>3. SoundAt(g[k], p, local, NoLink, versions)
            BY <1>6, <4>2 DEF SoundAt
      <4>4. QED
            BY <4>1, <4>3
    <3>3. \A k \in 1..Len(g) : Sound(g[k], local, NoLink, versions)
          BY <3>2 DEF Sound
    <3>4. Sound(e, local, NoLink, versions)
          BY <1>8, EmptyFrames DEF Sound
    <3>5. QED
          BY <1>16, <3>1, <3>3, <3>4
  <2>2. QED
        BY <1>1, <1>13, <1>26, <2>1 DEF IInv, Frames
<1>29. Deltas'
  <2>1. ASSUME apc = "serve" PROVE \A k \in 1..Len(z) : DeltaFresh(z[k], remote, versions, shaken)
    <3>1. \A k \in 1..Len(f) : DeltaFresh(f[k], remote, versions, shaken)
          BY <1>4, <2>1 DEF IInv, Deltas
    <3>2. \A k \in 1..Len(g) : DeltaFresh(g[k], remote, versions, shaken)
          BY <1>6 DEF DeltaFresh
    <3>3. DeltaFresh(e, remote, versions, shaken)
          BY <1>8 DEF DeltaFresh
    <3>4. QED
          BY <1>16, <3>1, <3>2, <3>3
  <2>2. QED
        BY <1>1, <1>13, <2>1 DEF IInv, Deltas
<1>30. Sigs' /\ Answers'
       BY <1>1 DEF Sigs, Answers
<1>31. QED
       BY <1>20, <1>21, <1>22, <1>23, <1>24, <1>25, <1>27, <1>28, <1>29, <1>30 DEF IInv

\* What is asked for is due, and nothing has been answered.
LEMMA AllDue ==
  ASSUME NEW due \in Seq(Paths), NEW f \in Seq(AgentFrame), NEW g \in Seq(AgentFrame),
         \A k \in 1..Len(f) : f[k].tag = "MKDIR", g = PathFrame("SIG_REQ", due),
         NEW w, w = f \o g, NEW r, NEW o
  PROVE  Answered(due, w, <<>>, r, o)
<1>1. /\ due = <<>> => g = <<>>
      /\ due # <<>> => Len(g) = 1 /\ g[1].tag = "SIG_REQ" /\ g[1].paths = due
      BY PathFrameOf
<1>2. PICK m \in Nat, n \in Nat : m = Len(f) /\ n = Len(due)
      BY LenProperties
<1>3. Len(<<>>) = 0 /\ 1..0 = {} /\ 0 <= n
      BY <1>2, EmptyFrames
<1>4. CASE due = <<>>
  <2>1. Len(g) = 0 /\ n = 0
        BY <1>1, <1>2, <1>3, <1>4
  <2>2. \A k \in 1..Len(w) : w[k].tag # "SIG_REQ"
    <3>1. \A k \in 1..Len(w) : k \in 1..Len(f) /\ w[k] = f[k]
          BY <1>3, <2>1, MoreFrames
    <3>2. QED
          BY <3>1
  <2>3. QED
        BY <1>2, <1>3, <2>1, <2>2 DEF Answered
<1>5. CASE due # <<>>
  <2>1. n > 0
        BY <1>2, <1>5, EmptySeq
  <2>2. Len(w) = m + 1 /\ w[m + 1] = g[1] /\ \A k \in 1..m : w[k] = f[k]
    <3>1. Len(g) = 1 /\ 1 \in 1..1
          BY <1>1, <1>5
    <3>2. /\ Len(w) = Len(f) + Len(g)
          /\ \A k \in 1..Len(f) : w[k] = f[k]
          /\ \A k \in 1..Len(g) : w[Len(f) + k] = g[k]
          BY MoreFrames
    <3>3. QED
          BY <1>2, <3>1, <3>2
  <2>3. m + 1 > 0 /\ (m + 1) - 1 = m
        BY <1>2
  <2>4. SubSeq(due, 0 + 1, n) = due
    <3>1. PICK x : x = SubSeq(due, 1, n)
          OBVIOUS
    <3>2. x \in Seq(Paths) /\ Len(x) = n /\ \A k \in 1..n : x[k] = due[k]
      <4>1. n \in 0..Len(due)
            BY <1>2
      <4>2. QED
            BY <3>1, <4>1, FirstPart
    <3>3. x = due
          BY <1>2, <3>2, SeqEqual
    <3>4. QED
          BY <3>1, <3>3
  <2>5. \A k \in 1..m : w[k].tag = "MKDIR"
        BY <1>2, <2>2
  <2>6. /\ w[m + 1].tag = "SIG_REQ" /\ w[m + 1].paths = SubSeq(due, 0 + 1, n)
        BY <1>1, <1>5, <2>2, <2>4
  <2>7. QED
        BY <1>2, <1>3, <2>1, <2>2, <2>3, <2>5, <2>6 DEF Answered
<1>6. QED
      BY <1>4, <1>5

LEMMA PlanKeeps == IInv /\ Plan => IInv'
<1> SUFFICES ASSUME IInv, Plan PROVE IInv'
    OBVIOUS
<1>1. /\ cpc = "list" /\ cpc' = "sigs" /\ toClient # <<>> /\ toClient' = Tail(toClient)
      /\ sigs' = NoSigs
      /\ UNCHANGED <<local, remote, now, lag, walk, reading, apc, stray, used, versions, shaken>>
      BY DEF Plan, world, history
<1>2. PICK c \in Seq(ClientFrame) : c = toClient
      BY DEF IInv, Types
<1>3. /\ Head(c) = c[1] /\ c[1] \in ClientFrame /\ Len(c) = 1 /\ c[1].tag = "LIST" /\ apc # "start"
      /\ 1 \in 1..Len(c)
  <2>1. c # <<>> /\ Len(c) = 1 /\ c[1].tag = "LIST" /\ apc # "start"
        BY <1>1, <1>2 DEF IInv, Stages
  <2>2. QED
        BY <2>1, TailOf
<1>4. PICK r : r = c[1].tree
      OBVIOUS
<1>5. r \in Listing
      BY <1>3, <1>4 DEF ClientFrame
<1>6. PICK need : need = Ordered(NeedSig(r))
      OBVIOUS
<1>7. PICK ver : ver = Ordered(ToVerify(r))
      OBVIOUS
<1>8. PICK snd : snd = Ordered(ToSend(r))
      OBVIOUS
<1>9. PICK dirs : dirs = Ordered(MkDirs(r))
      OBVIOUS
<1>10. /\ need \in Seq(Paths) /\ \A k \in 1..Len(need) : need[k] \in NeedSig(r)
       BY <1>6, OrderedOf
<1>11. /\ ver \in Seq(Paths) /\ (\A k \in 1..Len(ver) : ver[k] \in ToVerify(r)) /\ NoneTwice(ver)
       BY <1>7, OrderedOf DEF NoneTwice
<1>12. /\ snd \in Seq(Paths) /\ (\A k \in 1..Len(snd) : snd[k] \in ToSend(r)) /\ NoneTwice(snd)
       BY <1>8, OrderedOf DEF NoneTwice
<1>13. /\ dirs \in Seq(Paths) /\ \A k \in 1..Len(dirs) : dirs[k] \in MkDirs(r)
       BY <1>9, OrderedOf
<1>14. PICK due : due = need \o ver
       OBVIOUS
<1>15. /\ due \in Seq(Paths)
       /\ \A k \in 1..Len(due) :
            (\E j \in 1..Len(need) : due[k] = need[j]) \/ (\E j \in 1..Len(ver) : due[k] = ver[j])
       BY <1>10, <1>11, <1>14, DueOf
<1>16. PICK f \in Seq(AgentFrame) : f = toAgent
       BY DEF IInv, Types
<1>17. PICK a : a = PathFrame("MKDIR", dirs)
       OBVIOUS
<1>18. PICK b : b = PathFrame("SIG_REQ", due)
       OBVIOUS
<1>19. a \in Seq(AgentFrame) /\ \A k \in 1..Len(a) : a[k].tag = "MKDIR" /\ a[k].paths = dirs
  <2>1. /\ a \in Seq(AgentFrame)
        /\ dirs = <<>> => a = <<>>
        /\ dirs # <<>> => Len(a) = 1 /\ a[1].tag = "MKDIR" /\ a[1].paths = dirs
        BY <1>13, <1>17, PathFrameOf
  <2>2. QED
        BY <2>1, EmptyFrames
<1>20. b \in Seq(AgentFrame) /\ \A k \in 1..Len(b) : b[k].tag = "SIG_REQ" /\ b[k].paths = due
  <2>1. due \in Seq(Paths)
        BY <1>15
  <2>2. /\ b \in Seq(AgentFrame)
        /\ due = <<>> => b = <<>>
        /\ due # <<>> => Len(b) = 1 /\ b[1].tag = "SIG_REQ" /\ b[1].paths = due
        BY <1>18, <2>1, PathFrameOf
  <2>3. QED
        BY <2>2, EmptyFrames
<1>21. PICK w : w = f \o a
       OBVIOUS
<1>22. PICK z : z = w \o b
       OBVIOUS
<1>23. /\ list' = r /\ want' = need /\ check' = ver /\ sends' = snd /\ toAgent' = z
       BY <1>2, <1>3, <1>4, <1>6, <1>7, <1>8, <1>9, <1>14, <1>16, <1>17, <1>18, <1>21, <1>22 DEF Plan
<1>24. a \in Seq(AgentFrame) /\ b \in Seq(AgentFrame)
       BY <1>19, <1>20
<1>25. w \in Seq(AgentFrame) /\ Mix(w, f, a)
  <2>1. a \in Seq(AgentFrame)
        BY <1>24
  <2>2. QED
        BY <1>21, <2>1, MixOf
<1>26. w \in Seq(AgentFrame)
       BY <1>25
<1>27. z \in Seq(AgentFrame) /\ Mix(z, w, b)
  <2>1. b \in Seq(AgentFrame)
        BY <1>24
  <2>2. QED
        BY <1>22, <1>26, <2>1, MixOf
<1>28. ASSUME NEW k \in 1..Len(z)
       PROVE  \/ \E j \in 1..Len(f) : z[k] = f[j]
              \/ \E j \in 1..Len(a) : z[k] = a[j]
              \/ \E j \in 1..Len(b) : z[k] = b[j]
  <2>1. (\E j \in 1..Len(w) : z[k] = w[j]) \/ (\E j \in 1..Len(b) : z[k] = b[j])
        BY <1>27 DEF Mix
  <2>2. ASSUME NEW j \in 1..Len(w)
        PROVE  (\E i \in 1..Len(f) : w[j] = f[i]) \/ (\E i \in 1..Len(a) : w[j] = a[i])
        BY <1>25 DEF Mix
  <2>3. QED
        BY <2>1, <2>2
<1>29. \A k \in 1..Len(f) : f[k].tag = "SYNC_REQ"
       BY <1>1, <1>16 DEF IInv, Stages
<1>30. \A k \in 1..Len(z) : z[k].tag \in {"SYNC_REQ", "MKDIR", "SIG_REQ"}
  <2>1. ASSUME NEW k \in 1..Len(z) PROVE z[k].tag \in {"SYNC_REQ", "MKDIR", "SIG_REQ"}
    <3>1. (\E j \in 1..Len(f) : z[k] = f[j]) => z[k].tag = "SYNC_REQ"
          BY <1>29
    <3>2. (\E j \in 1..Len(a) : z[k] = a[j]) => z[k].tag = "MKDIR"
          BY <1>19
    <3>3. (\E j \in 1..Len(b) : z[k] = b[j]) => z[k].tag = "SIG_REQ"
          BY <1>20
    <3>4. QED
          BY <1>28, <3>1, <3>2, <3>3
  <2>2. QED
        BY <2>1
<1>31. reading = Shut
       BY <1>1 DEF IInv, Opened
<1>32. apc \in {"serve", "gone"}
       BY <1>1, <1>3 DEF IInv, Stages, Types
<1>33. toClient' = <<>>
  <2>1. PICK d : d = Tail(c)
        OBVIOUS
  <2>2. d \in Seq(ClientFrame) /\ Len(d) = Len(c) - 1
        BY <1>1, <1>2, <2>1, TailOf
  <2>3. Len(d) = 0
        BY <1>3, <2>2
  <2>4. QED
        BY <1>1, <1>2, <2>1, <2>2, <2>3, EmptySeq
<1>34. sigs' \in [Paths -> Seq(Blocks)] /\ \A p \in Paths : sigs'[p] = <<>>
       BY <1>1, EmptyFrames DEF NoSigs
<1>35. Types'
  <2>1. toClient' \in Seq(ClientFrame)
        BY <1>33, EmptyFrames
  <2>2. z \in Seq(AgentFrame) /\ need \in Seq(Paths) /\ ver \in Seq(Paths) /\ snd \in Seq(Paths)
        BY <1>10, <1>11, <1>12, <1>27
  <2>3. QED
        BY <1>1, <1>5, <1>23, <1>34, <2>1, <2>2 DEF IInv, Types, Active
<1>36. Stages'
       BY <1>1, <1>23, <1>30, <1>32 DEF Stages
<1>37. /\ \A p \in NeedSig(r) : walk[p].kind = "file"
       /\ \A p \in ToVerify(r) : walk[p].kind = "file" /\ walk[p] # Absent
       /\ \A p \in ToSend(r) : walk[p] # Absent
       /\ \A p \in ToVerify(r) : p \notin ToSend(r) /\ p \notin NeedSig(r)
       BY DEF NeedSig, ToVerify, ToSend, Missing, OnBoth, Differing
<1>38. Planned'
  <2>1. \A k \in 1..Len(need) : walk[need[k]].kind = "file"
        BY <1>10, <1>37
  <2>2. \A k \in 1..Len(ver) : walk[ver[k]].kind = "file"
        BY <1>11, <1>37
  <2>3. \A k \in 1..Len(snd) : walk[snd[k]] # Absent
        BY <1>12, <1>37
  <2>4. ASSUME NEW j \in 1..Len(ver)
        PROVE  /\ \A k \in 1..Len(snd) : ver[j] # snd[k]
               /\ \A k \in 1..Len(need) : ver[j] # need[k]
    <3>1. ver[j] \notin ToSend(r) /\ ver[j] \notin NeedSig(r)
          BY <1>11, <1>37
    <3>2. QED
          BY <1>10, <1>12, <3>1
  <2>5. \A k \in 1..Len(snd) : sigs'[snd[k]] = <<>>
    <3>1. \A k \in 1..Len(snd) : snd[k] \in Paths
          BY <1>12, ElementOfSeq
    <3>2. QED
          BY <1>34, <3>1
  <2>6. \A k \in 1..Len(ver) : sigs'[ver[k]] = <<>>
    <3>1. \A k \in 1..Len(ver) : ver[k] \in Paths
          BY <1>11, ElementOfSeq
    <3>2. QED
          BY <1>34, <3>1
  <2>7. /\ \A j, k \in 1..Len(ver) : ver[j] = ver[k] => j = k
        /\ \A j, k \in 1..Len(snd) : snd[j] = snd[k] => j = k
        BY <1>11, <1>12 DEF NoneTwice
  <2>8. walk' = walk
        BY <1>1
  <2>9. QED
        BY <1>23, <2>1, <2>2, <2>3, <2>4, <2>5, <2>6, <2>7, <2>8 DEF Planned
<1>39. Opened'
       BY <1>1, <1>31 DEF Opened
<1>40. Ordering(toAgent)' /\ Ordering(stray)'
  <2>1. Ordering(toAgent)'
        BY <1>23, <1>30 DEF Ordering
  <2>2. Ordering(stray)'
        BY <1>1 DEF IInv, Ordering
  <2>3. QED
        BY <2>1, <2>2
<1>41. Own'
       BY <1>23, <1>30 DEF Own, OwnFrame
<1>42. Sides' /\ Walked'
       BY <1>1 DEF IInv, Sides, Walked, Covered, Apart
<1>43. NoLink' = NoLink /\ Covered' = Covered
       BY <1>1 DEF NoLink, Covered
<1>44. Lists'
  <2>1. Covered => Listed(r, NoLink)
        BY <1>2, <1>3, <1>4 DEF IInv, Lists
  <2>2. QED
        BY <1>23, <1>33, <1>43, <2>1, EmptyFrames DEF Lists
<1>45. Frames'
  <2>1. ASSUME Covered PROVE \A k \in 1..Len(z) : Sound(z[k], local, NoLink, versions)
    <3>1. \A k \in 1..Len(f) : Sound(f[k], local, NoLink, versions)
          BY <1>16, <2>1 DEF IInv, Frames
    <3>2. ASSUME NEW k \in 1..Len(a), NEW i \in 1..Len(a[k].paths)
          PROVE  SoundAt(a[k], a[k].paths[i], local, NoLink, versions)
      <4>1. PICK p \in Paths : p = a[k].paths[i] /\ p \in MkDirs(r)
            BY <1>13, <1>19 DEF MkDirs, Missing
      <4>2. walk[p] # Absent /\ walk[p].kind = "dir"
            BY <4>1, MakesEntries DEF MkDirs, Missing
      <4>3. ~ IsExcluded(p) /\ \A q \in UpTo(p) : MayBeDir(q, NoLink, versions)
            BY <2>1, <4>2, WalkedPlace
      <4>4. SoundAt(a[k], p, local, NoLink, versions)
            BY <1>19, <4>3 DEF SoundAt
      <4>5. QED
            BY <4>1, <4>4
    <3>3. \A k \in 1..Len(a) : Sound(a[k], local, NoLink, versions)
          BY <3>2 DEF Sound
    <3>4. ASSUME NEW k \in 1..Len(b), NEW i \in 1..Len(b[k].paths)
          PROVE  SoundAt(b[k], b[k].paths[i], local, NoLink, versions)
      <4>1. PICK p \in Paths : p = b[k].paths[i]
            BY <1>15, <1>20, ElementOfSeq
      <4>2. p \in NeedSig(r) \/ p \in ToVerify(r)
            BY <1>10, <1>11, <1>15, <1>20, <4>1
      <4>3. walk[p] # Absent
            BY <1>37, <4>2, MakesEntries
      <4>4. ~ IsExcluded(p)
            BY <2>1, <4>3, WalkedPlace
      <4>5. SoundAt(b[k], p, local, NoLink, versions)
            BY <1>20, <4>4 DEF SoundAt
      <4>6. QED
            BY <4>1, <4>5
    <3>5. \A k \in 1..Len(b) : Sound(b[k], local, NoLink, versions)
          BY <3>4 DEF Sound
    <3>6. QED
          BY <1>28, <3>1, <3>3, <3>5
  <2>2. QED
        BY <1>1, <1>23, <1>43, <2>1 DEF IInv, Frames
<1>46. Deltas'
  <2>1. \A k \in 1..Len(z) : DeltaFresh(z[k], remote, versions, shaken)
        BY <1>30 DEF DeltaFresh
  <2>2. QED
        BY <1>1, <1>23, <1>32, <2>1 DEF Deltas
<1>47. Sigs'
  <2>1. \A k \in 1..Len(snd) : snd[k] \in Paths
        BY <1>12, ElementOfSeq
  <2>2. \A k \in 1..Len(snd) : sigs'[snd[k]] = <<>>
        BY <1>34, <2>1
  <2>3. QED
        BY <1>23, <2>2 DEF Sigs, SigFresh
<1>48. Answers'
  <2>1. ASSUME apc = "serve" PROVE Answered(due, z, <<>>, remote, shaken)
    <3>1. f = <<>>
          BY <1>1, <1>16, <2>1 DEF IInv, Stages
    <3>2. w = a
          BY <1>21, <1>24, <3>1
    <3>3. \A k \in 1..Len(a) : a[k].tag = "MKDIR"
          BY <1>19
    <3>4. due \in Seq(Paths)
          BY <1>15
    <3>5. z = a \o b
          BY <1>22, <3>2
    <3>6. QED
          BY <1>18, <1>24, <3>3, <3>4, <3>5, AllDue
  <2>2. QED
        BY <1>1, <1>14, <1>23, <1>33, <2>1 DEF Answers
<1>49. QED
       BY <1>35, <1>36, <1>38, <1>39, <1>40, <1>41, <1>42, <1>44, <1>45, <1>46, <1>47, <1>48 DEF IInv

-----------------------------------------------------------------------------
(***************************************************************************)
(* The agent answers and changes its tree.                                 *)
(***************************************************************************)

\* The frames of a plan are answered in order.
LEMMA AnsweredOne ==
  ASSUME NEW due \in Seq(Paths), NEW frames \in Seq(AgentFrame), frames # <<>>,
         NEW answers \in Seq(ClientFrame), NEW r, NEW o, Answered(due, frames, answers, r, o),
         frames[1].tag = "SIG_REQ"
  PROVE  /\ Len(answers) + 1 \in 1..Len(due)
         /\ frames[1].paths[1] = due[Len(answers) + 1]
         /\ \A e \in ClientFrame :
              e.tag = "SIG" /\ SigFresh(due[Len(answers) + 1], e.sig, r, o) =>
                Answered(due, Rest(frames), Append(answers, e), r, o)
<1>1. PICK n \in Nat, l \in Nat, m \in Nat : n = Len(answers) /\ l = Len(due) /\ m = Len(frames)
      BY LenProperties
<1>2. PICK h \in AgentFrame : h = frames[1]
      BY TailOf
<1>3. m > 0 /\ 1 \in 1..m
  <2>1. m > 0
        BY <1>1, EmptySeq
  <2>2. QED
        BY <2>1
<1>4. /\ n <= l
      /\ \A k \in 1..n : answers[k].tag = "SIG" /\ SigFresh(due[k], answers[k].sig, r, o)
      /\ n < l =>
           /\ m > 0 /\ frames[m].tag = "SIG_REQ"
           /\ frames[m].paths = SubSeq(due, n + 1, l)
           /\ \A k \in 1..(m - 1) : frames[k].tag = "MKDIR"
      /\ n = l => \A k \in 1..m : frames[k].tag # "SIG_REQ"
      BY <1>1 DEF Answered
<1>5. n < l
  <2>1. n # l
        BY <1>2, <1>3, <1>4
  <2>2. QED
        BY <1>1, <1>4, <2>1
<1>6. m = 1
  <2>1. ASSUME m # 1 PROVE FALSE
    <3>1. 1 \in 1..(m - 1)
          BY <1>3, <2>1
    <3>2. frames[1].tag = "MKDIR"
          BY <1>4, <1>5, <3>1
    <3>3. QED
          BY <3>2
  <2>2. QED
        BY <2>1
<1>7. PICK ps : ps = SubSeq(due, n + 1, l)
      OBVIOUS
<1>8. h.paths = ps
      BY <1>2, <1>4, <1>5, <1>6, <1>7
<1>9. /\ ps \in Seq(Paths) /\ Len(ps) = l - n
      /\ \A j \in 1..(l - n) : ps[j] = due[n + j]
  <2>1. n + 1 \in Nat \ {0} /\ l <= Len(due) /\ n + 1 <= l
        BY <1>1, <1>5
  <2>2. /\ ps \in Seq(Paths) /\ Len(ps) = (l - (n + 1)) + 1
        /\ \A j \in 1..((l - (n + 1)) + 1) : ps[j] = due[((n + 1) + j) - 1]
        BY <1>7, <2>1, MiddlePart
  <2>3. (l - (n + 1)) + 1 = l - n /\ \A j \in 1..(l - n) : ((n + 1) + j) - 1 = n + j
        BY <1>1
  <2>4. QED
        BY <2>2, <2>3
<1>10. n + 1 \in 1..l /\ ps[1] = due[n + 1]
  <2>1. 1 \in 1..(l - n) /\ n + 1 \in 1..l
        BY <1>1, <1>5
  <2>2. QED
        BY <1>9, <2>1
<1>11. PICK g : g = Rest(frames)
       OBVIOUS
<1>12. /\ g \in Seq(AgentFrame)
       /\ Len(h.paths) <= 1 => g = Tail(frames)
       /\ ~ Len(h.paths) <= 1 =>
            /\ Len(g) = Len(frames) /\ g[1].tag = h.tag /\ g[1].paths = Tail(h.paths)
       BY <1>2, <1>11, RestWithin
<1>13. ASSUME NEW e \in ClientFrame, e.tag = "SIG", SigFresh(due[n + 1], e.sig, r, o)
       PROVE  Answered(due, g, Append(answers, e), r, o)
  <2>1. PICK d : d = Append(answers, e)
        OBVIOUS
  <2>2. /\ d \in Seq(ClientFrame) /\ Len(d) = n + 1 /\ d[n + 1] = e /\ \A k \in 1..n : d[k] = answers[k]
        BY <1>1, <2>1, OneMore
  <2>3. ASSUME NEW k \in 1..(n + 1) PROVE d[k].tag = "SIG" /\ SigFresh(due[k], d[k].sig, r, o)
    <3>1. CASE k = n + 1
          BY <1>13, <2>2, <3>1
    <3>2. CASE k \in 1..n
          BY <1>4, <2>2, <3>2
    <3>3. QED
          BY <3>1, <3>2
  <2>4. CASE Len(ps) <= 1
    <3>1. n + 1 = l
          BY <1>5, <1>9, <2>4
    <3>2. g = Tail(frames)
          BY <1>8, <1>12, <2>4
    <3>3. Len(g) = 0
      <4>1. Len(Tail(frames)) = Len(frames) - 1
            BY TailOf
      <4>2. QED
            BY <1>1, <1>6, <3>2, <4>1
    <3>4. 1..0 = {} /\ n + 1 <= l /\ ~ (n + 1 < l)
          BY <3>1
    <3>5. QED
          BY <1>1, <2>1, <2>2, <2>3, <3>3, <3>4 DEF Answered
  <2>5. CASE ~ Len(ps) <= 1
    <3>1. Len(g) = 1 /\ g[1].tag = "SIG_REQ" /\ g[1].paths = Tail(ps)
          BY <1>1, <1>2, <1>6, <1>8, <1>12, <2>5
    <3>2. n + 1 < l
          BY <1>5, <1>9, <2>5
    <3>3. Tail(ps) = SubSeq(due, (n + 1) + 1, l)
      <4>1. PICK x : x = Tail(ps)
            OBVIOUS
      <4>2. PICK y : y = SubSeq(due, (n + 1) + 1, l)
            OBVIOUS
      <4>3. ps # <<>>
            BY <1>9, <2>5, EmptyFrames
      <4>4. /\ x \in Seq(Paths) /\ Len(x) = Len(ps) - 1
            /\ \A j \in 1..(Len(ps) - 1) : x[j] = ps[j + 1]
            BY <1>9, <4>1, <4>3, TailOf
      <4>5. (n + 1) + 1 \in Nat \ {0} /\ l <= Len(due) /\ (n + 1) + 1 <= l
            BY <1>1, <3>2
      <4>6. /\ y \in Seq(Paths) /\ Len(y) = (l - ((n + 1) + 1)) + 1
            /\ \A j \in 1..((l - ((n + 1) + 1)) + 1) : y[j] = due[(((n + 1) + 1) + j) - 1]
            BY <4>2, <4>5, MiddlePart
      <4>7. PICK i \in Nat : i + 1 = l - n
        <5>1. (l - n) - 1 \in Nat /\ ((l - n) - 1) + 1 = l - n
              BY <1>1, <3>2
        <5>2. QED
              BY <5>1
      <4>8. Len(x) = i /\ Len(y) = i
        <5>1. Len(ps) - 1 = i
          <6>1. Len(ps) = l - n
                BY <1>9
          <6>2. QED
                BY <4>7, <6>1
        <5>2. (l - ((n + 1) + 1)) + 1 = i
              BY <1>1, <4>7
        <5>3. QED
              BY <4>4, <4>6, <5>1, <5>2
      <4>9. ASSUME NEW j \in 1..i PROVE x[j] = y[j]
        <5>1. x[j] = ps[j + 1]
              BY <1>9, <4>4, <4>7
        <5>2. ps[j + 1] = due[n + (j + 1)]
          <6>1. j + 1 \in 1..(l - n)
                BY <4>7
          <6>2. QED
                BY <1>9, <6>1
        <5>3. y[j] = due[n + (j + 1)]
          <6>1. j \in 1..((l - ((n + 1) + 1)) + 1) /\ (((n + 1) + 1) + j) - 1 = n + (j + 1)
                BY <1>1, <4>7
          <6>2. QED
                BY <4>6, <6>1
        <5>4. QED
              BY <5>1, <5>2, <5>3
      <4>10. x = y
             BY <4>4, <4>6, <4>8, <4>9, SeqEqual
      <4>11. QED
             BY <4>1, <4>2, <4>10
    <3>4. 1 > 0 /\ 1..(1 - 1) = {} /\ n + 1 <= l /\ n + 1 # l
          BY <3>2
    <3>5. QED
          BY <1>1, <2>1, <2>2, <2>3, <3>1, <3>2, <3>3, <3>4 DEF Answered
  <2>6. QED
        BY <2>4, <2>5
<1>14. QED
       BY <1>1, <1>2, <1>8, <1>10, <1>11, <1>13

LEMMA AnswerSigKeeps == IInv /\ AnswerSig => IInv'
<1> SUFFICES ASSUME IInv, AnswerSig PROVE IInv'
    OBVIOUS
<1>1. /\ apc = "serve" /\ toAgent # <<>> /\ toAgent' = Rest(toAgent)
      /\ UNCHANGED <<local, remote, now, lag, cpc, walk, list, want, check, sigs, sends, reading, apc,
                     stray, used, versions, shaken>>
      BY DEF AnswerSig, world, client, history
<1>2. PICK f \in Seq(AgentFrame) : f = toAgent
      BY DEF IInv, Types
<1>3. f # <<>> /\ Head(f) = f[1] /\ f[1] \in AgentFrame /\ f[1].tag = "SIG_REQ" /\ 1 \in 1..Len(f)
  <2>1. f # <<>> /\ Head(f) = f[1] /\ f[1] \in AgentFrame /\ Len(f) \in Nat \ {0}
        BY <1>1, <1>2, TailOf
  <2>2. f[1].tag = "SIG_REQ"
        BY <1>2, <2>1 DEF AnswerSig
  <2>3. QED
        BY <2>1, <2>2
<1>4. PICK p \in Paths : p = f[1].paths[1] /\ p = Head(f[1].paths)
      BY <1>3, FrameKinds
<1>5. PICK data : data = ReadNoFollow(remote, p)
      OBVIOUS
<1>6. /\ data \in Seq(Blocks)
      /\ (\A q \in Above(p) : remote[q].kind # "link") =>
              data = <<>> \/ (remote[p].kind = "file" /\ data = remote[p].data)
      BY <1>5, ReadEffect DEF IInv, Types
<1>7. PICK e : e = [tag |-> "SIG", sig |-> data]
      OBVIOUS
<1>8. e \in ClientFrame /\ e.tag = "SIG" /\ e.sig = data
      BY <1>6, <1>7 DEF ClientFrame
<1>9. PICK c \in Seq(ClientFrame) : c = toClient
      BY DEF IInv, Types
<1>10. PICK d : d = Append(c, e)
       OBVIOUS
<1>11. toClient' = d
       BY <1>2, <1>3, <1>4, <1>5, <1>7, <1>9, <1>10 DEF AnswerSig, Signature
<1>12. /\ d \in Seq(ClientFrame) /\ Len(d) = Len(c) + 1 /\ Len(c) \in Nat /\ d # <<>>
       /\ d[Len(c) + 1] = e /\ \A k \in 1..Len(c) : d[k] = c[k]
       /\ \A k \in 1..Len(d) : k \in 1..Len(c) \/ k = Len(c) + 1
       BY <1>8, <1>10, AnswerMore
<1>13. PICK g : g = Rest(f)
       OBVIOUS
<1>14. g \in Seq(AgentFrame) /\ Within(g, f)
       BY <1>3, <1>13, RestWithin
<1>15. toAgent' = g
       BY <1>1, <1>2, <1>13
<1>16. /\ \A T : (\A k \in 1..Len(f) : f[k].tag \in T) => \A k \in 1..Len(g) : g[k].tag \in T
       /\ \A l, N, v : (\A k \in 1..Len(f) : Sound(f[k], l, N, v)) =>
                         \A k \in 1..Len(g) : Sound(g[k], l, N, v)
       /\ \A r, v, o : (\A k \in 1..Len(f) : DeltaFresh(f[k], r, v, o)) =>
                         \A k \in 1..Len(g) : DeltaFresh(g[k], r, v, o)
       /\ \A w, s : (\A k \in 1..Len(f) : OwnFrame(f[k], w, s)) =>
                      \A k \in 1..Len(g) : OwnFrame(g[k], w, s)
       /\ Ordering(f) => Ordering(g)
       BY <1>14, WithinKeeps
<1>17. cpc \notin {"idle", "list"}
       BY <1>1 DEF IInv, Stages
<1>18. Types'
       BY <1>1, <1>11, <1>12, <1>14, <1>15 DEF IInv, Types, Active
<1>19. Stages'
  <2>1. cpc \in {"sigs", "send"} => \A k \in 1..Len(g) : g[k].tag \notin {"DELETE", "PLAN_DONE"}
    <3>1. PICK T : T = {"SYNC_REQ", "MKDIR", "SIG_REQ", "PUT"}
          OBVIOUS
    <3>2. \A k \in 1..Len(f) : f[k].tag \in T \cup {"DELETE", "PLAN_DONE"}
          BY <3>1, FrameKinds, ElementOfSeq
    <3>3. cpc \in {"sigs", "send"} => \A k \in 1..Len(f) : f[k].tag \in T
          BY <1>2, <3>2 DEF IInv, Stages
    <3>4. cpc \in {"sigs", "send"} => \A k \in 1..Len(g) : g[k].tag \in T
          BY <3>3, <1>16
    <3>5. QED
          BY <3>1, <3>4
  <2>2. cpc = "sigs" /\ want \o check # <<>> => \A k \in 1..Len(g) : g[k].tag # "PUT"
    <3>1. PICK T : T = {"SYNC_REQ", "PLAN_DONE", "MKDIR", "SIG_REQ", "DELETE"}
          OBVIOUS
    <3>2. \A k \in 1..Len(f) : f[k].tag \in T \cup {"PUT"}
          BY <3>1, FrameKinds, ElementOfSeq
    <3>3. cpc = "sigs" /\ want \o check # <<>> => \A k \in 1..Len(f) : f[k].tag \in T
          BY <1>2, <3>2 DEF IInv, Stages
    <3>4. cpc = "sigs" /\ want \o check # <<>> => \A k \in 1..Len(g) : g[k].tag \in T
          BY <3>3, <1>16
    <3>5. QED
          BY <3>1, <3>4
  <2>3. cpc = "send" => want = <<>> /\ check = <<>>
        BY DEF IInv, Stages
  <2>4. QED
        BY <1>1, <1>15, <1>17, <2>1, <2>2, <2>3 DEF Stages
<1>20. Planned'
       BY <1>1 DEF IInv, Planned
<1>21. Opened'
  <2>1. toClient # <<>> => d[1] = c[1]
    <3>1. ASSUME toClient # <<>> PROVE d[1] = c[1]
      <4>1. 1 \in 1..Len(c)
        <5>1. Len(c) > 0
              BY <1>9, <3>1, EmptySeq
        <5>2. QED
              BY <5>1
      <4>2. QED
            BY <1>12, <4>1
    <3>2. QED
          BY <3>1
  <2>2. QED
        BY <1>1, <1>9, <1>11, <1>12, <2>1 DEF IInv, Opened
<1>22. Ordering(toAgent)' /\ Ordering(stray)'
  <2>1. Ordering(f)
        BY <1>2 DEF IInv
  <2>2. Ordering(g)
        BY <1>16, <2>1
  <2>3. Ordering(toAgent)'
        BY <1>15, <2>2 DEF Ordering
  <2>4. Ordering(stray)'
        BY <1>1 DEF IInv, Ordering
  <2>5. QED
        BY <2>3, <2>4
<1>23. Own'
  <2>1. cpc \in Active => \A k \in 1..Len(g) : OwnFrame(g[k], walk, sends)
        BY <1>2, <1>16 DEF IInv, Own
  <2>2. QED
        BY <1>1, <1>15, <2>1 DEF Own
<1>24. Sides' /\ Walked'
       BY <1>1 DEF IInv, Sides, Walked, Covered, Apart
<1>25. NoLink' = NoLink /\ Covered' = Covered
       BY <1>1 DEF NoLink, Covered
<1>26. Lists'
  <2>1. Covered => /\ Listed(list, NoLink)
                   /\ \A k \in 1..Len(c) : c[k].tag = "LIST" => Listed(c[k].tree, NoLink)
        BY <1>9 DEF IInv, Lists
  <2>2. Covered => \A k \in 1..Len(d) : d[k].tag = "LIST" => Listed(d[k].tree, NoLink)
        BY <1>8, <1>12, <2>1
  <2>3. QED
        BY <1>1, <1>11, <1>25, <2>1, <2>2 DEF Lists
<1>27. Frames'
  <2>1. Covered => /\ \A k \in 1..Len(g) : Sound(g[k], local, NoLink, versions)
                   /\ \A k \in 1..Len(stray) : Sound(stray[k], local, NoLink, versions)
        BY <1>2, <1>16 DEF IInv, Frames
  <2>2. QED
        BY <1>1, <1>15, <1>25, <2>1 DEF Frames
<1>28. Deltas'
  <2>1. \A k \in 1..Len(g) : DeltaFresh(g[k], remote, versions, shaken)
        BY <1>1, <1>2, <1>16 DEF IInv, Deltas
  <2>2. QED
        BY <1>1, <1>15, <2>1 DEF Deltas
<1>29. Sigs'
       BY <1>1 DEF IInv, Sigs
<1>30. Answers'
  <2>1. ASSUME cpc = "sigs" PROVE Answered(want \o check, g, d, remote, shaken)
    <3>1. PICK due \in Seq(Paths) : due = want \o check
          BY DueOf DEF IInv, Types
    <3>2. Answered(due, f, c, remote, shaken)
          BY <1>1, <1>2, <1>9, <2>1, <3>1 DEF IInv, Answers
    <3>3. /\ Len(c) + 1 \in 1..Len(due) /\ p = due[Len(c) + 1]
          /\ \A x \in ClientFrame : x.tag = "SIG" /\ SigFresh(due[Len(c) + 1], x.sig, remote, shaken) =>
               Answered(due, Rest(f), Append(c, x), remote, shaken)
          BY <1>3, <1>4, <3>2, AnsweredOne
    <3>4. walk[p].kind = "file"
      <4>1. PICK u \in Seq(Paths), v \in Seq(Paths) : u = want /\ v = check
            BY DEF IInv, Types
      <4>2. due = u \o v
            BY <3>1, <4>1
      <4>3. (\E j \in 1..Len(u) : p = u[j]) \/ (\E j \in 1..Len(v) : p = v[j])
            BY <3>3, <4>2, DueOf
      <4>4. QED
            BY <4>1, <4>3 DEF IInv, Planned
    <3>5. SigFresh(p, data, remote, shaken)
      <4>1. CASE ~ Covered
            BY <4>1 DEF Covered, SigFresh
      <4>2. CASE Covered
        <5>1. walk[p] # Absent
              BY <3>4, MakesEntries
        <5>2. \A q \in Above(p) : MayBeDir(q, NoLink, versions)
              BY <4>2, <5>1, WalkedPlace
        <5>3. \A q \in Above(p) : remote[q].kind # "link"
              BY <5>2 DEF MayBeDir, NoLink, Linkless
        <5>4. QED
              BY <1>6, <5>3 DEF SigFresh
      <4>3. QED
            BY <4>1, <4>2
    <3>6. QED
          BY <1>8, <1>10, <1>13, <3>1, <3>3, <3>5
  <2>2. QED
        BY <1>1, <1>11, <1>15, <2>1 DEF Answers
<1>31. QED
       BY <1>18, <1>19, <1>20, <1>21, <1>22, <1>23, <1>24, <1>26, <1>27, <1>28, <1>29, <1>30 DEF IInv


-----------------------------------------------------------------------------
(***************************************************************************)
(* The remote tree changes.                                                *)
(***************************************************************************)

\* The PUTs behind a frame are of other paths.
LEMMA OthersPut ==
  ASSUME NEW s \in Seq(AgentFrame), s # <<>>, Ordering(s),
         NEW k \in 1..Len(Rest(s)), Rest(s)[k].tag = "PUT"
  PROVE  /\ s[1].tag # "DELETE"
         /\ s[1].tag = "PUT" => s[1].paths[1] # Rest(s)[k].paths[1]
<1>1. PICK g : g = Rest(s)
      OBVIOUS
<1>2. /\ g \in Seq(AgentFrame)
      /\ Len(s[1].paths) <= 1 => g = Tail(s)
      /\ ~ Len(s[1].paths) <= 1 =>
           /\ s[1].tag \in {"MKDIR", "SIG_REQ", "DELETE"}
           /\ Len(g) = Len(s) /\ g[1].tag = s[1].tag
           /\ \A j \in 2..Len(s) : g[j] = s[j]
      BY <1>1, RestWithin
<1>3. /\ Len(Tail(s)) = Len(s) - 1 /\ Len(s) \in Nat \ {0}
      /\ \A j \in 1..(Len(s) - 1) : Tail(s)[j] = s[j + 1]
      /\ s[1] \in AgentFrame
      BY TailOf
<1>4. PICK j \in 1..Len(s) : 1 < j /\ g[k] = s[j]
  <2>1. CASE Len(s[1].paths) <= 1
    <3>1. k \in 1..(Len(s) - 1) /\ g[k] = s[k + 1]
          BY <1>1, <1>2, <1>3, <2>1
    <3>2. k + 1 \in 1..Len(s) /\ 1 < k + 1
          BY <1>3, <3>1
    <3>3. QED
          BY <3>1, <3>2
  <2>2. CASE ~ Len(s[1].paths) <= 1
    <3>1. k # 1
          BY <1>1, <1>2, <2>2
    <3>2. k \in 2..Len(s) /\ k \in 1..Len(s) /\ 1 < k
          BY <1>1, <1>2, <1>3, <2>2, <3>1
    <3>3. QED
          BY <1>2, <2>2, <3>2
  <2>3. QED
        BY <2>1, <2>2
<1>5. s[j].tag = "PUT" /\ s[j] \in AgentFrame
      BY <1>1, <1>4, ElementOfSeq
<1>6. 1 \in 1..Len(s)
      BY <1>3
<1>7. /\ s[1].tag # "DELETE"
      /\ s[1].tag = "PUT" => s[1].paths # s[j].paths
      BY <1>4, <1>5, <1>6 DEF Ordering
<1>8. s[j].paths = <<s[j].paths[1]>> /\ (s[1].tag = "PUT" => s[1].paths = <<s[1].paths[1]>>)
      BY <1>3, <1>5, FrameKinds
<1>9. QED
      BY <1>1, <1>4, <1>7, <1>8

\* Where a frame changes a file.
LEMMA ChangesFile ==
  ASSUME NEW t, NEW f, NEW q, NEW e, Effect(t, f, q, e)
  PROVE  \/ e = t[q] \/ t[q].kind # "file"
         \/ q = f.paths[1] /\ f.tag \in {"DELETE", "PUT"}
  BY MakesEntries DEF Effect

LEMMA DeltaSurvives ==
  ASSUME NEW t, NEW f, f.tag # "DELETE", NEW x \in AgentFrame, x.tag = "PUT",
         f.tag = "PUT" => f.paths[1] # x.paths[1],
         NEW u, \A q \in Paths : Effect(t, f, q, u[q]),
         NEW v, NEW o, DeltaFresh(x, t, v, o)
  PROVE  DeltaFresh(x, u, v, o)
<1>1. x.paths[1] \in Paths
      BY FrameKinds
<1>2. u[x.paths[1]] = t[x.paths[1]] \/ t[x.paths[1]].kind # "file"
      BY <1>1, ChangesFile
<1>3. QED
      BY <1>2 DEF DeltaFresh

\* The frames that are left answer what was asked for.
LEMMA AnsweredRest ==
  ASSUME NEW due \in Seq(Paths), NEW s \in Seq(AgentFrame), s # <<>>,
         NEW answers \in Seq(ClientFrame), NEW r, NEW o, Answered(due, s, answers, r, o),
         s[1].tag # "SIG_REQ", NEW r2,
         \A k \in 1..Len(due) : \/ r2[due[k]] = r[due[k]] \/ due[k] \in o
                                \/ r[due[k]].kind # "file"
  PROVE  Answered(due, Rest(s), answers, r2, o)
<1>1. PICK n \in Nat, l \in Nat, m \in Nat : n = Len(answers) /\ l = Len(due) /\ m = Len(s)
      BY LenProperties
<1>2. PICK g : g = Rest(s)
      OBVIOUS
<1>3. /\ g \in Seq(AgentFrame) /\ Within(g, s)
      /\ Len(s[1].paths) <= 1 => g = Tail(s)
      /\ ~ Len(s[1].paths) <= 1 =>
           Len(g) = Len(s) /\ g[1].tag = s[1].tag /\ \A k \in 2..Len(s) : g[k] = s[k]
      BY <1>2, RestWithin
<1>4. /\ Len(Tail(s)) = Len(s) - 1 /\ Len(s) \in Nat \ {0}
      /\ \A j \in 1..(Len(s) - 1) : Tail(s)[j] = s[j + 1]
      BY TailOf
<1>5. /\ n <= l
      /\ \A k \in 1..n : answers[k].tag = "SIG" /\ SigFresh(due[k], answers[k].sig, r, o)
      /\ n < l =>
           /\ m > 0 /\ s[m].tag = "SIG_REQ"
           /\ s[m].paths = SubSeq(due, n + 1, l)
           /\ \A k \in 1..(m - 1) : s[k].tag = "MKDIR"
      /\ n = l => \A k \in 1..m : s[k].tag # "SIG_REQ"
      BY <1>1 DEF Answered
<1>6. ASSUME NEW k \in 1..n PROVE answers[k].tag = "SIG" /\ SigFresh(due[k], answers[k].sig, r2, o)
  <2>1. k \in 1..Len(due)
        BY <1>1, <1>5
  <2>2. QED
        BY <1>5, <2>1, SigStays
<1>7. CASE n < l
  <2>1. m # 1
        BY <1>5, <1>7
  <2>2. 1 \in 1..(m - 1) /\ m - 1 > 0 /\ m > 0
        BY <1>1, <1>4, <2>1
  <2>3. CASE Len(s[1].paths) <= 1
    <3>1. Len(g) = m - 1 /\ \A j \in 1..(m - 1) : g[j] = s[j + 1]
          BY <1>1, <1>3, <1>4, <2>3
    <3>2. g[m - 1] = s[m]
      <4>1. m - 1 \in 1..(m - 1) /\ (m - 1) + 1 = m
            BY <2>2
      <4>2. QED
            BY <3>1, <4>1
    <3>3. ASSUME NEW k \in 1..((m - 1) - 1) PROVE g[k].tag = "MKDIR"
      <4>1. k \in 1..(m - 1) /\ k + 1 \in 1..(m - 1)
            OBVIOUS
      <4>2. QED
            BY <1>5, <1>7, <3>1, <4>1
    <3>4. n # l
          BY <1>7
    <3>5. QED
          BY <1>1, <1>2, <1>5, <1>6, <1>7, <2>2, <3>1, <3>2, <3>3, <3>4 DEF Answered
  <2>4. CASE ~ Len(s[1].paths) <= 1
    <3>1. Len(g) = m /\ g[1].tag = "MKDIR" /\ \A j \in 2..m : g[j] = s[j]
          BY <1>1, <1>3, <1>5, <1>7, <2>2, <2>4
    <3>2. g[m] = s[m]
      <4>1. m \in 2..m
            BY <2>2
      <4>2. QED
            BY <3>1, <4>1
    <3>3. ASSUME NEW k \in 1..(m - 1) PROVE g[k].tag = "MKDIR"
      <4>1. k = 1 \/ k \in 2..m
            OBVIOUS
      <4>2. QED
            BY <1>5, <1>7, <3>1, <4>1
    <3>4. n # l
          BY <1>7
    <3>5. QED
          BY <1>1, <1>2, <1>5, <1>6, <1>7, <2>2, <3>1, <3>2, <3>3, <3>4 DEF Answered
  <2>5. QED
        BY <2>3, <2>4
<1>8. CASE n = l
  <2>1. PICK T : T = {"SYNC_REQ", "PLAN_DONE", "MKDIR", "DELETE", "PUT"}
        OBVIOUS
  <2>2. \A k \in 1..Len(s) : s[k].tag \in T \cup {"SIG_REQ"}
        BY <2>1, FrameKinds, ElementOfSeq
  <2>3. \A k \in 1..Len(s) : s[k].tag \in T
        BY <1>1, <1>5, <1>8, <2>2
  <2>4. \A k \in 1..Len(g) : g[k].tag \in T
        BY <1>3, <2>3, WithinKeeps
  <2>5. \A k \in 1..Len(g) : g[k].tag # "SIG_REQ"
        BY <2>1, <2>4
  <2>6. ~ (n < l) /\ n <= l
        BY <1>8
  <2>7. QED
        BY <1>1, <1>2, <1>6, <1>8, <2>5, <2>6 DEF Answered
<1>9. QED
      BY <1>1, <1>5, <1>7, <1>8

\* What does not depend on where the processes are.
LEMMA RemoteKeeps ==
  ASSUME IInv, UNCHANGED <<local, walk, list, versions>>, shaken \subseteq shaken', (shaken \subseteq Paths)',
         NEW g \in Seq(AgentFrame), toAgent' = g, Within(g, toAgent),
         NEW y \in Seq(AgentFrame), stray' = y, Within(y, stray),
         NEW d \in Seq(ClientFrame), toClient' = d,
         \A k \in 1..Len(d) : \/ d[k].tag # "LIST" \/ \E j \in 1..Len(toClient) : d[k] = toClient[j],
         Covered' => NoLink \subseteq NoLink' /\ Apart(local, remote)'
  PROVE  /\ Sides' /\ Walked' /\ Lists' /\ Frames' /\ Ordering(toAgent)' /\ Ordering(stray)'
         /\ Covered' => Covered
<1>1. PICK f \in Seq(AgentFrame), z \in Seq(AgentFrame) : f = toAgent /\ z = stray
      BY DEF IInv, Types
<1>2. Covered' => Covered
      BY DEF Covered
<1>3. PICK N, M : N = NoLink /\ M = NoLink'
      OBVIOUS
<1>4. PICK c : c = toClient
      OBVIOUS
<1>5. Sides'
      BY <1>2 DEF IInv, Sides, Apart
<1>6. Walked'
      BY DEF IInv, Walked
<1>7. Lists'
  <2>1. Covered' => N \subseteq M
        BY <1>3
  <2>2. Covered' => /\ Listed(list, N)
                    /\ \A k \in 1..Len(c) : c[k].tag = "LIST" => Listed(c[k].tree, N)
        BY <1>2, <1>3, <1>4 DEF IInv, Lists
  <2>3. Covered' => Listed(list, M)
        BY <2>1, <2>2 DEF Listed
  <2>4. ASSUME Covered', NEW k \in 1..Len(d), d[k].tag = "LIST" PROVE Listed(d[k].tree, M)
    <3>1. PICK j \in 1..Len(c) : d[k] = c[j]
          BY <1>4, <2>4
    <3>2. Listed(c[j].tree, N)
          BY <2>2, <2>4, <3>1
    <3>3. QED
          BY <2>1, <2>4, <3>1, <3>2 DEF Listed
  <2>5. QED
        BY <1>3, <2>3, <2>4 DEF Lists
<1>8. Frames'
  <2>1. Covered' => /\ \A k \in 1..Len(f) : Sound(f[k], local, N, versions)
                    /\ \A k \in 1..Len(z) : Sound(z[k], local, N, versions)
        BY <1>1, <1>2, <1>3 DEF IInv, Frames
  <2>2. Covered' => \A k \in 1..Len(g) : Sound(g[k], local, N, versions)
        BY <1>1, <2>1, WithinKeeps
  <2>3. Covered' => \A k \in 1..Len(y) : Sound(y[k], local, N, versions)
        BY <1>1, <2>1, WithinKeeps
  <2>4. Covered' => N \subseteq M
        BY <1>3
  <2>5. ASSUME NEW x \in AgentFrame, Covered', Sound(x, local, N, versions)
        PROVE  Sound(x, local', M, versions')
        BY <2>4, <2>5, SoundStays
  <2>6. Covered' => \A k \in 1..Len(g) : Sound(g[k], local', M, versions')
        BY <2>2, <2>5, ElementOfSeq
  <2>7. Covered' => \A k \in 1..Len(y) : Sound(y[k], local', M, versions')
        BY <2>3, <2>5, ElementOfSeq
  <2>8. QED
        BY <1>3, <2>6, <2>7 DEF Frames
<1>9. Ordering(toAgent)' /\ Ordering(stray)'
  <2>1. Ordering(f) /\ Ordering(z)
        BY <1>1 DEF IInv
  <2>2. Ordering(g)
        BY <1>1, <2>1, WithinKeeps
  <2>3. Ordering(y)
        BY <1>1, <2>1, WithinKeeps
  <2>4. QED
        BY <2>2, <2>3 DEF Ordering
<1>10. QED
       BY <1>2, <1>5, <1>6, <1>7, <1>8, <1>9

\* A frame of the sync under way is applied to the remote tree.
LEMMA ChangeKeeps == IInv /\ Change => IInv'
<1> SUFFICES ASSUME IInv, Change PROVE IInv'
    OBVIOUS
<1>1. /\ apc = "serve" /\ toAgent # <<>>
      /\ UNCHANGED <<local, now, lag, cpc, walk, list, want, check, sigs, sends, reading, stray, used,
                     versions, shaken>>
      BY DEF Change, client, history
<1>2. PICK s \in Seq(AgentFrame), y \in Seq(AgentFrame), c \in Seq(ClientFrame) :
        s = toAgent /\ y = stray /\ c = toClient
      BY DEF IInv, Types
<1>3. /\ s # <<>> /\ Head(s) = s[1] /\ s[1] \in AgentFrame /\ 1 \in 1..Len(s)
      /\ s[1].tag \in {"MKDIR", "DELETE", "PUT"}
  <2>1. s # <<>> /\ Head(s) = s[1] /\ s[1] \in AgentFrame /\ Len(s) \in Nat \ {0}
        BY <1>1, <1>2, TailOf
  <2>2. s[1].tag \in {"MKDIR", "DELETE", "PUT"}
        BY <1>2, <2>1 DEF Change
  <2>3. QED
        BY <2>1, <2>2
<1>4. PICK f \in AgentFrame : f = s[1]
      BY <1>3
<1>5. PICK t : t = remote
      OBVIOUS
<1>6. PICK w : w = Apply(t, f)
      OBVIOUS
<1>7. WellFormed(t) /\ Confined(t) /\ now \in Int /\ lag \in Int
  <2>1. now \in 1..MaxTime /\ lag \in Nat /\ MaxTime \in Nat
        BY ContentsAssumption DEF IInv, Types
  <2>2. QED
        BY <1>5, <2>1 DEF IInv, Types
<1>8. /\ w \in Outcome /\ WellFormed(w.tree) /\ Confined(w.tree)
      /\ Free(t, f.paths[1]) => \A q \in Paths : Effect(t, f, q, w.tree[q])
      BY <1>3, <1>4, <1>6, <1>7, ApplyEffect
<1>9. PICK u : u = w.tree
      OBVIOUS
<1>10. remote' = u
       BY <1>2, <1>3, <1>4, <1>5, <1>6, <1>9 DEF Change
<1>11. PICK e : e = [tag |-> "ERROR"]
       OBVIOUS
<1>12. e \in ClientFrame /\ e.tag = "ERROR"
       BY <1>11 DEF ClientFrame
<1>13. \/ w.ok /\ toAgent' = Rest(s) /\ apc' = "serve" /\ toClient' = c
       \/ toAgent' = <<>> /\ apc' = "gone" /\ toClient' = Append(c, e)
  <2>1. CASE w.ok
        BY <1>1, <1>2, <1>3, <1>4, <1>5, <1>6, <2>1 DEF Change
  <2>2. CASE ~ w.ok
        BY <1>1, <1>2, <1>3, <1>4, <1>5, <1>6, <1>11, <2>2 DEF Change
  <2>3. QED
        BY <2>1, <2>2
<1>14. PICK g \in Seq(AgentFrame) :
         /\ toAgent' = g /\ Within(g, s)
         /\ apc' \in {"serve", "gone"} /\ (apc' = "serve" => g = Rest(s))
  <2>1. Rest(s) \in Seq(AgentFrame) /\ Within(Rest(s), s)
        BY <1>3, RestWithin
  <2>2. <<>> \in Seq(AgentFrame) /\ Within(<<>>, s)
        BY EmptyFrames, NoneWithin
  <2>3. QED
        BY <1>13, <2>1, <2>2
<1>15. PICK d \in Seq(ClientFrame) :
         /\ toClient' = d /\ (apc' = "serve" => d = c)
         /\ c # <<>> => d # <<>> /\ d[1] = c[1]
         /\ \A k \in 1..Len(d) : d[k].tag = "ERROR" \/ \E j \in 1..Len(c) : d[k] = c[j]
  <2>1. CASE toClient' = c
    <3>1. \A k \in 1..Len(c) : \E j \in 1..Len(c) : c[k] = c[j]
          OBVIOUS
    <3>2. QED
          BY <2>1, <3>1
  <2>2. CASE apc' = "gone" /\ toClient' = Append(c, e)
    <3>1. PICK d : d = Append(c, e)
          OBVIOUS
    <3>2. /\ d \in Seq(ClientFrame) /\ d # <<>> /\ Len(c) \in Nat
          /\ d[Len(c) + 1] = e /\ \A k \in 1..Len(c) : d[k] = c[k]
          /\ \A k \in 1..Len(d) : k \in 1..Len(c) \/ k = Len(c) + 1
      <4>1. e \in ClientFrame /\ c \in Seq(ClientFrame)
            BY <1>12
      <4>2. QED
            BY <3>1, <4>1, AnswerMore
    <3>3. c # <<>> => d[1] = c[1]
      <4>1. ASSUME c # <<>> PROVE d[1] = c[1]
        <5>1. Len(c) > 0
              BY <4>1, EmptySeq
        <5>2. 1 \in 1..Len(c)
              BY <3>2, <5>1
        <5>3. QED
              BY <3>2, <5>2
      <4>2. QED
            BY <4>1
    <3>4. \A k \in 1..Len(d) : d[k].tag = "ERROR" \/ \E j \in 1..Len(c) : d[k] = c[j]
          BY <1>12, <3>2
    <3>5. QED
          BY <2>2, <3>1, <3>2, <3>3, <3>4
  <2>3. QED
        BY <1>13, <2>1, <2>2
<1>16. cpc \notin {"idle", "list"}
  <2>1. cpc # "idle"
        BY <1>1 DEF IInv, Stages
  <2>2. cpc # "list"
        BY <1>1 DEF IInv, Stages
  <2>3. QED
        BY <2>1, <2>2
<1>17. ASSUME Covered
       PROVE  /\ Sound(f, local, Linkless(local, t), versions)
              /\ \A q \in Paths : Effect(t, f, q, u[q])
              /\ NoLink \subseteq NoLink' /\ Apart(local, remote)'
  <2>1. Sound(f, local, Linkless(local, t), versions)
        BY <1>2, <1>3, <1>4, <1>5, <1>17 DEF IInv, Frames, NoLink
  <2>2. \A q \in Paths : Effect(t, f, q, u[q])
        BY <1>3, <1>4, <1>8, <1>9, <2>1, SoundFree
  <2>3. Apart(local, t)
        BY <1>5, <1>17 DEF IInv, Sides
  <2>4. Linkless(local, t) \subseteq Linkless(local, u) /\ Apart(local, u)
        BY <1>3, <1>4, <2>1, <2>2, <2>3, SyncKeeps
  <2>5. NoLink = Linkless(local, t) /\ NoLink' = Linkless(local, u)
        BY <1>1, <1>5, <1>10 DEF NoLink
  <2>6. Apart(local, remote)'
        BY <1>1, <1>10, <2>4 DEF Apart
  <2>7. QED
        BY <2>1, <2>2, <2>4, <2>5, <2>6
<1>18. Covered' = Covered
       BY <1>1 DEF Covered
<1>19. Sides' /\ Walked' /\ Lists' /\ Frames' /\ Ordering(toAgent)' /\ Ordering(stray)'
  <2>1. Within(g, toAgent) /\ Within(y, stray) /\ stray' = y
        BY <1>1, <1>2, <1>14, AllWithin
  <2>2. shaken \subseteq shaken' /\ (shaken \subseteq Paths)'
        BY <1>1 DEF IInv, Types
  <2>3. UNCHANGED <<local, walk, list, versions>>
        BY <1>1
  <2>4. \A k \in 1..Len(d) : d[k].tag # "LIST" \/ \E j \in 1..Len(toClient) : d[k] = toClient[j]
        BY <1>2, <1>15
  <2>5. Covered' => NoLink \subseteq NoLink' /\ Apart(local, remote)'
        BY <1>17, <1>18
  <2>6. QED
        BY <1>14, <1>15, <2>1, <2>2, <2>3, <2>4, <2>5, RemoteKeeps
<1>20. Types'
  <2>1. WellFormed(remote)' /\ Confined(remote)'
        BY <1>8, <1>9, <1>10 DEF WellFormed, Confined, Children
  <2>2. QED
        BY <1>1, <1>14, <1>15, <2>1 DEF IInv, Types, WellFormed, Children
<1>21. Stages'
  <2>1. cpc \in {"sigs", "send"} => \A k \in 1..Len(g) : g[k].tag \notin {"DELETE", "PLAN_DONE"}
    <3>1. PICK T : T = {"SYNC_REQ", "MKDIR", "SIG_REQ", "PUT"}
          OBVIOUS
    <3>2. \A k \in 1..Len(s) : s[k].tag \in T \cup {"DELETE", "PLAN_DONE"}
          BY <3>1, FrameKinds, ElementOfSeq
    <3>3. cpc \in {"sigs", "send"} => \A k \in 1..Len(s) : s[k].tag \in T
          BY <1>2, <3>2 DEF IInv, Stages
    <3>4. cpc \in {"sigs", "send"} => \A k \in 1..Len(g) : g[k].tag \in T
          BY <1>14, <3>3, WithinKeeps
    <3>5. QED
          BY <3>1, <3>4
  <2>2. cpc = "sigs" /\ want \o check # <<>> => \A k \in 1..Len(g) : g[k].tag # "PUT"
    <3>1. PICK T : T = {"SYNC_REQ", "PLAN_DONE", "MKDIR", "SIG_REQ", "DELETE"}
          OBVIOUS
    <3>2. \A k \in 1..Len(s) : s[k].tag \in T \cup {"PUT"}
          BY <3>1, FrameKinds, ElementOfSeq
    <3>3. cpc = "sigs" /\ want \o check # <<>> => \A k \in 1..Len(s) : s[k].tag \in T
          BY <1>2, <3>2 DEF IInv, Stages
    <3>4. cpc = "sigs" /\ want \o check # <<>> => \A k \in 1..Len(g) : g[k].tag \in T
          BY <1>14, <3>3, WithinKeeps
    <3>5. QED
          BY <3>1, <3>4
  <2>3. cpc = "send" => want = <<>> /\ check = <<>>
        BY DEF IInv, Stages
  <2>4. apc' \in {"serve", "gone"}
        BY <1>14
  <2>5. QED
        BY <1>1, <1>14, <1>16, <2>1, <2>2, <2>3, <2>4 DEF Stages
<1>22. Planned'
       BY <1>1 DEF IInv, Planned
<1>23. Opened'
       BY <1>1, <1>2, <1>15 DEF IInv, Opened
<1>24. Own'
  <2>1. cpc \in Active => \A k \in 1..Len(s) : OwnFrame(s[k], walk, sends)
        BY <1>2 DEF IInv, Own
  <2>2. cpc \in Active => \A k \in 1..Len(g) : OwnFrame(g[k], walk, sends)
        BY <1>14, <2>1, WithinKeeps
  <2>3. QED
        BY <1>1, <1>14, <2>2 DEF Own
<1>25. Deltas'
  <2>1. ASSUME apc' = "serve", NEW k \in 1..Len(g) PROVE DeltaFresh(g[k], u, versions, shaken)
    <3>1. g[k] \in AgentFrame /\ g = Rest(s)
          BY <1>14, <2>1, ElementOfSeq
    <3>2. \A j \in 1..Len(s) : DeltaFresh(s[j], t, versions, shaken)
          BY <1>1, <1>2, <1>5 DEF IInv, Deltas
    <3>3. DeltaFresh(g[k], t, versions, shaken)
          BY <1>14, <3>2, WithinKeeps
    <3>4. CASE g[k].tag # "PUT"
          BY <3>4 DEF DeltaFresh
    <3>5. CASE g[k].tag = "PUT" /\ ~ Covered
      <4>1. g[k].paths[1] \in shaken
            BY <3>1, <3>5, FrameKinds DEF Covered
      <4>2. QED
            BY <4>1 DEF DeltaFresh
    <3>6. CASE g[k].tag = "PUT" /\ Covered
      <4>1. Ordering(s)
            BY <1>2 DEF IInv
      <4>2. f.tag # "DELETE" /\ (f.tag = "PUT" => f.paths[1] # g[k].paths[1])
            BY <1>3, <1>4, <2>1, <3>1, <3>6, <4>1, OthersPut
      <4>3. \A q \in Paths : Effect(t, f, q, u[q])
            BY <1>17, <3>6
      <4>4. QED
            BY <3>1, <3>3, <3>6, <4>2, <4>3, DeltaSurvives
    <3>7. QED
          BY <3>4, <3>5, <3>6
  <2>2. apc' \notin {"off", "start"}
        BY <1>14
  <2>3. QED
        BY <1>1, <1>10, <1>14, <2>1, <2>2 DEF Deltas
<1>26. ASSUME cpc \in {"sigs", "send"}, Covered, NEW q \in Paths
       PROVE  u[q] = t[q] \/ t[q].kind # "file" \/ (f.tag = "PUT" /\ q = f.paths[1])
  <2>1. f.tag # "DELETE"
        BY <1>2, <1>3, <1>4, <1>26 DEF IInv, Stages
  <2>2. Effect(t, f, q, u[q])
        BY <1>17, <1>26
  <2>3. QED
        BY <2>1, <2>2, ChangesFile
<1>27. Sigs'
  <2>1. ASSUME cpc \in {"sigs", "send"}, NEW k \in 1..Len(sends)
        PROVE  SigFresh(sends[k], sigs[sends[k]], u, shaken)
    <3>1. SigFresh(sends[k], sigs[sends[k]], t, shaken)
          BY <1>1, <1>5, <2>1 DEF IInv, Sigs
    <3>2. PICK q \in Paths : q = sends[k]
          BY ElementOfSeq DEF IInv, Types
    <3>3. CASE ~ Covered
          BY <3>2, <3>3 DEF Covered, SigFresh
    <3>4. CASE Covered
      <4>1. OwnFrame(f, walk, sends)
            BY <1>2, <1>3, <1>4, <2>1 DEF IInv, Own, Active
      <4>2. f.tag = "PUT" => q # f.paths[1]
            BY <2>1, <3>2, <4>1 DEF OwnFrame
      <4>3. u[q] = t[q] \/ t[q].kind # "file"
            BY <1>26, <2>1, <3>4, <4>2
      <4>4. QED
            BY <3>1, <3>2, <4>3, SigStays
    <3>5. QED
          BY <3>3, <3>4
  <2>2. QED
        BY <1>1, <1>10, <2>1 DEF Sigs
<1>28. Answers'
  <2>1. ASSUME cpc = "sigs", apc' = "serve" PROVE Answered(want \o check, g, d, u, shaken)
    <3>1. PICK due \in Seq(Paths) : due = want \o check
          BY DueOf DEF IInv, Types
    <3>2. Answered(due, s, c, t, shaken)
          BY <1>1, <1>2, <1>5, <2>1, <3>1 DEF IInv, Answers
    <3>3. ASSUME NEW k \in 1..Len(due)
          PROVE  u[due[k]] = t[due[k]] \/ due[k] \in shaken \/ t[due[k]].kind # "file"
      <4>1. due[k] \in Paths
            BY ElementOfSeq
      <4>2. f.tag # "PUT"
        <5>1. due # <<>>
              BY EmptyFrames
        <5>2. QED
              BY <1>2, <1>3, <1>4, <2>1, <3>1, <5>1 DEF IInv, Stages
      <4>3. CASE ~ Covered
            BY <4>1, <4>3 DEF Covered
      <4>4. CASE Covered
            BY <1>26, <2>1, <4>1, <4>2, <4>4
      <4>5. QED
            BY <4>3, <4>4
    <3>4. s[1].tag # "SIG_REQ"
          BY <1>3
    <3>5. Answered(due, Rest(s), c, u, shaken)
          BY <1>3, <3>2, <3>3, <3>4, AnsweredRest
    <3>6. g = Rest(s) /\ d = c
          BY <1>14, <1>15, <2>1
    <3>7. QED
          BY <3>1, <3>5, <3>6
  <2>2. QED
        BY <1>1, <1>10, <1>14, <1>15, <2>1 DEF Answers
<1>29. QED
       BY <1>19, <1>20, <1>21, <1>22, <1>23, <1>24, <1>25, <1>27, <1>28 DEF IInv

-----------------------------------------------------------------------------
(***************************************************************************)
(* The rest of the world changes the trees.                                *)
(***************************************************************************)

\* Only files at shaken paths change.
Spares(r, r2, o2) == \A q \in Paths : r2[q] = r[q] \/ q \in o2 \/ r[q].kind # "file"

LEMMA DeltaElsewhere ==
  ASSUME NEW x \in AgentFrame, NEW r, NEW v, NEW o, DeltaFresh(x, r, v, o),
         NEW v2, \A p \in Paths : v[p] \subseteq v2[p],
         NEW r2, NEW o2, o \subseteq o2, Spares(r, r2, o2)
  PROVE  DeltaFresh(x, r2, v2, o2)
<1>1. x.tag = "PUT" => x.paths[1] \in Paths
      BY FrameKinds
<1>2. QED
      BY <1>1 DEF DeltaFresh, Spares

LEMMA AnsweredSame ==
  ASSUME NEW due \in Seq(Paths), NEW s, NEW answers \in Seq(ClientFrame),
         NEW r, NEW o, Answered(due, s, answers, r, o),
         NEW r2, NEW o2, o \subseteq o2, Spares(r, r2, o2)
  PROVE  Answered(due, s, answers, r2, o2)
<1>1. Len(answers) \in Nat /\ Len(due) \in Nat /\ Len(answers) <= Len(due)
      BY LenProperties DEF Answered
<1>2. ASSUME NEW k \in 1..Len(answers)
      PROVE  answers[k].tag = "SIG" /\ SigFresh(due[k], answers[k].sig, r2, o2)
  <2>1. k \in 1..Len(due)
        BY <1>1
  <2>2. due[k] \in Paths
        BY <2>1, ElementOfSeq
  <2>3. answers[k].tag = "SIG" /\ SigFresh(due[k], answers[k].sig, r, o)
        BY DEF Answered
  <2>4. r2[due[k]] = r[due[k]] \/ due[k] \in o2 \/ r[due[k]].kind # "file"
        BY <2>2 DEF Spares
  <2>5. QED
        BY <2>3, <2>4, SigStays
<1>3. QED
      BY <1>2 DEF Answered

\* What the client and the agent have in hand stays fresh.
LEMMA ElsewhereKeeps ==
  ASSUME IInv, UNCHANGED <<cpc, apc, want, check, sends, sigs, toAgent, toClient>>,
         NEW v, versions' = v, \A p \in Paths : versions[p] \subseteq v[p],
         NEW u, remote' = u, NEW o, shaken' = o, shaken \subseteq o,
         apc = "serve" => Spares(remote, u, o)
  PROVE  /\ Sigs' /\ Answers'
         /\ apc = "serve" => \A k \in 1..Len(toAgent) : DeltaFresh(toAgent[k], u, v, o)
<1>1. Sigs'
  <2>1. ASSUME cpc \in {"sigs", "send"}, apc = "serve", NEW k \in 1..Len(sends)
        PROVE  SigFresh(sends[k], sigs[sends[k]], u, o)
    <3>1. SigFresh(sends[k], sigs[sends[k]], remote, shaken)
          BY <2>1 DEF IInv, Sigs
    <3>2. PICK q \in Paths : q = sends[k]
          BY ElementOfSeq DEF IInv, Types
    <3>3. u[q] = remote[q] \/ q \in o \/ remote[q].kind # "file"
          BY <2>1 DEF Spares
    <3>4. PICK t, w : t = remote /\ w = shaken
          OBVIOUS
    <3>5. QED
          BY <3>1, <3>2, <3>3, <3>4, SigStays
  <2>2. QED
        BY <2>1 DEF Sigs
<1>2. Answers'
  <2>1. ASSUME cpc = "sigs", apc = "serve" PROVE Answered(want \o check, toAgent, toClient, u, o)
    <3>1. PICK due \in Seq(Paths) : due = want \o check
          BY DueOf DEF IInv, Types
    <3>2. PICK c \in Seq(ClientFrame), s \in Seq(AgentFrame) : c = toClient /\ s = toAgent
          BY DEF IInv, Types
    <3>3. PICK t, w : t = remote /\ w = shaken
          OBVIOUS
    <3>4. Answered(due, s, c, t, w)
          BY <2>1, <3>1, <3>2, <3>3 DEF IInv, Answers
    <3>5. w \subseteq o /\ Spares(t, u, o)
          BY <2>1, <3>3
    <3>6. Answered(due, s, c, u, o)
          BY <3>4, <3>5, AnsweredSame
    <3>7. QED
          BY <3>1, <3>2, <3>6
  <2>2. QED
        BY <2>1 DEF Answers
<1>3. ASSUME apc = "serve", NEW k \in 1..Len(toAgent) PROVE DeltaFresh(toAgent[k], u, v, o)
  <2>1. PICK x \in AgentFrame : x = toAgent[k]
        BY ElementOfSeq DEF IInv, Types
  <2>2. DeltaFresh(x, remote, versions, shaken)
        BY <1>3, <2>1 DEF IInv, Deltas
  <2>3. PICK t, w, z : t = remote /\ w = shaken /\ z = versions
        OBVIOUS
  <2>4. QED
        BY <1>3, <2>1, <2>2, <2>3, DeltaElsewhere
<1>4. QED
      BY <1>1, <1>2, <1>3

\* The agent of an earlier sync goes on.
LEMMA StrayStepKeeps == IInv /\ StrayStep => IInv'
<1> SUFFICES ASSUME IInv, StrayStep PROVE IInv'
    OBVIOUS
<1>1. /\ stray # <<>>
      /\ UNCHANGED <<local, now, lag, cpc, walk, list, want, check, sigs, sends, reading, apc, toAgent,
                     toClient, used, versions>>
      BY DEF StrayStep, client
<1>2. PICK s \in Seq(AgentFrame), b \in Seq(AgentFrame), c \in Seq(ClientFrame) :
        s = stray /\ b = toAgent /\ c = toClient
      BY DEF IInv, Types
<1>3. s # <<>> /\ Head(s) = s[1] /\ s[1] \in AgentFrame /\ 1 \in 1..Len(s)
  <2>1. s # <<>> /\ Head(s) = s[1] /\ s[1] \in AgentFrame /\ Len(s) \in Nat \ {0}
        BY <1>1, <1>2, TailOf
  <2>2. QED
        BY <2>1
<1>4. PICK f \in AgentFrame : f = s[1] /\ f = Head(stray)
      BY <1>2, <1>3
<1>5. PICK t, changes : t = remote /\ changes = (f.tag \in {"MKDIR", "DELETE", "PUT"})
      OBVIOUS
<1>6. PICK w : w = IF changes THEN Apply(t, f) ELSE Yields(t)
      OBVIOUS
<1>7. WellFormed(t) /\ Confined(t) /\ now \in Int /\ lag \in Int
  <2>1. now \in 1..MaxTime /\ lag \in Nat /\ MaxTime \in Nat
        BY ContentsAssumption DEF IInv, Types
  <2>2. QED
        BY <1>5, <2>1 DEF IInv, Types
<1>8. PICK u : u = w.tree
      OBVIOUS
<1>9. changes => /\ WellFormed(u) /\ Confined(u)
                 /\ Free(t, f.paths[1]) => \A q \in Paths : Effect(t, f, q, u[q])
      BY <1>5, <1>6, <1>7, <1>8, ApplyEffect
<1>10. ~ changes => u = t /\ w.ok
       BY <1>6, <1>8 DEF Yields
<1>11. /\ remote' = u
       /\ stray' = IF w.ok THEN Rest(s) ELSE <<>>
       /\ shaken' = IF changes /\ apc \notin {"off", "start"}
                    THEN shaken \cup {Head(f.paths)} ELSE shaken
       BY <1>2, <1>4, <1>5, <1>6, <1>8 DEF StrayStep
<1>12. PICK o : o = shaken'
       OBVIOUS
<1>13. /\ shaken \subseteq o /\ o \subseteq Paths
       /\ changes => Head(f.paths) = f.paths[1] /\ f.paths[1] \in Paths
       /\ changes /\ apc \notin {"off", "start"} => f.paths[1] \in o
  <2>1. changes => Head(f.paths) = f.paths[1] /\ f.paths[1] \in Paths
        BY <1>5, FrameKinds
  <2>2. shaken \subseteq Paths
        BY DEF IInv, Types
  <2>3. QED
        BY <1>11, <1>12, <2>1, <2>2
<1>14. PICK y \in Seq(AgentFrame) : stray' = y /\ Within(y, s) /\ (y = Rest(s) \/ y = <<>>)
  <2>1. Rest(s) \in Seq(AgentFrame) /\ Within(Rest(s), s)
        BY <1>3, RestWithin
  <2>2. <<>> \in Seq(AgentFrame) /\ Within(<<>>, s)
        BY EmptyFrames, NoneWithin
  <2>3. QED
        BY <1>11, <2>1, <2>2
<1>15. ASSUME Covered, changes
       PROVE  /\ \A q \in Paths : Effect(t, f, q, u[q])
              /\ Linkless(local, t) \subseteq Linkless(local, u) /\ Apart(local, u)
  <2>1. Sound(f, local, Linkless(local, t), versions)
        BY <1>2, <1>3, <1>4, <1>5, <1>15 DEF IInv, Frames, NoLink
  <2>2. \A q \in Paths : Effect(t, f, q, u[q])
        BY <1>5, <1>9, <1>15, <2>1, SoundFree
  <2>3. Apart(local, t)
        BY <1>5, <1>15 DEF IInv, Sides
  <2>4. Linkless(local, t) \subseteq Linkless(local, u) /\ Apart(local, u)
        BY <1>5, <1>15, <2>1, <2>2, <2>3, SyncKeeps
  <2>5. QED
        BY <2>2, <2>4
<1>16. Covered' => Covered
       BY <1>12, <1>13 DEF Covered
<1>17. Covered' => NoLink \subseteq NoLink' /\ Apart(local, remote)'
  <2>1. ASSUME Covered'
        PROVE  Linkless(local, t) \subseteq Linkless(local, u) /\ Apart(local, u)
    <3>1. CASE changes
          BY <1>15, <1>16, <2>1, <3>1
    <3>2. CASE ~ changes
      <4>1. Apart(local, t)
            BY <1>5, <1>16, <2>1 DEF IInv, Sides
      <4>2. QED
            BY <1>10, <3>2, <4>1
    <3>3. QED
          BY <3>1, <3>2
  <2>2. NoLink = Linkless(local, t) /\ NoLink' = Linkless(local, u)
        BY <1>1, <1>5, <1>11 DEF NoLink
  <2>3. Apart(local, u) => Apart(local, remote)'
        BY <1>1, <1>11 DEF Apart
  <2>4. QED
        BY <2>1, <2>2, <2>3
<1>18. Sides' /\ Walked' /\ Lists' /\ Frames' /\ Ordering(toAgent)' /\ Ordering(stray)'
  <2>1. Within(b, toAgent) /\ Within(y, stray) /\ stray' = y /\ toAgent' = b /\ toClient' = c
        BY <1>1, <1>2, <1>14, AllWithin
  <2>2. shaken \subseteq shaken' /\ (shaken \subseteq Paths)'
        BY <1>12, <1>13
  <2>3. UNCHANGED <<local, walk, list, versions>>
        BY <1>1
  <2>4. \A k \in 1..Len(c) : c[k].tag # "LIST" \/ \E j \in 1..Len(toClient) : c[k] = toClient[j]
        BY <1>2
  <2>5. QED
        BY <1>17, <2>1, <2>2, <2>3, <2>4, RemoteKeeps
<1>19. Types'
  <2>1. WellFormed(u) /\ Confined(u)
        BY <1>7, <1>9, <1>10
  <2>2. WellFormed(remote)' /\ Confined(remote)'
        BY <1>11, <2>1 DEF WellFormed, Confined, Children
  <2>3. QED
        BY <1>1, <1>12, <1>13, <1>14, <2>2 DEF IInv, Types, WellFormed, Children
<1>20. Stages'
       BY <1>1 DEF IInv, Stages
<1>21. Planned'
       BY <1>1 DEF IInv, Planned
<1>22. Opened'
       BY <1>1 DEF IInv, Opened
<1>23. Own'
       BY <1>1 DEF IInv, Own
<1>24. apc \notin {"off", "start"} => Spares(t, u, o)
  <2>1. ASSUME apc \notin {"off", "start"}, NEW q \in Paths
        PROVE  u[q] = t[q] \/ q \in o \/ t[q].kind # "file"
    <3>1. CASE ~ changes
          BY <1>10, <3>1
    <3>2. CASE ~ Covered
          BY <1>13, <3>2 DEF Covered
    <3>3. CASE changes /\ Covered
      <4>1. Effect(t, f, q, u[q])
            BY <1>15, <3>3
      <4>2. QED
            BY <1>13, <2>1, <3>3, <4>1, ChangesFile
    <3>4. QED
          BY <3>1, <3>2, <3>3
  <2>2. QED
        BY <2>1 DEF Spares
<1>25. PICK v : v = versions
       OBVIOUS
<1>26. /\ Sigs' /\ Answers'
       /\ apc = "serve" => \A k \in 1..Len(toAgent) : DeltaFresh(toAgent[k], u, v, o)
  <2>1. UNCHANGED <<cpc, apc, want, check, sends, sigs, toAgent, toClient>>
        BY <1>1
  <2>2. versions' = v /\ \A p \in Paths : versions[p] \subseteq v[p]
        BY <1>1, <1>25
  <2>3. apc = "serve" => Spares(remote, u, o)
        BY <1>5, <1>24
  <2>4. remote' = u /\ shaken' = o /\ shaken \subseteq o
        BY <1>11, <1>12, <1>13
  <2>5. QED
        BY <2>1, <2>2, <2>3, <2>4, ElsewhereKeeps
<1>27. Deltas'
  <2>1. ASSUME apc \in {"off", "start"}, NEW k \in 1..Len(y)
        PROVE  DeltaFresh(y[k], u, v, o)
    <3>1. y # <<>> /\ y = Rest(s) /\ y[k] \in AgentFrame
          BY <1>14, <2>1, ElementOfSeq, EmptyFrames
    <3>2. o = shaken
          BY <1>11, <1>12, <2>1
    <3>3. \A j \in 1..Len(s) : DeltaFresh(s[j], t, v, o)
          BY <1>2, <1>5, <1>25, <2>1, <3>2 DEF IInv, Deltas
    <3>4. DeltaFresh(y[k], t, v, o)
          BY <1>14, <3>3, WithinKeeps
    <3>5. CASE y[k].tag # "PUT"
          BY <3>5 DEF DeltaFresh
    <3>6. CASE y[k].tag = "PUT" /\ ~ Covered
      <4>1. y[k].paths[1] \in o
            BY <3>1, <3>2, <3>6, FrameKinds DEF Covered
      <4>2. QED
            BY <4>1 DEF DeltaFresh
    <3>7. CASE y[k].tag = "PUT" /\ ~ changes
          BY <1>10, <3>4, <3>7
    <3>8. CASE y[k].tag = "PUT" /\ Covered /\ changes
      <4>1. Ordering(s)
            BY <1>2 DEF IInv
      <4>2. f.tag # "DELETE" /\ (f.tag = "PUT" => f.paths[1] # y[k].paths[1])
            BY <1>3, <1>4, <2>1, <3>1, <3>8, <4>1, OthersPut
      <4>3. \A q \in Paths : Effect(t, f, q, u[q])
            BY <1>15, <3>8
      <4>4. QED
            BY <3>1, <3>4, <3>8, <4>2, <4>3, DeltaSurvives
    <3>9. QED
          BY <3>5, <3>6, <3>7, <3>8
  <2>2. QED
        BY <1>1, <1>11, <1>12, <1>14, <1>25, <1>26, <2>1 DEF Deltas
<1>28. QED
       BY <1>18, <1>19, <1>20, <1>21, <1>22, <1>23, <1>26, <1>27 DEF IInv

\* An entry that is no directory and no link, or none, for one that is no directory.
Replaced(t, p, e) == [t EXCEPT ![p] = e]

LEMMA EntryReplaced ==
  ASSUME NEW t, WellFormed(t), NEW p \in Paths, t[p] # Dir, NEW e \in Walkable,
         e.kind \in {"file", "none"}, Len(p) > 1 => t[Front(p)] = Dir
  PROVE  /\ WellFormed(Replaced(t, p, e))
         /\ Confined(t) => Confined(Replaced(t, p, e))
         /\ Replaced(t, p, e)[p] = e
         /\ \A q \in Paths : q # p => Replaced(t, p, e)[q] = t[q]
<1>1. WellFormed([t EXCEPT ![p] = e]) /\ (Confined(t) => Confined([t EXCEPT ![p] = e]))
      BY SetEntry
<1>2. t \in [Paths -> Entry]
      BY DEF WellFormed
<1>3. QED
      BY <1>1, <1>2 DEF Replaced

\* Neither is a link, so that no path leads elsewhere.
LEMMA PlainReplaced ==
  ASSUME NEW l, NEW t, NEW p \in Paths, NEW u, u[p].kind \in {"file", "none"},
         \A q \in Paths : q # p => u[q] = t[q], Apart(l, t)
  PROVE  Linkless(l, t) \subseteq Linkless(l, u) /\ Apart(l, u)
<1>1. Dir.kind = "dir"
      BY MakesEntries
<1>2. QED
      BY <1>1 DEF Linkless, Apart

\* A PUT that is cut short replaces one entry by a file or nothing.
LEMMA HalfPutEffect ==
  ASSUME IInv, NEW f \in AgentFrame, f.tag = "PUT", HalfPut(f)
  PROVE  /\ WellFormed(remote)' /\ Confined(remote)'
         /\ Apart(local, remote) => /\ Linkless(local, remote) \subseteq Linkless(local, remote')
                                    /\ Apart(local, remote')
         /\ \E p \in Paths, e \in Walkable :
              /\ remote'[p] = e /\ \A q \in Paths : q # p => remote'[q] = remote[q]
              /\ \/ p \in Staging /\ e.kind = "file" /\ remote[p] = Absent
                 \/ /\ p = Real(remote, f.paths[1]) /\ e = Absent /\ f.entry.kind = "link"
                    /\ remote[p] \notin {Absent, Dir}
<1>1. PICK t : t = remote /\ WellFormed(t) /\ Confined(t)
      BY DEF IInv, Types
<1>2. Head(f.paths) = f.paths[1] /\ f.paths[1] \in Paths
      BY FrameKinds
<1>3. PICK at \in Paths : at = Real(t, Head(f.paths))
      BY <1>1, <1>2, RealInPaths
<1>4. now - lag \in Int
  <2>1. now \in 1..MaxTime /\ lag \in Nat /\ MaxTime \in Nat
        BY ContentsAssumption DEF IInv, Types
  <2>2. QED
        BY <2>1
<1>5. PICK e \in Walkable : e = File(<<>>, now - lag) /\ e.kind = "file"
  <2>1. PICK m \in Int : m = now - lag
        BY <1>4
  <2>2. File(<<>>, m) \in Walkable /\ File(<<>>, m).kind = "file"
        BY EmptyFrames, MakesEntries
  <2>3. QED
        BY <2>1, <2>2
<1>6. Absent \in Walkable /\ Absent.kind = "none" /\ e # Absent /\ Absent # Dir
      BY <1>5, MakesEntries
<1>7. PICK p \in Paths, x \in Walkable :
        /\ remote' = [t EXCEPT ![p] = x]
        /\ x.kind \in {"file", "none"} /\ t[p] # Dir
        /\ Len(p) > 1 => t[Front(p)] = Dir
        /\ \/ p \in Staging /\ x.kind = "file" /\ t[p] = Absent
           \/ p = at /\ x = Absent /\ f.entry.kind = "link" /\ t[p] \notin {Absent, Dir}
  <2>1. CASE \E p \in Staging : /\ t[p] = Absent
                                /\ Len(p) > 1 => t[Front(p)] = Dir
                                /\ remote' = [t EXCEPT ![p] = e]
    <3>1. PICK p \in Staging : /\ t[p] = Absent
                               /\ Len(p) > 1 => t[Front(p)] = Dir
                               /\ remote' = [t EXCEPT ![p] = e]
          BY <2>1
    <3>2. p \in Paths
          BY StagingAssumption
    <3>3. t[p] # Dir
          BY <1>6, <3>1
    <3>4. QED
          BY <1>5, <3>1, <3>2, <3>3
  <2>2. CASE f.entry.kind = "link" /\ t[at] \notin {Absent, Dir} /\ remote' = [t EXCEPT ![at] = Absent]
    <3>1. Len(at) > 1 => t[Front(at)] = Dir
      <4>1. t[at] # Absent
            BY <2>2
      <4>2. Rooted(t)
            BY <1>1, TreeIs
      <4>3. QED
            BY <4>1, <4>2 DEF Rooted
    <3>2. QED
          BY <1>6, <2>2, <3>1
  <2>3. QED
        BY <1>1, <1>3, <1>5, <2>1, <2>2 DEF HalfPut
<1>8. PICK u : u = [t EXCEPT ![p] = x]
      OBVIOUS
<1>9. /\ WellFormed(u) /\ Confined(u) /\ u[p] = x /\ \A q \in Paths : q # p => u[q] = t[q]
  <2>1. WellFormed(t) /\ t[p] # Dir /\ x.kind \in {"file", "none"} /\ (Len(p) > 1 => t[Front(p)] = Dir)
        BY <1>1, <1>7
  <2>2. u = Replaced(t, p, x)
        BY <1>8 DEF Replaced
  <2>3. QED
        BY <1>1, <2>1, <2>2, EntryReplaced
<1>10. remote' = u
       BY <1>7, <1>8
<1>11. Apart(local, t) => Linkless(local, t) \subseteq Linkless(local, u) /\ Apart(local, u)
       BY <1>7, <1>9, PlainReplaced
<1>12. WellFormed(remote)' /\ Confined(remote)'
       BY <1>9, <1>10 DEF WellFormed, Confined, Children
<1>13. p = at => p = Real(remote, f.paths[1])
       BY <1>1, <1>2, <1>3
<1>14. QED
       BY <1>1, <1>7, <1>9, <1>10, <1>11, <1>12, <1>13

LEMMA AgentDiesKeeps == IInv /\ AgentDies => IInv'
<1> SUFFICES ASSUME IInv, AgentDies PROVE IInv'
    OBVIOUS
<1>1. /\ apc \in {"start", "serve"} /\ apc' = "gone" /\ toAgent' = <<>>
      /\ UNCHANGED <<local, now, lag, cpc, walk, list, want, check, sigs, sends, reading, toClient, stray,
                     versions, shaken>>
      /\ Spend("breaks", MaxBreaks)
      BY DEF AgentDies, client
<1>2. PICK s \in Seq(AgentFrame), b \in Seq(AgentFrame), c \in Seq(ClientFrame) :
        s = toAgent /\ b = stray /\ c = toClient
      BY DEF IInv, Types
<1>3. /\ WellFormed(remote)' /\ Confined(remote)'
      /\ Apart(local, remote) => /\ Linkless(local, remote) \subseteq Linkless(local, remote')
                                 /\ Apart(local, remote')
  <2>1. CASE UNCHANGED remote
    <3>1. WellFormed(remote) /\ Confined(remote)
          BY DEF IInv, Types
    <3>2. QED
          BY <2>1, <3>1 DEF WellFormed, Confined, Children
  <2>2. CASE toAgent # <<>> /\ Head(toAgent).tag = "PUT" /\ HalfPut(Head(toAgent))
    <3>1. PICK f \in AgentFrame : f = Head(toAgent)
          BY <2>2, TailOf DEF IInv, Types
    <3>2. f.tag = "PUT" /\ HalfPut(f)
          BY <2>2, <3>1
    <3>3. QED
          BY <3>2, HalfPutEffect
  <2>3. QED
        BY <2>1, <2>2 DEF AgentDies
<1>4. Covered' = Covered
      BY <1>1 DEF Covered
<1>5. Covered' => NoLink \subseteq NoLink' /\ Apart(local, remote)'
  <2>1. Covered' => Apart(local, remote)
        BY <1>4 DEF IInv, Sides
  <2>2. NoLink = Linkless(local, remote) /\ NoLink' = Linkless(local, remote')
        BY <1>1 DEF NoLink
  <2>3. Apart(local, remote') => Apart(local, remote)'
        BY <1>1 DEF Apart
  <2>4. QED
        BY <1>3, <2>1, <2>2, <2>3
<1>6. PICK g \in Seq(AgentFrame) : g = <<>> /\ toAgent' = g /\ Within(g, toAgent)
      BY <1>1, <1>2, EmptyFrames, NoneWithin
<1>7. Sides' /\ Walked' /\ Lists' /\ Frames' /\ Ordering(toAgent)' /\ Ordering(stray)'
  <2>1. Within(b, stray) /\ stray' = b /\ toClient' = c
        BY <1>1, <1>2, AllWithin
  <2>2. shaken \subseteq shaken' /\ (shaken \subseteq Paths)'
        BY <1>1 DEF IInv, Types
  <2>3. UNCHANGED <<local, walk, list, versions>>
        BY <1>1
  <2>4. \A k \in 1..Len(c) : c[k].tag # "LIST" \/ \E j \in 1..Len(toClient) : c[k] = toClient[j]
        BY <1>2
  <2>5. QED
        BY <1>5, <1>6, <2>1, <2>2, <2>3, <2>4, RemoteKeeps
<1>8. Types'
  <2>1. used' \in [local : Nat, remote : Nat, breaks : Nat, sessions : Nat]
        BY <1>1, SpendKeeps
  <2>2. QED
        BY <1>1, <1>3, <1>6, <2>1 DEF IInv, Types, WellFormed, Children
<1>9. Stages'
  <2>1. Len(<<>>) = 0 /\ 1..0 = {}
        BY EmptyFrames
  <2>2. cpc # "idle"
        BY <1>1 DEF IInv, Stages
  <2>3. cpc = "list" => \/ toClient = <<>>
                        \/ Len(toClient) = 1 /\ toClient[1].tag = "LIST" /\ apc # "start"
        BY DEF IInv, Stages
  <2>4. cpc = "send" => want = <<>> /\ check = <<>>
        BY DEF IInv, Stages
  <2>5. cpc \in {"idle", "list"} => want = <<>> /\ check = <<>> /\ sends = <<>>
        BY DEF IInv, Stages
  <2>6. QED
        BY <1>1, <2>1, <2>2, <2>3, <2>4, <2>5 DEF Stages
<1>10. Planned'
       BY <1>1 DEF IInv, Planned
<1>11. Opened'
       BY <1>1 DEF IInv, Opened
<1>12. Own'
       BY <1>1, EmptyFrames DEF Own
<1>13. Deltas' /\ Sigs' /\ Answers'
       BY <1>1 DEF Deltas, Sigs, Answers
<1>14. QED
       BY <1>7, <1>8, <1>9, <1>10, <1>11, <1>12, <1>13 DEF IInv

LEMMA ForeignEntry ==
  ASSUME NEW p \in Paths, IInv, RemoteEdit(p)
  PROVE  \E e \in Walkable : e.kind \in {"file", "none"} /\ remote' = [remote EXCEPT ![p] = e]
<1>1. PICK e \in {Absent} \cup UNION {{File(c, t) : c \in Contents} : t \in 1..now} :
        remote' = [remote EXCEPT ![p] = e]
      BY DEF RemoteEdit
<1>2. e \in Walkable /\ e.kind \in {"file", "none"}
  <2>1. ASSUME NEW d \in Contents, NEW m \in 1..now, e = File(d, m)
        PROVE  e \in Walkable /\ e.kind \in {"file", "none"}
    <3>1. d \in Seq(Blocks)
          BY ContentsAssumption
    <3>2. m \in Int
          OBVIOUS
    <3>3. QED
          BY <2>1, <3>1, <3>2, MakesEntries
  <2>2. QED
        BY <1>1, <2>1, MakesEntries
<1>3. QED
      BY <1>1, <1>2

LEMMA RemoteEditKeeps == ASSUME NEW p \in Paths, IInv, RemoteEdit(p) PROVE IInv'
<1>1. /\ UNCHANGED <<local, now, lag, cpc, walk, list, want, check, sigs, sends, reading, apc, toAgent,
                     toClient, stray, versions>>
      /\ Spend("remote", MaxRemoteEdits)
      BY DEF RemoteEdit, client
<1>2. PICK s \in Seq(AgentFrame), b \in Seq(AgentFrame), c \in Seq(ClientFrame) :
        s = toAgent /\ b = stray /\ c = toClient
      BY DEF IInv, Types
<1>3. PICK t : t = remote /\ WellFormed(t) /\ Confined(t)
      BY DEF IInv, Types
<1>4. PICK e \in Walkable : e.kind \in {"file", "none"} /\ remote' = [t EXCEPT ![p] = e]
      BY <1>3, ForeignEntry
<1>5. t[p] # Dir /\ (Len(p) > 1 => t[Front(p)] = Dir)
  <2>1. t[p].kind \in {"file", "none"} /\ (Len(p) > 1 => t[Front(p)] = Dir)
        BY <1>3 DEF RemoteEdit
  <2>2. QED
        BY <2>1, MakesEntries
<1>6. PICK u : u = [t EXCEPT ![p] = e] /\ remote' = u
      BY <1>4
<1>7. WellFormed(u) /\ Confined(u) /\ u[p] = e /\ \A q \in Paths : q # p => u[q] = t[q]
  <2>1. WellFormed(t) /\ e.kind \in {"file", "none"}
        BY <1>3, <1>4
  <2>2. u = Replaced(t, p, e)
        BY <1>6 DEF Replaced
  <2>3. QED
        BY <1>3, <1>5, <2>1, <2>2, EntryReplaced
<1>8. PICK o : o = shaken' /\ o = IF apc = "serve" \/ stray # <<>> THEN shaken \cup {p} ELSE shaken
      BY DEF RemoteEdit
<1>9. shaken \subseteq o /\ o \subseteq Paths /\ (apc = "serve" \/ stray # <<>> => p \in o)
       BY <1>8 DEF IInv, Types
<1>10. Covered' => Covered
       BY <1>8, <1>9 DEF Covered
<1>11. Covered' => NoLink \subseteq NoLink' /\ Apart(local, remote)'
  <2>1. Covered' => Apart(local, t)
        BY <1>3, <1>10 DEF IInv, Sides
  <2>2. NoLink = Linkless(local, t) /\ NoLink' = Linkless(local, u)
        BY <1>1, <1>3, <1>6 DEF NoLink
  <2>3. Apart(local, u) => Apart(local, remote)'
        BY <1>1, <1>6 DEF Apart
  <2>4. Apart(local, t) => Linkless(local, t) \subseteq Linkless(local, u) /\ Apart(local, u)
        BY <1>4, <1>7, PlainReplaced
  <2>5. QED
        BY <2>1, <2>2, <2>3, <2>4
<1>12. Sides' /\ Walked' /\ Lists' /\ Frames' /\ Ordering(toAgent)' /\ Ordering(stray)'
  <2>1. Within(s, toAgent) /\ Within(b, stray) /\ stray' = b /\ toAgent' = s /\ toClient' = c
        BY <1>1, <1>2, AllWithin
  <2>2. shaken \subseteq shaken' /\ (shaken \subseteq Paths)'
        BY <1>8, <1>9
  <2>3. UNCHANGED <<local, walk, list, versions>>
        BY <1>1
  <2>4. \A k \in 1..Len(c) : c[k].tag # "LIST" \/ \E j \in 1..Len(toClient) : c[k] = toClient[j]
        BY <1>2
  <2>5. QED
        BY <1>11, <2>1, <2>2, <2>3, <2>4, RemoteKeeps
<1>13. Types'
  <2>1. used' \in [local : Nat, remote : Nat, breaks : Nat, sessions : Nat]
        BY <1>1, SpendKeeps
  <2>2. WellFormed(remote)' /\ Confined(remote)'
        BY <1>6, <1>7 DEF WellFormed, Confined, Children
  <2>3. QED
        BY <1>1, <1>8, <1>9, <2>1, <2>2 DEF IInv, Types, WellFormed, Children
<1>14. Stages' /\ Planned' /\ Opened' /\ Own'
  <2>1. Stages'
        BY <1>1 DEF IInv, Stages
  <2>2. Planned'
        BY <1>1 DEF IInv, Planned
  <2>3. Opened'
        BY <1>1 DEF IInv, Opened
  <2>4. Own'
        BY <1>1 DEF IInv, Own
  <2>5. QED
        BY <2>1, <2>2, <2>3, <2>4
<1>15. PICK v : v = versions
       OBVIOUS
<1>16. /\ Sigs' /\ Answers'
       /\ apc = "serve" => \A k \in 1..Len(toAgent) : DeltaFresh(toAgent[k], u, v, o)
  <2>1. UNCHANGED <<cpc, apc, want, check, sends, sigs, toAgent, toClient>>
        BY <1>1
  <2>2. versions' = v /\ \A q \in Paths : versions[q] \subseteq v[q]
        BY <1>1, <1>15
  <2>3. apc = "serve" => Spares(remote, u, o)
        BY <1>3, <1>7, <1>9 DEF Spares
  <2>4. remote' = u /\ shaken' = o /\ shaken \subseteq o
        BY <1>6, <1>8, <1>9
  <2>5. QED
        BY <2>1, <2>2, <2>3, <2>4, ElsewhereKeeps
<1>17. Deltas'
  <2>1. ASSUME apc \in {"off", "start"}, NEW k \in 1..Len(b)
        PROVE  DeltaFresh(b[k], u, v, o)
    <3>1. b[k] \in AgentFrame /\ b # <<>>
          BY <2>1, ElementOfSeq, EmptyFrames
    <3>2. DeltaFresh(b[k], t, v, shaken)
          BY <1>2, <1>3, <1>15, <2>1 DEF IInv, Deltas
    <3>3. Spares(t, u, o)
          BY <1>2, <1>7, <1>9, <3>1 DEF Spares
    <3>4. PICK w : w = shaken
          OBVIOUS
    <3>5. QED
          BY <1>9, <3>1, <3>2, <3>3, <3>4, DeltaElsewhere
  <2>2. QED
        BY <1>1, <1>2, <1>6, <1>8, <1>15, <1>16, <2>1 DEF Deltas
<1>18. QED
       BY <1>12, <1>13, <1>14, <1>16, <1>17 DEF IInv

LEMMA LocalEditKeeps == ASSUME NEW p \in Paths, IInv, LocalEdit(p) PROVE IInv'
<1>1. /\ UNCHANGED <<remote, now, lag, cpc, walk, list, want, check, sigs, sends, reading, apc, toAgent,
                     toClient, stray, shaken>>
      /\ Spend("local", MaxLocalEdits)
      BY DEF LocalEdit, client
<1>2. PICK s \in Seq(AgentFrame), b \in Seq(AgentFrame), c \in Seq(ClientFrame) :
        s = toAgent /\ b = stray /\ c = toClient
      BY DEF IInv, Types
<1>3. PICK t : t = local /\ WellFormed(t)
      BY DEF IInv, Types
<1>4. MaxTime \in Nat /\ now \in 1..MaxTime
      BY ContentsAssumption DEF IInv, Types
<1>5. PICK e \in Walkable :
        /\ e.kind \in {"file", "none"} /\ local' = [t EXCEPT ![p] = e]
        /\ versions' = [versions EXCEPT ![p] = @ \cup {Bare(e)}]
  <2>1. PICK e \in {File(d, now) : d \in Contents} \cup {Absent} :
          /\ local' = [t EXCEPT ![p] = e]
          /\ versions' = [versions EXCEPT ![p] = @ \cup {Bare(e)}]
        BY <1>3 DEF LocalEdit
  <2>2. e \in Walkable /\ e.kind \in {"file", "none"}
    <3>1. ASSUME NEW d \in Contents, e = File(d, now)
          PROVE  e \in Walkable /\ e.kind \in {"file", "none"}
      <4>1. d \in Seq(Blocks) /\ now \in Int
            BY <1>4, ContentsAssumption
      <4>2. QED
            BY <3>1, <4>1, MakesEntries
    <3>2. QED
          BY <2>1, <3>1, MakesEntries
  <2>3. QED
        BY <2>1, <2>2
<1>6. t[p].kind \in {"file", "none"} /\ t[p] # Dir /\ (Len(p) > 1 => t[Front(p)] = Dir)
  <2>1. t[p].kind \in {"file", "none"} /\ (Len(p) > 1 => t[Front(p)] = Dir)
        BY <1>3 DEF LocalEdit
  <2>2. QED
        BY <2>1, MakesEntries
<1>7. PICK u : u = [t EXCEPT ![p] = e] /\ local' = u
      BY <1>5
<1>8. WellFormed(u) /\ u[p] = e /\ \A q \in Paths : q # p => u[q] = t[q]
  <2>1. WellFormed(t) /\ e.kind \in {"file", "none"}
        BY <1>3, <1>5
  <2>2. u = Replaced(t, p, e)
        BY <1>7 DEF Replaced
  <2>3. QED
        BY <1>6, <2>1, <2>2, EntryReplaced
<1>9. PICK v : v = [versions EXCEPT ![p] = @ \cup {Bare(e)}] /\ versions' = v
      BY <1>5
<1>10. /\ v \in [Paths -> SUBSET Entry] /\ Bare(e) \in v[p]
       /\ \A q \in Paths : versions[q] \subseteq v[q]
  <2>1. Bare(e) \in Entry
        BY BareOf DEF Walkable
  <2>2. versions \in [Paths -> SUBSET Entry]
        BY DEF IInv, Types
  <2>3. QED
        BY <1>9, <2>1, <2>2
<1>11. Covered' = Covered
       BY <1>1 DEF Covered
<1>12. PICK r, N : r = remote /\ N = NoLink
       OBVIOUS
<1>13. N \subseteq NoLink'
  <2>1. N = Linkless(t, r) /\ NoLink' = Linkless(u, r)
        BY <1>1, <1>3, <1>7, <1>12 DEF NoLink
  <2>2. QED
        BY <1>5, <1>8, <2>1 DEF Linkless
<1>14. Sides'
  <2>1. \A q \in Paths : Bare(t[q]) \in versions[q]
        BY <1>3 DEF IInv, Sides
  <2>2. \A q \in Paths : Bare(u[q]) \in v[q]
        BY <1>8, <1>10, <2>1
  <2>3. Covered => Apart(t, r)
        BY <1>3, <1>12 DEF IInv, Sides
  <2>4. Covered => Apart(u, r)
        BY <1>5, <1>8, <2>3, MakesEntries DEF Apart
  <2>5. QED
        BY <1>1, <1>7, <1>9, <1>11, <1>12, <2>2, <2>4 DEF Sides, Apart
<1>15. Walked'
  <2>1. ASSUME NEW q \in Paths, walk[q].kind \in {"dir", "link"} PROVE u[q] = walk[q]
    <3>1. t[q] = walk[q]
          BY <1>3, <2>1 DEF IInv, Walked
    <3>2. q # p
          BY <1>6, <2>1, <3>1
    <3>3. QED
          BY <1>8, <3>1, <3>2
  <2>2. ASSUME NEW q \in Paths, walk[q] # Absent
        PROVE  ~ IsExcluded(q) /\ Bare(walk[q]) \in v[q] /\ \A x \in Above(q) : u[x] = Dir
    <3>1. ~ IsExcluded(q) /\ Bare(walk[q]) \in versions[q] /\ \A x \in Above(q) : t[x] = Dir
          BY <1>3, <2>2 DEF IInv, Walked
    <3>2. \A x \in Above(q) : x \in Paths /\ u[x] = Dir
          BY <1>6, <1>8, <3>1, AbovePath
    <3>3. QED
          BY <1>10, <3>1, <3>2
  <2>3. QED
        BY <1>1, <1>7, <1>9, <2>1, <2>2 DEF Walked
<1>16. Lists'
  <2>1. Covered => /\ Listed(list, N)
                   /\ \A k \in 1..Len(c) : c[k].tag = "LIST" => Listed(c[k].tree, N)
        BY <1>2, <1>12 DEF IInv, Lists
  <2>2. PICK M : M = NoLink' /\ N \subseteq M
        BY <1>13
  <2>3. Covered => /\ Listed(list, M)
                   /\ \A k \in 1..Len(c) : c[k].tag = "LIST" => Listed(c[k].tree, M)
        BY <2>1, <2>2 DEF Listed
  <2>4. QED
        BY <1>1, <1>2, <1>11, <2>2, <2>3 DEF Lists
<1>17. Frames'
  <2>1. Covered => /\ \A k \in 1..Len(s) : Sound(s[k], t, N, versions)
                   /\ \A k \in 1..Len(b) : Sound(b[k], t, N, versions)
        BY <1>2, <1>3, <1>12 DEF IInv, Frames
  <2>2. PICK M, z : M = NoLink' /\ N \subseteq M /\ z = versions
        BY <1>13
  <2>3. \A q \in Paths : t[q].kind = "link" => u[q].kind = "link"
        BY <1>6, <1>8
  <2>4. ASSUME NEW x \in AgentFrame, Sound(x, t, N, z) PROVE Sound(x, u, M, v)
        BY <1>10, <2>2, <2>3, <2>4, SoundStays
  <2>5. Covered => \A k \in 1..Len(s) : Sound(s[k], u, M, v)
        BY <2>1, <2>2, <2>4, ElementOfSeq
  <2>6. Covered => \A k \in 1..Len(b) : Sound(b[k], u, M, v)
        BY <2>1, <2>2, <2>4, ElementOfSeq
  <2>7. QED
        BY <1>1, <1>2, <1>7, <1>9, <1>11, <2>2, <2>5, <2>6 DEF Frames
<1>18. Types'
  <2>1. used' \in [local : Nat, remote : Nat, breaks : Nat, sessions : Nat]
        BY <1>1, SpendKeeps
  <2>2. WellFormed(local)'
        BY <1>7, <1>8 DEF WellFormed, Children
  <2>3. QED
        BY <1>1, <1>9, <1>10, <2>1, <2>2 DEF IInv, Types, WellFormed, Confined, Children
<1>19. Stages' /\ Planned' /\ Own'
  <2>1. Stages'
        BY <1>1 DEF IInv, Stages
  <2>2. Planned'
        BY <1>1 DEF IInv, Planned
  <2>3. Own'
        BY <1>1 DEF IInv, Own
  <2>4. QED
        BY <2>1, <2>2, <2>3
<1>20. Opened'
  <2>1. reading # Shut => File(reading.data, 0) \in v[reading.path]
    <3>1. ASSUME reading # Shut PROVE File(reading.data, 0) \in v[reading.path]
      <4>1. reading.path \in Paths /\ File(reading.data, 0) \in versions[reading.path]
            BY <3>1 DEF IInv, Types, Opened
      <4>2. QED
            BY <1>10, <4>1
    <3>2. QED
          BY <3>1
  <2>2. QED
        BY <1>1, <1>9, <2>1 DEF IInv, Opened
<1>21. Ordering(toAgent)' /\ Ordering(stray)'
       BY <1>1 DEF IInv, Ordering
<1>22. PICK o : o = shaken
       OBVIOUS
<1>23. /\ Sigs' /\ Answers'
       /\ apc = "serve" => \A k \in 1..Len(toAgent) : DeltaFresh(toAgent[k], r, v, o)
  <2>1. UNCHANGED <<cpc, apc, want, check, sends, sigs, toAgent, toClient>>
        BY <1>1
  <2>2. versions' = v /\ \A q \in Paths : versions[q] \subseteq v[q]
        BY <1>9, <1>10
  <2>3. apc = "serve" => Spares(remote, r, o)
        BY <1>12 DEF Spares
  <2>4. remote' = r /\ shaken' = o /\ shaken \subseteq o
        BY <1>1, <1>12, <1>22
  <2>5. QED
        BY <2>1, <2>2, <2>3, <2>4, ElsewhereKeeps
<1>24. Deltas'
  <2>1. ASSUME apc \in {"off", "start"}, NEW k \in 1..Len(b)
        PROVE  DeltaFresh(b[k], r, v, o)
    <3>1. b[k] \in AgentFrame
          BY <2>1, ElementOfSeq
    <3>2. PICK z : z = versions
          OBVIOUS
    <3>3. DeltaFresh(b[k], r, z, o)
          BY <1>2, <1>12, <1>22, <2>1, <3>2 DEF IInv, Deltas
    <3>4. Spares(r, r, o)
          BY DEF Spares
    <3>5. QED
          BY <1>10, <3>1, <3>2, <3>3, <3>4, DeltaElsewhere
  <2>2. QED
        BY <1>1, <1>2, <1>9, <1>12, <1>22, <1>23, <2>1 DEF Deltas
<1>25. QED
       BY <1>14, <1>15, <1>16, <1>17, <1>18, <1>19, <1>20, <1>21, <1>23, <1>24 DEF IInv

-----------------------------------------------------------------------------
(***************************************************************************)
(* The theorems.                                                           *)
(***************************************************************************)

LEMMA NextKeeps == IInv /\ [Next]_vars => IInv'
<1> SUFFICES ASSUME IInv, [Next]_vars PROVE IInv'
    OBVIOUS
<1>1. CASE Start BY <1>1, StartKeeps
<1>2. CASE Plan BY <1>2, PlanKeeps
<1>3. CASE CollectSig BY <1>3, CollectSigKeeps
<1>4. CASE OpenToVerify BY <1>4, OpenToVerifyKeeps
<1>5. CASE Verify BY <1>5, VerifyKeeps
<1>6. CASE OpenToSend BY <1>6, OpenToSendKeeps
<1>7. CASE Send BY <1>7, SendKeeps
<1>8. CASE Finish BY <1>8, FinishKeeps
<1>9. CASE Succeed BY <1>9, SucceedKeeps
<1>10. CASE Fail BY <1>10, FailKeeps
<1>11. CASE Again BY <1>11, AgainKeeps
<1>12. CASE List BY <1>12, ListKeeps
<1>13. CASE AnswerSig BY <1>13, AnswerSigKeeps
<1>14. CASE Change BY <1>14, ChangeKeeps
<1>15. CASE Conclude BY <1>15, ConcludeKeeps
<1>16. CASE StrayStep BY <1>16, StrayStepKeeps
<1>17. CASE \E p \in Paths : LocalEdit(p) BY <1>17, LocalEditKeeps
<1>18. CASE \E p \in Paths : RemoteEdit(p) BY <1>18, RemoteEditKeeps
<1>19. CASE Tick BY <1>19, TickKeeps
<1>20. CASE Break BY <1>20, BreakKeeps
<1>21. CASE AgentDies BY <1>21, AgentDiesKeeps
<1>22. CASE UNCHANGED vars BY <1>22, StutterKeeps
<1>23. QED
       BY <1>1, <1>2, <1>3, <1>4, <1>5, <1>6, <1>7, <1>8, <1>9, <1>10, <1>11, <1>12, <1>13, <1>14,
          <1>15, <1>16, <1>17, <1>18, <1>19, <1>20, <1>21, <1>22 DEF Next, ClientStep, AgentStep

\* The inductive invariant of delta sync: what the client has planned is what is on its
\* way, every frame names paths that lead to themselves, and what it writes there is a
\* version of the local file (Agent::sync and serve_sync).
THEOREM SyncInvariant == Spec => []IInv
<1>1. Init => IInv
      BY InitIInv
<1>2. IInv /\ [Next]_vars => IInv'
      BY NextKeeps
<1>3. QED
      BY <1>1, <1>2, PTL DEF Spec

\* There is something in the remote root only if it is there.
RootSound == rooted \in BOOLEAN /\ (rooted \/ remote = NoTree)

LEMMA MakeRootKeeps == ASSUME RootSound, MakeRoot PROVE RootSound'
<1>1. rooted' \in BOOLEAN
      BY DEF RootSound, MakeRoot
<1>2. CASE rooted'
      BY <1>1, <1>2 DEF RootSound
<1>3. CASE ~ rooted'
  <2>1. ~ rooted /\ remote' = remote
        BY <1>3 DEF MakeRoot, RootSound
  <2>2. QED
        BY <1>1, <2>1 DEF RootSound
<1>4. QED
      BY <1>2, <1>3

LEMMA RootedHolds == Spec => []RootSound
<1>1. Init => RootSound
  <2> SUFFICES ASSUME Init PROVE RootSound
      OBVIOUS
  <2>1. PICK t \in Starts : remote = t.remote /\ rooted = t.rooted
        BY DEF Init
  <2>2. /\ WellFormed(t.remote) /\ t.rooted \in BOOLEAN
        /\ t.rooted \/ \A p \in Paths : t.remote[p] = Absent
        BY StartsAssumption
  <2>3. t.remote \in [Paths -> Entry]
        BY <2>2 DEF WellFormed
  <2>4. (\A p \in Paths : t.remote[p] = Absent) => t.remote = NoTree
        BY <2>3 DEF NoTree
  <2>5. QED
        BY <2>1, <2>2, <2>4 DEF RootSound
<1>2. RootSound /\ [Next]_vars => RootSound'
  <2> SUFFICES ASSUME RootSound, [Next]_vars PROVE RootSound'
      OBVIOUS
  <2>1. ASSUME UNCHANGED <<remote, rooted>> PROVE RootSound'
        BY <2>1 DEF RootSound
  <2>2. ASSUME ClientStep PROVE UNCHANGED <<remote, rooted>>
    <3>1. ASSUME NEW p, Open(p) PROVE UNCHANGED <<remote, rooted>>
          BY <3>1 DEF Open, GiveUp, world
    <3>2. CASE Start \/ Plan \/ CollectSig \/ Verify
          BY <3>2 DEF Start, Plan, CollectSig, Verify, GiveUp, world
    <3>3. CASE OpenToVerify \/ OpenToSend
          BY <3>1, <3>3 DEF OpenToVerify, OpenToSend
    <3>4. CASE Send
          BY <3>4 DEF Send, Put, world
    <3>5. CASE Finish \/ Succeed \/ Fail \/ Again
          BY <3>5 DEF Finish, Succeed, Fail, Again, GiveUp, world
    <3>6. QED
          BY <2>2, <3>2, <3>3, <3>4, <3>5 DEF ClientStep
  <2>3. ASSUME List \/ AnswerSig \/ Conclude PROVE UNCHANGED <<remote, rooted>>
        BY <2>3 DEF List, AnswerSig, Conclude, world
  <2>4. ASSUME Tick \/ Break \/ UNCHANGED vars PROVE UNCHANGED <<remote, rooted>>
        BY <2>4 DEF Tick, Break, vars, world
  <2>5. ASSUME NEW p \in Paths, LocalEdit(p) PROVE UNCHANGED <<remote, rooted>>
        BY <2>5 DEF LocalEdit
  <2>6. ASSUME Change \/ StrayStep \/ \E p \in Paths : RemoteEdit(p) PROVE MakeRoot
        BY <2>6 DEF Change, StrayStep, RemoteEdit
  <2>7. ASSUME AgentDies PROVE RootSound'
    <3>1. \/ UNCHANGED <<remote, rooted>>
          \/ rooted' = TRUE
          \/ MakeRoot
          BY <2>7 DEF AgentDies
    <3>2. rooted' = TRUE => RootSound'
          BY DEF RootSound
    <3>3. QED
          BY <2>1, <3>1, <3>2, MakeRootKeeps
  <2>8. QED
        BY <2>1, <2>2, <2>3, <2>4, <2>5, <2>6, <2>7, MakeRootKeeps DEF Next, AgentStep
<1>3. QED
      BY <1>1, <1>2, PTL DEF Spec

\* Whatever is edited, lost or cut short, both trees stay trees: nothing is left without
\* its directory (write_file_atomic, create_dir_all, apply_put and the DELETE arm).
THEOREM TypeOKHolds == Spec => []TypeOK
<1>1. IInv /\ RootSound => TypeOK
  <2> SUFFICES ASSUME IInv, RootSound PROVE TypeOK
      OBVIOUS
  <2>1. \A p \in Paths : local[p].kind \in {"none", "file", "dir", "link"}
        BY TreeEntry, EntryKinds DEF IInv, Types
  <2>2. ASSUME NEW s \in Seq(Paths) PROVE ToSet(s) \subseteq Paths
        BY ElementOfSeq DEF ToSet
  <2>3. ToSet(want) \cup ToSet(check) \cup ToSet(sends) \subseteq Paths
    <3>1. want \in Seq(Paths) /\ check \in Seq(Paths) /\ sends \in Seq(Paths)
          BY DEF IInv, Types
    <3>2. QED
          BY <2>2, <3>1
  <2>4. QED
        BY <2>1, <2>3 DEF IInv, Types, TypeOK, RootSound
<1>2. QED
      BY <1>1, SyncInvariant, RootedHolds, PTL

\* All steps but those that write to the remote tree or edit the local one.
LEMMA OthersLeave ==
  ASSUME IInv, \/ ClientStep \/ List \/ AnswerSig \/ Conclude \/ Tick \/ Break \/ UNCHANGED vars
  PROVE  UNCHANGED <<remote, versions, shaken>> /\ used'.remote = used.remote
<1>1. used \in [local : Nat, remote : Nat, breaks : Nat, sessions : Nat]
      BY DEF IInv, Types
<1>2. ASSUME NEW p, Open(p) PROVE UNCHANGED <<remote, versions, shaken, used>>
      BY <1>2 DEF Open, GiveUp, world, history
<1>3. CASE Start
      BY <1>1, <1>3 DEF Start, Spend, world
<1>4. CASE Plan
      BY <1>4 DEF Plan, world, history
<1>5. CASE CollectSig
      BY <1>5 DEF CollectSig, GiveUp, world, history
<1>6. CASE OpenToVerify
      BY <1>2, <1>6 DEF OpenToVerify
<1>7. CASE Verify
      BY <1>7 DEF Verify, GiveUp, world, history
<1>8. CASE OpenToSend
      BY <1>2, <1>8 DEF OpenToSend
<1>9. CASE Send
      BY <1>9 DEF Send, Put, world, history
<1>10. CASE Finish
       BY <1>10 DEF Finish, world, history
<1>11. CASE Succeed
       BY <1>11 DEF Succeed, world
<1>12. CASE Fail
       BY <1>12 DEF Fail, GiveUp, world, history
<1>13. CASE Again
       BY <1>13 DEF Again, world, history
<1>14. CASE List
       BY <1>14 DEF List, world
<1>15. CASE AnswerSig
       BY <1>15 DEF AnswerSig, world, history
<1>16. CASE Conclude
       BY <1>16 DEF Conclude, world, history
<1>17. CASE Tick
       BY <1>17 DEF Tick, history
<1>18. CASE Break
       BY <1>1, <1>18 DEF Break, Spend, world
<1>19. CASE UNCHANGED vars
       BY <1>19 DEF vars, world, history
<1>20. QED
       BY <1>3, <1>4, <1>5, <1>6, <1>7, <1>8, <1>9, <1>10, <1>11, <1>12, <1>13, <1>14, <1>15, <1>16,
          <1>17, <1>18, <1>19 DEF ClientStep

\* What the agent of the sync under way applies.
LEMMA ChangeIs ==
  ASSUME IInv, Change, Covered
  PROVE  \E f \in AgentFrame :
           /\ f.tag \in {"MKDIR", "DELETE", "PUT"}
           /\ Sound(f, local, Linkless(local, remote), versions)
           /\ DeltaFresh(f, remote, versions, shaken)
           /\ cpc \in Active => OwnFrame(f, walk, sends)
           /\ \A q \in Paths : Effect(remote, f, q, remote'[q])
           /\ UNCHANGED <<versions, shaken, used>>
<1>1. apc = "serve" /\ toAgent # <<>> /\ UNCHANGED <<versions, shaken, used>>
      BY DEF Change, history
<1>2. PICK s \in Seq(AgentFrame) : s = toAgent
      BY DEF IInv, Types
<1>3. PICK f \in AgentFrame : f = s[1] /\ f = Head(s) /\ 1 \in 1..Len(s)
  <2>1. Head(s) = s[1] /\ s[1] \in AgentFrame /\ Len(s) \in Nat \ {0}
        BY <1>1, <1>2, TailOf
  <2>2. QED
        BY <2>1
<1>4. f.tag \in {"MKDIR", "DELETE", "PUT"}
      BY <1>2, <1>3 DEF Change
<1>5. PICK t : t = remote
      OBVIOUS
<1>6. WellFormed(t) /\ Confined(t) /\ now \in Int /\ lag \in Int
  <2>1. now \in 1..MaxTime /\ lag \in Nat /\ MaxTime \in Nat
        BY ContentsAssumption DEF IInv, Types
  <2>2. QED
        BY <1>5, <2>1 DEF IInv, Types
<1>7. PICK w : w = Apply(t, f)
      OBVIOUS
<1>8. Free(t, f.paths[1]) => \A q \in Paths : Effect(t, f, q, w.tree[q])
      BY <1>4, <1>6, <1>7, ApplyEffect
<1>9. remote' = w.tree
      BY <1>2, <1>3, <1>5, <1>7 DEF Change
<1>10. Sound(f, local, Linkless(local, t), versions)
       BY <1>2, <1>3, <1>5 DEF IInv, Frames, NoLink
<1>11. \A q \in Paths : Effect(t, f, q, w.tree[q])
       BY <1>4, <1>8, <1>10, SoundFree
<1>12. DeltaFresh(f, t, versions, shaken)
       BY <1>1, <1>2, <1>3, <1>5 DEF IInv, Deltas
<1>13. cpc \in Active => OwnFrame(f, walk, sends)
       BY <1>2, <1>3 DEF IInv, Own
<1>14. QED
       BY <1>1, <1>4, <1>5, <1>9, <1>10, <1>11, <1>12, <1>13

\* What the agent of an earlier sync applies.
LEMMA StrayIs ==
  ASSUME IInv, StrayStep, Covered
  PROVE  \/ UNCHANGED remote
         \/ \E f \in AgentFrame :
              /\ f.tag \in {"MKDIR", "DELETE", "PUT"}
              /\ Sound(f, local, Linkless(local, remote), versions)
              /\ DeltaFresh(f, remote, versions, shaken') \/ f.paths[1] \in shaken'
              /\ \A q \in Paths : Effect(remote, f, q, remote'[q])
<1>1. stray # <<>>
      BY DEF StrayStep
<1>2. PICK s \in Seq(AgentFrame) : s = stray
      BY DEF IInv, Types
<1>3. PICK f \in AgentFrame : f = s[1] /\ f = Head(s) /\ 1 \in 1..Len(s)
  <2>1. Head(s) = s[1] /\ s[1] \in AgentFrame /\ Len(s) \in Nat \ {0}
        BY <1>1, <1>2, TailOf
  <2>2. QED
        BY <2>1
<1>4. CASE f.tag \notin {"MKDIR", "DELETE", "PUT"}
      BY <1>2, <1>3, <1>4 DEF StrayStep, Yields
<1>5. CASE f.tag \in {"MKDIR", "DELETE", "PUT"}
  <2>1. PICK t : t = remote
        OBVIOUS
  <2>2. WellFormed(t) /\ Confined(t) /\ now \in Int /\ lag \in Int
    <3>1. now \in 1..MaxTime /\ lag \in Nat /\ MaxTime \in Nat
          BY ContentsAssumption DEF IInv, Types
    <3>2. QED
          BY <2>1, <3>1 DEF IInv, Types
  <2>3. PICK w : w = Apply(t, f)
        OBVIOUS
  <2>4. Free(t, f.paths[1]) => \A q \in Paths : Effect(t, f, q, w.tree[q])
        BY <1>5, <2>2, <2>3, ApplyEffect
  <2>5. /\ remote' = w.tree
        /\ shaken' = IF apc \notin {"off", "start"} THEN shaken \cup {Head(f.paths)} ELSE shaken
        BY <1>2, <1>3, <1>5, <2>1, <2>3 DEF StrayStep
  <2>6. Sound(f, local, Linkless(local, t), versions)
        BY <1>2, <1>3, <2>1 DEF IInv, Frames, NoLink
  <2>7. \A q \in Paths : Effect(t, f, q, w.tree[q])
        BY <1>5, <2>4, <2>6, SoundFree
  <2>8. DeltaFresh(f, t, versions, shaken') \/ f.paths[1] \in shaken'
    <3>1. CASE apc \in {"off", "start"}
          BY <1>2, <1>3, <2>1, <2>5, <3>1 DEF IInv, Deltas
    <3>2. CASE apc \notin {"off", "start"}
      <4>1. Head(f.paths) = f.paths[1]
            BY <1>5, FrameKinds
      <4>2. QED
            BY <2>5, <3>2, <4>1
    <3>3. QED
          BY <3>1, <3>2
  <2>9. QED
        BY <1>5, <2>1, <2>5, <2>6, <2>7, <2>8
<1>6. QED
      BY <1>4, <1>5

\* What an agent that is killed leaves.
LEMMA DiesIs ==
  ASSUME IInv, AgentDies, Covered
  PROVE  \/ UNCHANGED remote
         \/ \E f \in AgentFrame, p \in Paths, e \in Walkable :
              /\ f.tag = "PUT"
              /\ cpc \in Active => OwnFrame(f, walk, sends)
              /\ remote'[p] = e /\ \A q \in Paths : q # p => remote'[q] = remote[q]
              /\ ~ IsExcluded(p)
              /\ \/ p \in Staging /\ e.kind = "file" /\ remote[p] = Absent
                 \/ p = f.paths[1] /\ e = Absent /\ f.entry.kind = "link"
<1>1. CASE UNCHANGED remote
      BY <1>1
<1>2. CASE toAgent # <<>> /\ Head(toAgent).tag = "PUT" /\ HalfPut(Head(toAgent))
  <2>1. PICK s \in Seq(AgentFrame) : s = toAgent
        BY DEF IInv, Types
  <2>2. PICK f \in AgentFrame : f = s[1] /\ f = Head(s) /\ 1 \in 1..Len(s)
    <3>1. Head(s) = s[1] /\ s[1] \in AgentFrame /\ Len(s) \in Nat \ {0}
          BY <1>2, <2>1, TailOf
    <3>2. QED
          BY <3>1
  <2>3. f.tag = "PUT" /\ HalfPut(f)
        BY <1>2, <2>1, <2>2
  <2>4. PICK p \in Paths, e \in Walkable :
          /\ remote'[p] = e /\ \A q \in Paths : q # p => remote'[q] = remote[q]
          /\ \/ p \in Staging /\ e.kind = "file" /\ remote[p] = Absent
             \/ /\ p = Real(remote, f.paths[1]) /\ e = Absent /\ f.entry.kind = "link"
                /\ remote[p] \notin {Absent, Dir}
        BY <2>3, HalfPutEffect
  <2>5. PICK t, x : t = remote /\ x = f.paths[1]
        OBVIOUS
  <2>6. Sound(f, local, Linkless(local, t), versions)
        BY <2>1, <2>2, <2>5 DEF IInv, Frames, NoLink
  <2>7. Free(t, x) /\ x \in Paths
        BY <2>3, <2>5, <2>6, SoundFree, FrameKinds
  <2>8. Real(t, x) = x
        BY <2>7, RealSelf DEF Free
  <2>9. ~ IsExcluded(x)
    <3>1. 1 \in 1..Len(f.paths)
          BY <2>3, FrameKinds
    <3>2. QED
          BY <2>5, <2>6, <3>1 DEF Sound, SoundAt
  <2>10. cpc \in Active => OwnFrame(f, walk, sends)
         BY <2>1, <2>2 DEF IInv, Own
  <2>11. ~ IsExcluded(p)
         BY <2>4, <2>5, <2>8, <2>9, StagingAssumption
  <2>12. QED
         BY <2>3, <2>4, <2>5, <2>8, <2>10, <2>11
<1>3. QED
      BY <1>1, <1>2 DEF AgentDies

\* What a step of a sync may do to the remote tree.
Publishing ==
  /\ UNCHANGED versions /\ shaken \subseteq shaken' /\ used'.remote = used.remote
  /\ \A p \in Paths :
       \/ remote'[p] = remote[p]
       \/ shaken' = Paths
       \/ /\ ~ IsExcluded(p)
          /\ \/ Bare(remote'[p]) \in versions[p] \cup {Absent}
             \/ p \in shaken'
             \/ p \in Staging

LEMMA SyncSteps ==
  ASSUME IInv, [Next]_vars
  PROVE  \/ Publishing
         \/ \E p \in Paths : LocalEdit(p) \/ RemoteEdit(p)
<1>1. ASSUME \/ ClientStep \/ List \/ AnswerSig \/ Conclude \/ Tick \/ Break \/ UNCHANGED vars
      PROVE  Publishing
      BY <1>1, OthersLeave DEF Publishing
<1>2. ASSUME Change PROVE Publishing
  <2>1. UNCHANGED <<versions, shaken, used>>
        BY <1>2 DEF Change, history
  <2>2. CASE ~ Covered
        BY <2>1, <2>2 DEF Covered, Publishing
  <2>3. CASE Covered
    <3>1. PICK f \in AgentFrame :
            /\ f.tag \in {"MKDIR", "DELETE", "PUT"}
            /\ Sound(f, local, Linkless(local, remote), versions)
            /\ DeltaFresh(f, remote, versions, shaken)
            /\ \A q \in Paths : Effect(remote, f, q, remote'[q])
          BY <1>2, <2>3, ChangeIs
    <3>2. PICK l, t, v, o, u : l = local /\ t = remote /\ v = versions /\ o = shaken /\ u = remote'
          OBVIOUS
    <3>3. ASSUME NEW q \in Paths
          PROVE  u[q] = t[q] \/ (~ IsExcluded(q) /\ (Bare(u[q]) \in v[q] \cup {Absent} \/ q \in o))
      <4>1. Effect(t, f, q, u[q])
            BY <3>1, <3>2
      <4>2. QED
            BY <3>1, <3>2, <4>1, SyncPublishes
    <3>4. QED
          BY <2>1, <3>2, <3>3 DEF Publishing
  <2>4. QED
        BY <2>2, <2>3
<1>3. ASSUME StrayStep PROVE Publishing
  <2>1. UNCHANGED <<versions, used>>
        BY <1>3 DEF StrayStep
  <2>2. shaken \subseteq shaken' /\ (Covered \/ shaken' = Paths)
    <3>1. shaken' \in {shaken, shaken \cup {Head(Head(stray).paths)}}
          BY <1>3 DEF StrayStep
    <3>2. IInv'
          BY <1>3, StrayStepKeeps
    <3>3. QED
          BY <3>1, <3>2 DEF IInv, Types, Covered
  <2>3. CASE ~ Covered \/ UNCHANGED remote
        BY <2>1, <2>2, <2>3 DEF Publishing
  <2>4. CASE Covered /\ ~ UNCHANGED remote
    <3>1. PICK f \in AgentFrame :
            /\ f.tag \in {"MKDIR", "DELETE", "PUT"}
            /\ Sound(f, local, Linkless(local, remote), versions)
            /\ DeltaFresh(f, remote, versions, shaken') \/ f.paths[1] \in shaken'
            /\ \A q \in Paths : Effect(remote, f, q, remote'[q])
          BY <1>3, <2>4, StrayIs
    <3>2. PICK l, t, v, o, u : l = local /\ t = remote /\ v = versions /\ o = shaken' /\ u = remote'
          OBVIOUS
    <3>3. ASSUME NEW q \in Paths
          PROVE  u[q] = t[q] \/ (~ IsExcluded(q) /\ (Bare(u[q]) \in v[q] \cup {Absent} \/ q \in o))
      <4>1. Effect(t, f, q, u[q])
            BY <3>1, <3>2
      <4>2. QED
            BY <3>1, <3>2, <4>1, SyncPublishes
    <3>4. QED
          BY <2>1, <2>2, <3>2, <3>3 DEF Publishing
  <2>5. QED
        BY <2>3, <2>4
<1>4. ASSUME AgentDies PROVE Publishing
  <2>1. UNCHANGED <<versions, shaken>> /\ used'.remote = used.remote
    <3>1. used \in [local : Nat, remote : Nat, breaks : Nat, sessions : Nat]
          BY DEF IInv, Types
    <3>2. QED
          BY <1>4, <3>1 DEF AgentDies, Spend
  <2>2. CASE ~ Covered \/ UNCHANGED remote
        BY <2>1, <2>2 DEF Publishing, Covered
  <2>3. CASE Covered /\ ~ UNCHANGED remote
    <3>1. PICK p \in Paths, e \in Walkable :
            /\ remote'[p] = e /\ \A q \in Paths : q # p => remote'[q] = remote[q]
            /\ ~ IsExcluded(p) /\ (p \in Staging \/ e = Absent)
          BY <1>4, <2>3, DiesIs
    <3>2. Bare(Absent) = Absent
          BY MakesEntries DEF Bare
    <3>3. QED
          BY <2>1, <3>1, <3>2 DEF Publishing
  <2>4. QED
        BY <2>2, <2>3
<1>5. QED
      BY <1>1, <1>2, <1>3, <1>4 DEF Next, AgentStep

\* Every path of the remote tree always holds nothing, or a whole version of what the
\* local file was at some time, unless others write to it during a sync; excluded paths
\* are left alone (Replica, what delta sync promises).
THEOREM ReplicaHolds == Spec => ReplicaSpec
<1>1. Init => PathReplica!Init
  <2> SUFFICES ASSUME Init PROVE shaken \subseteq Paths /\ used.remote \in Nat
      BY DEF PathReplica!Init
  <2>1. IInv
        BY InitIInv
  <2>2. QED
        BY <2>1 DEF IInv, Types
<1>2. ASSUME IInv, Publishing PROVE PathReplica!Publish
      BY <1>2 DEF Publishing, PathReplica!Publish
<1>3. ASSUME IInv, NEW p \in Paths, LocalEdit(p) PROVE PathReplica!Author
  <2>1. \A q \in Paths : versions[q] \subseteq versions'[q]
    <3>1. PICK e : versions' = [versions EXCEPT ![p] = @ \cup {Bare(e)}]
          BY <1>3 DEF LocalEdit
    <3>2. versions \in [Paths -> SUBSET Entry]
          BY <1>3 DEF IInv, Types
    <3>3. QED
          BY <3>1, <3>2
  <2>2. used'.remote = used.remote
    <3>1. used \in [local : Nat, remote : Nat, breaks : Nat, sessions : Nat]
          BY <1>3 DEF IInv, Types
    <3>2. QED
          BY <1>3, <3>1 DEF LocalEdit, Spend
  <2>3. UNCHANGED <<remote, shaken>>
        BY <1>3 DEF LocalEdit
  <2>4. QED
        BY <2>1, <2>2, <2>3 DEF PathReplica!Author
<1>4. ASSUME IInv, NEW p \in Paths, RemoteEdit(p) PROVE PathReplica!Foreign
  <2>1. used'.remote # used.remote
    <3>1. used \in [local : Nat, remote : Nat, breaks : Nat, sessions : Nat]
          BY <1>4 DEF IInv, Types
    <3>2. used' = [used EXCEPT !["remote"] = @ + 1]
          BY <1>4 DEF RemoteEdit, Spend
    <3>3. used'.remote = used.remote + 1 /\ used.remote \in Nat
          BY <3>1, <3>2
    <3>4. QED
          BY <3>3
  <2>2. shaken \subseteq shaken' /\ UNCHANGED versions
        BY <1>4 DEF RemoteEdit
  <2>3. QED
        BY <2>1, <2>2 DEF PathReplica!Foreign
<1>5. IInv /\ [Next]_vars => PathReplica!Next
      BY <1>2, <1>3, <1>4, SyncSteps DEF PathReplica!Next
<1>6. QED
      BY <1>1, <1>5, SyncInvariant, PTL DEF Spec, ReplicaSpec, PathReplica!Spec

\* During a sync, a file that is on both sides is never missing on the remote: it stays
\* until the temporary file is renamed over it, and nothing that was walked is deleted
\* (write_file_atomic, and the order of PUT and DELETE in Agent::sync).
THEOREM NoGapHolds == Spec => NoGap
<1>1. ASSUME IInv, [Next]_vars, NEW p \in Paths,
             cpc \in Active, walk[p].kind = "file",
             remote[p] # Absent, remote'[p] = Absent, p \notin shaken
      PROVE  used'.remote # used.remote \/ stray' # stray
  <2>1. Covered
        BY <1>1 DEF Covered
  <2>2. walk[p] # Absent /\ Absent.kind = "none"
        BY <1>1, MakesEntries
  <2>3. ASSUME Change PROVE FALSE
    <3>1. PICK f \in AgentFrame :
            /\ f.tag \in {"MKDIR", "DELETE", "PUT"}
            /\ OwnFrame(f, walk, sends)
            /\ Effect(remote, f, p, remote'[p])
          BY <1>1, <2>1, <2>3, ChangeIs
    <3>2. 1 \in 1..Len(f.paths)
          BY <3>1, FrameKinds
    <3>3. f.tag = "DELETE" => p # f.paths[1]
          BY <2>2, <3>1, <3>2 DEF OwnFrame
    <3>4. QED
          BY <1>1, <2>2, <3>1, <3>3, DirIsThere DEF Effect
  <2>4. ASSUME AgentDies PROVE FALSE
    <3>1. PICK f \in AgentFrame, q \in Paths, e \in Walkable :
            /\ f.tag = "PUT" /\ OwnFrame(f, walk, sends)
            /\ remote'[q] = e /\ \A x \in Paths : x # q => remote'[x] = remote[x]
            /\ \/ e.kind = "file" /\ remote[q] = Absent
               \/ q = f.paths[1] /\ f.entry.kind = "link"
          BY <1>1, <2>1, <2>4, DiesIs
    <3>2. p = q
          BY <1>1, <3>1
    <3>3. p = f.paths[1] /\ f.entry.kind = "link"
          BY <1>1, <3>1, <3>2
    <3>4. QED
          BY <1>1, <3>1, <3>3 DEF OwnFrame
  <2>5. ASSUME StrayStep PROVE stray' # stray
    <3>1. PICK s \in Seq(AgentFrame) : s = stray /\ s # <<>>
          BY <1>1, <2>5 DEF StrayStep, IInv, Types
    <3>2. stray' \in {Rest(s), <<>>}
          BY <2>5, <3>1 DEF StrayStep
    <3>3. Rest(s) # s
          BY <3>1, RestWithin
    <3>4. QED
          BY <3>1, <3>2, <3>3
  <2>6. ASSUME NEW q \in Paths, RemoteEdit(q) PROVE used'.remote # used.remote
    <3>1. used \in [local : Nat, remote : Nat, breaks : Nat, sessions : Nat]
          BY <1>1 DEF IInv, Types
    <3>2. used' = [used EXCEPT !["remote"] = @ + 1]
          BY <2>6 DEF RemoteEdit, Spend
    <3>3. used'.remote = used.remote + 1 /\ used.remote \in Nat
          BY <3>1, <3>2
    <3>4. QED
          BY <3>3
  <2>7. ASSUME NEW q \in Paths, LocalEdit(q) PROVE FALSE
        BY <1>1, <2>7 DEF LocalEdit
  <2>8. ASSUME \/ ClientStep \/ List \/ AnswerSig \/ Conclude \/ Tick \/ Break \/ UNCHANGED vars
        PROVE  FALSE
        BY <1>1, <2>8, OthersLeave
  <2>9. QED
        BY <1>1, <2>3, <2>4, <2>5, <2>6, <2>7, <2>8 DEF Next, AgentStep
<1>2. IInv /\ [Next]_vars =>
        \A p \in Paths :
          /\ cpc \in Active /\ walk[p].kind = "file"
          /\ remote[p] # Absent /\ remote'[p] = Absent /\ p \notin shaken
          => used'.remote # used.remote \/ stray' # stray
      BY <1>1
<1>3. QED
      BY <1>2, SyncInvariant, PTL DEF Spec, NoGap

=============================================================================
