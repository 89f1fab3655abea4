------------------------- MODULE SyncOutcomeProofs -------------------------
(***************************************************************************)
(* More proofs about SyncSession, on top of SyncSessionProofs: what a sync *)
(* comes to.  A success leaves the remote tree as the local one was        *)
(* walked, a sync that nothing disturbs succeeds, and the next one then    *)
(* has nothing to do.                                                      *)
(***************************************************************************)
EXTENDS SyncSessionProofs

-----------------------------------------------------------------------------
(***************************************************************************)
(* A second inductive invariant, on top of the first: what a sync comes to *)
(* when nobody else writes to the remote tree.                             *)
(***************************************************************************)

\* A walk gives directories above all that it finds.
Shape(t) == \A p \in Paths : t[p] # Absent => ~ IsExcluded(p) /\ \A q \in Above(p) : t[q] = Dir

Shapes ==
  /\ Shape(walk) /\ Shape(list)
  /\ \A k \in 1..Len(toClient) : toClient[k].tag = "LIST" => Shape(toClient[k].tree)

\* No time is in the future of the local clock.
Times ==
  \A p \in Paths : /\ local[p].kind = "file" => local[p].mtime <= now
                   /\ walk[p].kind = "file" => walk[p].mtime \in 0..now

\* The local tree is still as it was walked.
Unedited == still \/ settled

Copies ==
  Unedited =>
    /\ cpc # "idle" => walk = Walk(local)
    /\ reading # Shut => /\ walk[reading.path].kind = "file"
                         /\ reading.data = walk[reading.path].data

\* The remote tree is still as it was listed.
FreshList ==
  cpc = "list" /\ apc = "serve" /\ quiet =>
    \A k \in 1..Len(toClient) : toClient[k].tag = "LIST" => toClient[k].tree = Walk(remote)

\* What is deleted comes deepest first.
DeepestFirst(ps) == \A i, j \in 1..Len(ps) : i < j => Len(ps[i]) >= Len(ps[j])

\* The order of the frames: MKDIR first, one DELETE, PLAN_DONE last.
Lines(frames) ==
  \A k \in 1..Len(frames) :
    /\ frames[k].tag = "MKDIR" => k = 1
    /\ frames[k].tag = "PLAN_DONE" => k = Len(frames)
    /\ frames[k].tag = "DELETE" =>
         /\ DeepestFirst(frames[k].paths)
         /\ \A j \in 1..Len(frames) : frames[j].tag = "DELETE" => j = k

Ends ==
  /\ apc = "serve" => Lines(toAgent)
  /\ apc = "idle" => toAgent = <<>>
  /\ \A k \in 1..Len(toClient) : toClient[k].tag = "DONE" => apc = "idle"
  /\ cpc = "done" => apc = "idle"
  /\ cpc \in {"await", "done"} => want = <<>> /\ check = <<>> /\ sends = <<>>

\* What is planned follows from what was listed.
Drawn ==
  cpc \in {"sigs", "send", "await"} =>
    /\ \A k \in 1..Len(want) : want[k] \in NeedSig(list)
    /\ \A k \in 1..Len(check) : check[k] \in ToVerify(list)
    /\ \A k \in 1..Len(sends) : sends[k] \in ToSend(list) \cup ToVerify(list)

\* Nobody else has written, and nothing is a directory on one side only.
Calm == quiet /\ Clash(walk, list) = {}

Held(e) == IF e.kind = "file" THEN e.data ELSE <<>>

\* The signatures are those of what was listed.
SigOf(c, due, l) ==
  \A k \in 1..Len(c) : c[k].tag = "SIG" => k <= Len(due) /\ c[k].sig = Held(l[due[k]])

Signed ==
  Calm =>
    /\ cpc = "sigs" => SigOf(toClient, want \o check, list)
    /\ cpc \in {"sigs", "send"} =>
         \A p \in Paths : sigs[p] # <<>> => list[p].kind = "file" /\ sigs[p] = list[p].data

-----------------------------------------------------------------------------
(***************************************************************************)
(* The second invariant: from what was listed to what was walked.          *)
(***************************************************************************)

\* The plan is being carried out, perhaps by the agent alone.
Working ==
  \/ cpc \in {"sigs", "send", "await"}
  \/ cpc = "failed" /\ apc = "serve" /\ toAgent # <<>>

Watched == Calm /\ (Working \/ cpc = "done") /\ apc \in {"serve", "idle"}

\* r is what a sync makes of w: of a file, one of its versions v.
Fits(w, r, v, behind, exact) ==
  IF w.kind = "file"
  THEN /\ r.kind = "file" /\ Bare(r) \in v
       /\ r.mtime <= w.mtime /\ (behind = 0 => r.mtime = w.mtime)
       /\ exact => r.data = w.data
  ELSE r = w

\* Every path is as it was listed, or as it was walked.
Between ==
  Watched => \A p \in Paths :
    \/ Walk(remote)[p] = list[p]
    \/ Fits(walk[p], Walk(remote)[p], versions[p], lag, Unedited)

\* What the client still has to ask for or to send is as it was listed.
Untouched ==
  Watched /\ cpc \in Active =>
    \A s \in {want, check, sends} : \A k \in 1..Len(s) : Walk(remote)[s[k]] = list[s[k]]

\* What a PUT makes of a file.
Made(f, r) == IF f.delta = <<>> THEN f.entry.data ELSE Patch(r[f.paths[1]].data, f.delta)

FaithfulPut(f, p, w, r, v, exact) ==
  /\ w[p].kind \in {"link", "file"} /\ f.entry.kind = w[p].kind
  /\ w[p].kind = "link" => f.entry = w[p]
  /\ w[p].kind = "file" =>
       /\ f.entry.mtime = w[p].mtime /\ f.len = Len(w[p].data)
       /\ f.delta # <<>> => r[p].kind = "file" /\ CanPatch(r[p].data, f.delta)
       /\ File(Made(f, r), 0) \in v[p]
       /\ exact => Made(f, r) = w[p].data

\* The plan has p sent, or compared first.
Due(w, l, p) ==
  \/ l[p] = Absent \/ ~ SameEntry(w[p], l[p])
  \/ w[p].kind = "file" /\ Len(w[p].data) \in 1..VerifyMax

\* Each frame brings what was walked.
Faithful(f, w, l, r, v, exact) ==
  /\ f.tag = "MKDIR" => \A i \in 1..Len(f.paths) : w[f.paths[i]] = Dir
  /\ f.tag = "DELETE" =>
       \A i \in 1..Len(f.paths) : w[f.paths[i]] = Absent /\ l[f.paths[i]] # Absent
  /\ f.tag = "PUT" => Due(w, l, f.paths[1]) /\ FaithfulPut(f, f.paths[1], w, r, v, exact)

FramesFit ==
  Watched => \A k \in 1..Len(toAgent) : Faithful(toAgent[k], walk, list, remote, versions, Unedited)

Named(tag, frames, p) ==
  \E k \in 1..Len(frames) :
    frames[k].tag = tag /\ \E i \in 1..Len(frames[k].paths) : frames[k].paths[i] = p

Among(s, p) == \E k \in 1..Len(s) : s[k] = p

\* Too long to be verified, and it looks unchanged.
Unverified(p) ==
  /\ walk[p].kind = "file" /\ Len(walk[p].data) > VerifyMax
  /\ SameEntry(walk[p], list[p]) /\ Walk(remote)[p] = list[p]

\* A path that is not as it was walked is still being worked on.
Pending ==
  Watched /\ cpc # "failed" => \A p \in Paths :
    \/ Fits(walk[p], Walk(remote)[p], versions[p], lag, Unedited)
    \/ walk[p].kind = "dir" /\ Named("MKDIR", toAgent, p)
    \/ walk[p].kind \in {"link", "file"} /\ (Among(sends, p) \/ Named("PUT", toAgent, p))
    \/ walk[p].kind = "file" /\ Among(check, p)
    \/ Unverified(p)
    \/ walk[p].kind = "none" /\ (cpc \in {"sigs", "send"} \/ Kept(p) \/ Named("DELETE", toAgent, p))

-----------------------------------------------------------------------------
(***************************************************************************)
(* The second invariant: after a success, and why a sync fails.            *)
(***************************************************************************)

\* The next sync finds nothing to do at l and r, or only a time to correct.
InStep(l, r) ==
  \/ SameEntry(l, r) /\ (l.kind = "file" /\ Len(l.data) <= VerifyMax => r.data = l.data)
  \/ l.kind = "file" /\ r.kind = "file" /\ lag > 0 /\ r.mtime < l.mtime
  \/ l = Absent /\ r = Dir

InSteps ==
  settled =>
    /\ quiet
    /\ \A p \in Paths : InStep(Walk(local)[p], Walk(remote)[p])
    /\ Working => \A p \in Paths : InStep(walk[p], list[p])
    /\ cpc \in {"sigs", "send", "await"} => \A k \in 1..Len(sends) : sends[k] \in ToSend(list)
    /\ cpc = "list" => apc # "gone"

Reasons == KindClash \/ LeavesRoot \/ BeforeEpoch \/ TooLong \/ LinkFirst

\* Why a client gives up while its agent is at work.
Early == KindClash \/ BeforeEpoch

Failures ==
  still =>
    /\ apc = "gone" => cpc # "list"
    /\ cpc = "failed" => apc \notin {"off", "start"}
    /\ apc = "gone" /\ quiet => Reasons
    /\ apc # "gone" /\ cpc = "failed" /\ quiet => Early

JInv ==
  /\ IInv
  /\ Shapes /\ Times /\ Copies /\ FreshList /\ Ends /\ Drawn /\ Signed
  /\ Between /\ Untouched /\ FramesFit /\ Pending
  /\ InSteps /\ Failures

-----------------------------------------------------------------------------
(***************************************************************************)
(* Lemmas about the file-system calls where nothing but directories is on  *)
(* the way: they succeed, and do what they are meant to do.                *)
(***************************************************************************)

\* Directories are there or can be made.
Clear(t, S) == \A q \in S : t[q] \in {Absent, Dir}

LEMMA ClearIsFree ==
  ASSUME NEW t, NEW p \in Paths, Clear(t, Above(p))
  PROVE  Free(t, p) /\ Real(t, p) = p
<1>1. \A q \in Above(p) : t[q].kind # "link"
      BY MakesEntries DEF Clear
<1>2. QED
      BY <1>1, RealSelf DEF Free

LEMMA MakeDirClear ==
  ASSUME NEW t \in Listing, NEW p \in Paths, Clear(t, UpTo(p))
  PROVE  LET m == MakeDir([ok |-> TRUE, tree |-> t], p)
         IN  m = [ok |-> TRUE, tree |-> [t EXCEPT ![p] = Dir]]
<1> DEFINE r == [ok |-> TRUE, tree |-> t]
<1>1. UpTo(p) = Above(p) \cup {p}
      BY UpToPath
<1>2. Real(t, p) = p /\ t[p] \in {Absent, Dir}
      BY <1>1, ClearIsFree DEF Clear
<1>3. Hop(t, p) = p
      BY <1>2, MakesEntries DEF Hop
<1>4. r.ok = TRUE /\ r.tree = t
      OBVIOUS
<1>5. CASE t[p] = Absent
      BY <1>2, <1>4, <1>5 DEF MakeDir, Yields
<1>6. CASE t[p] = Dir
  <2>1. MakeDir(r, p) = [r EXCEPT !.ok = @ /\ TRUE]
        BY <1>2, <1>3, <1>4, <1>6, DirIsThere DEF MakeDir
  <2>2. [t EXCEPT ![p] = Dir] = t
        BY <1>6 DEF Listing
  <2>3. QED
        BY <2>1, <2>2
<1>7. QED
      BY <1>2, <1>5, <1>6

\* create_dir_all.
LEMMA DirsMade ==
  ASSUME NEW t, WellFormed(t), Confined(t), NEW p \in Paths, Clear(t, UpTo(p))
  PROVE  LET c == CreateDirAll(t, p)
         IN  /\ c.ok /\ c \in Outcome /\ WellFormed(c.tree) /\ Confined(c.tree)
             /\ \A q \in UpTo(p) : c.tree[q] = Dir
             /\ \A q \in Paths : q \notin UpTo(p) => c.tree[q] = t[q]
<1>1. p \in Seq(STRING) /\ Len(p) \in Nat \ {0} /\ SubSeq(p, 1, Len(p)) = p
      BY PathParts, SubSeqFull
<1>2. PICK f : /\ f[0] = Yields(t) /\ CreateDirAll(t, p) = f[Len(p)]
               /\ \A k \in 1..Len(p) : f[k] = MakeDir(f[k - 1], SubSeq(p, 1, k))
      BY <1>1, CreateSolves
<1> DEFINE Fine(k) == \E u \in Listing : /\ f[k] = [ok |-> TRUE, tree |-> u]
                                         /\ Clear(u, UpTo(p))
                                         /\ k # 0 => u[SubSeq(p, 1, k)] = Dir
           T == {k \in Nat : k <= Len(p) => Fine(k)}
<1>3. 0 \in T
  <2>1. f[0] = [ok |-> TRUE, tree |-> t] /\ t \in Listing
        BY <1>2, TreeIs DEF Yields
  <2>2. QED
        BY <2>1
<1>4. ASSUME NEW k \in Nat, k \in T PROVE k + 1 \in T
  <2> SUFFICES ASSUME k + 1 <= Len(p) PROVE Fine(k + 1)
      OBVIOUS
  <2> DEFINE q == SubSeq(p, 1, k + 1)
  <2>1. k + 1 \in 1..Len(p) /\ (k + 1) - 1 = k /\ k <= Len(p) /\ k + 1 # 0
        BY <1>1
  <2>2. PICK u \in Listing : f[k] = [ok |-> TRUE, tree |-> u] /\ Clear(u, UpTo(p))
        BY <1>4, <2>1
  <2>3. f[k + 1] = MakeDir([ok |-> TRUE, tree |-> u], q)
        BY <1>2, <2>1, <2>2
  <2>4. q \in Paths /\ UpTo(q) \subseteq UpTo(p)
        BY <2>1, PathParts, AboveAbove
  <2> DEFINE v == [u EXCEPT ![q] = Dir]
  <2>5. f[k + 1] = [ok |-> TRUE, tree |-> v]
        BY <2>2, <2>3, <2>4, MakeDirClear DEF Clear
  <2>6. v \in Listing /\ v[q] = Dir /\ \A y \in Paths : y # q => v[y] = u[y]
        BY <2>4, MakesEntries DEF Listing
  <2>7. UpTo(p) \subseteq Paths
        BY UpToPath
  <2>8. Clear(v, UpTo(p))
    <3> HIDE DEF v
    <3>1. QED
          BY <2>2, <2>6, <2>7 DEF Clear
  <2>9. QED
        BY <2>5, <2>6, <2>8
<1> HIDE DEF Fine
<1>5. Len(p) \in T
  <2> HIDE DEF T
  <2>1. QED
        BY <1>1, <1>3, <1>4, SetInduction
<1>6. Fine(Len(p))
      BY <1>1, <1>5
<1>7. PICK u \in Listing : f[Len(p)] = [ok |-> TRUE, tree |-> u] /\ Clear(u, UpTo(p)) /\ u[p] = Dir
      BY <1>1, <1>6 DEF Fine
<1>8. PICK c : c = CreateDirAll(t, p)
      OBVIOUS
<1>9. c.ok /\ c.tree = u
      BY <1>2, <1>7, <1>8
<1>10. UpTo(p) = Above(p) \cup {p} /\ p \in UpTo(p)
       BY UpToPath
<1>11. \A q \in Above(p) : t[q].kind # "link"
       BY <1>10, MakesEntries DEF Clear
<1>12. /\ c \in Outcome /\ WellFormed(u) /\ Confined(u)
       /\ \A q \in Paths : u[q] # t[q] => q \in UpTo(p)
       BY <1>8, <1>9, <1>11, CreateGrows
<1>13. \A q \in UpTo(p) : u[q] = Dir
       BY <1>7, <1>10, <1>12, BelowDirs, DirIsThere
<1>14. QED
       BY <1>8, <1>9, <1>12, <1>13

LEMMA OneName == ASSUME NEW p \in Paths PROVE Len(p) = 1 \/ Len(p) > 1
<1>1. Len(p) \in Nat \ {0}
      BY PathParts
<1>2. QED
      BY <1>1

\* write_file_atomic.
LEMMA FileMade ==
  ASSUME NEW t, WellFormed(t), Confined(t), NEW p \in Paths, Clear(t, Above(p)), t[p] # Dir,
         NEW d \in Seq(Blocks), NEW m \in Int
  PROVE  LET w == WriteFileAtomic(t, p, File(d, m))
         IN  /\ w.ok
             /\ w.tree[p] = File(d, m)
             /\ \A q \in Above(p) : w.tree[q] = Dir
             /\ \A q \in Paths : q \notin UpTo(p) => w.tree[q] = t[q]
<1>1. PICK c : c = CreateDirAll(t, Front(p))
      OBVIOUS
<1>2. /\ c.ok /\ c.tree \in Listing
      /\ \A q \in Above(p) : c.tree[q] = Dir
      /\ \A q \in Paths : q \notin Above(p) => c.tree[q] = t[q]
  <2>0. Len(p) \in Nat \ {0} /\ Len(<<>>) = 0
        BY PathParts, EmptySeq
  <2>1. CASE Len(p) = 1
    <3>1. Front(p) = <<>> /\ Above(p) = {}
          BY <2>1, FrontOfPath DEF Above
    <3>2. PICK f : f[0] = Yields(t) /\ CreateDirAll(t, <<>>) = f[0]
          BY <2>0, CreateSolves
    <3>3. c = [ok |-> TRUE, tree |-> t]
          BY <1>1, <3>1, <3>2 DEF Yields
    <3>4. QED
          BY <3>1, <3>3, TreeIs
  <2>2. CASE Len(p) > 1
    <3>1. Len(p) - 1 \in 1..Len(p)
          BY <2>0, <2>2
    <3>2. Front(p) \in Paths /\ Front(p) = SubSeq(p, 1, Len(p) - 1)
          BY <2>2, FrontOfPath
    <3>3. UpTo(Front(p)) = {SubSeq(p, 1, k) : k \in 1..(Len(p) - 1)}
          BY <3>1, <3>2, AboveAbove
    <3>4. UpTo(Front(p)) = Above(p)
          BY <3>3 DEF Above
    <3>5. Clear(t, UpTo(Front(p)))
          BY <3>4
    <3>6. PICK b \in Paths : b = Front(p)
          BY <3>2
    <3>7. c = CreateDirAll(t, b) /\ Clear(t, UpTo(b))
          BY <1>1, <3>5, <3>6
    <3>8. /\ c.ok /\ WellFormed(c.tree)
          /\ \A q \in UpTo(b) : c.tree[q] = Dir
          /\ \A q \in Paths : q \notin UpTo(b) => c.tree[q] = t[q]
          BY <3>7, DirsMade
    <3>9. QED
          BY <3>4, <3>6, <3>8, TreeIs
  <2>3. Len(p) = 1 \/ Len(p) > 1
        BY OneName
  <2>4. QED
        BY <2>1, <2>2, <2>3
<1>3. UpTo(p) = Above(p) \cup {p} /\ p \notin Above(p)
      BY UpToPath, AbovePath
<1>4. Clear(c.tree, Above(p))
      BY <1>2 DEF Clear
<1>5. Real(c.tree, p) = p
      BY <1>4, ClearIsFree
<1>6. c.tree[p] # Dir
      BY <1>2, <1>3
<1>7. WriteFileAtomic(t, p, File(d, m)) = [ok |-> TRUE, tree |-> [c.tree EXCEPT ![p] = File(d, m)]]
      BY <1>1, <1>2, <1>5, <1>6 DEF WriteFileAtomic, Yields
<1>8. \A q \in Paths : q \notin UpTo(p) => q \notin Above(p) /\ q # p
      BY <1>3
<1>9. Above(p) \subseteq Paths
      BY AbovePath
<1>10. PICK e : e = File(d, m)
       OBVIOUS
<1>11. PICK u : u = c.tree
       OBVIOUS
<1>12. PICK w : w = [u EXCEPT ![p] = e]
       OBVIOUS
<1>13. w[p] = e /\ \A q \in Paths : q # p => w[q] = u[q]
       BY <1>2, <1>11, <1>12 DEF Listing
<1>14. QED
       BY <1>2, <1>3, <1>7, <1>8, <1>9, <1>10, <1>11, <1>12, <1>13

\* The KIND_LINK arm of apply_put.
LEMMA LinkMade ==
  ASSUME NEW t, WellFormed(t), Confined(t), NEW p \in Paths, Clear(t, Above(p)), NEW to, NEW there
  PROVE  LET w == PutLink(t, p, to, there)
         IN  /\ w.ok \in BOOLEAN
             /\ ~ w.ok => w.tree = t
             /\ w.ok => /\ w.tree[p] = Link(to)
                        /\ \A q \in Above(p) : w.tree[q] = Dir
                        /\ \A q \in Paths : q \notin UpTo(p) => w.tree[q] = t[q]
             /\ /\ to # Escape /\ t[p] # Dir /\ (Len(p) > 1 \/ there)
                /\ \A q \in Above(p) : t[q] = Dir
                => w.ok
<1>1. Real(t, p) = p
      BY ClearIsFree
<1>2. /\ Len(p) \in Nat \ {0}
      /\ Len(p) > 1 => Front(p) \in Paths /\ Front(p) \in Above(p)
      BY PathParts, FrontOfPath
<1>3. UpTo(p) = Above(p) \cup {p} /\ p \notin Above(p) /\ Above(p) \subseteq Paths
      BY UpToPath, AbovePath
<1> DEFINE Fine == /\ to # Escape /\ t[p] # Dir
                   /\ IF Len(p) > 1 THEN t[Front(p)] = Dir ELSE there
<1>4. CASE ~ Fine
  <2>1. PutLink(t, p, to, there) = [ok |-> FALSE, tree |-> t]
        BY <1>1, <1>4 DEF PutLink, Fails
  <2>2. QED
        BY <1>2, <1>4, <2>1
<1>5. CASE Fine
  <2>1. PICK e : e = Link(to)
        OBVIOUS
  <2>2. PICK u : u = [t EXCEPT ![p] = e]
        OBVIOUS
  <2>3. PutLink(t, p, to, there) = [ok |-> TRUE, tree |-> u]
        BY <1>1, <1>5, <2>1, <2>2 DEF PutLink, Yields
  <2>4. u[p] = e /\ \A q \in Paths : q # p => u[q] = t[q]
        BY <2>2, TreeIs DEF Listing
  <2>5. ASSUME NEW q \in Above(p) PROVE t[q] = Dir
    <3>1. Len(p) > 1
          BY <1>2 DEF Above
    <3>2. Front(p) \in Paths /\ t[Front(p)] = Dir /\ Front(p) = SubSeq(p, 1, Len(p) - 1)
          BY <1>2, <1>5, <3>1, FrontOfPath
    <3>3. Len(p) - 1 \in 1..Len(p)
          BY <1>2, <3>1
    <3>4. UpTo(Front(p)) = {SubSeq(p, 1, k) : k \in 1..(Len(p) - 1)}
          BY <3>2, <3>3, AboveAbove
    <3>5. UpTo(Front(p)) = Above(p)
          BY <3>4 DEF Above
    <3>6. PICK b \in Paths : b = Front(p)
          BY <3>2
    <3>7. q \in UpTo(b) /\ UpTo(b) = Above(b) \cup {b} /\ t[b] = Dir
          BY <3>2, <3>5, <3>6, UpToPath
    <3>8. QED
          BY <3>6, <3>7, BelowDirs, DirIsThere
  <2>6. QED
        BY <1>3, <2>1, <2>3, <2>4, <2>5
<1>6. QED
      BY <1>4, <1>5

\* One path of a DELETE frame.
LEMMA EntryRemoved ==
  ASSUME NEW t, WellFormed(t), Confined(t), NEW p \in Paths, Clear(t, Above(p))
  PROVE  LET u == RemoveEntry(t, p)
         IN  /\ \A q \in Paths : q # p => u[q] = t[q]
             /\ u[p] = Absent \/ (t[p] = Dir /\ u[p] = Dir /\ Children(t, p) # {})
<1>1. Real(t, p) = p
      BY ClearIsFree
<1>2. PICK u : u = RemoveEntry(t, p)
      OBVIOUS
<1>3. u = IF t[p] = Dir /\ Children(t, p) # {} THEN t ELSE [t EXCEPT ![p] = Absent]
      BY <1>1, <1>2 DEF RemoveEntry
<1>4. t \in [Paths -> Walkable]
      BY TreeIs DEF Listing
<1>5. CASE t[p] = Dir /\ Children(t, p) # {}
      BY <1>2, <1>3, <1>5
<1>6. CASE ~ (t[p] = Dir /\ Children(t, p) # {})
  <2>1. u = [t EXCEPT ![p] = Absent]
        BY <1>3, <1>6
  <2>2. u[p] = Absent /\ \A q \in Paths : q # p => u[q] = t[q]
        BY <1>4, <2>1
  <2>3. QED
        BY <1>2, <2>2
<1>7. QED
      BY <1>5, <1>6

\* What comes of a frame.
Delivered(f, p, t, u, ok) ==
  /\ \A q \in Paths : q \notin UpTo(p) => u[q] = t[q]
  /\ ~ ok => u = t
  /\ ok /\ f.tag # "DELETE" => \A q \in Above(p) : u[q] = Dir
  /\ f.tag = "DELETE" => /\ ok /\ \A q \in Above(p) : u[q] = t[q]
                         /\ \/ u[p] = Absent
                            \/ t[p] = Dir /\ u[p] = Dir /\ Children(t, p) # {}
  /\ f.tag = "MKDIR" => ok /\ u[p] = Dir
  /\ f.tag = "PUT" /\ f.entry.kind = "link" =>
       /\ ok => u[p] = f.entry
       /\ /\ f.entry.to # Escape /\ (Len(p) > 1 \/ rooted)
          /\ \A q \in Above(p) : t[q] = Dir
          => ok
  /\ f.tag = "PUT" /\ f.entry.kind = "file" =>
       /\ ok => u[p] = File(Made(f, t), Clamp(f.entry.mtime))
       /\ Receivable(f) /\ (f.delta # <<>> => Len(Made(f, t)) = f.len) => ok

LEMMA Delivers ==
  ASSUME NEW t, WellFormed(t), Confined(t), now \in Int, lag \in Int,
         NEW f \in AgentFrame, f.tag \in {"MKDIR", "DELETE", "PUT"},
         NEW p, p = f.paths[1], Clear(t, Above(p)),
         f.tag = "MKDIR" => t[p] \in {Absent, Dir},
         f.tag = "PUT" => /\ t[p] # Dir /\ f.entry.kind \in {"link", "file"}
                          /\ f.delta # <<>> => t[p].kind = "file" /\ CanPatch(t[p].data, f.delta)
  PROVE  LET w == Apply(t, f) IN w.ok \in BOOLEAN /\ Delivered(f, p, t, w.tree, w.ok)
<1>1. p \in Paths /\ p = Head(f.paths)
      BY FrameKinds
<1>2. UpTo(p) = Above(p) \cup {p} /\ p \notin Above(p) /\ Above(p) \subseteq Paths
      BY <1>1, UpToPath, AbovePath
<1>3. PICK w : w = Apply(t, f)
      OBVIOUS
<1>4. CASE f.tag = "MKDIR"
  <2>1. w = CreateDirAll(t, p)
        BY <1>1, <1>3, <1>4 DEF Apply
  <2>2. Clear(t, UpTo(p))
        BY <1>2, <1>4 DEF Clear
  <2>3. /\ w.ok
        /\ \A q \in UpTo(p) : w.tree[q] = Dir
        /\ \A q \in Paths : q \notin UpTo(p) => w.tree[q] = t[q]
        BY <1>1, <2>1, <2>2, DirsMade
  <2>4. QED
        BY <1>2, <1>3, <1>4, <2>3 DEF Delivered
<1>5. CASE f.tag = "DELETE"
  <2>1. PICK u : u = RemoveEntry(t, p)
        OBVIOUS
  <2>2. w = [ok |-> TRUE, tree |-> u]
        BY <1>1, <1>3, <1>5, <2>1 DEF Apply, Yields
  <2>3. /\ \A q \in Paths : q # p => u[q] = t[q]
        /\ u[p] = Absent \/ (t[p] = Dir /\ u[p] = Dir /\ Children(t, p) # {})
        BY <1>1, <2>1, EntryRemoved
  <2>4. w.ok /\ w.tree = u
        BY <2>2
  <2>5. QED
        BY <1>2, <1>3, <1>5, <2>3, <2>4 DEF Delivered
<1>6. CASE f.tag = "PUT"
  <2>1. PICK e : e = f.entry
        OBVIOUS
  <2>2. /\ e \in Entry /\ f.delta \in Seq(Op)
        /\ f.delta # <<>> => e.kind = "file"
        BY <1>6, <2>1, FrameKinds DEF Walkable
  <2>3. /\ Receivable(f) => w = ApplyPut(t, p, f)
        /\ ~ Receivable(f) => w = [ok |-> FALSE, tree |-> t]
        BY <1>1, <1>3, <1>6 DEF Apply, Fails
  <2>4. CASE e.kind = "link"
    <3>0. Receivable(f)
          BY <2>1, <2>4, ContentsAssumption DEF Receivable, Payload
    <3>1. w = PutLink(t, p, e.to, rooted) /\ e = Link(e.to)
          BY <2>1, <2>2, <2>3, <2>4, <3>0, EntryKinds DEF ApplyPut
    <3>2. /\ w.ok \in BOOLEAN
          /\ ~ w.ok => w.tree = t
          /\ w.ok => /\ w.tree[p] = e
                     /\ \A q \in Above(p) : w.tree[q] = Dir
                     /\ \A q \in Paths : q \notin UpTo(p) => w.tree[q] = t[q]
          /\ /\ e.to # Escape /\ t[p] # Dir /\ (Len(p) > 1 \/ rooted)
             /\ \A q \in Above(p) : t[q] = Dir
             => w.ok
          BY <1>1, <3>1, LinkMade
    <3>3. QED
          BY <1>2, <1>3, <1>6, <2>1, <2>4, <3>2 DEF Delivered
  <2>5. CASE e.kind = "file" /\ ~ Receivable(f)
    <3>1. w = [ok |-> FALSE, tree |-> t]
          BY <2>3, <2>5, Zenon
    <3>2. ~ w.ok /\ w.ok \in BOOLEAN /\ w.tree = t
          BY <3>1
    <3>3. QED
          BY <1>3, <1>6, <2>1, <2>5, <3>2 DEF Delivered
  <2>6. CASE e.kind = "file" /\ Receivable(f)
    <3> DEFINE at == Real(t, p)
               to == Hop(t, at)
               old == IF t[to].kind = "file" THEN t[to].data ELSE <<>>
               data == IF f.delta = <<>> THEN e.data ELSE Patch(old, f.delta)
    <3>1. PICK d : d = Made(f, t)
          OBVIOUS
    <3>2. f.delta # <<>> => to = p /\ old = t[p].data
      <4>1. at = p
            BY <1>1, ClearIsFree
      <4>2. f.delta # <<>> => to = p
            BY <1>6, <4>1, MakesEntries DEF Hop
      <4>3. QED
            BY <1>6, <4>2
    <3>3. data = d
      <4> HIDE DEF old
      <4>1. QED
            BY <1>1, <2>1, <3>1, <3>2 DEF Made
    <3>4. CanPatch(old, f.delta)
      <4>1. CASE f.delta = <<>>
            BY <4>1, EmptyFrames DEF CanPatch
      <4>2. CASE f.delta # <<>>
            BY <1>6, <3>2, <4>2
      <4>3. QED
            BY <4>1, <4>2
    <3>5. d \in Seq(Blocks)
      <4>1. CASE f.delta = <<>>
            BY <2>1, <2>2, <2>6, <3>1, <4>1, EntryKinds DEF Made
      <4>2. CASE f.delta # <<>>
        <5>1. t[p].data \in Seq(Blocks)
              BY <1>1, <1>6, <4>2, TreeEntry, EntryKinds
        <5>2. d = Patch(t[p].data, f.delta)
              BY <1>1, <3>1, <4>2 DEF Made
        <5>3. QED
              BY <1>6, <2>2, <4>2, <5>1, <5>2, PatchGivesBlocks
      <4>3. QED
            BY <4>1, <4>2
    <3>6. PICK m \in Int : m = Clamp(e.mtime)
      <4>1. e.mtime \in Int
            BY <2>2, <2>6, EntryKinds
      <4>2. QED
            BY <4>1 DEF Clamp
    <3>7. CASE f.delta # <<>> /\ Len(d) # f.len
      <4>1. w = [ok |-> FALSE, tree |-> t]
        <5> HIDE DEF data, old
        <5>1. data = d
              BY <3>3
        <5>2. QED
              BY <2>1, <2>3, <2>6, <3>7, <5>1 DEF ApplyPut, Fails, data, old
      <4>2. ~ w.ok /\ w.ok \in BOOLEAN /\ w.tree = t
            BY <4>1
      <4>3. QED
            BY <1>3, <1>6, <2>1, <2>6, <3>1, <3>7, <4>2 DEF Delivered
    <3>8. CASE ~ (f.delta # <<>> /\ Len(d) # f.len)
      <4>1. w = WriteFileAtomic(t, p, File(d, m))
            BY <2>1, <2>3, <2>6, <3>3, <3>4, <3>6, <3>8 DEF ApplyPut
      <4>2. /\ w.ok
            /\ w.tree[p] = File(d, m)
            /\ \A q \in Above(p) : w.tree[q] = Dir
            /\ \A q \in Paths : q \notin UpTo(p) => w.tree[q] = t[q]
            BY <1>1, <1>6, <3>5, <4>1, FileMade
      <4>3. QED
            BY <1>2, <1>3, <1>6, <2>1, <2>6, <3>1, <3>6, <4>2 DEF Delivered
    <3>9. QED
          BY <3>7, <3>8
  <2>7. QED
        BY <1>6, <2>1, <2>4, <2>5, <2>6
<1>7. QED
      BY <1>4, <1>5, <1>6

-----------------------------------------------------------------------------
(***************************************************************************)
(* Lemmas about what a walk sees.                                          *)
(***************************************************************************)

LEMMA SeenAt ==
  ASSUME NEW t, WellFormed(t), NEW p \in Paths
  PROVE  /\ Walk(t)[p] \in Entry
         /\ IsExcluded(p) => Walk(t)[p] = Absent
         /\ ~ IsExcluded(p) /\ t[p].kind # "file" => Walk(t)[p] = t[p]
         /\ ~ IsExcluded(p) /\ t[p].kind = "file" =>
              /\ Walk(t)[p] = File(t[p].data, IF t[p].mtime < 0 THEN 0 ELSE t[p].mtime)
              /\ Walk(t)[p].kind = "file" /\ Walk(t)[p].data = t[p].data
              /\ Walk(t)[p].mtime = IF t[p].mtime < 0 THEN 0 ELSE t[p].mtime
<1>1. t[p] \in Entry
      BY TreeEntry
<1>2. Walk(t)[p] \in Entry
      BY WalkFinds DEF Walkable
<1>3. CASE IsExcluded(p)
      BY <1>2, <1>3 DEF Walk
<1>4. CASE ~ IsExcluded(p) /\ t[p].kind # "file"
      BY <1>2, <1>4 DEF Walk
<1>5. CASE ~ IsExcluded(p) /\ t[p].kind = "file"
  <2>1. t[p] = File(t[p].data, t[p].mtime) /\ t[p].data \in Seq(Blocks) /\ t[p].mtime \in Int
        BY <1>1, <1>5, EntryKinds
  <2>2. PICK m \in Int : m = IF t[p].mtime < 0 THEN 0 ELSE t[p].mtime
        BY <2>1
  <2>3. Walk(t)[p] = File(t[p].data, m)
        BY <1>5, <2>1, <2>2 DEF Walk
  <2>4. QED
        BY <1>2, <1>5, <2>1, <2>2, <2>3, MakesEntries
<1>6. QED
      BY <1>3, <1>4, <1>5

\* Two trees that are the same at a path look the same there.
LEMMA SeenSame ==
  ASSUME NEW t, NEW u, NEW p \in Paths, u[p] = t[p]
  PROVE  Walk(u)[p] = Walk(t)[p]
BY DEF Walk

LEMMA SeenKind ==
  ASSUME NEW t, WellFormed(t), NEW p \in Paths, ~ IsExcluded(p)
  PROVE  /\ Walk(t)[p].kind = t[p].kind
         /\ Walk(t)[p] = Absent <=> t[p] = Absent
         /\ Walk(t)[p] = Dir <=> t[p] = Dir
         /\ Walk(t)[p] \in {Absent, Dir} => t[p] = Walk(t)[p]
<1>1. /\ Walk(t)[p] \in Entry /\ t[p] \in Entry
      /\ t[p].kind # "file" => Walk(t)[p] = t[p]
      /\ t[p].kind = "file" => Walk(t)[p].kind = "file"
      BY SeenAt, TreeEntry
<1>2. QED
      BY <1>1, EntryKinds, MakesEntries

\* A walk has the directories above what it finds.
LEMMA WalkShape ==
  ASSUME NEW t, WellFormed(t)
  PROVE  Shape(Walk(t))
<1> SUFFICES ASSUME NEW p \in Paths, Walk(t)[p] # Absent
             PROVE  ~ IsExcluded(p) /\ \A q \in Above(p) : Walk(t)[q] = Dir
    BY DEF Shape
<1>1. ~ IsExcluded(p) /\ t[p] # Absent
      BY WalkFinds
<1>2. ASSUME NEW q \in Above(p) PROVE Walk(t)[q] = Dir
  <2>1. q \in Paths /\ t[q] = Dir /\ ~ IsExcluded(q)
        BY <1>1, AbovePath, BelowDirs, NotExcludedAbove
  <2>2. QED
        BY <2>1, SeenKind
<1>3. QED
      BY <1>1, <1>2

\* What is found looks like itself.
LEMMA SameAsSelf == ASSUME NEW e PROVE SameEntry(e, e)
BY DEF SameEntry

\* What the agent reads for a signature.
LEMMA HeldRead ==
  ASSUME NEW t, WellFormed(t), Confined(t), NEW p \in Paths, Clear(t, Above(p)), ~ IsExcluded(p)
  PROVE  ReadNoFollow(t, p) = Held(Walk(t)[p])
<1>1. Real(t, p) = p
      BY ClearIsFree
<1>2. ReadNoFollow(t, p) = Held(t[p])
      BY <1>1 DEF ReadNoFollow, Held
<1>3. QED
      BY <1>2, SeenAt DEF Held

\* No path is a directory on one side and something else on the other.
LEMMA NoClash ==
  ASSUME NEW l, NEW r, Clash(l, r) = {}, NEW p \in Paths, l[p] \in Entry, r[p] \in Entry
  PROVE  /\ l[p] = Dir => r[p] \in {Absent, Dir}
         /\ r[p] = Dir => l[p] \in {Absent, Dir}
<1>1. ~ (/\ Absent \notin {l[p], r[p]} /\ l[p].kind # r[p].kind
         /\ "dir" \in {l[p].kind, r[p].kind})
      BY DEF Clash
<1>2. QED
      BY <1>1, EntryKinds, DirIsThere

\* As long as a sync is watched, the way to all that it handles is clear.
LEMMA WayIsClear ==
  ASSUME IInv, Shapes, Between, Watched, NEW p \in Paths, walk[p] # Absent \/ list[p] # Absent
  PROVE  ~ IsExcluded(p) /\ Clear(remote, Above(p))
<1>1. /\ WellFormed(remote) /\ walk \in Listing /\ list \in Listing
      /\ Clash(walk, list) = {}
      BY DEF IInv, Types, Watched, Calm
<1>2. /\ ~ IsExcluded(p)
      /\ (\A q \in Above(p) : walk[q] = Dir) \/ (\A q \in Above(p) : list[q] = Dir)
      BY DEF Shapes, Shape
<1>3. ASSUME NEW q \in Above(p) PROVE remote[q] \in {Absent, Dir}
  <2>1. q \in Paths /\ ~ IsExcluded(q)
        BY <1>2, AbovePath, NotExcludedAbove
  <2>2. walk[q] \in Entry /\ list[q] \in Entry
        BY <1>1, <2>1 DEF Listing, Walkable
  <2>3. walk[q] \in {Absent, Dir} /\ list[q] \in {Absent, Dir}
        BY <1>1, <1>2, <2>1, <2>2, NoClash
  <2>4. walk[q].kind # "file"
        BY <2>3, MakesEntries
  <2>5. Walk(remote)[q] \in {Absent, Dir}
        BY <2>1, <2>3, <2>4 DEF Between, Fits
  <2>6. QED
        BY <1>1, <2>1, <2>5, SeenKind
<1>4. QED
      BY <1>2, <1>3 DEF Clear

\* Where the sync wants no directory there is none.
LEMMA NoDirHere ==
  ASSUME IInv, Between, Watched, NEW p \in Paths, ~ IsExcluded(p), walk[p].kind \in {"link", "file"}
  PROVE  remote[p] # Dir
<1>1. /\ WellFormed(remote) /\ walk[p] \in Entry /\ list[p] \in Entry
      /\ Clash(walk, list) = {}
      BY DEF IInv, Types, Watched, Calm, Listing, Walkable
<1>2. list[p] # Dir /\ walk[p] # Dir
      BY <1>1, NoClash, MakesEntries
<1>3. Walk(remote)[p] # Dir
      BY <1>2, MakesEntries DEF Between, Fits
<1>4. QED
      BY <1>1, <1>3, SeenKind

\* What fits is in step.
LEMMA FitIsInStep ==
  ASSUME lag \in Nat, NEW w \in Entry, NEW r \in Entry, NEW v, Fits(w, r, v, lag, TRUE)
  PROVE  InStep(w, r)
<1>1. CASE w.kind # "file"
      BY <1>1, SameAsSelf DEF Fits, InStep
<1>2. CASE w.kind = "file"
  <2>1. /\ r.kind = "file" /\ r.data = w.data
        /\ r.mtime \in Int /\ w.mtime \in Int
        /\ r.mtime <= w.mtime /\ (lag = 0 => r.mtime = w.mtime)
        BY <1>2, EntryKinds DEF Fits
  <2>2. CASE r.mtime = w.mtime
        BY <1>2, <2>1, <2>2 DEF InStep, SameEntry
  <2>3. CASE r.mtime # w.mtime
    <3>1. lag > 0 /\ r.mtime < w.mtime
          BY <2>1, <2>3
    <3>2. QED
          BY <1>2, <2>1, <3>1 DEF InStep
  <2>4. QED
        BY <2>2, <2>3
<1>3. QED
      BY <1>1, <1>2

\* Two sides that are in step do not clash.
LEMMA InStepNoClash ==
  ASSUME NEW l, NEW r, \A p \in Paths : InStep(l[p], r[p])
  PROVE  Clash(l, r) = {}
<1> SUFFICES ASSUME NEW p \in Paths, Absent \notin {l[p], r[p]}, l[p].kind # r[p].kind
             PROVE  FALSE
    BY DEF Clash
<1>1. InStep(l[p], r[p])
      OBVIOUS
<1>2. QED
      BY <1>1 DEF InStep, SameEntry

-----------------------------------------------------------------------------
(***************************************************************************)
(* Lemmas about the parts of the second invariant: what keeps them.        *)
(***************************************************************************)

LEMMA FitsStays ==
  ASSUME NEW w, NEW r, NEW v, NEW b, NEW e, NEW v2, NEW e2,
         Fits(w, r, v, b, e), v \subseteq v2, e2 => e
  PROVE  Fits(w, r, v2, b, e2)
BY DEF Fits

\* A faithful frame stays so while versions come and the file it patches is left alone.
LEMMA FaithfulStays ==
  ASSUME NEW x \in AgentFrame, NEW y \in AgentFrame, Thinner(x, y),
         NEW w, NEW l, NEW r, NEW v, NEW e, Faithful(y, w, l, r, v, e),
         NEW r2, y.tag = "PUT" /\ y.delta # <<>> => r2[y.paths[1]] = r[y.paths[1]],
         NEW v2, \A p \in Paths : v[p] \subseteq v2[p],
         NEW e2, e2 => e
  PROVE  Faithful(x, w, l, r2, v2, e2)
<1>1. x.tag = y.tag /\ (x.tag = "PUT" => x = y)
      BY ThinnerKeeps
<1>2. CASE y.tag = "PUT"
  <2>1. x = y /\ y.paths[1] \in Paths
        BY <1>1, <1>2, FrameKinds
  <2>2. Due(w, l, y.paths[1]) /\ FaithfulPut(y, y.paths[1], w, r, v, e)
        BY <1>2 DEF Faithful
  <2>3. Made(y, r2) = Made(y, r)
        BY <1>2 DEF Made
  <2>4. FaithfulPut(y, y.paths[1], w, r2, v2, e2)
        BY <1>2, <2>1, <2>2, <2>3 DEF FaithfulPut
  <2>5. QED
        BY <1>2, <2>1, <2>4 DEF Faithful
<1>3. CASE y.tag # "PUT"
  <2>1. \A i \in 1..Len(x.paths) : \E j \in 1..Len(y.paths) : x.paths[i] = y.paths[j]
        BY DEF Thinner
  <2>2. QED
        BY <1>1, <1>3, <2>1 DEF Faithful
<1>4. QED
      BY <1>2, <1>3

LEMMA AllFaithful ==
  ASSUME NEW f \in Seq(AgentFrame), NEW g \in Seq(AgentFrame), Within(g, f),
         NEW w, NEW l, NEW r, NEW v, NEW e, \A k \in 1..Len(f) : Faithful(f[k], w, l, r, v, e),
         NEW v2, \A p \in Paths : v[p] \subseteq v2[p], NEW e2, e2 => e
  PROVE  \A k \in 1..Len(g) : Faithful(g[k], w, l, r, v2, e2)
<1> SUFFICES ASSUME NEW k \in 1..Len(g) PROVE Faithful(g[k], w, l, r, v2, e2)
    OBVIOUS
<1>1. PICK d \in Nat : Len(g) + d <= Len(f) /\ \A i \in 1..Len(g) : Thinner(g[i], f[i + d])
      BY DEF Within
<1>2. k + d \in 1..Len(f) /\ Thinner(g[k], f[k + d])
      BY <1>1
<1>3. g[k] \in AgentFrame /\ f[k + d] \in AgentFrame
      BY <1>2, ElementOfSeq
<1>4. Faithful(f[k + d], w, l, r, v, e)
      BY <1>2
<1>5. QED
      BY <1>2, <1>3, <1>4, FaithfulStays

\* A step that leaves the trees alone, and promises no more than before.
Quieter ==
  /\ UNCHANGED <<remote, lag, walk, list>>
  /\ Watched' => Watched
  /\ Unedited' => Unedited
  /\ \A p \in Paths : versions[p] \subseteq versions'[p]

LEMMA BetweenKept == ASSUME Between, Quieter PROVE Between'
<1> SUFFICES ASSUME Watched', NEW p \in Paths
             PROVE  \/ Walk(remote)[p] = list[p]
                    \/ Fits(walk[p], Walk(remote)[p], versions'[p], lag, Unedited')
    BY DEF Between, Quieter
<1>1. \/ Walk(remote)[p] = list[p]
      \/ Fits(walk[p], Walk(remote)[p], versions[p], lag, Unedited)
      BY DEF Between, Quieter
<1>2. QED
      BY <1>1, FitsStays DEF Quieter

LEMMA FramesKept ==
  ASSUME FramesFit, Quieter, toAgent \in Seq(AgentFrame), toAgent' \in Seq(AgentFrame),
         Within(toAgent', toAgent)
  PROVE  FramesFit'
<1> SUFFICES ASSUME Watched'
             PROVE  \A k \in 1..Len(toAgent') :
                      Faithful(toAgent'[k], walk, list, remote, versions', Unedited')
    BY DEF FramesFit, Quieter
<1>1. \A k \in 1..Len(toAgent) : Faithful(toAgent[k], walk, list, remote, versions, Unedited)
      BY DEF FramesFit, Quieter
<1>2. QED
      BY <1>1, AllFaithful DEF Quieter

\* A path is as it was walked, or it is being worked on.
Doing(p) ==
  \/ walk[p].kind = "dir" /\ Named("MKDIR", toAgent, p)
  \/ walk[p].kind \in {"link", "file"} /\ (Among(sends, p) \/ Named("PUT", toAgent, p))
  \/ walk[p].kind = "file" /\ Among(check, p)
  \/ walk[p].kind = "none" /\ (cpc \in {"sigs", "send"} \/ Named("DELETE", toAgent, p))

LEMMA PendingKept ==
  ASSUME Pending, Quieter, Watched' /\ cpc' # "failed" => cpc # "failed",
         Watched /\ Watched' /\ cpc' # "failed" => \A p \in Paths : Doing(p) =>
           \/ Doing(p)'
           \/ Fits(walk[p], Walk(remote)[p], versions[p], lag, Unedited)
  PROVE  Pending'
<1> SUFFICES ASSUME Watched', cpc' # "failed", NEW p \in Paths
             PROVE  \/ Fits(walk[p], Walk(remote)[p], versions'[p], lag, Unedited')
                    \/ Doing(p)' \/ Unverified(p)' \/ (walk[p].kind = "none" /\ Kept(p)')
    BY DEF Pending, Quieter, Doing
<1>1. \/ Fits(walk[p], Walk(remote)[p], versions[p], lag, Unedited)
      \/ Doing(p) \/ Unverified(p) \/ (walk[p].kind = "none" /\ Kept(p))
      BY DEF Pending, Quieter, Doing
<1>2. (Unverified(p) => Unverified(p)') /\ (Kept(p) => Kept(p)')
      BY DEF Quieter, Unverified, Kept
<1>3. ASSUME Fits(walk[p], Walk(remote)[p], versions[p], lag, Unedited)
      PROVE  Fits(walk[p], Walk(remote)[p], versions'[p], lag, Unedited')
      BY <1>3, FitsStays DEF Quieter
<1>4. Doing(p) => Doing(p)' \/ Fits(walk[p], Walk(remote)[p], versions[p], lag, Unedited)
      BY DEF Quieter
<1>5. QED
      BY <1>1, <1>2, <1>3, <1>4

LEMMA ShapesKept ==
  ASSUME Shapes, UNCHANGED <<walk, list>>,
         \A k \in 1..Len(toClient') : toClient'[k].tag = "LIST" =>
           \E j \in 1..Len(toClient) : toClient'[k] = toClient[j]
  PROVE  Shapes'
<1>1. \A k \in 1..Len(toClient') : toClient'[k].tag = "LIST" => Shape(toClient'[k].tree)
      BY DEF Shapes
<1>2. QED
      BY <1>1 DEF Shapes

LEMMA TimesKept == ASSUME Times, UNCHANGED <<local, walk, now>> PROVE Times'
BY DEF Times

LEMMA CopiesKept ==
  ASSUME Copies, UNCHANGED <<walk, local>>, Unedited' => Unedited, cpc' # "idle" => cpc # "idle",
         reading' \in {reading, Shut}
  PROVE  Copies'
BY DEF Copies

LEMMA DrawnKept ==
  ASSUME Drawn, UNCHANGED <<walk, list>>,
         cpc' \in {"sigs", "send", "await"} => cpc \in {"sigs", "send", "await"},
         cpc' \in {"sigs", "send", "await"} => UNCHANGED <<want, check, sends>>
  PROVE  Drawn'
<1>1. CASE cpc' \notin {"sigs", "send", "await"}
      BY <1>1 DEF Drawn
<1>2. CASE cpc' \in {"sigs", "send", "await"}
      BY <1>2 DEF Drawn, NeedSig, ToVerify, ToSend, Missing, MkDirs, Differing, OnBoth
<1>3. QED
      BY <1>1, <1>2

LEMMA SignedKept ==
  ASSUME Signed, UNCHANGED <<walk, list>>, quiet' => quiet,
         cpc' \in {"sigs", "send"} => cpc = cpc' /\ UNCHANGED <<sigs, want, check>>,
         cpc' = "sigs" => UNCHANGED toClient
  PROVE  Signed'
<1> SUFFICES ASSUME Calm', cpc' \in {"sigs", "send"}
             PROVE  /\ cpc' = "sigs" => SigOf(toClient', want' \o check', list')
                    /\ \A p \in Paths : sigs'[p] # <<>> =>
                         list'[p].kind = "file" /\ sigs'[p] = list'[p].data
    BY DEF Signed
<1>1. Calm
      BY DEF Calm
<1>2. QED
      BY <1>1 DEF Signed

LEMMA UntouchedKept ==
  ASSUME Untouched, Quieter, Watched' /\ cpc' \in Active => cpc \in Active,
         Watched' /\ cpc' \in Active => UNCHANGED <<want, check, sends>>
  PROVE  Untouched'
<1>1. CASE ~ (Watched' /\ cpc' \in Active)
      BY <1>1 DEF Untouched
<1>2. CASE Watched' /\ cpc' \in Active
      BY <1>2 DEF Untouched, Quieter
<1>3. QED
      BY <1>1, <1>2

LEMMA InStepsKept ==
  ASSUME InSteps, UNCHANGED <<local, remote, lag, walk, list>>,
         settled' => settled /\ quiet', Working' => Working,
         settled' /\ cpc' \in {"sigs", "send", "await"} =>
           /\ cpc \in {"sigs", "send", "await"}
           /\ \A k \in 1..Len(sends') : \E j \in 1..Len(sends) : sends'[k] = sends[j],
         cpc' = "list" /\ apc' = "gone" /\ settled' => cpc = "list" /\ apc = "gone"
  PROVE  InSteps'
<1> SUFFICES ASSUME settled'
             PROVE  /\ \A p \in Paths : InStep(Walk(local)[p], Walk(remote)[p])'
                    /\ Working' => \A p \in Paths : InStep(walk[p], list[p])'
                    /\ cpc' \in {"sigs", "send", "await"} =>
                         \A k \in 1..Len(sends') : sends'[k] \in ToSend(list)'
                    /\ cpc' = "list" => apc' # "gone"
    BY DEF InSteps
<1>1. \A p \in Paths : InStep(Walk(local)[p], Walk(remote)[p])'
      BY DEF InSteps, InStep
<1>2. Working' => \A p \in Paths : InStep(walk[p], list[p])'
      BY DEF InSteps, InStep
<1>3. ToSend(list)' = ToSend(list)
      BY DEF ToSend, Missing, MkDirs, Differing, OnBoth
<1>4. cpc' \in {"sigs", "send", "await"} =>
        \A k \in 1..Len(sends') : sends'[k] \in ToSend(list)'
      BY <1>3 DEF InSteps
<1>5. cpc' = "list" => apc' # "gone"
      BY DEF InSteps
<1>6. QED
      BY <1>1, <1>2, <1>4, <1>5

LEMMA FailuresKept ==
  ASSUME Failures, UNCHANGED <<local, walk, list>>, still' => still, quiet' => quiet,
         apc' = "gone" <=> apc = "gone", cpc' = "failed" => cpc = "failed",
         cpc' = "list" => cpc = "list", cpc' = "failed" /\ apc' \in {"off", "start"} => apc' = apc,
         still' /\ quiet' /\ apc = "gone" => (rooted' <=> rooted)
  PROVE  Failures'
<1> SUFFICES ASSUME still'
             PROVE  /\ apc' = "gone" => cpc' # "list"
                    /\ cpc' = "failed" => apc' \notin {"off", "start"}
                    /\ apc' = "gone" /\ quiet' => Reasons'
                    /\ apc' # "gone" /\ cpc' = "failed" /\ quiet' => Early'
    BY DEF Failures
<1>1. (KindClash' <=> KindClash) /\ (BeforeEpoch' <=> BeforeEpoch) /\ (LeavesRoot' <=> LeavesRoot)
      /\ (TooLong' <=> TooLong)
      BY DEF KindClash, LeavesRoot, BeforeEpoch, TooLong, ToSend, ToVerify, Missing, OnBoth,
             Differing, MkDirs
<1>2. quiet' /\ apc = "gone" => (LinkFirst' <=> LinkFirst)
      BY DEF LinkFirst, ToSend, Missing, OnBoth, Differing, MkDirs
<1>3. QED
      BY <1>1, <1>2 DEF Failures, Reasons, Early

-----------------------------------------------------------------------------
(***************************************************************************)
(* The second invariant: steps of the world.                               *)
(***************************************************************************)

\* Nothing happens, but time may pass.
LEMMA TimePasses ==
  ASSUME JInv, IInv', now <= now',
         UNCHANGED <<local, remote, lag, client, apc, toAgent, toClient, versions>>,
         rooted' <=> rooted, still' <=> still, quiet' <=> quiet, settled' <=> settled
  PROVE  JInv'
<1> USE DEF client
<1>1. now \in Int /\ now' \in Int /\ local \in Listing /\ walk \in Listing
      /\ toAgent \in Seq(AgentFrame)
  <2>1. WellFormed(local) /\ now \in 1..MaxTime /\ now' \in 1..MaxTime
        BY DEF JInv, IInv, Types
  <2>2. QED
        BY <2>1, TreeIs, ContentsAssumption DEF JInv, IInv, Types
<1>2. Quieter
      BY DEF Quieter, Watched, Calm, Working, Unedited
<1>3. Shapes'
      BY ShapesKept DEF JInv
<1>4. Times'
  <2>1. \A p \in Paths : /\ local[p].kind = "file" => local[p].mtime \in Int
                         /\ walk[p].kind = "file" => walk[p].mtime \in Int
        BY <1>1, EntryKinds DEF Listing, Walkable
  <2>2. QED
        BY <1>1, <2>1 DEF JInv, Times
<1>5. Copies'
      BY <1>2, CopiesKept DEF JInv, Quieter
<1>6. FreshList' /\ Ends'
      BY DEF JInv, FreshList, Ends
<1>7. Drawn'
      BY DrawnKept DEF JInv
<1>8. Signed'
      BY SignedKept DEF JInv
<1>9. Between' /\ Untouched'
      BY <1>2, BetweenKept, UntouchedKept DEF JInv
<1>10. FramesFit'
       BY <1>1, <1>2, AllWithin, FramesKept DEF JInv
<1>11. Pending'
       BY <1>2, PendingKept DEF JInv, Doing
<1>12. InSteps'
       BY InStepsKept DEF JInv, Working, InSteps
<1>13. Failures'
       BY FailuresKept DEF JInv
<1>14. QED
       BY <1>3, <1>4, <1>5, <1>6, <1>7, <1>8, <1>9, <1>10, <1>11, <1>12, <1>13 DEF JInv

\* A sync starts.
LEMMA StartGoesOn == JInv /\ IInv' /\ Start => JInv'
<1> SUFFICES ASSUME JInv, IInv', Start PROVE JInv'
    OBVIOUS
<1>1. /\ cpc = "idle" /\ walk' = Walk(local) /\ cpc' = "list" /\ apc' = "start" /\ still' = TRUE
      /\ UNCHANGED <<local, remote, rooted, now, lag, list, want, check, sigs, sends, reading, toClient,
                     stray, versions, shaken, quiet, settled>>
      BY DEF Start, world
<1>2. /\ WellFormed(local) /\ toClient = <<>> /\ reading = Shut /\ now \in Int
      /\ local \in Listing
  <2>1. WellFormed(local) /\ toClient = <<>> /\ reading = Shut /\ now \in 1..MaxTime
        BY <1>1 DEF JInv, IInv, Types, Stages, Opened
  <2>2. QED
        BY <2>1, TreeIs, ContentsAssumption
<1>3. ~ Watched' /\ ~ Working'
      BY <1>1 DEF Watched, Working
<1>4. Shapes'
  <2>1. Shape(walk') /\ Shape(list')
        BY <1>1, <1>2, WalkShape DEF JInv, Shapes
  <2>2. QED
        BY <1>1, <1>2, <2>1, EmptyFrames DEF Shapes
<1>5. Times'
  <2>1. ASSUME NEW p \in Paths, walk'[p].kind = "file" PROVE walk'[p].mtime \in 0..now'
    <3>1. /\ ~ IsExcluded(p) /\ local[p].kind = "file"
          /\ walk'[p].mtime = IF local[p].mtime < 0 THEN 0 ELSE local[p].mtime
          BY <1>1, <1>2, <2>1, SeenAt, MakesEntries
    <3>2. local[p].mtime \in Int /\ local[p].mtime <= now /\ now \in 1..MaxTime
          BY <1>2, <3>1, TreeEntry, EntryKinds DEF JInv, Times, IInv, Types
    <3>3. QED
          BY <1>1, <1>2, <3>1, <3>2
  <2>2. \A p \in Paths : local'[p].kind = "file" => local'[p].mtime <= now'
        BY <1>1 DEF JInv, Times
  <2>3. QED
        BY <2>1, <2>2 DEF Times
<1>6. Copies'
      BY <1>1, <1>2 DEF Copies
<1>7. FreshList' /\ Drawn' /\ Signed'
      BY <1>1 DEF FreshList, Drawn, Signed
<1>8. Ends'
      BY <1>1, <1>2, EmptyFrames DEF Ends
<1>9. Between' /\ Untouched' /\ FramesFit' /\ Pending'
      BY <1>3 DEF Between, Untouched, FramesFit, Pending
<1>10. InSteps'
       BY <1>1, <1>3 DEF JInv, InSteps, InStep
<1>11. Failures'
       BY <1>1 DEF Failures
<1>12. QED
       BY <1>4, <1>5, <1>6, <1>7, <1>8, <1>9, <1>10, <1>11 DEF JInv

\* The next run.
LEMMA AgainGoesOn == JInv /\ IInv' /\ Again => JInv'
<1> SUFFICES ASSUME JInv, IInv', Again PROVE JInv'
    OBVIOUS
<1>1. /\ cpc' = "idle" /\ apc' = "off" /\ toAgent' = <<>> /\ toClient' = <<>>
      /\ walk' = NoTree /\ list' = NoTree
      /\ UNCHANGED <<local, remote, rooted, now, lag, reading, versions, quiet, still, settled>>
      BY DEF Again, world, history
<1>2. reading = Shut
      BY DEF JInv, IInv, Opened, Again
<1>3. ~ Watched' /\ ~ Working'
      BY <1>1 DEF Watched, Working
<1>4. Shapes'
  <2>1. Shape(NoTree)
        BY EmptyListing DEF Shape
  <2>2. QED
        BY <1>1, <2>1, EmptyFrames DEF Shapes
<1>5. Times'
      BY <1>1, EmptyListing, MakesEntries DEF JInv, Times
<1>6. Copies'
      BY <1>1, <1>2 DEF Copies
<1>7. FreshList' /\ Drawn' /\ Signed'
      BY <1>1 DEF FreshList, Drawn, Signed
<1>8. Ends'
      BY <1>1, EmptyFrames DEF Ends
<1>9. Between' /\ Untouched' /\ FramesFit' /\ Pending'
      BY <1>3 DEF Between, Untouched, FramesFit, Pending
<1>10. InSteps'
       BY <1>1, <1>3 DEF JInv, InSteps, InStep
<1>11. Failures'
       BY <1>1 DEF Failures
<1>12. QED
       BY <1>4, <1>5, <1>6, <1>7, <1>8, <1>9, <1>10, <1>11 DEF JInv

\* What a shortened pipe holds is in order.
LEMMA PrefixLines ==
  ASSUME NEW f \in Seq(AgentFrame), Lines(f), NEW g \in Prefixes(f)
  PROVE  Lines(g) /\ (g # <<>> => f # <<>>)
<1>1. PICK n \in 0..Len(f) : g = SubSeq(f, 1, n)
      BY DEF Prefixes
<1>2. Len(g) = n /\ n \in Nat /\ n <= Len(f) /\ Len(f) \in Nat /\ \A k \in 1..n : g[k] = f[k]
  <2>1. Len(f) \in Nat /\ n \in Nat /\ n <= Len(f)
        BY <1>1
  <2>2. QED
        BY <1>1, <2>1, FirstPart
<1>3. ASSUME NEW k \in 1..Len(g)
      PROVE  /\ g[k].tag = "MKDIR" => k = 1
             /\ g[k].tag = "PLAN_DONE" => k = Len(g)
             /\ g[k].tag = "DELETE" =>
                  /\ DeepestFirst(g[k].paths)
                  /\ \A j \in 1..Len(g) : g[j].tag = "DELETE" => j = k
  <2>1. k \in 1..Len(f) /\ g[k] = f[k] /\ \A j \in 1..Len(g) : j \in 1..Len(f) /\ g[j] = f[j]
        BY <1>2
  <2>2. /\ f[k].tag = "MKDIR" => k = 1
        /\ f[k].tag = "PLAN_DONE" => k = Len(f)
        /\ f[k].tag = "DELETE" =>
             /\ DeepestFirst(f[k].paths)
             /\ \A j \in 1..Len(f) : f[j].tag = "DELETE" => j = k
        BY <2>1 DEF Lines
  <2>3. QED
        BY <1>2, <2>1, <2>2
<1>4. f = <<>> => Len(g) = 0
      BY <1>2, EmptyFrames
<1>5. g # <<>> => f # <<>>
      BY <1>4, PrefixWithin, EmptySeq
<1>6. QED
      BY <1>3, <1>5 DEF Lines

\* The client ends its sync with an error; frames may be lost.
LEMMA EndGoesOn ==
  ASSUME JInv, IInv', cpc \in Active, cpc' = "failed", reading' = Shut,
         UNCHANGED <<local, remote, rooted, now, lag, walk, list, want, check, sigs, sends, apc,
                     versions, quiet, settled>>,
         toAgent' \in Prefixes(toAgent),
         \A k \in 1..Len(toClient') : \E j \in 1..Len(toClient) : toClient'[k] = toClient[j],
         still' => still /\ apc \notin {"off", "start"} /\ (apc # "gone" /\ quiet => Early)
  PROVE  JInv'
<1>1. toAgent \in Seq(AgentFrame) /\ toAgent' \in Seq(AgentFrame) /\ Within(toAgent', toAgent)
      BY PrefixWithin DEF JInv, IInv, Types
<1>2. toAgent' # <<>> => toAgent # <<>>
      BY <1>1, EmptySeq DEF Within
<1>3. Working' => Working
  <2>1. SUFFICES ASSUME Working' PROVE Working
        OBVIOUS
  <2>2. apc = "serve" /\ toAgent # <<>>
        BY <1>2, <2>1 DEF Working
  <2>3. cpc # "list"
        BY <2>2 DEF JInv, IInv, Stages
  <2>4. QED
        BY <2>3 DEF Active, Working
<1>4. Quieter
      BY <1>3 DEF Quieter, Watched, Calm, Unedited
<1>5. Shapes'
      BY ShapesKept DEF JInv
<1>6. Times'
      BY TimesKept DEF JInv
<1>7. Copies'
      BY <1>4, CopiesKept DEF JInv, Quieter, Active
<1>8. FreshList' /\ Drawn' /\ Signed' /\ Untouched' /\ Pending'
      BY DEF FreshList, Drawn, Signed, Untouched, Pending, Active
<1>9. Ends'
  <2>1. apc' = "serve" => Lines(toAgent')
        BY PrefixLines, <1>1 DEF JInv, Ends
  <2>2. apc' = "idle" => toAgent' = <<>>
        BY <1>2 DEF JInv, Ends
  <2>3. \A k \in 1..Len(toClient') : toClient'[k].tag = "DONE" => apc' = "idle"
        BY DEF JInv, Ends
  <2>4. QED
        BY <2>1, <2>2, <2>3 DEF Ends
<1>10. Between'
       BY <1>4, BetweenKept DEF JInv
<1>11. FramesFit'
       BY <1>1, <1>4, FramesKept DEF JInv
<1>12. InSteps'
       BY <1>3, InStepsKept DEF JInv, InSteps
<1>13. Failures'
  <2>1. (KindClash' <=> KindClash) /\ (BeforeEpoch' <=> BeforeEpoch) /\ (LeavesRoot' <=> LeavesRoot)
        /\ (TooLong' <=> TooLong) /\ (LinkFirst' <=> LinkFirst)
        BY DEF KindClash, LeavesRoot, BeforeEpoch, TooLong, LinkFirst, ToSend, ToVerify, Missing,
               OnBoth, Differing, MkDirs
  <2>2. still' /\ apc = "gone" /\ quiet => Reasons
        BY DEF JInv, Failures
  <2>3. QED
        BY <2>1, <2>2 DEF Failures, Reasons, Early
<1>14. QED
       BY <1>5, <1>6, <1>7, <1>8, <1>9, <1>10, <1>11, <1>12, <1>13 DEF JInv

LEMMA WholePrefix == ASSUME NEW S, NEW f \in Seq(S) PROVE f \in Prefixes(f)
<1>1. SubSeq(f, 1, Len(f)) = f /\ Len(f) \in Nat
      BY SubSeqFull
<1>2. Len(f) \in 0..Len(f)
      BY <1>1
<1>3. QED
      BY <1>1, <1>2 DEF Prefixes

LEMMA TailAmong ==
  ASSUME NEW S, NEW s \in Seq(S), s # <<>>
  PROVE  \A k \in 1..Len(Tail(s)) : k + 1 \in 1..Len(s) /\ Tail(s)[k] = s[k + 1]
<1>1. /\ Len(Tail(s)) = Len(s) - 1 /\ Len(s) \in Nat
      /\ \A k \in 1..(Len(s) - 1) : Tail(s)[k] = s[k + 1]
      BY TailOf
<1>2. QED
      BY <1>1

\* An error ends the sync; nobody has failed it without a reason.
LEMMA GiveUpGoesOn ==
  ASSUME JInv, IInv', cpc \in Active, GiveUp,
         toClient' = toClient \/ (toClient # <<>> /\ toClient' = Tail(toClient)),
         still => apc \notin {"off", "start"} /\ (apc # "gone" /\ quiet => Early)
  PROVE  JInv'
<1>1. /\ cpc' = "failed" /\ reading' = Shut
      /\ UNCHANGED <<local, remote, rooted, now, lag, walk, list, want, check, sigs, sends, apc,
                     toAgent, versions, quiet, still, settled>>
      BY DEF GiveUp, world, history
<1>2. toAgent \in Seq(AgentFrame) /\ toClient \in Seq(ClientFrame)
      BY DEF JInv, IInv, Types
<1>3. toAgent' \in Prefixes(toAgent)
      BY <1>1, <1>2, WholePrefix
<1>4. \A k \in 1..Len(toClient') : \E j \in 1..Len(toClient) : toClient'[k] = toClient[j]
  <2>1. CASE toClient' = toClient
        BY <2>1
  <2>2. CASE toClient # <<>> /\ toClient' = Tail(toClient)
    <3>1. \A k \in 1..Len(Tail(toClient)) :
            k + 1 \in 1..Len(toClient) /\ Tail(toClient)[k] = toClient[k + 1]
          BY <1>2, <2>2, TailAmong
    <3>2. QED
          BY <2>2, <3>1
  <2>3. QED
        BY <2>1, <2>2
<1>5. QED
      BY <1>1, <1>3, <1>4, EndGoesOn

LEMMA FailGoesOn == JInv /\ IInv' /\ Fail => JInv'
<1> SUFFICES ASSUME JInv, IInv', Fail PROVE JInv'
    OBVIOUS
<1>1. cpc \in Active /\ apc = "gone" /\ GiveUp /\ toClient' = toClient
      BY DEF Fail
<1>2. QED
      BY <1>1, GiveUpGoesOn

LEMMA BreakGoesOn == JInv /\ IInv' /\ Break => JInv'
<1> SUFFICES ASSUME JInv, IInv', Break PROVE JInv'
    OBVIOUS
<1>1. /\ cpc \in Active /\ cpc' = "failed" /\ reading' = Shut /\ still' = FALSE
      /\ UNCHANGED <<local, remote, rooted, now, lag, walk, list, want, check, sigs, sends, apc,
                     versions, quiet, settled>>
      /\ toAgent' \in Prefixes(toAgent) /\ toClient' = <<>>
      BY DEF Break, world
<1>2. \A k \in 1..Len(toClient') : \E j \in 1..Len(toClient) : toClient'[k] = toClient[j]
      BY <1>1, EmptyFrames
<1>3. QED
      BY <1>1, <1>2, EndGoesOn

\* Steps after which the local tree is not as it was walked, or nothing is said of the
\* remote tree.
LEMMA Disturbed ==
  ASSUME JInv, IInv', ~ settled',
         UNCHANGED <<now, lag, client, toClient>>,
         still' => still, quiet' => quiet,
         \A p \in Paths : versions[p] \subseteq versions'[p],
         \A p \in Paths : local'[p].kind = "file" =>
           local'[p].mtime <= now \/ (local[p].kind = "file" /\ local'[p].mtime <= local[p].mtime),
         ~ Unedited' \/ local' = local,
         \/ ~ still' /\ apc' = apc /\ toAgent' = toAgent /\ remote' = remote
         \/ ~ quiet' /\ apc' = apc /\ toAgent' = toAgent /\ local' = local
         \/ ~ still' /\ apc' = "gone" /\ apc \in {"start", "serve"}
         \/ UNCHANGED <<local, remote, rooted, apc, toAgent, quiet, still>>
  PROVE  JInv'
<1> USE DEF client
<1>1. /\ toAgent \in Seq(AgentFrame) /\ local' \in Listing /\ local \in Listing
      /\ now \in Int
  <2>1. toAgent \in Seq(AgentFrame) /\ WellFormed(local) /\ WellFormed(local)' /\ now \in 1..MaxTime
        BY DEF JInv, IInv, Types
  <2>2. WellFormed(local')
        BY <2>1 DEF WellFormed, Children, Holds, Paths, Entry
  <2>3. QED
        BY <2>1, <2>2, TreeIs, ContentsAssumption
<1>2. (Watched' => Watched) /\ (Watched' => UNCHANGED <<remote, apc, toAgent>>)
      BY DEF Watched, Calm, Working
<1>3. Unedited' => Unedited
      BY DEF Unedited
<1>4. Shapes'
      BY ShapesKept DEF JInv
<1>5. Times'
  <2>1. ASSUME NEW p \in Paths, local'[p].kind = "file" PROVE local'[p].mtime <= now
    <3>1. local'[p].mtime \in Int /\ (local[p].kind = "file" => local[p].mtime \in Int)
          BY <1>1, <2>1, EntryKinds DEF Listing, Walkable
    <3>2. local[p].kind = "file" => local[p].mtime <= now
          BY DEF JInv, Times
    <3>3. QED
          BY <1>1, <2>1, <3>1, <3>2
  <2>2. QED
        BY <2>1 DEF JInv, Times
<1>6. Copies'
      BY <1>3 DEF JInv, Copies, Unedited
<1>7. FreshList'
      BY DEF JInv, FreshList
<1>8. Ends'
      BY DEF JInv, Ends
<1>9. Drawn' /\ Signed'
      BY DrawnKept, SignedKept DEF JInv
<1>10. Between' /\ Untouched' /\ FramesFit' /\ Pending'
  <2>1. CASE Watched'
    <3>1. Quieter
          BY <1>2, <1>3, <2>1 DEF Quieter
    <3>2. UNCHANGED <<apc, toAgent, remote>>
          BY <1>2, <2>1
    <3>3. Between' /\ Untouched'
          BY <3>1, BetweenKept, UntouchedKept DEF JInv
    <3>4. FramesFit'
          BY <1>1, <3>1, <3>2, AllWithin, FramesKept DEF JInv
    <3>5. Pending'
          BY <3>1, <3>2, PendingKept DEF JInv, Doing
    <3>6. QED
          BY <3>3, <3>4, <3>5
  <2>2. CASE ~ Watched'
        BY <2>2 DEF Between, Untouched, FramesFit, Pending
  <2>3. QED
        BY <2>1, <2>2
<1>11. InSteps'
       BY DEF InSteps
<1>12. Failures'
  <2>1. CASE still' /\ UNCHANGED <<local, apc, walk, list, cpc>>
        BY <2>1, FailuresKept DEF JInv
  <2>2. CASE ~ still'
        BY <2>2 DEF Failures
  <2>3. QED
        BY <2>1, <2>2
<1>13. QED
       BY <1>4, <1>5, <1>6, <1>7, <1>8, <1>9, <1>10, <1>11, <1>12 DEF JInv

LEMMA LocalEditGoesOn == ASSUME NEW p \in Paths, JInv, IInv', LocalEdit(p) PROVE JInv'
<1>1. PICK e \in {File(c, now) : c \in Contents} \cup {Absent} :
        /\ local' = [local EXCEPT ![p] = e]
        /\ versions' = [versions EXCEPT ![p] = @ \cup {Bare(e)}]
      BY DEF LocalEdit
<1>2. /\ still' = FALSE /\ settled' = FALSE
      /\ UNCHANGED <<remote, now, lag, client, apc, toAgent, toClient, quiet>>
      BY DEF LocalEdit
<1>3. local \in Listing /\ versions \in [Paths -> SUBSET Entry] /\ now \in Int
  <2>1. WellFormed(local) /\ now \in 1..MaxTime
        BY DEF JInv, IInv, Types
  <2>2. versions \in [Paths -> SUBSET Entry]
        BY DEF JInv, IInv, Types
  <2>3. QED
        BY <2>1, <2>2, TreeIs, ContentsAssumption
<1>4. \A q \in Paths : versions[q] \subseteq versions'[q]
      BY <1>1, <1>3
<1>5. e.kind = "file" => e.mtime <= now
      BY <1>1, <1>3 DEF File, Absent
<1>6. ASSUME NEW q \in Paths, local'[q].kind = "file"
      PROVE  local'[q].mtime <= now \/ (local[q].kind = "file" /\ local'[q].mtime <= local[q].mtime)
  <2>1. CASE q = p
        BY <1>1, <1>3, <1>5, <1>6, <2>1 DEF Listing
  <2>2. CASE q # p
    <3>1. local'[q] = local[q]
          BY <1>1, <1>3, <2>2 DEF Listing
    <3>2. local[q].mtime <= now
          BY <1>6, <3>1 DEF JInv, Times
    <3>3. QED
          BY <3>1, <3>2
  <2>3. QED
        BY <2>1, <2>2
<1>7. ~ Unedited'
      BY <1>2 DEF Unedited
<1>8. QED
      BY <1>2, <1>4, <1>6, <1>7, Disturbed

\* Nothing local has changed, and so no time is newer.
LEMMA TimesStay ==
  ASSUME JInv, UNCHANGED local
  PROVE  \A p \in Paths : local'[p].kind = "file" =>
           local'[p].mtime <= now \/ (local[p].kind = "file" /\ local'[p].mtime <= local[p].mtime)
BY DEF JInv, Times

LEMMA RemoteEditGoesOn == ASSUME NEW p \in Paths, JInv, IInv', RemoteEdit(p) PROVE JInv'
<1>1. /\ quiet' = FALSE /\ settled' = FALSE
      /\ UNCHANGED <<local, now, lag, client, apc, toAgent, toClient, versions, still>>
      BY DEF RemoteEdit
<1>2. QED
      BY <1>1, TimesStay, Disturbed

LEMMA AgentDiesGoesOn == JInv /\ IInv' /\ AgentDies => JInv'
<1> SUFFICES ASSUME JInv, IInv', AgentDies PROVE JInv'
    OBVIOUS
<1>1. /\ apc \in {"start", "serve"} /\ apc' = "gone" /\ still' = FALSE /\ settled' = FALSE
      /\ UNCHANGED <<local, now, lag, client, toClient, versions, quiet>>
      BY DEF AgentDies
<1>2. QED
      BY <1>1, TimesStay, Disturbed

\* An abandoned agent.
LEMMA StrayGoesOn == JInv /\ IInv' /\ StrayStep => JInv'
<1> SUFFICES ASSUME JInv, IInv', StrayStep PROVE JInv'
    OBVIOUS
<1>1. UNCHANGED <<local, now, lag, client, apc, toAgent, toClient, used, versions, still>>
      BY DEF StrayStep
<1>2. CASE Head(stray).tag \in {"MKDIR", "DELETE", "PUT"}
  <2>1. quiet' = FALSE /\ settled' = FALSE
        BY <1>2 DEF StrayStep
  <2>2. QED
        BY <1>1, <2>1, TimesStay, Disturbed
<1>3. CASE Head(stray).tag \notin {"MKDIR", "DELETE", "PUT"}
  <2>1. remote' = Yields(remote).tree /\ (quiet' <=> quiet) /\ (settled' <=> settled)
        BY <1>3 DEF StrayStep
  <2>2. remote' = remote /\ (rooted' <=> rooted)
    <3>1. remote' = remote
          BY <2>1 DEF Yields
    <3>2. QED
          BY <3>1 DEF StrayStep, MakeRoot
  <2>3. now \in Int
    <3>1. now \in 1..MaxTime
          BY DEF JInv, IInv, Types
    <3>2. QED
          BY <3>1, ContentsAssumption
  <2>4. now <= now'
        BY <1>1, <2>3
  <2>5. QED
        BY <1>1, <2>1, <2>2, <2>4, TimePasses
<1>4. QED
      BY <1>2, <1>3

-----------------------------------------------------------------------------
(***************************************************************************)
(* The second invariant: how a sync begins and ends.                       *)
(***************************************************************************)

LEMMA ListGoesOn == JInv /\ IInv' /\ List => JInv'
<1> SUFFICES ASSUME JInv, IInv', List PROVE JInv'
    OBVIOUS
<1>1. /\ apc = "start" /\ apc' = "serve" /\ quiet' = TRUE /\ toAgent' = Tail(toAgent)
      /\ toAgent # <<>>
      /\ toClient' = Append(toClient, [tag |-> "LIST", tree |-> Walk(remote)])
      /\ UNCHANGED <<local, remote, rooted, now, lag, client, versions, still, settled>>
      BY DEF List, world
<1>2. /\ WellFormed(remote) /\ toAgent \in Seq(AgentFrame) /\ toClient = <<>>
      /\ cpc \in {"list", "failed"} /\ Len(toAgent) <= 1
      BY <1>1 DEF JInv, IInv, Types, Stages
<1>3. toAgent' = <<>>
  <2>1. Len(Tail(toAgent)) = Len(toAgent) - 1 /\ Len(toAgent) \in Nat \ {0}
        /\ Tail(toAgent) \in Seq(AgentFrame)
        BY <1>1, <1>2, TailOf
  <2>2. Len(toAgent') = 0 /\ toAgent' \in Seq(AgentFrame)
        BY <1>1, <1>2, <2>1
  <2>3. QED
        BY <2>2, EmptySeq
<1>4. /\ Len(toClient') = 1 /\ toClient'[1] = [tag |-> "LIST", tree |-> Walk(remote)]
  <2>1. [tag |-> "LIST", tree |-> Walk(remote)] \in ClientFrame
        BY <1>2, WalkListing DEF ClientFrame
  <2>2. toClient \in Seq(ClientFrame) /\ Len(toClient) = 0
        BY <1>2, EmptyFrames
  <2>3. QED
        BY <1>1, <2>1, <2>2, AnswerMore
<1>5. \A k \in 1..Len(toClient') : toClient'[k].tag = "LIST" /\ toClient'[k].tree = Walk(remote)
      BY <1>4
<1> USE DEF client
<1>6. ~ Watched' /\ ~ Working'
      BY <1>1, <1>2, <1>3 DEF Watched, Working
<1>7. Shapes'
      BY <1>1, <1>2, <1>5, WalkShape DEF JInv, Shapes
<1>8. Times'
      BY <1>1, TimesKept DEF JInv
<1>9. Copies'
      BY <1>1, CopiesKept DEF JInv, Unedited
<1>10. FreshList'
       BY <1>1, <1>5 DEF FreshList
<1>11. Ends'
  <2>1. Lines(<<>>)
        BY EmptyFrames DEF Lines
  <2>2. QED
        BY <1>1, <1>2, <1>3, <1>5, <2>1 DEF Ends
<1>12. Drawn' /\ Signed'
       BY <1>1, <1>2 DEF Drawn, Signed
<1>13. Between' /\ Untouched' /\ FramesFit' /\ Pending'
       BY <1>6 DEF Between, Untouched, FramesFit, Pending
<1>14. InSteps'
       BY <1>1, <1>2, <1>6 DEF JInv, InSteps, InStep
<1>15. Failures'
       BY <1>1, <1>2 DEF JInv, Failures
<1>16. QED
       BY <1>7, <1>8, <1>9, <1>10, <1>11, <1>12, <1>13, <1>14, <1>15 DEF JInv

LEMMA ConcludeGoesOn == JInv /\ IInv' /\ Conclude => JInv'
<1> SUFFICES ASSUME JInv, IInv', Conclude PROVE JInv'
    OBVIOUS
<1>1. /\ apc = "serve" /\ apc' = "idle" /\ toAgent' = Tail(toAgent)
      /\ toAgent # <<>> /\ Head(toAgent).tag = "PLAN_DONE"
      /\ toClient' = Append(toClient, [tag |-> "DONE"])
      /\ UNCHANGED <<local, remote, rooted, now, lag, client, versions, quiet, still, settled>>
      BY DEF Conclude, world, history
<1>2. toAgent \in Seq(AgentFrame) /\ toClient \in Seq(ClientFrame)
      BY DEF JInv, IInv, Types
<1>3. /\ Len(Tail(toAgent)) = Len(toAgent) - 1 /\ Len(toAgent) \in Nat \ {0}
      /\ Tail(toAgent) \in Seq(AgentFrame) /\ Head(toAgent) = toAgent[1]
      /\ 1 \in 1..Len(toAgent)
      BY <1>1, <1>2, TailOf
<1>4. toAgent[1].tag = "PLAN_DONE" /\ 1 = Len(toAgent)
  <2>1. Lines(toAgent)
        BY <1>1 DEF JInv, Ends
  <2>2. toAgent[1].tag = "PLAN_DONE" => 1 = Len(toAgent)
        BY <1>3, <2>1 DEF Lines
  <2>3. QED
        BY <1>1, <1>3, <2>2
<1>5. toAgent' = <<>>
  <2>1. Len(toAgent') = 0 /\ toAgent' \in Seq(AgentFrame)
        BY <1>1, <1>3, <1>4
  <2>2. QED
        BY <2>1, EmptySeq
<1>6. cpc \in {"await", "failed"}
  <2>1. cpc \in Active \cup {"idle", "done", "failed"}
        BY DEF JInv, IInv, Types
  <2>2. cpc \notin {"idle", "done", "list", "sigs", "send"}
        BY <1>1, <1>3, <1>4 DEF JInv, IInv, Stages, Ends
  <2>3. QED
        BY <2>1, <2>2 DEF Active
<1> USE DEF client
<1>7. (Working' => Working) /\ Quieter
      BY <1>1, <1>6 DEF Quieter, Watched, Calm, Working, Unedited
<1>8. /\ \A k \in 1..Len(toClient') : toClient'[k].tag = "LIST" =>
           \E j \in 1..Len(toClient) : toClient'[k] = toClient[j]
  <2>1. [tag |-> "DONE"] \in ClientFrame
        BY DEF ClientFrame
  <2>2. QED
        BY <1>1, <1>2, <2>1, AnswerMore
<1>9. Shapes'
      BY <1>1, <1>8, ShapesKept DEF JInv
<1>10. Times'
       BY <1>1, TimesKept DEF JInv
<1>11. Copies'
       BY <1>1, <1>7, CopiesKept DEF JInv, Quieter
<1>12. FreshList' /\ Signed'
       BY <1>1, <1>6 DEF FreshList, Signed
<1>13. Ends'
       BY <1>1, <1>5 DEF JInv, Ends
<1>14. Drawn'
       BY <1>1, DrawnKept DEF JInv
<1>15. Between' /\ Untouched'
       BY <1>1, <1>7, BetweenKept, UntouchedKept DEF JInv
<1>16. FramesFit'
       BY <1>5, EmptyFrames DEF FramesFit
<1>17. Pending'
  <2>1. \A p \in Paths : ~ Named("MKDIR", toAgent, p) /\ ~ Named("PUT", toAgent, p)
                         /\ ~ Named("DELETE", toAgent, p)
    <3>1. \A k \in 1..Len(toAgent) : toAgent[k].tag = "PLAN_DONE"
      <4>1. \A k \in 1..1 : k = 1
            OBVIOUS
      <4>2. QED
            BY <1>4, <4>1, Zenon
    <3>2. QED
          BY <3>1 DEF Named
  <2>2. ASSUME NEW p \in Paths, Doing(p), cpc' # "failed" PROVE Doing(p)'
        BY <1>1, <1>6, <2>1, <2>2 DEF Doing
  <2>3. QED
        BY <1>1, <1>7, <2>2, PendingKept DEF JInv
<1>18. InSteps'
       BY <1>1, <1>7, InStepsKept DEF JInv, InSteps
<1>19. Failures'
       BY <1>1, FailuresKept DEF JInv
<1>20. QED
       BY <1>9, <1>10, <1>11, <1>12, <1>13, <1>14, <1>15, <1>16, <1>17, <1>18, <1>19 DEF JInv

\* When all is done, all is as it was walked.
LEMMA AllDone ==
  ASSUME JInv, Watched, cpc \in {"await", "done"}, apc = "idle", NEW p \in Paths
  PROVE  \/ Fits(walk[p], Walk(remote)[p], versions[p], lag, Unedited)
         \/ Unverified(p)
         \/ walk[p].kind = "none" /\ Kept(p)
<1>1. toAgent = <<>> /\ check = <<>> /\ sends = <<>>
      BY DEF JInv, Ends
<1>2. /\ ~ Named("MKDIR", toAgent, p) /\ ~ Named("PUT", toAgent, p)
      /\ ~ Named("DELETE", toAgent, p) /\ ~ Among(sends, p) /\ ~ Among(check, p)
      BY <1>1, EmptyFrames DEF Named, Among
<1>3. QED
      BY <1>2 DEF JInv, Pending

\* Only directories are kept.
LEMMA KeptIsDir ==
  ASSUME NEW p \in Paths, WellFormed(remote), Kept(p)
  PROVE  IsExcluded(p) \/ remote[p] = Dir
<1>1. PICK q \in Paths : IsPrefix(p, q) /\ IsExcluded(q) /\ remote[q] # Absent
      BY DEF Kept
<1>2. /\ Len(p) \in Nat \ {0} /\ Len(q) \in Nat \ {0} /\ q \in Seq(STRING) /\ p \in Seq(STRING)
      BY PathParts
<1>3. Len(p) <= Len(q) /\ SubSeq(p, 1, Len(p)) = SubSeq(q, 1, Len(p))
      BY <1>1 DEF IsPrefix
<1>4. p = SubSeq(q, 1, Len(p))
      BY <1>2, <1>3, SubSeqFull
<1>5. CASE Len(p) = Len(q)
  <2>1. p = q
        BY <1>2, <1>4, <1>5, SubSeqFull
  <2>2. QED
        BY <1>1, <2>1
<1>6. CASE Len(p) # Len(q)
  <2>1. Len(p) \in 1..(Len(q) - 1)
        BY <1>2, <1>3, <1>6
  <2>2. p \in Above(q)
        BY <1>4, <2>1 DEF Above
  <2>3. QED
        BY <1>1, <2>2, BelowDirs
<1>7. QED
      BY <1>5, <1>6

LEMMA SucceedGoesOn == JInv /\ IInv' /\ Succeed => JInv'
<1> SUFFICES ASSUME JInv, IInv', Succeed PROVE JInv'
    OBVIOUS
<1>1. /\ cpc = "await" /\ cpc' = "done" /\ toClient' = Tail(toClient)
      /\ toClient # <<>> /\ Head(toClient).tag = "DONE"
      /\ settled' = (quiet /\ still /\ Clash(walk, list) = {})
      /\ UNCHANGED <<local, remote, rooted, now, lag, walk, list, want, check, sigs, sends, reading, apc,
                     toAgent, versions, quiet, still>>
      BY DEF Succeed, world
<1>2. /\ toAgent \in Seq(AgentFrame) /\ toClient \in Seq(ClientFrame)
      /\ WellFormed(remote) /\ WellFormed(local) /\ walk \in Listing /\ lag \in Nat
      BY DEF JInv, IInv, Types
<1>3. apc = "idle"
  <2>1. Head(toClient) = toClient[1] /\ 1 \in 1..Len(toClient)
        BY <1>1, <1>2, TailOf
  <2>2. QED
        BY <1>1, <2>1 DEF JInv, Ends
<1>4. Quieter /\ ~ Working'
  <2>1. Watched' => Watched
        BY <1>1 DEF Watched, Calm, Working
  <2>2. QED
        BY <1>1, <2>1 DEF Quieter, Unedited, Working
<1>5. \A k \in 1..Len(toClient') : \E j \in 1..Len(toClient) : toClient'[k] = toClient[j]
  <2>1. \A k \in 1..Len(Tail(toClient)) :
          k + 1 \in 1..Len(toClient) /\ Tail(toClient)[k] = toClient[k + 1]
        BY <1>1, <1>2, TailAmong
  <2>2. QED
        BY <1>1, <2>1
<1>6. Shapes'
      BY <1>1, <1>5, ShapesKept DEF JInv
<1>7. Times'
      BY <1>1, TimesKept DEF JInv
<1>8. Copies'
      BY <1>1, <1>4, CopiesKept DEF JInv, Quieter
<1>9. FreshList' /\ Signed' /\ Drawn' /\ Untouched'
      BY <1>1 DEF FreshList, Signed, Drawn, Untouched, Active
<1>10. Ends'
       BY <1>1, <1>3 DEF JInv, Ends
<1>11. Between'
       BY <1>4, BetweenKept DEF JInv
<1>12. FramesFit'
       BY <1>1, <1>2, <1>4, AllWithin, FramesKept DEF JInv
<1>13. Pending'
       BY <1>1, <1>4, PendingKept DEF JInv, Doing
<1>14. ASSUME settled', NEW p \in Paths PROVE InStep(Walk(local)[p], Walk(remote)[p])
  <2>1. quiet /\ still /\ Clash(walk, list) = {}
        BY <1>1, <1>14
  <2>2. Watched
        BY <1>1, <1>3, <2>1 DEF Watched, Calm, Working
  <2>3. walk = Walk(local) /\ Unedited
        BY <1>1, <2>1 DEF JInv, Copies, Unedited
  <2>4. /\ walk[p] \in Entry /\ Walk(remote)[p] \in Entry
        BY <1>2, SeenAt DEF Listing, Walkable
  <2>5. CASE Fits(walk[p], Walk(remote)[p], versions[p], lag, Unedited)
    <3>1. Fits(walk[p], Walk(remote)[p], versions[p], lag, TRUE)
          BY <2>3, <2>5 DEF Fits
    <3>2. QED
          BY <1>2, <2>3, <2>4, <3>1, FitIsInStep
  <2>6. CASE Unverified(p)
    <3>1. SameEntry(walk[p], Walk(remote)[p]) /\ Len(walk[p].data) > VerifyMax
          BY <2>6 DEF Unverified
    <3>2. InStep(walk[p], Walk(remote)[p])
      <4>1. Len(walk[p].data) \in Nat /\ VerifyMax \in Nat
            BY <2>4, <2>6, EntryKinds, ContentsAssumption DEF Unverified
      <4>2. QED
            BY <3>1, <4>1 DEF InStep
    <3>3. QED
          BY <2>3, <3>2
  <2>7. CASE walk[p].kind = "none" /\ Kept(p)
    <3>1. walk[p] = Absent /\ Walk(remote)[p] \in {Absent, Dir}
          BY <1>2, <2>4, <2>7, KeptIsDir, SeenAt, EntryKinds, MakesEntries
    <3>2. QED
          BY <2>3, <3>1, SameAsSelf, MakesEntries DEF InStep
  <2>8. QED
        BY <1>1, <1>3, <2>2, <2>5, <2>6, <2>7, AllDone
<1>15. InSteps'
  <2>1. \A p \in Paths : settled' => InStep(Walk(local)[p], Walk(remote)[p])
        BY <1>14
  <2>2. settled' => \A p \in Paths : InStep(Walk(local)[p], Walk(remote)[p])'
        BY <1>1, <2>1 DEF InStep
  <2>3. settled' => quiet'
        BY <1>1
  <2>4. QED
        BY <1>1, <1>4, <2>2, <2>3 DEF InSteps
<1>16. Failures'
       BY <1>1, <1>3 DEF Failures
<1>17. QED
       BY <1>6, <1>7, <1>8, <1>9, <1>10, <1>11, <1>12, <1>13, <1>15, <1>16 DEF JInv

-----------------------------------------------------------------------------
(***************************************************************************)
(* The second invariant: the client reads, and takes what has come.        *)
(***************************************************************************)

Less(s, t) == \A k \in 1..Len(s) : \E j \in 1..Len(t) : s[k] = t[j]

LEMMA TailIsLess == ASSUME NEW S, NEW s \in Seq(S), s # <<>> PROVE Less(Tail(s), s)
BY TailAmong DEF Less

\* A step of the client that plans nothing new.
ClientOnly ==
  /\ cpc \in {"sigs", "send"} /\ cpc' \in {"sigs", "send", "await"}
  /\ UNCHANGED <<local, remote, rooted, now, lag, walk, list, apc, versions, quiet, still, settled>>
  /\ Less(toClient', toClient) /\ Less(want', want) /\ Less(check', check)
  /\ \A k \in 1..Len(sends') : \/ \E j \in 1..Len(sends) : sends'[k] = sends[j]
                               \/ \E j \in 1..Len(check) : sends'[k] = check[j]
  /\ settled => Less(sends', sends)

LEMMA ClientGoesOn ==
  ASSUME JInv, ClientOnly
  PROVE  /\ Shapes' /\ Times' /\ FreshList' /\ Drawn' /\ Between' /\ Untouched' /\ InSteps' /\ Failures'
         /\ Quieter /\ (Watched' => Watched)
<1>1. Quieter
      BY DEF ClientOnly, Quieter, Watched, Calm, Working, Unedited
<1>2. Shapes'
      BY ShapesKept DEF JInv, ClientOnly, Less
<1>3. Times'
      BY TimesKept DEF JInv, ClientOnly
<1>4. FreshList'
      BY DEF ClientOnly, FreshList
<1>5. Drawn'
  <2>1. /\ \A k \in 1..Len(want) : want[k] \in NeedSig(list)
        /\ \A k \in 1..Len(check) : check[k] \in ToVerify(list)
        /\ \A k \in 1..Len(sends) : sends[k] \in ToSend(list) \cup ToVerify(list)
        BY DEF JInv, Drawn, ClientOnly
  <2>2. /\ \A k \in 1..Len(want') : want'[k] \in NeedSig(list)
        /\ \A k \in 1..Len(check') : check'[k] \in ToVerify(list)
        /\ \A k \in 1..Len(sends') : sends'[k] \in ToSend(list) \cup ToVerify(list)
        BY <2>1 DEF ClientOnly, Less
  <2>3. NeedSig(list)' = NeedSig(list) /\ ToVerify(list)' = ToVerify(list) /\ ToSend(list)' = ToSend(list)
        BY DEF ClientOnly, NeedSig, ToVerify, ToSend, Missing, MkDirs, Differing, OnBoth
  <2>4. QED
        BY <2>2, <2>3 DEF Drawn
<1>6. Between'
      BY <1>1, BetweenKept DEF JInv
<1>7. Untouched'
  <2> SUFFICES ASSUME Watched', NEW s \in {want', check', sends'}, NEW k \in 1..Len(s)
               PROVE  Walk(remote)[s[k]] = list[s[k]]
      BY <1>1 DEF Untouched, Quieter
  <2>1. \A t \in {want, check, sends} : \A j \in 1..Len(t) : Walk(remote)[t[j]] = list[t[j]]
        BY <1>1 DEF JInv, Untouched, Quieter, ClientOnly, Active
  <2>2. \E t \in {want, check, sends} : \E j \in 1..Len(t) : s[k] = t[j]
    <3>1. CASE s = want' \/ s = check'
          BY <3>1 DEF ClientOnly, Less
    <3>2. CASE s = sends'
          BY <3>2 DEF ClientOnly
    <3>3. QED
          BY <3>1, <3>2
  <2>3. QED
        BY <2>1, <2>2
<1>8. InSteps'
  <2>1. Working' => Working
        BY DEF ClientOnly, Working
  <2>2. QED
        BY <2>1, InStepsKept DEF JInv, ClientOnly, Less, InSteps
<1>9. Failures'
      BY FailuresKept DEF JInv, ClientOnly
<1>10. QED
       BY <1>1, <1>2, <1>3, <1>4, <1>5, <1>6, <1>7, <1>8, <1>9 DEF Quieter

\* A file that cannot be opened as it was walked has been edited, or is too old.
LEMMA CannotRead ==
  ASSUME JInv, still, cpc # "idle", NEW p \in Paths, walk[p].kind = "file", ~ CanRead(p)
  PROVE  BeforeEpoch
<1>1. walk = Walk(local) /\ WellFormed(local)
      BY DEF JInv, IInv, Types, Copies, Unedited
<1>2. Walk(local)[p].kind = "file"
      BY <1>1
<1>3. ~ IsExcluded(p)
      BY <1>1, <1>2, SeenAt, MakesEntries
<1>4. local[p].kind = "file"
      BY <1>1, <1>2, <1>3, SeenKind
<1>5. walk[p].data = local[p].data /\ walk[p].mtime = IF local[p].mtime < 0 THEN 0 ELSE local[p].mtime
      BY <1>1, <1>3, <1>4, SeenAt
<1>6. local[p].mtime < 0
      BY <1>4, <1>5 DEF CanRead, SameEntry
<1>7. QED
      BY <1>4, <1>6 DEF BeforeEpoch

LEMMA OpenGoesOn ==
  ASSUME JInv, IInv', NEW p \in Paths, cpc \in {"sigs", "send"}, walk[p].kind = "file", Open(p),
         UNCHANGED toClient
  PROVE  JInv'
<1>1. CASE ~ CanRead(p)
  <2>1. GiveUp
        BY <1>1 DEF Open
  <2>2. still => apc \notin {"off", "start"} /\ (quiet => Early)
    <3>1. apc \notin {"off", "start"}
          BY DEF JInv, IInv, Stages
    <3>2. still => BeforeEpoch
          BY <1>1, CannotRead
    <3>3. QED
          BY <3>1, <3>2 DEF Early
  <2>3. QED
        BY <2>1, <2>2, GiveUpGoesOn DEF Active
<1>2. CASE CanRead(p)
  <2>1. /\ reading' = [path |-> p, data |-> local[p].data]
        /\ UNCHANGED <<local, remote, rooted, now, lag, cpc, walk, list, want, check, sigs, sends, apc,
                       toAgent, toClient, versions, quiet, still, settled>>
        BY <1>2 DEF Open, world, history
  <2>2. Less(want', want) /\ Less(check', check) /\ Less(sends', sends) /\ Less(toClient', toClient)
        BY <2>1 DEF Less
  <2>3. ClientOnly
        BY <2>1, <2>2 DEF ClientOnly, Less
  <2>4. /\ Shapes' /\ Times' /\ FreshList' /\ Drawn' /\ Between' /\ Untouched' /\ InSteps' /\ Failures'
        /\ Quieter
        BY <2>3, ClientGoesOn
  <2>5. Copies'
    <3>1. ASSUME Unedited PROVE local[p].data = walk[p].data
      <4>1. walk = Walk(local) /\ WellFormed(local)
            BY <3>1 DEF JInv, IInv, Types, Copies
      <4>2. Walk(local)[p].kind = "file"
            BY <4>1
      <4>3. ~ IsExcluded(p)
            BY <4>1, <4>2, SeenAt, MakesEntries
      <4>4. local[p].kind = "file"
            BY <4>1, <4>2, <4>3, SeenKind
      <4>5. QED
            BY <4>1, <4>3, <4>4, SeenAt
    <3>2. reading'.path = p /\ reading'.data = local[p].data
          BY <2>1
    <3>3. QED
          BY <2>1, <3>1, <3>2 DEF JInv, Copies, Unedited
  <2>6. Ends'
        BY <2>1 DEF JInv, Ends, Lines
  <2>7. Signed'
        BY <2>1, SignedKept DEF JInv
  <2>8. FramesFit'
        BY <2>1, <2>4, AllWithin, FramesKept DEF JInv, IInv, Types
  <2>9. Pending'
    <3>1. \A q \in Paths : Doing(q)' <=> Doing(q)
          BY <2>1 DEF Doing, Named, Among
    <3>2. QED
          BY <2>1, <2>4, <3>1, PendingKept DEF JInv
  <2>10. QED
         BY <2>4, <2>5, <2>6, <2>7, <2>8, <2>9 DEF JInv
<1>3. QED
      BY <1>1, <1>2

LEMMA OpenToVerifyGoesOn == JInv /\ IInv' /\ OpenToVerify => JInv'
<1> SUFFICES ASSUME JInv, IInv', OpenToVerify PROVE JInv'
    OBVIOUS
<1>1. PICK p : p = Head(check)
      OBVIOUS
<1>2. p = check[1] /\ p \in Paths /\ 1 \in 1..Len(check)
      BY <1>1, FirstOf DEF OpenToVerify, JInv, IInv, Types
<1>3. walk[p].kind = "file"
      BY <1>2 DEF JInv, IInv, Planned
<1>4. QED
      BY <1>1, <1>2, <1>3, OpenGoesOn DEF OpenToVerify

LEMMA OpenToSendGoesOn == JInv /\ IInv' /\ OpenToSend => JInv'
<1> SUFFICES ASSUME JInv, IInv', OpenToSend PROVE JInv'
    OBVIOUS
<1>1. PICK p : p = Head(sends)
      OBVIOUS
<1>2. p = sends[1] /\ p \in Paths
      BY <1>1, FirstOf DEF OpenToSend, Sending, JInv, IInv, Types
<1>3. QED
      BY <1>1, <1>2, OpenGoesOn DEF OpenToSend, Sending

\* The next signature is that of the next file that was asked for.
LEMMA NextSig ==
  ASSUME NEW due \in Seq(Paths), due # <<>>, NEW c \in Seq(ClientFrame), c # <<>>, NEW l,
         SigOf(c, due, l)
  PROVE  /\ c[1].tag = "SIG" => c[1].sig = Held(l[due[1]])
         /\ SigOf(Tail(c), Tail(due), l)
<1>1. PICK d : d = Tail(c)
      OBVIOUS
<1>2. PICK v : v = Tail(due)
      OBVIOUS
<1>3. \A k \in 1..Len(d) : k + 1 \in 1..Len(c) /\ d[k] = c[k + 1]
      BY <1>1, TailAmong
<1>4. /\ Len(v) = Len(due) - 1 /\ Len(due) \in Nat \ {0}
      /\ \A k \in 1..(Len(due) - 1) : v[k] = due[k + 1]
      BY <1>2, TailOf
<1>5. ASSUME NEW k \in 1..Len(d), d[k].tag = "SIG"
      PROVE  k <= Len(v) /\ d[k].sig = Held(l[v[k]])
  <2>1. c[k + 1].tag = "SIG" /\ k + 1 \in 1..Len(c)
        BY <1>3, <1>5
  <2>2. k + 1 <= Len(due) /\ c[k + 1].sig = Held(l[due[k + 1]])
        BY <2>1 DEF SigOf
  <2>3. k \in Nat /\ 1 <= k
        OBVIOUS
  <2>4. k <= Len(v) /\ k \in 1..(Len(due) - 1)
        BY <1>4, <2>2, <2>3
  <2>5. v[k] = due[k + 1] /\ d[k] = c[k + 1]
        BY <1>3, <1>4, <2>4
  <2>6. QED
        BY <2>2, <2>4, <2>5
<1>6. SigOf(d, v, l)
      BY <1>5 DEF SigOf
<1>7. 1 \in 1..Len(c)
      BY TailOf
<1>8. c[1].tag = "SIG" => c[1].sig = Held(l[due[1]])
      BY <1>7 DEF SigOf
<1>9. QED
      BY <1>1, <1>2, <1>6, <1>8

LEMMA CollectSigGoesOn == JInv /\ IInv' /\ CollectSig => JInv'
<1> SUFFICES ASSUME JInv, IInv', CollectSig PROVE JInv'
    OBVIOUS
<1>1. /\ cpc = "sigs" /\ want # <<>> /\ toClient # <<>> /\ toClient' = Tail(toClient)
      BY DEF CollectSig
<1>2. /\ toClient \in Seq(ClientFrame) /\ want \in Seq(Paths) /\ check \in Seq(Paths)
      /\ list \in Listing /\ toAgent \in Seq(AgentFrame) /\ sigs \in [Paths -> Seq(Blocks)]
      BY DEF JInv, IInv, Types
<1>3. PICK p \in Paths : p = want[1] /\ p = Head(want) /\ 1 \in 1..Len(want)
      BY <1>1, <1>2, FirstOf
<1>4. PICK sig : sig = Head(toClient).sig
      OBVIOUS
<1>5. toClient[1].tag = "SIG" /\ sig = toClient[1].sig
  <2>1. Head(toClient) = toClient[1]
        BY <1>1, <1>2, TailOf
  <2>2. QED
        BY <1>4, <2>1 DEF CollectSig
<1>6. /\ want \o check \in Seq(Paths) /\ want \o check # <<>> /\ (want \o check)[1] = p
      /\ Tail(want \o check) = Tail(want) \o check
      BY <1>1, <1>2, <1>3, DueOf
<1>7. p \in NeedSig(list)
      BY <1>1, <1>3 DEF JInv, Drawn
<1>8. list[p].kind = "file" /\ Held(list[p]) = list[p].data
      BY <1>7 DEF NeedSig, Held
<1>9. ASSUME Calm PROVE sig = list[p].data /\ SigOf(Tail(toClient), Tail(want) \o check, list)
  <2>1. SigOf(toClient, want \o check, list)
        BY <1>1, <1>9 DEF JInv, Signed
  <2>2. /\ toClient[1].tag = "SIG" => toClient[1].sig = Held(list[(want \o check)[1]])
        /\ SigOf(Tail(toClient), Tail(want \o check), list)
        BY <1>1, <1>2, <1>6, <2>1, NextSig
  <2>3. QED
        BY <1>5, <1>6, <1>8, <2>2
<1>10. CASE ~ SigFits(p, sig)
  <2>1. GiveUp
        BY <1>3, <1>4, <1>10 DEF CollectSig
  <2>2. ~ Calm
    <3>1. list[p].data \in Seq(Blocks)
          BY <1>2, <1>8, EntryKinds DEF Listing, Walkable
    <3>2. Len(list[p].data) <= Len(list[p].data)
          BY <3>1, LenProperties
    <3>3. QED
          BY <1>9, <1>10, <3>2 DEF SigFits
  <2>3. quiet => Early
        BY <2>2 DEF Calm, Early, KindClash
  <2>4. apc \notin {"off", "start"}
        BY <1>1 DEF JInv, IInv, Stages
  <2>5. QED
        BY <1>1, <2>1, <2>3, <2>4, GiveUpGoesOn DEF Active
<1>11. CASE SigFits(p, sig)
  <2>1. /\ sigs' = [sigs EXCEPT ![p] = sig] /\ want' = Tail(want)
        /\ UNCHANGED <<local, remote, rooted, now, lag, cpc, walk, list, check, sends, reading, apc,
                       toAgent, versions, quiet, still, settled>>
        BY <1>3, <1>4, <1>11 DEF CollectSig, world, history
  <2>2. Less(want', want) /\ Less(check', check) /\ Less(sends', sends) /\ Less(toClient', toClient)
    <3>1. Less(want', want) /\ Less(toClient', toClient)
          BY <1>1, <1>2, <2>1, TailIsLess
    <3>2. QED
          BY <2>1, <3>1 DEF Less
  <2>3. ClientOnly
        BY <1>1, <2>1, <2>2 DEF ClientOnly, Less
  <2>4. /\ Shapes' /\ Times' /\ FreshList' /\ Drawn' /\ Between' /\ Untouched' /\ InSteps' /\ Failures'
        /\ Quieter
        BY <2>3, ClientGoesOn
  <2>5. Copies'
        BY <2>1, CopiesKept DEF JInv, Unedited
  <2>6. Ends'
        BY <1>1, <2>1, <2>2 DEF JInv, Ends, Lines, Less
  <2>7. Signed'
    <3>1. ASSUME Calm PROVE SigOf(toClient', want' \o check', list)
          BY <1>1, <1>9, <2>1, <3>1
    <3>2. ASSUME Calm, NEW q \in Paths, sigs'[q] # <<>>
          PROVE  list[q].kind = "file" /\ sigs'[q] = list[q].data
      <4>1. sigs'[q] = IF q = p THEN sig ELSE sigs[q]
            BY <1>2, <2>1
      <4>2. QED
            BY <1>1, <1>8, <1>9, <3>2, <4>1 DEF JInv, Signed
    <3>3. Calm' <=> Calm
          BY <2>1 DEF Calm
    <3>4. QED
          BY <2>1, <3>1, <3>2, <3>3 DEF Signed
  <2>8. FramesFit'
        BY <1>2, <2>1, <2>4, AllWithin, FramesKept DEF JInv
  <2>9. Pending'
    <3>1. \A q \in Paths : Doing(q)' <=> Doing(q)
          BY <2>1 DEF Doing, Named, Among
    <3>2. QED
          BY <2>1, <2>4, <3>1, PendingKept DEF JInv
  <2>10. QED
         BY <2>4, <2>5, <2>6, <2>7, <2>8, <2>9 DEF JInv
<1>12. QED
       BY <1>10, <1>11

\* What is read of an unedited file is what was walked.
LEMMA ReadAsWalked ==
  ASSUME JInv, reading # Shut, cpc # "idle", NEW data \in DataRead, Unedited
  PROVE  data = walk[reading.path].data
<1>1. PICK p \in Paths : p = reading.path
      BY DEF JInv, IInv, Types
<1>2. walk = Walk(local) /\ WellFormed(local) /\ walk[p].kind = "file" /\ reading.data = walk[p].data
      BY <1>1 DEF JInv, IInv, Types, Copies
<1>3. Walk(local)[p].kind = "file"
      BY <1>2
<1>4. ~ IsExcluded(p)
      BY <1>2, <1>3, SeenAt, MakesEntries
<1>5. local[p].kind = "file"
      BY <1>2, <1>3, <1>4, SeenKind
<1>6. walk[p].data = local[p].data
      BY <1>2, <1>4, <1>5, SeenAt
<1>7. data = reading.data \/ data = local[p].data
      BY <1>1 DEF DataRead
<1>8. QED
      BY <1>1, <1>2, <1>6, <1>7

\* The head goes from one list to another, or is done with.
LEMMA HeadOrTail ==
  ASSUME NEW S, NEW s \in Seq(S), s # <<>>, NEW p, Among(s, p)
  PROVE  p = s[1] \/ Among(Tail(s), p)
<1>1. PICK k \in 1..Len(s) : s[k] = p
      BY DEF Among
<1>2. /\ Len(Tail(s)) = Len(s) - 1 /\ Len(s) \in Nat
      /\ \A j \in 1..(Len(s) - 1) : Tail(s)[j] = s[j + 1]
      BY TailOf
<1>3. CASE k # 1
  <2>1. k - 1 \in 1..(Len(s) - 1) /\ (k - 1) + 1 = k
        BY <1>2, <1>3
  <2>2. k - 1 \in 1..Len(Tail(s)) /\ Tail(s)[k - 1] = p
        BY <1>1, <1>2, <2>1
  <2>3. QED
        BY <2>2 DEF Among
<1>4. QED
      BY <1>1, <1>3

LEMMA AmongMore ==
  ASSUME NEW S, NEW s \in Seq(S), NEW e \in S
  PROVE  /\ Among(Append(s, e), e) /\ \A p : Among(s, p) => Among(Append(s, e), p)
         /\ \A k \in 1..Len(Append(s, e)) : Append(s, e)[k] = e \/ \E j \in 1..Len(s) : Append(s, e)[k] = s[j]
<1>1. PICK t : t = Append(s, e)
      OBVIOUS
<1>2. PICK n \in Nat : n = Len(s)
      BY LenProperties
<1>3. Len(t) = n + 1 /\ t[n + 1] = e /\ \A k \in 1..n : t[k] = s[k]
      BY <1>1, <1>2, OneMore
<1>4. n + 1 \in 1..Len(t) /\ \A k \in 1..n : k \in 1..Len(t)
      BY <1>3
<1>5. Among(t, e) /\ \A p : Among(s, p) => Among(t, p)
      BY <1>2, <1>3, <1>4 DEF Among
<1>6. \A k \in 1..Len(t) : k = n + 1 \/ k \in 1..n
      BY <1>3
<1>7. QED
      BY <1>1, <1>2, <1>3, <1>5, <1>6

\* What looks unchanged has the time and the length it had.
LEMMA LooksUnchanged ==
  ASSUME JInv, NEW p \in ToVerify(list)
  PROVE  /\ walk[p].kind = "file" /\ list[p].kind = "file" /\ walk[p].mtime = list[p].mtime
         /\ SameEntry(walk[p], list[p]) /\ Len(walk[p].data) = Len(list[p].data)
         /\ Len(walk[p].data) <= VerifyMax /\ p \in Paths
<1>1. walk[p].kind = "file" /\ SameEntry(walk[p], list[p]) /\ p \in Paths
      /\ Len(walk[p].data) \in 1..VerifyMax
      BY DEF ToVerify, Differing, OnBoth
<1>2. QED
      BY <1>1 DEF SameEntry

LEMMA VerifyGoesOn == JInv /\ IInv' /\ Verify => JInv'
<1> SUFFICES ASSUME JInv, IInv', Verify PROVE JInv'
    OBVIOUS
<1>1. /\ cpc = "sigs" /\ want = <<>> /\ check # <<>> /\ reading # Shut
      /\ toClient' = Tail(toClient)
      BY DEF Verify
<1>2. /\ toClient \in Seq(ClientFrame) /\ check \in Seq(Paths) /\ sends \in Seq(Paths)
      /\ list \in Listing /\ walk \in Listing /\ toAgent \in Seq(AgentFrame)
      /\ WellFormed(remote)
      BY DEF JInv, IInv, Types
<1>3. PICK p \in Paths : p = check[1] /\ p = Head(check) /\ 1 \in 1..Len(check)
      BY <1>1, <1>2, FirstOf
<1>4. toClient # <<>> /\ toClient[1].tag = "SIG" /\ reading.path = p
      BY <1>1, <1>3 DEF JInv, IInv, Opened
<1>5. PICK sig : sig = Head(toClient).sig
      OBVIOUS
<1>6. sig = toClient[1].sig
      BY <1>2, <1>4, <1>5, TailOf
<1>7. PICK data \in DataRead :
        IF Len(sig) > Len(walk[p].data)
        THEN GiveUp
        ELSE /\ sends' = IF sig = Signature(data) THEN sends ELSE Append(sends, p)
             /\ check' = Tail(check)
             /\ reading' = Shut
             /\ UNCHANGED <<world, cpc, walk, list, want, sigs, apc,
                            toAgent, stray, used, history>>
      BY <1>3, <1>5 DEF Verify
<1>8. p \in ToVerify(list)
      BY <1>1, <1>3 DEF JInv, Drawn
<1>9. /\ walk[p].kind = "file" /\ list[p].kind = "file" /\ walk[p].mtime = list[p].mtime
      /\ SameEntry(walk[p], list[p]) /\ Len(walk[p].data) = Len(list[p].data)
      /\ Len(walk[p].data) <= VerifyMax
      BY <1>8, LooksUnchanged
<1>10. ASSUME Calm PROVE sig = list[p].data /\ SigOf(Tail(toClient), Tail(check), list)
  <2>1. SigOf(toClient, check, list)
    <3>1. SigOf(toClient, want \o check, list)
          BY <1>1, <1>10 DEF JInv, Signed
    <3>2. want \o check = check
          BY <1>1, <1>2, EmptyFrames, DueOf
    <3>3. QED
          BY <3>1, <3>2
  <2>2. /\ toClient[1].tag = "SIG" => toClient[1].sig = Held(list[check[1]])
        /\ SigOf(Tail(toClient), Tail(check), list)
        BY <1>1, <1>2, <1>4, <2>1, NextSig
  <2>3. QED
        BY <1>3, <1>4, <1>6, <1>9, <2>2 DEF Held
<1>11. CASE GiveUp
  <2>1. CASE Len(sig) > Len(walk[p].data)
    <3>1. list[p].data \in Seq(Blocks) /\ Len(list[p].data) \in Nat
          BY <1>2, <1>9, EntryKinds, LenProperties DEF Listing, Walkable
    <3>2. ~ Calm
          BY <1>9, <1>10, <2>1, <3>1
    <3>3. quiet => Early
          BY <3>2 DEF Calm, Early, KindClash
    <3>4. apc \notin {"off", "start"}
          BY <1>1 DEF JInv, IInv, Stages
    <3>5. QED
          BY <1>1, <1>4, <1>11, <3>3, <3>4, GiveUpGoesOn DEF Active
  <2>2. CASE ~ (Len(sig) > Len(walk[p].data))
        BY <1>1, <1>7, <1>11, <2>2 DEF GiveUp
  <2>3. QED
        BY <2>1, <2>2
<1>12. CASE ~ (Len(sig) > Len(walk[p].data))
  <2>1. /\ sends' = IF sig = data THEN sends ELSE Append(sends, p)
        /\ check' = Tail(check) /\ reading' = Shut
        /\ UNCHANGED <<local, remote, rooted, now, lag, cpc, walk, list, want, sigs, apc,
                       toAgent, versions, quiet, still, settled>>
        BY <1>7, <1>12 DEF world, history, Signature
  <2>2. Unedited => data = walk[p].data
        BY <1>1, <1>4, ReadAsWalked
  <2>3. settled => sends' = sends
    <3>1. ASSUME settled PROVE sig = data
      <4>1. quiet /\ Working /\ Unedited
            BY <1>1, <3>1 DEF JInv, InSteps, Working, Unedited
      <4>2. \A q \in Paths : InStep(walk[q], list[q])
            BY <3>1, <4>1 DEF JInv, InSteps
      <4>3. Calm
            BY <4>1, <4>2, InStepNoClash DEF Calm
      <4>4. list[p].data = walk[p].data
        <5>1. InStep(walk[p], list[p])
              BY <4>2
        <5>2. ~ list[p].mtime < walk[p].mtime
          <6>1. walk[p].mtime \in Int
                BY <1>2, <1>9, EntryKinds DEF Listing, Walkable
          <6>2. QED
                BY <1>9, <6>1
        <5>3. walk[p] # Absent
              BY <1>9, MakesEntries
        <5>4. QED
              BY <1>9, <5>1, <5>2, <5>3 DEF InStep
      <4>5. QED
            BY <1>10, <2>2, <4>1, <4>3, <4>4
    <3>2. QED
          BY <2>1, <3>1
  <2>4. \A k \in 1..Len(sends') : \/ \E j \in 1..Len(sends) : sends'[k] = sends[j]
                                  \/ \E j \in 1..Len(check) : sends'[k] = check[j]
    <3>1. \A k \in 1..Len(Append(sends, p)) :
            Append(sends, p)[k] = p \/ \E j \in 1..Len(sends) : Append(sends, p)[k] = sends[j]
          BY <1>2, AmongMore
    <3>2. QED
          BY <1>3, <2>1, <3>1
  <2>5. Less(toClient', toClient) /\ Less(want', want) /\ Less(check', check)
    <3>1. Less(toClient', toClient) /\ Less(check', check)
          BY <1>1, <1>2, <1>4, <2>1, TailIsLess
    <3>2. QED
          BY <2>1, <3>1 DEF Less
  <2>6. settled => Less(sends', sends)
        BY <2>3 DEF Less
  <2>7. ClientOnly
        BY <1>1, <2>1, <2>4, <2>5, <2>6 DEF ClientOnly
  <2>8. /\ Shapes' /\ Times' /\ FreshList' /\ Drawn' /\ Between' /\ Untouched' /\ InSteps' /\ Failures'
        /\ Quieter
        BY <2>7, ClientGoesOn
  <2>9. Copies'
        BY <2>1, CopiesKept DEF JInv, Unedited
  <2>10. Ends'
         BY <1>1, <2>1, <2>5 DEF JInv, Ends, Lines, Less
  <2>11. Signed'
    <3>1. Calm' <=> Calm
          BY <2>1 DEF Calm
    <3>2. want' \o check' = Tail(check)
      <4>1. Tail(check) \in Seq(Paths)
            BY <1>1, <1>2, TailOf
      <4>2. QED
            BY <1>1, <2>1, <4>1, EmptyFrames, DueOf
    <3>3. ASSUME Calm PROVE SigOf(toClient', want' \o check', list)
          BY <1>1, <1>10, <3>2, <3>3
    <3>4. ASSUME Calm, NEW q \in Paths, sigs[q] # <<>>
          PROVE  list[q].kind = "file" /\ sigs[q] = list[q].data
          BY <1>1, <3>4 DEF JInv, Signed
    <3>5. QED
          BY <2>1, <3>1, <3>3, <3>4 DEF Signed
  <2>12. FramesFit'
         BY <1>2, <2>1, <2>8, AllWithin, FramesKept DEF JInv
  <2>13. Pending'
    <3>1. ASSUME NEW q \in Paths, Watched, Doing(q)
          PROVE  Doing(q)' \/ Fits(walk[q], Walk(remote)[q], versions[q], lag, Unedited)
      <4>1. Among(sends, q) => Among(sends', q)
            BY <1>2, <2>1, AmongMore
      <4>2. CASE Among(check, q) /\ walk[q].kind = "file"
        <5>1. CASE Among(check', q)
              BY <2>1, <4>2, <5>1 DEF Doing
        <5>2. CASE q = p /\ sig # data
          <6>1. Among(sends', q)
                BY <1>2, <2>1, <5>2, AmongMore
          <6>2. QED
                BY <2>1, <4>2, <6>1 DEF Doing
        <5>3. CASE q = p /\ sig = data
          <6>1. Walk(remote)[p] = list[p]
                BY <1>1, <1>3, <3>1 DEF JInv, Untouched, Active
          <6>2. list[p].data = data
                BY <1>10, <3>1, <5>3 DEF Watched
          <6>3. File(data, 0) \in versions[p]
                BY <1>1, <1>4, DataIsVersion DEF JInv
          <6>4. walk[p].mtime \in Int
                BY <1>2, <1>9, EntryKinds DEF Listing, Walkable
          <6>5. Fits(walk[p], list[p], versions[p], lag, Unedited)
                BY <1>9, <2>2, <6>2, <6>3, <6>4 DEF Fits, Bare
          <6>6. QED
                BY <5>3, <6>1, <6>5
        <5>4. QED
              BY <1>1, <1>2, <1>3, <2>1, <4>2, <5>1, <5>2, <5>3, HeadOrTail
      <4>3. QED
            BY <2>1, <3>1, <4>1, <4>2 DEF Doing, Named
    <3>2. QED
          BY <2>1, <2>8, <3>1, PendingKept DEF JInv
  <2>14. QED
         BY <2>8, <2>9, <2>10, <2>11, <2>12, <2>13 DEF JInv
<1>13. QED
       BY <1>7, <1>11, <1>12

-----------------------------------------------------------------------------
(***************************************************************************)
(* The second invariant: the client sends.                                 *)
(***************************************************************************)

\* With no clash, no directory is sent: those that are missing are made.
LEMMA SendsNoDir ==
  ASSUME JInv, Calm, NEW p \in ToSend(list) \cup ToVerify(list)
  PROVE  walk[p].kind \in {"link", "file"} /\ p \in Paths
<1>1. CASE p \in ToVerify(list)
      BY <1>1, LooksUnchanged
<1>2. CASE p \in ToSend(list)
  <2>1. p \in Paths /\ walk[p] # Absent
        BY <1>2 DEF ToSend, Missing, Differing, OnBoth
  <2>2. walk[p] \in Entry /\ list[p] \in Entry
        BY <2>1 DEF JInv, IInv, Types, Listing, Walkable
  <2>3. walk[p] # Dir
    <3>1. ASSUME walk[p] = Dir PROVE FALSE
      <4>1. list[p] \in {Absent, Dir}
            BY <2>1, <2>2, <3>1, NoClash DEF Calm
      <4>2. SameEntry(Dir, Dir)
            BY SameAsSelf
      <4>3. QED
            BY <1>2, <2>1, <3>1, <4>1, <4>2, MakesEntries
                DEF ToSend, Missing, MkDirs, Differing, OnBoth
    <3>2. QED
          BY <3>1
  <2>4. QED
        BY <2>1, <2>2, <2>3, EntryKinds
<1>3. QED
      BY <1>1, <1>2

LEMMA NamedMore ==
  ASSUME NEW f \in Seq(AgentFrame), NEW n \in AgentFrame, NEW g, g = Append(f, n), Len(n.paths) = 1
  PROVE  /\ \A tag, q : Named(tag, f, q) => Named(tag, g, q)
         /\ Named(n.tag, g, n.paths[1])
<1>1. PICK m \in Nat : m = Len(f)
      BY LenProperties
<1>2. Len(g) = m + 1 /\ g[m + 1] = n /\ \A k \in 1..m : g[k] = f[k]
      BY <1>1, OneMore
<1>3. m + 1 \in 1..Len(g) /\ \A k \in 1..m : k \in 1..Len(g)
      BY <1>2
<1>4. \A tag, q : Named(tag, f, q) => Named(tag, g, q)
      BY <1>1, <1>2, <1>3 DEF Named
<1>5. Named(n.tag, g, n.paths[1])
  <2>1. 1 \in 1..Len(n.paths)
        OBVIOUS
  <2>2. QED
        BY <1>2, <1>3, <2>1 DEF Named
<1>6. QED
      BY <1>4, <1>5

LEMMA PutGoesOn ==
  ASSUME JInv, IInv', Sending, NEW p \in Paths, p = Head(sends),
         NEW entry \in Walkable, NEW delta \in Seq(Op), Put(p, entry, delta),
         entry # Absent, delta # <<>> => entry.kind = "file", walk[p].kind = entry.kind,
         Watched =>
           /\ walk[p].kind = "link" => entry = walk[p]
           /\ walk[p].kind = "file" =>
                /\ entry.mtime = walk[p].mtime
                /\ delta # <<>> => remote[p].kind = "file" /\ CanPatch(remote[p].data, delta)
                /\ \E d : /\ d = IF delta = <<>> THEN entry.data ELSE Patch(remote[p].data, delta)
                          /\ File(d, 0) \in versions[p]
                          /\ Unedited => d = walk[p].data
  PROVE  JInv'
<1>1. /\ cpc \in {"sigs", "send"} /\ want = <<>> /\ check = <<>> /\ sends # <<>>
      /\ cpc' = "send" /\ reading' = Shut /\ sends' = Tail(sends)
      /\ UNCHANGED <<local, remote, rooted, now, lag, walk, list, want, check, sigs, apc, toClient,
                     versions, quiet, still, settled>>
      BY DEF Sending, Put, world, history
<1>2. PICK f \in Seq(AgentFrame) : f = toAgent
      BY DEF JInv, IInv, Types
<1>3. PICK len \in Nat : len = IF walk[p].kind = "file" THEN Len(walk[p].data) ELSE 0
  <2>1. walk[p] \in Entry
        BY DEF JInv, IInv, Types, Listing, Walkable
  <2>2. walk[p].kind = "file" => Len(walk[p].data) \in Nat
        BY <2>1, EntryKinds, LenProperties
  <2>3. QED
        BY <2>2
<1>4. PICK n : n = PutFrame(p, entry, delta, len)
      OBVIOUS
<1>5. /\ n.tag = "PUT" /\ n.paths = <<p>> /\ n.entry = entry /\ n.delta = delta /\ n.len = len
      /\ n.paths[1] = p /\ Len(n.paths) = 1
      BY <1>4 DEF PutFrame
<1>6. n \in AgentFrame
  <2>1. n \in PutFrames
        BY <1>4 DEF PutFrames, PutFrame
  <2>2. QED
        BY <1>5, <2>1 DEF AgentFrame
<1>7. PICK g : g = Append(f, n)
      OBVIOUS
<1>8. toAgent' = g
      BY <1>2, <1>3, <1>4, <1>7 DEF Put
<1>9. PICK m \in Nat : m = Len(f)
      BY LenProperties
<1>10. g \in Seq(AgentFrame) /\ Len(g) = m + 1 /\ g[m + 1] = n /\ \A k \in 1..m : g[k] = f[k]
       BY <1>6, <1>7, <1>9, OneMore
<1>11. \A k \in 1..Len(g) : k \in 1..m \/ k = m + 1
       BY <1>9, <1>10
<1>12. /\ sends \in Seq(Paths) /\ toClient \in Seq(ClientFrame)
       /\ p = sends[1] /\ 1 \in 1..Len(sends)
       BY <1>1, FirstOf DEF JInv, IInv, Types
<1>13. Less(toClient', toClient) /\ Less(want', want) /\ Less(check', check) /\ Less(sends', sends)
  <2>1. Less(sends', sends)
        BY <1>1, <1>12, TailIsLess
  <2>2. QED
        BY <1>1, <2>1 DEF Less
<1>14. ClientOnly
       BY <1>1, <1>13 DEF ClientOnly, Less
<1>15. /\ Shapes' /\ Times' /\ FreshList' /\ Drawn' /\ Between' /\ Untouched' /\ InSteps' /\ Failures'
       /\ Quieter /\ (Watched' => Watched)
       BY <1>14, ClientGoesOn
<1>16. Copies'
       BY <1>1, CopiesKept DEF JInv, Unedited
<1>17. Ends'
  <2>1. apc # "idle"
        BY <1>1 DEF JInv, IInv, Stages
  <2>2. \A k \in 1..m : f[k].tag \notin {"DELETE", "PLAN_DONE"}
        BY <1>1, <1>2, <1>9 DEF JInv, IInv, Stages
  <2>3. \A k \in 1..Len(g) : g[k].tag \notin {"DELETE", "PLAN_DONE"}
        BY <1>5, <1>10, <1>11, <2>2
  <2>4. apc = "serve" => \A k \in 1..m : f[k].tag = "MKDIR" => k = 1
        BY <1>2, <1>9 DEF JInv, Ends, Lines
  <2>5. apc = "serve" => \A k \in 1..Len(g) : g[k].tag = "MKDIR" => k = 1
        BY <1>5, <1>10, <1>11, <2>4
  <2>6. apc = "serve" => Lines(g)
        BY <2>3, <2>5 DEF Lines
  <2>7. \A k \in 1..Len(toClient') : toClient'[k].tag = "DONE" => apc = "idle"
        BY <1>1 DEF JInv, Ends
  <2>8. QED
        BY <1>1, <1>8, <2>1, <2>6, <2>7 DEF Ends
<1>18. Signed'
  <2>1. Calm' <=> Calm
        BY <1>1 DEF Calm
  <2>2. QED
        BY <1>1, <2>1 DEF JInv, Signed
<1>19. FramesFit'
  <2>1. ASSUME Watched PROVE Faithful(n, walk, list, remote, versions, Unedited)
    <3>1. p \in ToSend(list) \cup ToVerify(list)
          BY <1>1, <1>12 DEF JInv, Drawn
    <3>2. walk[p].kind \in {"link", "file"}
          BY <2>1, <3>1, SendsNoDir DEF Watched
    <3>3. Made(n, remote) = IF delta = <<>> THEN entry.data ELSE Patch(remote[p].data, delta)
          BY <1>5 DEF Made
    <3>4. FaithfulPut(n, p, walk, remote, versions, Unedited)
          BY <1>3, <1>5, <2>1, <3>2, <3>3 DEF FaithfulPut
    <3>5. Due(walk, list, p)
          BY <3>1 DEF Due, ToSend, ToVerify, Missing, Differing
    <3>6. QED
          BY <1>5, <3>4, <3>5 DEF Faithful
  <2>2. ASSUME Watched, NEW k \in 1..Len(g)
        PROVE  Faithful(g[k], walk, list, remote, versions, Unedited)
    <3>1. CASE k = m + 1
          BY <1>10, <2>1, <2>2, <3>1
    <3>2. CASE k \in 1..m
          BY <1>2, <1>9, <1>10, <2>2, <3>2 DEF JInv, FramesFit
    <3>3. QED
          BY <1>11, <3>1, <3>2
  <2>3. Unedited' <=> Unedited
        BY <1>1 DEF Unedited
  <2>4. QED
        BY <1>1, <1>8, <1>15, <2>2, <2>3 DEF FramesFit
<1>20. Pending'
  <2>1. /\ \A tag, q : Named(tag, f, q) => Named(tag, g, q)
        /\ Named("PUT", g, p)
        BY <1>5, <1>6, <1>7, NamedMore
  <2>2. ASSUME NEW q \in Paths, Doing(q) PROVE Doing(q)'
    <3>1. Among(sends, q) => q = p \/ Among(sends', q)
          BY <1>1, <1>12, HeadOrTail
    <3>2. QED
          BY <1>1, <1>2, <1>8, <2>1, <2>2, <3>1 DEF Doing
  <2>3. QED
        BY <1>1, <1>15, <2>2, PendingKept DEF JInv
<1>21. QED
       BY <1>15, <1>16, <1>17, <1>18, <1>19, <1>20 DEF JInv

LEMMA SendGoesOn == JInv /\ IInv' /\ Send => JInv'
<1> SUFFICES ASSUME JInv, IInv', Send PROVE JInv'
    OBVIOUS
<1>1. Sending /\ cpc \in {"sigs", "send"} /\ want = <<>> /\ check = <<>> /\ sends # <<>>
      BY DEF Send, Sending
<1>2. PICK p : p = Head(sends)
      OBVIOUS
<1>3. p = sends[1] /\ p \in Paths /\ 1 \in 1..Len(sends)
      BY <1>1, <1>2, FirstOf DEF JInv, IInv, Types
<1>4. /\ walk[p] # Absent /\ (sigs[p] # <<>> => walk[p].kind = "file")
      /\ walk[p] \in Walkable /\ walk[p] \in Entry /\ list[p] \in Entry /\ WellFormed(remote)
      BY <1>3 DEF JInv, IInv, Planned, Types, Listing, Walkable
<1>5. CASE walk[p].kind # "file" /\ Put(p, walk[p], <<>>)
  <2>1. <<>> \in Seq(Op)
        BY EmptySeq
  <2>2. QED
        BY <1>1, <1>2, <1>3, <1>4, <1>5, <2>1, PutGoesOn
<1>6. ASSUME reading # Shut, NEW data \in DataRead,
             Put(p, File(data, walk[p].mtime),
                 IF IsShorter(Delta(data, sigs[p])) THEN Delta(data, sigs[p]) ELSE <<>>)
      PROVE  JInv'
  <2>1. /\ data \in Seq(Blocks) /\ File(data, 0) \in versions[reading.path]
        BY <1>6, DataIsVersion DEF JInv
  <2>2. reading.path = p /\ walk[p].kind = "file"
        BY <1>1, <1>3, <1>6 DEF JInv, IInv, Opened
  <2>3. PICK e : e = File(data, walk[p].mtime)
        OBVIOUS
  <2>4. walk[p].mtime \in Int
        BY <1>4, <2>2, EntryKinds
  <2>5. e \in Walkable /\ e.kind = "file" /\ e.data = data /\ e.mtime = walk[p].mtime
        BY <2>1, <2>3, <2>4, MakesEntries
  <2>6. e # Absent
        BY <2>5, MakesEntries
  <2>7. PICK base \in Seq(Blocks) : base = sigs[p]
        BY <1>3 DEF JInv, IInv, Types
  <2>8. PICK d : d = IF IsShorter(Delta(data, base)) THEN Delta(data, base) ELSE <<>>
        OBVIOUS
  <2>9. d \in Seq(Op) /\ (d # <<>> => d = Delta(data, base) /\ base # <<>>)
    <3>1. CASE IsShorter(Delta(data, base))
      <4>1. d = Delta(data, base)
            BY <2>8, <3>1
      <4>2. QED
            BY <2>1, <3>1, <4>1, ShorterUses, DeltaRoundTrip
    <3>2. CASE ~ IsShorter(Delta(data, base))
      <4>1. d = <<>>
            BY <2>8, <3>2
      <4>2. QED
            BY <4>1, EmptySeq
    <3>3. QED
          BY <3>1, <3>2
  <2>10. Put(p, e, d)
         BY <1>6, <2>3, <2>7, <2>8
  <2>11. Unedited => data = walk[p].data
         BY <1>1, <1>6, <2>2, ReadAsWalked
  <2>12. ASSUME Watched, d # <<>>
         PROVE  remote[p].kind = "file" /\ CanPatch(remote[p].data, d) /\ Patch(remote[p].data, d) = data
    <3>1. list[p].kind = "file" /\ base = list[p].data
          BY <1>1, <1>3, <2>7, <2>9, <2>12 DEF JInv, Signed, Watched
    <3>2. Walk(remote)[p] = list[p]
          BY <1>1, <1>3, <2>12 DEF JInv, Untouched, Active
    <3>3. ~ IsExcluded(p)
          BY <1>4, <3>1, <3>2, SeenAt, MakesEntries, <1>3
    <3>4. remote[p].kind = "file"
          BY <1>3, <1>4, <3>1, <3>2, <3>3, SeenKind
    <3>5. remote[p].data = base
          BY <1>3, <1>4, <3>1, <3>2, <3>3, <3>4, SeenAt
    <3>6. QED
          BY <2>1, <2>9, <2>12, <3>4, <3>5, DeltaRoundTrip
  <2>13. ASSUME Watched
         PROVE  \E c : /\ c = IF d = <<>> THEN e.data ELSE Patch(remote[p].data, d)
                       /\ File(c, 0) \in versions[p]
                       /\ Unedited => c = walk[p].data
    <3>1. data = IF d = <<>> THEN e.data ELSE Patch(remote[p].data, d)
          BY <2>5, <2>12, <2>13
    <3>2. QED
          BY <2>1, <2>2, <2>11, <3>1
  <2>14. walk[p].kind # "link"
         BY <2>2
  <2>15. QED
         BY <1>1, <1>2, <1>3, <2>2, <2>5, <2>6, <2>9, <2>10, <2>12, <2>13, <2>14, PutGoesOn
<1>7. QED
      BY <1>2, <1>5, <1>6 DEF Send

\* Deepest first, whatever the order of those of one depth.
LEMMA DeletesDeepest == ASSUME NEW r, NEW s \in Deletes(r) PROVE DeepestFirst(s)
<1> DEFINE rank(p) == SelectInSeq(PathOrder, LAMBDA q : q = p)
           before(p, q) == Len(p) > Len(q) \/ (Len(p) = Len(q) /\ rank(p) > rank(q))
<1>1. \A i, j \in 1..Len(s) : i < j => before(s[i], s[j])
      BY DEF Deletes
<1>2. \A i, j \in 1..Len(s) : i < j => Len(s[i]) > Len(s[j]) \/ Len(s[i]) = Len(s[j])
      BY <1>1
<1>3. \A i \in 1..Len(s) : Len(s[i]) \in Nat
      BY DeletesOf, ElementOfSeq, PathParts
<1>4. QED
      BY <1>2, <1>3 DEF DeepestFirst

LEMMA FinishGoesOn == JInv /\ IInv' /\ Finish => JInv'
<1> SUFFICES ASSUME JInv, IInv', Finish PROVE JInv'
    OBVIOUS
<1>1. /\ cpc \in {"sigs", "send"} /\ want = <<>> /\ check = <<>> /\ sends = <<>> /\ cpc' = "await"
      /\ UNCHANGED <<local, remote, rooted, now, lag, walk, list, want, check, sigs, sends, reading, apc,
                     toClient, versions, quiet, still, settled>>
      BY DEF Finish, world, history
<1>2. PICK del \in Deletes(list) :
        toAgent' = toAgent \o PathFrame("DELETE", del) \o <<[tag |-> "PLAN_DONE", paths |-> <<>>]>>
      BY DEF Finish
<1>3. /\ del \in Seq(Paths) /\ \A k \in 1..Len(del) : del[k] \in ToDelete(list)
      /\ \A p \in ToDelete(list) : \E k \in 1..Len(del) : del[k] = p
      /\ DeepestFirst(del)
      BY <1>2, DeletesOf, DeletesDeepest
<1>4. PICK f \in Seq(AgentFrame) : f = toAgent
      BY DEF JInv, IInv, Types
<1>5. PICK g : g = PathFrame("DELETE", del)
      OBVIOUS
<1>6. /\ g \in Seq(AgentFrame)
      /\ \A k \in 1..Len(g) : k = 1 /\ g[k].tag = "DELETE" /\ g[k].paths = del
      /\ del # <<>> => 1 \in 1..Len(g)
  <2>1. /\ g \in Seq(AgentFrame)
        /\ del = <<>> => g = <<>>
        /\ del # <<>> => Len(g) = 1 /\ g[1].tag = "DELETE" /\ g[1].paths = del
        BY <1>3, <1>5, PathFrameOf
  <2>2. QED
        BY <2>1, EmptyFrames
<1>7. PICK e : e = [tag |-> "PLAN_DONE", paths |-> <<>>]
      OBVIOUS
<1>8. e \in AgentFrame /\ e.tag = "PLAN_DONE" /\ e.paths = <<>>
      BY <1>7 DEF AgentFrame
<1>9. PICK w : w = f \o g
      OBVIOUS
<1>10. PICK z : z = w \o <<e>>
       OBVIOUS
<1>11. toAgent' = z
       BY <1>2, <1>4, <1>5, <1>7, <1>9, <1>10
<1>12. PICK m \in Nat : m = Len(f)
       BY LenProperties
<1>13. /\ w \in Seq(AgentFrame) /\ Len(w) = m + Len(g) /\ Len(g) \in Nat
       /\ \A k \in 1..m : w[k] = f[k]
       /\ \A k \in 1..Len(g) : w[m + k] = g[k]
       /\ \A k \in 1..Len(w) : \/ k \in 1..m /\ w[k] = f[k]
                               \/ \E j \in 1..Len(g) : k = m + j /\ w[k] = g[j]
       BY <1>6, <1>9, <1>12, MoreFrames
<1>14. <<e>> \in Seq(AgentFrame) /\ Len(<<e>>) = 1 /\ <<e>>[1] = e
       BY <1>8
<1>15. /\ z \in Seq(AgentFrame) /\ Len(z) = Len(w) + 1
       /\ \A k \in 1..Len(w) : z[k] = w[k]
       /\ \A k \in 1..Len(z) : \/ k \in 1..Len(w) /\ z[k] = w[k]
                               \/ k = Len(w) + 1 /\ z[k] = e
  <2>1. /\ z \in Seq(AgentFrame) /\ Len(z) = Len(w) + Len(<<e>>)
        /\ \A k \in 1..Len(w) : z[k] = w[k]
        /\ \A k \in 1..Len(z) : \/ k \in 1..Len(w) /\ z[k] = w[k]
                                \/ \E j \in 1..Len(<<e>>) : k = Len(w) + j /\ z[k] = <<e>>[j]
        BY <1>10, <1>13, <1>14, MoreFrames
  <2>2. \A j \in 1..Len(<<e>>) : j = 1
        BY <1>14
  <2>3. QED
        BY <1>14, <2>1, <2>2
<1>16. ASSUME NEW k \in 1..Len(z)
       PROVE  \/ k \in 1..m /\ z[k] = f[k]
              \/ k = m + 1 /\ z[k].tag = "DELETE" /\ z[k].paths = del
              \/ k = Len(z) /\ z[k] = e
  <2>1. CASE k \in 1..Len(w)
        BY <1>6, <1>13, <1>15, <2>1
  <2>2. CASE k \notin 1..Len(w)
        BY <1>15, <2>2
  <2>3. QED
        BY <2>1, <2>2
<1>17. \A k \in 1..m : f[k].tag \notin {"DELETE", "PLAN_DONE"}
       BY <1>1, <1>4, <1>12 DEF JInv, IInv, Stages
<1>18. ASSUME NEW p \in ToDelete(list) PROVE Named("DELETE", z, p)
  <2>1. PICK i \in 1..Len(del) : del[i] = p
        BY <1>3
  <2>2. del # <<>>
        BY <1>3, EmptyFrames
  <2>3. 1 \in 1..Len(g) /\ g[1].tag = "DELETE" /\ g[1].paths = del
        BY <1>6, <2>2
  <2>4. w[m + 1] = g[1] /\ m + 1 \in 1..Len(w)
        BY <1>13, <2>3
  <2>5. z[m + 1] = g[1] /\ m + 1 \in 1..Len(z)
    <3>1. z[m + 1] = w[m + 1]
          BY <1>15, <2>4
    <3>2. \A k \in 1..Len(w) : k \in 1..Len(z)
          BY <1>13, <1>15
    <3>3. QED
          BY <2>4, <3>1, <3>2
  <2>6. QED
        BY <2>1, <2>3, <2>5 DEF Named
<1>19. \A tag, p : Named(tag, f, p) => Named(tag, z, p)
  <2>1. \A k \in 1..m : k \in 1..Len(z) /\ z[k] = f[k]
    <3>1. \A k \in 1..m : k \in 1..Len(w)
          BY <1>13
    <3>2. \A k \in 1..Len(w) : k \in 1..Len(z)
          BY <1>13, <1>15
    <3>3. QED
          BY <1>13, <1>15, <3>1, <3>2
  <2>2. QED
        BY <1>12, <2>1 DEF Named
<1>20. Less(toClient', toClient) /\ Less(want', want) /\ Less(check', check) /\ Less(sends', sends)
       BY <1>1 DEF Less
<1>21. ClientOnly
       BY <1>1, <1>20 DEF ClientOnly, Less
<1>22. /\ Shapes' /\ Times' /\ FreshList' /\ Drawn' /\ Between' /\ Untouched' /\ InSteps' /\ Failures'
       /\ Quieter /\ (Watched' => Watched)
       BY <1>21, ClientGoesOn
<1>23. Copies'
       BY <1>1, CopiesKept DEF JInv, Unedited
<1>24. Ends'
  <2>1. apc # "idle"
        BY <1>1 DEF JInv, IInv, Stages
  <2>2. apc = "serve" => \A k \in 1..m : f[k].tag = "MKDIR" => k = 1
        BY <1>4, <1>12 DEF JInv, Ends, Lines
  <2>3. ASSUME apc = "serve", NEW k \in 1..Len(z)
        PROVE  /\ z[k].tag = "MKDIR" => k = 1
               /\ z[k].tag = "PLAN_DONE" => k = Len(z)
               /\ z[k].tag = "DELETE" => k = m + 1 /\ z[k].paths = del
        BY <1>8, <1>16, <1>17, <2>2, <2>3
  <2>4. apc = "serve" => Lines(z)
        BY <1>3, <2>3 DEF Lines
  <2>5. \A k \in 1..Len(toClient') : toClient'[k].tag = "DONE" => apc = "idle"
        BY <1>1 DEF JInv, Ends
  <2>6. QED
        BY <1>1, <1>11, <2>1, <2>4, <2>5 DEF Ends
<1>25. Signed'
       BY <1>1 DEF Signed
<1>26. FramesFit'
  <2>1. ASSUME Watched, NEW k \in 1..Len(z)
        PROVE  Faithful(z[k], walk, list, remote, versions, Unedited)
    <3>1. CASE k \in 1..m /\ z[k] = f[k]
          BY <1>4, <1>12, <2>1, <3>1 DEF JInv, FramesFit
    <3>2. CASE z[k].tag = "DELETE" /\ z[k].paths = del
          BY <1>3, <3>2 DEF Faithful, ToDelete
    <3>3. CASE z[k] = e
          BY <1>8, <3>3 DEF Faithful
    <3>4. QED
          BY <1>16, <3>1, <3>2, <3>3
  <2>2. Unedited' <=> Unedited
        BY <1>1 DEF Unedited
  <2>3. QED
        BY <1>1, <1>11, <1>22, <2>1, <2>2 DEF FramesFit
<1>27. Pending'
  <2>1. ASSUME NEW q \in Paths, Watched, Doing(q)
        PROVE  Doing(q)' \/ Fits(walk[q], Walk(remote)[q], versions[q], lag, Unedited)
    <3>1. CASE walk[q].kind = "none" /\ list[q] # Absent
      <4>1. walk[q] = Absent
            BY <3>1, EntryKinds DEF JInv, IInv, Types, Listing, Walkable
      <4>2. q \in ToDelete(list)
            BY <3>1, <4>1 DEF ToDelete
      <4>3. QED
            BY <1>1, <1>11, <1>18, <3>1, <4>2 DEF Doing
    <3>2. CASE walk[q].kind = "none" /\ list[q] = Absent
      <4>1. walk[q] = Absent
            BY <3>2, EntryKinds DEF JInv, IInv, Types, Listing, Walkable
      <4>2. \/ Walk(remote)[q] = list[q]
            \/ Fits(walk[q], Walk(remote)[q], versions[q], lag, Unedited)
            BY <2>1 DEF JInv, Between
      <4>3. Fits(Absent, Absent, versions[q], lag, Unedited)
            BY MakesEntries DEF Fits
      <4>4. QED
            BY <3>2, <4>1, <4>2, <4>3
    <3>3. CASE walk[q].kind # "none"
          BY <1>1, <1>4, <1>11, <1>19, <2>1, <3>3 DEF Doing
    <3>4. QED
          BY <3>1, <3>2, <3>3
  <2>2. QED
        BY <1>1, <1>22, <2>1, PendingKept DEF JInv
<1>28. QED
       BY <1>22, <1>23, <1>24, <1>25, <1>26, <1>27 DEF JInv

-----------------------------------------------------------------------------
(***************************************************************************)
(* The second invariant: the plan is made.                                 *)
(***************************************************************************)

LEMMA OrderedHas ==
  ASSUME NEW S, S \subseteq Paths, NEW s, s = Ordered(S)
  PROVE  s \in Seq(Paths) /\ (\A k \in 1..Len(s) : s[k] \in S) /\ \A p \in S : Among(s, p)
<1>1. s \in Seq(Paths) /\ (\A k \in 1..Len(s) : s[k] \in S)
      BY OrderedOf
<1>2. \A p \in S \cap Paths : \E k \in 1..Len(s) : s[k] = p
      BY OrderedOf
<1>3. QED
      BY <1>1, <1>2 DEF Among

\* What becomes of each listed path.
LEMMA Planning ==
  ASSUME IInv, Plan, NEW r, r = Head(toClient).tree
  PROVE  /\ toClient \in Seq(ClientFrame) /\ 1 \in 1..Len(toClient)
         /\ toClient[1].tag = "LIST" /\ r = toClient[1].tree /\ r \in Listing
         /\ toClient' = <<>> /\ list' = r /\ sigs' = NoSigs /\ reading' = Shut
         /\ cpc = "list" /\ cpc' = "sigs" /\ apc \in {"serve", "gone"}
         /\ UNCHANGED <<local, remote, rooted, now, lag, walk, apc, versions, quiet, still, settled>>
         /\ \A k \in 1..Len(want') : want'[k] \in NeedSig(r)
         /\ \A k \in 1..Len(check') : check'[k] \in ToVerify(r)
         /\ \A k \in 1..Len(sends') : sends'[k] \in ToSend(r)
         /\ \A p \in ToVerify(r) : Among(check', p)
         /\ \A p \in ToSend(r) : Among(sends', p)
         /\ apc = "serve" =>
              /\ \A k \in 1..Len(toAgent') :
                   /\ toAgent'[k].tag \in {"MKDIR", "SIG_REQ"}
                   /\ toAgent'[k].tag = "MKDIR" =>
                        k = 1 /\ \A i \in 1..Len(toAgent'[k].paths) : toAgent'[k].paths[i] \in MkDirs(r)
              /\ \A p \in MkDirs(r) : Named("MKDIR", toAgent', p)
<1>1. /\ cpc = "list" /\ cpc' = "sigs" /\ toClient # <<>> /\ toClient' = Tail(toClient)
      /\ sigs' = NoSigs
      /\ UNCHANGED <<local, remote, rooted, now, lag, walk, reading, apc, versions, quiet, still, settled>>
      BY DEF Plan, world, history
<1>2. toClient \in Seq(ClientFrame) /\ toAgent \in Seq(AgentFrame)
      BY DEF IInv, Types
<1>3. /\ Head(toClient) = toClient[1] /\ toClient[1] \in ClientFrame
      /\ Len(toClient) = 1 /\ toClient[1].tag = "LIST" /\ apc # "start"
      BY <1>1, <1>2, TailOf DEF IInv, Stages
<1>4. r = toClient[1].tree /\ r \in Listing /\ 1 \in 1..Len(toClient)
      BY <1>3 DEF ClientFrame
<1>5. toClient' = <<>>
  <2>1. Tail(toClient) \in Seq(ClientFrame) /\ Len(Tail(toClient)) = Len(toClient) - 1
        BY <1>1, <1>2, TailOf
  <2>2. toClient' \in Seq(ClientFrame) /\ Len(toClient') = 0
        BY <1>1, <1>3, <2>1
  <2>3. QED
        BY <2>2, EmptySeq
<1>6. reading' = Shut /\ apc \in {"serve", "gone"}
      BY <1>1, <1>3 DEF IInv, Opened, Stages, Types
<1>7. PICK need, ver, snd, dirs :
        /\ need = Ordered(NeedSig(r)) /\ ver = Ordered(ToVerify(r))
        /\ snd = Ordered(ToSend(r)) /\ dirs = Ordered(MkDirs(r))
      OBVIOUS
<1>8. /\ list' = r /\ want' = need /\ check' = ver /\ sends' = snd
      /\ toAgent' = toAgent \o PathFrame("MKDIR", dirs) \o PathFrame("SIG_REQ", need \o ver)
      BY <1>7 DEF Plan
<1>9. /\ NeedSig(r) \subseteq Paths /\ ToVerify(r) \subseteq Paths
      /\ ToSend(r) \subseteq Paths /\ MkDirs(r) \subseteq Paths
      BY DEF NeedSig, ToVerify, ToSend, MkDirs, Missing, OnBoth, Differing
<1>10. need \in Seq(Paths) /\ \A k \in 1..Len(need) : need[k] \in NeedSig(r)
       BY <1>7, <1>9, OrderedHas
<1>11. /\ ver \in Seq(Paths) /\ (\A k \in 1..Len(ver) : ver[k] \in ToVerify(r))
       /\ \A p \in ToVerify(r) : Among(ver, p)
       BY <1>7, <1>9, OrderedHas
<1>12. (\A k \in 1..Len(snd) : snd[k] \in ToSend(r)) /\ \A p \in ToSend(r) : Among(snd, p)
       BY <1>7, <1>9, OrderedHas
<1>13. /\ dirs \in Seq(Paths) /\ (\A k \in 1..Len(dirs) : dirs[k] \in MkDirs(r))
       /\ \A p \in MkDirs(r) : Among(dirs, p)
       BY <1>7, <1>9, OrderedHas
<1>14. /\ \A p \in ToVerify(r) : Among(check', p)
       /\ \A p \in ToSend(r) : Among(sends', p)
       BY <1>8, <1>11, <1>12
<1>15. ASSUME apc = "serve"
       PROVE  /\ \A k \in 1..Len(toAgent') :
                   /\ toAgent'[k].tag \in {"MKDIR", "SIG_REQ"}
                   /\ toAgent'[k].tag = "MKDIR" =>
                        k = 1 /\ \A i \in 1..Len(toAgent'[k].paths) : toAgent'[k].paths[i] \in MkDirs(r)
              /\ \A p \in MkDirs(r) : Named("MKDIR", toAgent', p)
  <2>1. PICK a, b : a = PathFrame("MKDIR", dirs) /\ b = PathFrame("SIG_REQ", need \o ver)
        OBVIOUS
  <2>2. toAgent = <<>>
        BY <1>1, <1>15 DEF IInv, Stages
  <2>3. /\ a \in Seq(AgentFrame)
        /\ dirs = <<>> => a = <<>>
        /\ dirs # <<>> => Len(a) = 1 /\ a[1].tag = "MKDIR" /\ a[1].paths = dirs
        BY <1>13, <2>1, PathFrameOf
  <2>4. need \o ver \in Seq(Paths)
        BY <1>10, <1>11, DueOf
  <2>5. /\ b \in Seq(AgentFrame)
        /\ need \o ver = <<>> => b = <<>>
        /\ need \o ver # <<>> => Len(b) = 1 /\ b[1].tag = "SIG_REQ" /\ b[1].paths = need \o ver
        BY <2>1, <2>4, PathFrameOf
  <2>6. toAgent \o a = a
        BY <2>2, <2>3
  <2>7. PICK z : z = a \o b
        OBVIOUS
  <2>8. toAgent' = z
        BY <1>8, <2>1, <2>6, <2>7
  <2>9. /\ \A k \in 1..Len(z) : \/ k \in 1..Len(a) /\ z[k] = a[k]
                                \/ \E j \in 1..Len(b) : k = Len(a) + j /\ z[k] = b[j]
        /\ \A k \in 1..Len(a) : k \in 1..Len(z) /\ z[k] = a[k]
        BY <2>3, <2>5, <2>7, MoreFrames
  <2>10. \A k \in 1..Len(a) : k = 1 /\ a[k].tag = "MKDIR" /\ a[k].paths = dirs
    <3>1. 1..0 = {} /\ \A k \in 1..1 : k = 1
          OBVIOUS
    <3>2. QED
          BY <2>3, <3>1, EmptyFrames
  <2>11. \A k \in 1..Len(b) : b[k].tag = "SIG_REQ"
    <3>1. 1..0 = {} /\ \A k \in 1..1 : k = 1
          OBVIOUS
    <3>2. QED
          BY <2>5, <3>1, EmptyFrames
  <2>12. ASSUME NEW k \in 1..Len(z)
         PROVE  /\ z[k].tag \in {"MKDIR", "SIG_REQ"}
                /\ z[k].tag = "MKDIR" => k = 1 /\ z[k].paths = dirs
    <3>1. CASE k \in 1..Len(a) /\ z[k] = a[k]
          BY <2>10, <3>1
    <3>2. CASE \E j \in 1..Len(b) : z[k] = b[j]
          BY <2>11, <3>2
    <3>3. QED
          BY <2>9, <3>1, <3>2
  <2>13. ASSUME NEW p \in MkDirs(r) PROVE Named("MKDIR", z, p)
    <3>1. PICK i \in 1..Len(dirs) : dirs[i] = p
          BY <1>13 DEF Among
    <3>2. dirs # <<>>
          BY <3>1, EmptyFrames
    <3>3. 1 \in 1..Len(a) /\ a[1].tag = "MKDIR" /\ a[1].paths = dirs
      <4>1. Len(a) = 1 /\ a[1].tag = "MKDIR" /\ a[1].paths = dirs
            BY <2>3, <3>2
      <4>2. 1 \in 1..1
            OBVIOUS
      <4>3. QED
            BY <4>1, <4>2
    <3>4. 1 \in 1..Len(z) /\ z[1] = a[1]
          BY <2>9, <3>3
    <3>5. QED
          BY <3>1, <3>3, <3>4 DEF Named
  <2>14. QED
         BY <1>13, <2>8, <2>12, <2>13
<1>16. QED
       BY <1>1, <1>2, <1>3, <1>4, <1>5, <1>6, <1>8, <1>10, <1>11, <1>12, <1>14, <1>15

\* What is left of a path once it is planned.
LEMMA PlannedPath ==
  ASSUME NEW r \in Listing, NEW p \in Paths, walk \in Listing, VerifyMax \in Nat
  PROVE  \/ p \in MkDirs(r) /\ walk[p].kind = "dir"
         \/ p \in ToSend(r) /\ walk[p].kind \in {"link", "file"}
         \/ p \in ToSend(r) /\ walk[p] = Dir /\ r[p].kind \in {"link", "file"}
         \/ p \in ToVerify(r) /\ walk[p].kind = "file"
         \/ walk[p].kind = "file" /\ SameEntry(walk[p], r[p]) /\ Len(walk[p].data) > VerifyMax
         \/ walk[p].kind = "file" /\ r[p].kind = "file" /\ r[p] = walk[p]
         \/ walk[p].kind # "file" /\ r[p] = walk[p]
         \/ walk[p].kind = "none"
<1>1. walk[p] \in Entry /\ r[p] \in Entry
      BY DEF Listing, Walkable
<1>2. walk[p].kind \in {"none", "file", "dir", "link"} /\ (walk[p].kind = "none" <=> walk[p] = Absent)
      /\ (walk[p].kind = "dir" <=> walk[p] = Dir)
      BY <1>1, EntryKinds
<1>3. r[p].kind \in {"none", "file", "dir", "link"} /\ (r[p].kind = "none" <=> r[p] = Absent)
      /\ (r[p].kind = "dir" <=> r[p] = Dir)
      BY <1>1, EntryKinds
<1>4. CASE walk[p] # Absent /\ r[p] = Absent
      BY <1>2, <1>4, DirIsThere DEF MkDirs, ToSend, Missing
<1>5. CASE walk[p] # Absent /\ r[p] # Absent /\ ~ SameEntry(walk[p], r[p])
  <2>1. p \in ToSend(r)
        BY <1>5 DEF ToSend, Differing, OnBoth
  <2>2. walk[p] = Dir => r[p] # Dir
        BY <1>5, SameAsSelf
  <2>3. QED
        BY <1>2, <1>3, <1>5, <2>1, <2>2
<1>6. CASE walk[p] # Absent /\ r[p] # Absent /\ SameEntry(walk[p], r[p])
  <2>1. CASE walk[p].kind = "file"
    <3>1. /\ r[p].kind = "file" /\ Len(walk[p].data) = Len(r[p].data) /\ walk[p].mtime = r[p].mtime
          /\ walk[p].data \in Seq(Blocks) /\ r[p].data \in Seq(Blocks)
          /\ walk[p] = File(walk[p].data, walk[p].mtime) /\ r[p] = File(r[p].data, r[p].mtime)
          BY <1>1, <1>6, <2>1, EntryKinds DEF SameEntry
    <3>2. Len(walk[p].data) \in Nat
          BY <3>1, LenProperties
    <3>3. CASE Len(walk[p].data) = 0
      <4>1. walk[p].data = <<>> /\ r[p].data = <<>>
            BY <3>1, <3>3, EmptySeq
      <4>2. QED
            BY <2>1, <3>1, <4>1
    <3>4. CASE Len(walk[p].data) \in 1..VerifyMax
          BY <1>6, <2>1, <3>4 DEF ToVerify, OnBoth, Differing
    <3>5. CASE Len(walk[p].data) > VerifyMax
          BY <1>6, <2>1, <3>5
    <3>6. QED
          BY <3>2, <3>3, <3>4, <3>5
  <2>2. CASE walk[p].kind = "dir"
    <3>1. r[p].kind = "dir"
          BY <1>6, <2>2 DEF SameEntry
    <3>2. QED
          BY <1>2, <1>3, <2>2, <3>1
  <2>3. CASE walk[p].kind = "link"
    <3>1. r[p].kind = "link" /\ r[p].to = walk[p].to
          BY <1>6, <2>3 DEF SameEntry
    <3>2. r[p] = walk[p]
          BY <1>1, <2>3, <3>1, EntryKinds
    <3>3. QED
          BY <2>3, <3>2
  <2>4. QED
        BY <1>2, <1>6, <2>1, <2>2, <2>3
<1>7. QED
      BY <1>2, <1>4, <1>5, <1>6

LEMMA PlanGoesOn == JInv /\ IInv' /\ Plan => JInv'
<1> SUFFICES ASSUME JInv, IInv', Plan PROVE JInv'
    OBVIOUS
<1>1. PICK r : r = Head(toClient).tree
      OBVIOUS
<1>2. /\ toClient \in Seq(ClientFrame) /\ 1 \in 1..Len(toClient)
      /\ toClient[1].tag = "LIST" /\ r = toClient[1].tree /\ r \in Listing
      /\ toClient' = <<>> /\ list' = r /\ sigs' = NoSigs /\ reading' = Shut
      /\ cpc = "list" /\ cpc' = "sigs" /\ apc \in {"serve", "gone"}
      /\ UNCHANGED <<local, remote, rooted, now, lag, walk, apc, versions, quiet, still, settled>>
      BY <1>1, Planning DEF JInv
<1>3. /\ \A k \in 1..Len(want') : want'[k] \in NeedSig(r)
      /\ \A k \in 1..Len(check') : check'[k] \in ToVerify(r)
      /\ \A k \in 1..Len(sends') : sends'[k] \in ToSend(r)
      /\ \A p \in ToVerify(r) : Among(check', p)
      /\ \A p \in ToSend(r) : Among(sends', p)
      BY <1>1, Planning DEF JInv
<1>4. apc = "serve" =>
        /\ \A k \in 1..Len(toAgent') :
             /\ toAgent'[k].tag \in {"MKDIR", "SIG_REQ"}
             /\ toAgent'[k].tag = "MKDIR" =>
                  k = 1 /\ \A i \in 1..Len(toAgent'[k].paths) : toAgent'[k].paths[i] \in MkDirs(r)
        /\ \A p \in MkDirs(r) : Named("MKDIR", toAgent', p)
      BY <1>1, Planning DEF JInv
<1>5. walk \in Listing /\ VerifyMax \in Nat
      BY ContentsAssumption DEF JInv, IInv, Types
<1>6. NeedSig(list)' = NeedSig(r) /\ ToVerify(list)' = ToVerify(r) /\ ToSend(list)' = ToSend(r)
      BY <1>2 DEF NeedSig, ToVerify, ToSend, Missing, MkDirs, Differing, OnBoth
<1>7. ASSUME apc = "serve", quiet PROVE r = Walk(remote)
      BY <1>2, <1>7 DEF JInv, FreshList
<1>8. ASSUME Watched' PROVE apc = "serve" /\ quiet /\ Clash(walk, r) = {}
      BY <1>2, <1>8 DEF Watched, Calm
<1>9. Shapes'
  <2>1. Shape(walk) /\ Shape(r)
        BY <1>2 DEF JInv, Shapes
  <2>2. \A k \in 1..Len(toClient') : FALSE
        BY <1>2, EmptyFrames
  <2>3. QED
        BY <1>2, <2>1, <2>2 DEF Shapes
<1>10. Times'
       BY <1>2, TimesKept DEF JInv
<1>11. Copies'
       BY <1>2, CopiesKept DEF JInv, Unedited
<1>12. FreshList'
       BY <1>2 DEF FreshList
<1>13. Ends'
  <2>1. ASSUME apc = "serve" PROVE Lines(toAgent')
        BY <1>4, <2>1 DEF Lines
  <2>2. \A k \in 1..Len(toClient') : FALSE
        BY <1>2, EmptyFrames
  <2>3. QED
        BY <1>2, <2>1, <2>2 DEF Ends
<1>14. Drawn'
       BY <1>3, <1>6 DEF Drawn
<1>15. Signed'
  <2>1. \A p \in Paths : sigs'[p] = <<>>
        BY <1>2 DEF NoSigs
  <2>2. \A k \in 1..Len(toClient') : FALSE
        BY <1>2, EmptyFrames
  <2>3. QED
        BY <1>2, <2>1, <2>2 DEF Signed, SigOf
<1>16. Between' /\ Untouched'
       BY <1>2, <1>7, <1>8 DEF Between, Untouched
<1>17. FramesFit'
  <2> SUFFICES ASSUME Watched', NEW k \in 1..Len(toAgent')
               PROVE  Faithful(toAgent'[k], walk, r, remote, versions, Unedited')
      BY <1>2 DEF FramesFit
  <2>1. /\ toAgent'[k].tag \in {"MKDIR", "SIG_REQ"}
        /\ toAgent'[k].tag = "MKDIR" =>
             \A i \in 1..Len(toAgent'[k].paths) : walk[toAgent'[k].paths[i]] = Dir
        BY <1>4, <1>8 DEF MkDirs
  <2>2. QED
        BY <2>1 DEF Faithful
<1>18. Pending'
  <2> SUFFICES ASSUME Watched', NEW p \in Paths
               PROVE  \/ Fits(walk[p], r[p], versions[p], lag, Unedited')
                      \/ Doing(p)' \/ Unverified(p)'
      BY <1>2, <1>7, <1>8 DEF Pending, Doing
  <2>1. walk[p] \in Entry /\ Clash(walk, r) = {} /\ r[p] \in Entry
        BY <1>2, <1>5, <1>8 DEF Listing, Walkable
  <2>2. CASE p \in MkDirs(r) /\ walk[p].kind = "dir"
        BY <1>2, <1>4, <1>8, <2>2 DEF Doing
  <2>3. CASE p \in ToSend(r) /\ walk[p].kind \in {"link", "file"}
        BY <1>2, <1>3, <2>3 DEF Doing
  <2>4. CASE walk[p] = Dir /\ r[p].kind \in {"link", "file"}
    <3>1. r[p] \in {Absent, Dir}
          BY <2>1, <2>4, NoClash
    <3>2. QED
          BY <2>4, <3>1, MakesEntries
  <2>5. CASE p \in ToVerify(r) /\ walk[p].kind = "file"
        BY <1>2, <1>3, <2>5 DEF Doing
  <2>6. CASE walk[p].kind = "file" /\ SameEntry(walk[p], r[p]) /\ Len(walk[p].data) > VerifyMax
        BY <1>2, <1>7, <1>8, <2>6 DEF Unverified
  <2>7. CASE walk[p].kind = "file" /\ r[p].kind = "file" /\ r[p] = walk[p]
    <3>1. Bare(walk[p]) \in versions[p]
          BY <2>7, MakesEntries DEF JInv, IInv, Walked
    <3>2. walk[p].mtime \in Int
          BY <2>1, <2>7, EntryKinds
    <3>3. QED
          BY <2>7, <3>1, <3>2 DEF Fits
  <2>8. CASE walk[p].kind # "file" /\ r[p] = walk[p]
        BY <2>8 DEF Fits
  <2>9. CASE walk[p].kind = "none"
        BY <1>2, <2>9 DEF Doing
  <2>10. QED
         BY <1>2, <1>5, <2>2, <2>3, <2>4, <2>5, <2>6, <2>7, <2>8, <2>9, PlannedPath
<1>19. InSteps'
  <2> SUFFICES ASSUME settled
               PROVE  /\ quiet
                      /\ \A p \in Paths : InStep(Walk(local)[p], Walk(remote)[p])
                      /\ \A p \in Paths : InStep(walk[p], r[p])
      BY <1>2, <1>3, <1>6 DEF InSteps, InStep
  <2>1. /\ quiet /\ apc # "gone"
        /\ \A p \in Paths : InStep(Walk(local)[p], Walk(remote)[p])
        BY <1>2 DEF JInv, InSteps
  <2>2. r = Walk(remote)
        BY <1>2, <1>7, <2>1
  <2>3. walk = Walk(local)
        BY <1>2 DEF JInv, Copies, Unedited
  <2>4. QED
        BY <2>1, <2>2, <2>3
<1>20. Failures'
       BY <1>2 DEF JInv, Failures
<1>21. QED
       BY <1>9, <1>10, <1>11, <1>12, <1>13, <1>14, <1>15, <1>16, <1>17, <1>18, <1>19, <1>20 DEF JInv

-----------------------------------------------------------------------------
(***************************************************************************)
(* The second invariant: the agent answers.                                *)
(***************************************************************************)

\* Where the frames that are left were.
LEMMA RestPlaces ==
  ASSUME NEW s \in Seq(AgentFrame), s # <<>>, NEW g, g = Rest(s)
  PROVE  /\ g \in Seq(AgentFrame) /\ Len(s) \in Nat \ {0} /\ s[1] \in AgentFrame /\ Head(s) = s[1]
         /\ Len(s[1].paths) <= 1 =>
              Len(g) = Len(s) - 1 /\ \A k \in 1..Len(g) : k + 1 \in 1..Len(s) /\ g[k] = s[k + 1]
         /\ ~ Len(s[1].paths) <= 1 =>
              /\ s[1].tag \in {"MKDIR", "SIG_REQ", "DELETE"} /\ Len(g) = Len(s)
              /\ g[1].tag = s[1].tag /\ g[1].paths = Tail(s[1].paths)
              /\ \A k \in 1..Len(s) : k # 1 => g[k] = s[k]
<1>1. /\ g \in Seq(AgentFrame)
      /\ Len(s[1].paths) <= 1 => g = Tail(s)
      /\ ~ Len(s[1].paths) <= 1 =>
           /\ s[1].tag \in {"MKDIR", "SIG_REQ", "DELETE"}
           /\ Len(g) = Len(s) /\ g[1].tag = s[1].tag /\ g[1].paths = Tail(s[1].paths)
           /\ \A k \in 2..Len(s) : g[k] = s[k]
      BY RestWithin
<1>2. Len(s) \in Nat \ {0} /\ s[1] \in AgentFrame /\ Head(s) = s[1] /\ Len(Tail(s)) = Len(s) - 1
      BY TailOf
<1>3. \A k \in 1..Len(Tail(s)) : k + 1 \in 1..Len(s) /\ Tail(s)[k] = s[k + 1]
      BY TailAmong
<1>4. \A k \in 1..Len(s) : k # 1 => k \in 2..Len(s)
      BY <1>2
<1>5. QED
      BY <1>1, <1>2, <1>3, <1>4

LEMMA RestNames ==
  ASSUME NEW s \in Seq(AgentFrame), s # <<>>, NEW tag, NEW p, Named(tag, s, p)
  PROVE  Named(tag, Rest(s), p) \/ (s[1].tag = tag /\ p = s[1].paths[1])
<1>1. PICK g : g = Rest(s)
      OBVIOUS
<1>2. /\ g \in Seq(AgentFrame) /\ Len(s) \in Nat \ {0} /\ s[1] \in AgentFrame
      /\ Len(s[1].paths) <= 1 =>
           Len(g) = Len(s) - 1 /\ \A k \in 1..Len(g) : k + 1 \in 1..Len(s) /\ g[k] = s[k + 1]
      /\ ~ Len(s[1].paths) <= 1 =>
           /\ Len(g) = Len(s) /\ g[1].tag = s[1].tag /\ g[1].paths = Tail(s[1].paths)
           /\ \A k \in 1..Len(s) : k # 1 => g[k] = s[k]
      BY <1>1, RestPlaces
<1>3. PICK k \in 1..Len(s) : s[k].tag = tag /\ \E i \in 1..Len(s[k].paths) : s[k].paths[i] = p
      BY DEF Named
<1>4. PICK i \in 1..Len(s[k].paths) : s[k].paths[i] = p
      BY <1>3
<1>5. CASE k # 1 /\ Len(s[1].paths) <= 1
  <2>1. PICK j \in 1..Len(g) : j + 1 = k
    <3>1. k - 1 \in 1..(Len(s) - 1) /\ (k - 1) + 1 = k
          BY <1>2, <1>5
    <3>2. QED
          BY <1>2, <1>5, <3>1
  <2>2. g[j] = s[k]
        BY <1>2, <1>5, <2>1
  <2>3. QED
        BY <1>1, <1>3, <2>1, <2>2 DEF Named
<1>6. CASE k # 1 /\ ~ Len(s[1].paths) <= 1
  <2>1. k \in 1..Len(g) /\ g[k] = s[k]
        BY <1>2, <1>6
  <2>2. QED
        BY <1>1, <1>3, <2>1 DEF Named
<1>7. CASE k = 1 /\ i # 1
  <2>1. PICK ps \in Seq(Paths) : ps = s[1].paths
        BY <1>2, FrameKinds
  <2>2. i \in 1..Len(ps) /\ ps[i] = p /\ ps # <<>> /\ Len(ps) \in Nat
        BY <1>4, <1>7, <2>1, LenProperties, EmptyFrames
  <2>3. /\ Len(Tail(ps)) = Len(ps) - 1
        /\ \A j \in 1..(Len(ps) - 1) : Tail(ps)[j] = ps[j + 1]
        BY <2>2, TailOf
  <2>4. PICK j \in 1..(Len(ps) - 1) : j + 1 = i
    <3>1. i - 1 \in 1..(Len(ps) - 1) /\ (i - 1) + 1 = i
          BY <1>7, <2>2
    <3>2. QED
          BY <3>1
  <2>5. ~ Len(ps) <= 1
        BY <1>7, <2>2
  <2>6. 1 \in 1..Len(g) /\ g[1].tag = tag /\ g[1].paths = Tail(ps)
        BY <1>2, <1>3, <1>7, <2>1, <2>5
  <2>7. j \in 1..Len(Tail(ps)) /\ Tail(ps)[j] = p
        BY <2>2, <2>3, <2>4
  <2>8. QED
        BY <1>1, <2>6, <2>7 DEF Named
<1>8. CASE k = 1 /\ i = 1
      BY <1>3, <1>4, <1>8
<1>9. QED
      BY <1>5, <1>6, <1>7, <1>8

LEMMA TailDeepest ==
  ASSUME NEW ps \in Seq(Paths), ps # <<>>, DeepestFirst(ps)
  PROVE  DeepestFirst(Tail(ps))
<1>1. \A k \in 1..Len(Tail(ps)) : k + 1 \in 1..Len(ps) /\ Tail(ps)[k] = ps[k + 1]
      BY TailAmong
<1>2. \A i, j \in 1..Len(Tail(ps)) : i < j => i + 1 < j + 1
      OBVIOUS
<1>3. QED
      BY <1>1, <1>2 DEF DeepestFirst

LEMMA RestLines ==
  ASSUME NEW s \in Seq(AgentFrame), s # <<>>, Lines(s)
  PROVE  Lines(Rest(s))
<1>1. PICK g : g = Rest(s)
      OBVIOUS
<1>2. PICK n \in Nat \ {0} : n = Len(s)
      BY TailOf
<1>3. /\ g \in Seq(AgentFrame) /\ s[1] \in AgentFrame
      /\ Len(s[1].paths) <= 1 =>
           Len(g) = n - 1 /\ \A k \in 1..Len(g) : k + 1 \in 1..n /\ g[k] = s[k + 1]
      /\ ~ Len(s[1].paths) <= 1 =>
           /\ s[1].tag \in {"MKDIR", "SIG_REQ", "DELETE"} /\ Len(g) = n
           /\ g[1].tag = s[1].tag /\ g[1].paths = Tail(s[1].paths)
           /\ \A k \in 1..n : k # 1 => g[k] = s[k]
      BY <1>1, <1>2, RestPlaces
<1>4. \A k \in 1..n :
        /\ s[k].tag = "MKDIR" => k = 1
        /\ s[k].tag = "PLAN_DONE" => k = n
        /\ s[k].tag = "DELETE" =>
             /\ DeepestFirst(s[k].paths)
             /\ \A j \in 1..n : s[j].tag = "DELETE" => j = k
      BY <1>2 DEF Lines
<1>5. CASE Len(s[1].paths) <= 1
  <2>1. ASSUME NEW k \in 1..Len(g)
        PROVE  /\ g[k].tag = "MKDIR" => k = 1
               /\ g[k].tag = "PLAN_DONE" => k = Len(g)
               /\ g[k].tag = "DELETE" =>
                    /\ DeepestFirst(g[k].paths)
                    /\ \A j \in 1..Len(g) : g[j].tag = "DELETE" => j = k
    <3>1. k + 1 \in 1..n /\ g[k] = s[k + 1] /\ Len(g) = n - 1
          BY <1>3, <1>5
    <3>2. g[k].tag # "MKDIR" /\ (g[k].tag = "PLAN_DONE" => k + 1 = n)
          BY <1>4, <3>1
    <3>3. ASSUME g[k].tag = "DELETE", NEW j \in 1..Len(g), g[j].tag = "DELETE" PROVE j = k
      <4>1. j + 1 \in 1..n /\ g[j] = s[j + 1]
            BY <1>3, <1>5
      <4>2. j + 1 = k + 1
            BY <1>4, <3>1, <3>3, <4>1
      <4>3. QED
            BY <4>2
    <3>4. g[k].tag = "DELETE" => DeepestFirst(g[k].paths)
          BY <1>4, <3>1
    <3>5. QED
          BY <3>1, <3>2, <3>3, <3>4
  <2>2. QED
        BY <1>1, <2>1 DEF Lines
<1>6. CASE ~ Len(s[1].paths) <= 1
  <2>1. s[1].paths \in Seq(Paths) /\ s[1].paths # <<>>
        BY <1>3, <1>6, FrameKinds, EmptyFrames
  <2>2. \A k \in 1..n : g[k].tag = s[k].tag
        BY <1>3, <1>6
  <2>3. ASSUME NEW k \in 1..n, g[k].tag = "DELETE" PROVE DeepestFirst(g[k].paths)
    <3>1. CASE k = 1
          BY <1>3, <1>4, <1>6, <2>1, <2>2, <2>3, <3>1, TailDeepest
    <3>2. CASE k # 1
          BY <1>3, <1>4, <1>6, <2>3, <3>2
    <3>3. QED
          BY <3>1, <3>2
  <2>4. Len(g) = n
        BY <1>3, <1>6
  <2>5. QED
        BY <1>1, <1>4, <2>2, <2>3, <2>4 DEF Lines
<1>7. QED
      BY <1>5, <1>6

\* The frames that are left are handled as they came.
LEMMA RestFits ==
  ASSUME NEW s \in Seq(AgentFrame), s # <<>>
  PROVE  Rest(s) \in Seq(AgentFrame) /\ Within(Rest(s), s)
BY RestWithin

LEMMA AnswerSigGoesOn == JInv /\ IInv' /\ AnswerSig => JInv'
<1> SUFFICES ASSUME JInv, IInv', AnswerSig PROVE JInv'
    OBVIOUS
<1>1. /\ apc = "serve" /\ toAgent # <<>> /\ toAgent' = Rest(toAgent)
      /\ UNCHANGED <<local, remote, rooted, now, lag, cpc, walk, list, want, check, sigs, sends, reading, apc,
                     versions, quiet, still, settled>>
      BY DEF AnswerSig, world, client, history
<1>2. /\ toAgent \in Seq(AgentFrame) /\ toClient \in Seq(ClientFrame)
      /\ WellFormed(remote) /\ Confined(remote)
      /\ want \in Seq(Paths) /\ check \in Seq(Paths)
      BY DEF JInv, IInv, Types
<1>3. /\ toAgent[1].tag = "SIG_REQ" /\ toAgent[1] \in AgentFrame /\ Head(toAgent) = toAgent[1]
  <2>1. Head(toAgent) = toAgent[1] /\ toAgent[1] \in AgentFrame
        BY <1>1, <1>2, TailOf
  <2>2. QED
        BY <2>1 DEF AnswerSig
<1>4. PICK p \in Paths : p = toAgent[1].paths[1] /\ p = Head(toAgent[1].paths)
      BY <1>3, FrameKinds
<1>5. PICK e : e = [tag |-> "SIG", sig |-> ReadNoFollow(remote, p)]
      OBVIOUS
<1>6. toClient' = Append(toClient, e)
      BY <1>3, <1>4, <1>5 DEF AnswerSig, Signature
<1>7. e \in ClientFrame /\ e.tag = "SIG" /\ e.sig = ReadNoFollow(remote, p)
  <2>1. ReadNoFollow(remote, p) \in Seq(Blocks)
        BY <1>2, ReadEffect
  <2>2. QED
        BY <1>5, <2>1 DEF ClientFrame
<1>8. PICK n \in Nat : n = Len(toClient)
      BY <1>2, LenProperties
<1>9. /\ toClient'[n + 1] = e /\ \A k \in 1..n : toClient'[k] = toClient[k]
      /\ \A k \in 1..Len(toClient') : k \in 1..n \/ k = n + 1
      BY <1>2, <1>6, <1>7, <1>8, AnswerMore
<1>10. toAgent' \in Seq(AgentFrame) /\ Within(toAgent', toAgent)
       BY <1>1, <1>2, RestFits
<1>11. Working' => Working
       BY <1>1 DEF Working
<1>12. Quieter
       BY <1>1, <1>11 DEF Quieter, Watched, Calm, Unedited
<1>13. Shapes'
  <2>1. \A k \in 1..Len(toClient') : toClient'[k].tag = "LIST" =>
          \E j \in 1..Len(toClient) : toClient'[k] = toClient[j]
        BY <1>7, <1>8, <1>9
  <2>2. QED
        BY <1>1, <2>1, ShapesKept DEF JInv
<1>14. Times' /\ Copies'
       BY <1>1, <1>12, TimesKept, CopiesKept DEF JInv, Quieter
<1>15. cpc # "list"
       BY <1>1 DEF JInv, IInv, Stages
<1>16. FreshList'
       BY <1>1, <1>15 DEF FreshList
<1>17. Ends'
  <2>1. Lines(toAgent')
        BY <1>1, <1>2, RestLines DEF JInv, Ends
  <2>2. \A k \in 1..Len(toClient') : toClient'[k].tag # "DONE"
        BY <1>1, <1>7, <1>8, <1>9 DEF JInv, Ends
  <2>3. QED
        BY <1>1, <2>1, <2>2 DEF JInv, Ends
<1>18. Drawn'
       BY <1>1, DrawnKept DEF JInv
<1>19. Signed'
  <2>1. ASSUME Calm, cpc = "sigs" PROVE SigOf(toClient', want \o check, list)
    <3>1. PICK due \in Seq(Paths) : due = want \o check
          BY <1>2, DueOf
    <3>2. SigOf(toClient, due, list)
          BY <2>1, <3>1 DEF JInv, Signed
    <3>3. n + 1 \in 1..Len(due) /\ p = due[n + 1]
      <4>1. Answered(due, toAgent, toClient, remote, shaken)
            BY <1>1, <2>1, <3>1 DEF JInv, IInv, Answers
      <4>2. QED
            BY <1>1, <1>2, <1>3, <1>4, <1>8, <4>1, AnsweredOne
    <3>4. Watched
          BY <1>1, <2>1 DEF Watched, Working
    <3>5. p \in NeedSig(list) \cup ToVerify(list) /\ Walk(remote)[p] = list[p]
      <4>1. (\E j \in 1..Len(want) : p = want[j]) \/ (\E j \in 1..Len(check) : p = check[j])
        <5>1. \/ \E j \in 1..Len(want) : (want \o check)[n + 1] = want[j]
              \/ \E j \in 1..Len(check) : (want \o check)[n + 1] = check[j]
              BY <1>2, <3>1, <3>3, DueOf
        <5>2. QED
              BY <3>1, <3>3, <5>1
      <4>2. /\ \A k \in 1..Len(want) : want[k] \in NeedSig(list)
            /\ \A k \in 1..Len(check) : check[k] \in ToVerify(list)
            BY <2>1 DEF JInv, Drawn
      <4>3. /\ \A k \in 1..Len(want) : Walk(remote)[want[k]] = list[want[k]]
            /\ \A k \in 1..Len(check) : Walk(remote)[check[k]] = list[check[k]]
            BY <2>1, <3>4 DEF JInv, Untouched, Active
      <4>4. QED
            BY <4>1, <4>2, <4>3
    <3>6. list[p] # Absent
          BY <3>5 DEF NeedSig, ToVerify, Differing, OnBoth
    <3>7. ~ IsExcluded(p) /\ Clear(remote, Above(p))
          BY <3>4, <3>6, WayIsClear DEF JInv
    <3>8. e.sig = Held(list[p])
          BY <1>2, <1>7, <3>5, <3>7, HeldRead
    <3>9. ASSUME NEW k \in 1..Len(toClient'), toClient'[k].tag = "SIG"
          PROVE  k <= Len(due) /\ toClient'[k].sig = Held(list[due[k]])
      <4>1. CASE k \in 1..n
            BY <1>8, <1>9, <3>2, <3>9, <4>1 DEF SigOf
      <4>2. CASE k = n + 1
            BY <1>9, <3>3, <3>8, <4>2
      <4>3. QED
            BY <1>9, <4>1, <4>2
    <3>10. QED
           BY <3>1, <3>9 DEF SigOf
  <2>2. Calm' <=> Calm
        BY <1>1 DEF Calm
  <2>3. QED
        BY <1>1, <2>1, <2>2 DEF JInv, Signed
<1>20. Between' /\ Untouched'
       BY <1>1, <1>12, BetweenKept, UntouchedKept DEF JInv
<1>21. FramesFit'
       BY <1>2, <1>10, <1>12, FramesKept DEF JInv
<1>22. Pending'
  <2>1. ASSUME NEW q \in Paths, Doing(q) PROVE Doing(q)'
    <3>1. \A tag \in {"MKDIR", "PUT", "DELETE"} : Named(tag, toAgent, q) => Named(tag, toAgent', q)
          BY <1>1, <1>2, <1>3, RestNames
    <3>2. QED
          BY <1>1, <2>1, <3>1 DEF Doing
  <2>2. QED
        BY <1>1, <1>12, <2>1, PendingKept DEF JInv
<1>23. InSteps'
       BY <1>1, <1>11, InStepsKept DEF JInv, InSteps
<1>24. Failures'
       BY <1>1, FailuresKept DEF JInv
<1>25. QED
       BY <1>13, <1>14, <1>16, <1>17, <1>18, <1>19, <1>20, <1>21, <1>22, <1>23, <1>24 DEF JInv

-----------------------------------------------------------------------------
(***************************************************************************)
(* The second invariant: the agent changes its tree.                       *)
(***************************************************************************)

\* The agent is at frame f, for the path p.
Turn(f, p, ok) ==
  /\ toAgent \in Seq(AgentFrame) /\ toAgent # <<>> /\ 1 \in 1..Len(toAgent) /\ f = toAgent[1]
  /\ f \in AgentFrame /\ f.tag \in {"MKDIR", "DELETE", "PUT"} /\ p \in Paths /\ p = f.paths[1]
  /\ toClient \in Seq(ClientFrame)
  /\ UNCHANGED <<local, now, lag, client, versions, quiet, still, settled>>
  /\ WellFormed(remote) /\ WellFormed(remote') /\ MakeRoot
  /\ apc = "serve" /\ cpc \in {"sigs", "send", "await", "failed"} /\ Working
  /\ ok => toAgent' = Rest(toAgent) /\ apc' = "serve" /\ toClient' = toClient
  /\ ~ ok => /\ toAgent' = <<>> /\ apc' = "gone"
             /\ toClient' = Append(toClient, [tag |-> "ERROR"])
  /\ Calm => /\ Watched /\ ~ IsExcluded(p)
             /\ Faithful(f, walk, list, remote, versions, Unedited)
             /\ Delivered(f, p, remote, remote', ok)

LEMMA TurnOf ==
  ASSUME JInv, IInv', Change
  PROVE  \E f, p, ok : Turn(f, p, ok)
<1>1. /\ apc = "serve" /\ toAgent # <<>>
      /\ UNCHANGED <<local, now, lag, client, versions, quiet, still, settled>>
      BY DEF Change, history
<1>2. /\ toAgent \in Seq(AgentFrame) /\ toClient \in Seq(ClientFrame)
      /\ WellFormed(remote) /\ Confined(remote) /\ WellFormed(remote')
      BY DEF JInv, IInv, Types, WellFormed, Children
<1>3. now \in Int /\ lag \in Int
      BY ContentsAssumption DEF JInv, IInv, Types
<1>4. /\ Head(toAgent) = toAgent[1] /\ toAgent[1] \in AgentFrame /\ 1 \in 1..Len(toAgent)
      BY <1>1, <1>2, TailOf
<1>5. PICK f \in AgentFrame : f = toAgent[1]
      BY <1>4
<1>6. f.tag \in {"MKDIR", "DELETE", "PUT"}
      BY <1>4, <1>5 DEF Change
<1>7. PICK p \in Paths : p = f.paths[1]
      BY <1>6, FrameKinds
<1>8. PICK w : w = Apply(remote, f)
      OBVIOUS
<1>9. /\ remote' = w.tree /\ MakeRoot
      /\ w.ok => toAgent' = Rest(toAgent) /\ apc' = "serve" /\ toClient' = toClient
      /\ ~ w.ok => /\ toAgent' = <<>> /\ apc' = "gone"
                   /\ toClient' = Append(toClient, [tag |-> "ERROR"])
      BY <1>1, <1>4, <1>5, <1>8 DEF Change
<1>10. cpc \in {"sigs", "send", "await", "failed"} /\ Working
  <2>1. cpc \in Active \cup {"idle", "done", "failed"}
        BY DEF JInv, IInv, Types
  <2>2. cpc \notin {"idle", "list", "done"}
        BY <1>1 DEF JInv, IInv, Stages, Ends
  <2>3. cpc \in {"sigs", "send", "await", "failed"}
        BY <2>1, <2>2 DEF Active
  <2>4. QED
        BY <1>1, <2>3 DEF Working
<1>11. ASSUME Calm
       PROVE  /\ Watched /\ ~ IsExcluded(p)
              /\ Faithful(f, walk, list, remote, versions, Unedited)
              /\ Delivered(f, p, remote, remote', w.ok)
  <2>1. Watched
        BY <1>1, <1>10, <1>11 DEF Watched
  <2>2. Faithful(f, walk, list, remote, versions, Unedited)
        BY <1>4, <1>5, <2>1 DEF JInv, FramesFit
  <2>3. 1 \in 1..Len(f.paths)
        BY <1>6, FrameKinds
  <2>4. /\ f.tag = "MKDIR" => walk[p] = Dir
        /\ f.tag = "DELETE" => list[p] # Absent
        /\ f.tag = "PUT" => FaithfulPut(f, p, walk, remote, versions, Unedited)
        BY <1>7, <2>2, <2>3, Zenon DEF Faithful
  <2>5. walk[p] # Absent \/ list[p] # Absent
        BY <1>6, <2>4, MakesEntries DEF FaithfulPut
  <2>6. ~ IsExcluded(p) /\ Clear(remote, Above(p))
        BY <2>1, <2>5, WayIsClear DEF JInv
  <2>7. f.tag = "MKDIR" => remote[p] \in {Absent, Dir}
    <3>1. ASSUME walk[p] = Dir PROVE remote[p] \in {Absent, Dir}
      <4>1. walk[p] \in Entry /\ list[p] \in Entry /\ Clash(walk, list) = {}
            BY <1>11 DEF JInv, IInv, Types, Listing, Walkable, Calm
      <4>2. list[p] \in {Absent, Dir}
            BY <3>1, <4>1, NoClash
      <4>3. Walk(remote)[p] \in {Absent, Dir}
            BY <2>1, <3>1, <4>2, MakesEntries DEF JInv, Between, Fits
      <4>4. QED
            BY <1>2, <2>6, <4>3, SeenKind
    <3>2. QED
          BY <2>4, <3>1
  <2>8. f.tag = "PUT" => /\ remote[p] # Dir /\ f.entry.kind \in {"link", "file"}
                         /\ f.delta # <<>> => remote[p].kind = "file" /\ CanPatch(remote[p].data, f.delta)
    <3>1. ASSUME f.tag = "PUT"
          PROVE  /\ remote[p] # Dir /\ f.entry.kind \in {"link", "file"}
                 /\ f.delta # <<>> => remote[p].kind = "file" /\ CanPatch(remote[p].data, f.delta)
      <4>1. FaithfulPut(f, p, walk, remote, versions, Unedited)
            BY <2>4, <3>1
      <4>2. walk[p].kind \in {"link", "file"} /\ f.entry.kind = walk[p].kind
            BY <4>1 DEF FaithfulPut
      <4>3. remote[p] # Dir
            BY <2>1, <2>6, <4>2, NoDirHere DEF JInv
      <4>4. f.delta # <<>> => f.entry.kind = "file"
            BY <3>1, FrameKinds
      <4>5. QED
            BY <4>1, <4>2, <4>3, <4>4 DEF FaithfulPut
    <3>2. QED
          BY <3>1
  <2>9. Delivered(f, p, remote, w.tree, w.ok)
        BY <1>2, <1>3, <1>6, <1>7, <1>8, <2>6, <2>7, <2>8, Delivers
  <2>10. QED
         BY <1>9, <2>1, <2>2, <2>6, <2>9
<1>12. PICK ok : ok = w.ok
       OBVIOUS
<1>13. Turn(f, p, ok)
       BY <1>1, <1>2, <1>4, <1>5, <1>6, <1>7, <1>9, <1>10, <1>11, <1>12 DEF Turn
<1>14. QED
       BY <1>13

\* What a frame is about.
LEMMA TurnAbout ==
  ASSUME JInv, NEW f, NEW p, NEW ok, Turn(f, p, ok), Calm
  PROVE  /\ f.tag = "MKDIR" => walk[p] = Dir
         /\ f.tag = "DELETE" => walk[p] = Absent /\ list[p] # Absent
         /\ f.tag = "PUT" => Due(walk, list, p) /\ FaithfulPut(f, p, walk, remote, versions, Unedited)
         /\ f.tag # "DELETE" => \A q \in Above(p) : walk[q] = Dir
<1>1. 1 \in 1..Len(f.paths)
      BY FrameKinds DEF Turn
<1>2. /\ f.tag = "MKDIR" => walk[p] = Dir
      /\ f.tag = "DELETE" => walk[p] = Absent /\ list[p] # Absent
      /\ f.tag = "PUT" => Due(walk, list, p) /\ FaithfulPut(f, p, walk, remote, versions, Unedited)
      BY <1>1 DEF Turn, Faithful
<1>3. f.tag # "DELETE" => walk[p] # Absent
      BY <1>2, MakesEntries DEF Turn, FaithfulPut
<1>4. QED
      BY <1>2, <1>3 DEF JInv, Shapes, Shape, Turn

\* The clamp only ever takes a time back, and not at all when the clocks agree.
LEMMA ClampedBack ==
  ASSUME NEW m \in 0..now, now \in Int, lag \in Nat, NEW c, c = Clamp(m), NEW s, s = IF c < 0 THEN 0 ELSE c
  PROVE  s \in Int /\ s <= m /\ (lag = 0 => s = m)
BY DEF Clamp

\* What has been changed is as it was walked.
LEMMA ChangedFits ==
  ASSUME JInv, NEW f, NEW p, NEW ok, Turn(f, p, ok), Calm, ok, NEW q \in Paths,
         remote'[q] # remote[q] \/ (q = p /\ f.tag # "DELETE")
  PROVE  Fits(walk[q], Walk(remote')[q], versions[q], lag, Unedited)
<1>1. /\ WellFormed(remote) /\ WellFormed(remote') /\ p \in Paths /\ ~ IsExcluded(p)
      /\ f.tag \in {"MKDIR", "DELETE", "PUT"} /\ f \in AgentFrame
      /\ Delivered(f, p, remote, remote', ok)
      BY DEF Turn
<1>2. UpTo(p) = Above(p) \cup {p}
      BY <1>1, UpToPath
<1>3. q \in UpTo(p)
      BY <1>1, <1>2 DEF Delivered
<1>4. ~ IsExcluded(q)
      BY <1>1, <1>3, NotExcludedAbove
<1>5. /\ f.tag = "MKDIR" => walk[p] = Dir
      /\ f.tag = "DELETE" => walk[p] = Absent
      /\ f.tag = "PUT" => FaithfulPut(f, p, walk, remote, versions, Unedited)
      /\ f.tag # "DELETE" => \A x \in Above(p) : walk[x] = Dir
      BY TurnAbout
<1>6. ASSUME walk[q] = remote'[q], walk[q].kind # "file"
      PROVE  Fits(walk[q], Walk(remote')[q], versions[q], lag, Unedited)
  <2>1. Walk(remote')[q] = remote'[q]
        BY <1>1, <1>4, <1>6, SeenAt
  <2>2. QED
        BY <1>6, <2>1 DEF Fits
<1>7. CASE f.tag = "DELETE"
  <2>1. q = p /\ remote'[p] = Absent
        BY <1>1, <1>2, <1>3, <1>7 DEF Delivered
  <2>2. QED
        BY <1>5, <1>6, <1>7, <2>1, MakesEntries
<1>8. CASE f.tag # "DELETE" /\ q \in Above(p)
  <2>1. remote'[q] = Dir /\ walk[q] = Dir
        BY <1>1, <1>5, <1>8 DEF Delivered
  <2>2. QED
        BY <1>6, <2>1, MakesEntries
<1>9. CASE f.tag = "MKDIR" /\ q = p
  <2>1. remote'[q] = Dir /\ walk[q] = Dir
        BY <1>1, <1>5, <1>9 DEF Delivered
  <2>2. QED
        BY <1>6, <2>1, MakesEntries
<1>10. CASE f.tag = "PUT" /\ q = p /\ walk[p].kind = "link"
  <2>1. f.entry = walk[p]
        BY <1>5, <1>10 DEF FaithfulPut
  <2>2. remote'[p] = f.entry
        BY <1>1, <1>10, <2>1 DEF Delivered
  <2>3. QED
        BY <1>6, <1>10, <2>1, <2>2
<1>11. CASE f.tag = "PUT" /\ q = p /\ walk[p].kind = "file"
  <2>1. PICK d, m : d = Made(f, remote) /\ m = walk[p].mtime
        OBVIOUS
  <2>2. /\ f.entry.kind = "file" /\ f.entry.mtime = m
        /\ File(d, 0) \in versions[p] /\ (Unedited => d = walk[p].data)
        BY <1>5, <1>11, <2>1 DEF FaithfulPut
  <2>3. PICK c : c = Clamp(m)
        OBVIOUS
  <2>4. remote'[p] = File(d, c)
        BY <1>1, <1>11, <2>1, <2>2, <2>3 DEF Delivered
  <2>5. remote'[p].kind = "file" /\ remote'[p].data = d /\ remote'[p].mtime = c
        BY <2>4 DEF File
  <2>6. PICK s : s = IF c < 0 THEN 0 ELSE c
        OBVIOUS
  <2>7. PICK r : r = Walk(remote')[p]
        OBVIOUS
  <2>8. r.kind = "file" /\ r.data = d /\ r.mtime = s
        BY <1>1, <2>5, <2>6, <2>7, SeenAt
  <2>9. s \in Int /\ s <= m /\ (lag = 0 => s = m)
    <3>1. m \in 0..now
          BY <1>1, <1>11, <2>1 DEF JInv, Times
    <3>2. now \in Int /\ lag \in Nat
          BY ContentsAssumption DEF JInv, IInv, Types
    <3>3. QED
          BY <2>3, <2>6, <3>1, <3>2, ClampedBack
  <2>10. Bare(r) = File(d, 0)
         BY <2>8 DEF Bare
  <2>11. Fits(walk[p], r, versions[p], lag, Unedited)
         BY <1>11, <2>1, <2>2, <2>8, <2>9, <2>10 DEF Fits
  <2>12. QED
         BY <1>11, <2>7, <2>11
<1>12. CASE f.tag = "PUT" /\ q = p
  <2>1. walk[p].kind \in {"link", "file"}
        BY <1>5, <1>12 DEF FaithfulPut
  <2>2. QED
        BY <1>10, <1>11, <1>12, <2>1
<1>13. QED
       BY <1>1, <1>2, <1>3, <1>7, <1>8, <1>9, <1>12

LEMMA TurnKeepsClient ==
  ASSUME JInv, NEW f, NEW p, NEW ok, Turn(f, p, ok)
  PROVE  /\ UNCHANGED <<cpc, lag, versions, walk, list, want, check, sigs, sends, reading>>
         /\ Calm' <=> Calm
         /\ Watched' => ok
         /\ Unedited' = Unedited
BY DEF Turn, client, Calm, Watched, Unedited

LEMMA ChangeBetween ==
  ASSUME JInv, NEW f, NEW p, NEW ok, Turn(f, p, ok)
  PROVE  Between'
<1> SUFFICES ASSUME Watched', NEW q \in Paths
             PROVE  \/ Walk(remote')[q] = list[q]
                    \/ Fits(walk[q], Walk(remote')[q], versions[q], lag, Unedited)
    BY TurnKeepsClient DEF Between
<1>1. ok /\ Calm /\ Watched
      BY TurnKeepsClient DEF Watched, Turn
<1>2. CASE remote'[q] # remote[q]
      BY <1>1, <1>2, ChangedFits
<1>3. CASE remote'[q] = remote[q]
  <2>1. Walk(remote')[q] = Walk(remote)[q]
        BY <1>3, SeenSame
  <2>2. QED
        BY <1>1, <2>1 DEF JInv, Between
<1>4. QED
      BY <1>2, <1>3

\* A frame leaves alone what the other frames will make.
LEMMA ChangeSpares ==
  ASSUME JInv, NEW f, NEW p, NEW ok, Turn(f, p, ok), Calm,
         NEW q \in Paths, walk[q].kind \in {"link", "file"},
         f.tag = "PUT" => q # p
  PROVE  remote'[q] = remote[q]
<1>1. /\ f.tag = "MKDIR" => walk[p] = Dir
      /\ f.tag = "DELETE" => walk[p] = Absent
      /\ f.tag # "DELETE" => \A x \in Above(p) : walk[x] = Dir
      BY TurnAbout
<1>2. /\ f.tag \in {"MKDIR", "DELETE", "PUT"} /\ p \in Paths
      /\ Delivered(f, p, remote, remote', ok)
      BY DEF Turn
<1>3. UpTo(p) = Above(p) \cup {p}
      BY <1>2, UpToPath
<1>4. q # p
      BY <1>1, <1>2, MakesEntries
<1>5. CASE f.tag = "DELETE"
      BY <1>2, <1>3, <1>4, <1>5 DEF Delivered
<1>6. CASE f.tag # "DELETE"
  <2>1. q \notin Above(p)
        BY <1>1, <1>6, MakesEntries
  <2>2. QED
        BY <1>2, <1>3, <1>4, <2>1 DEF Delivered
<1>7. QED
      BY <1>5, <1>6

LEMMA ChangeUntouched ==
  ASSUME JInv, NEW f, NEW p, NEW ok, Turn(f, p, ok)
  PROVE  Untouched'
<1> SUFFICES ASSUME Watched', cpc \in Active, NEW s \in {want, check, sends}, NEW k \in 1..Len(s)
             PROVE  Walk(remote')[s[k]] = list[s[k]]
    BY TurnKeepsClient DEF Untouched
<1>1. ok /\ Calm /\ Watched
      BY TurnKeepsClient DEF Watched, Turn
<1>2. cpc \in {"sigs", "send", "await"}
      BY DEF Turn, Active
<1>3. PICK q : q = s[k]
      OBVIOUS
<1>4. q \in Paths /\ walk[q].kind \in {"link", "file"}
  <2>1. /\ \A j \in 1..Len(want) : want[j] \in NeedSig(list)
        /\ \A j \in 1..Len(check) : check[j] \in ToVerify(list)
        /\ \A j \in 1..Len(sends) : sends[j] \in ToSend(list) \cup ToVerify(list)
        BY <1>2 DEF JInv, Drawn
  <2>2. q \in NeedSig(list) \/ q \in ToSend(list) \cup ToVerify(list)
        BY <1>3, <2>1
  <2>3. CASE q \in NeedSig(list)
        BY <2>3 DEF NeedSig, Differing, OnBoth
  <2>4. CASE q \in ToSend(list) \cup ToVerify(list)
        BY <1>1, <2>4, SendsNoDir
  <2>5. QED
        BY <2>2, <2>3, <2>4
<1>5. f.tag = "PUT" => q # p
  <2>1. SUFFICES ASSUME f.tag = "PUT" PROVE q # p
        OBVIOUS
  <2>2. OwnFrame(f, walk, sends)
        BY DEF JInv, IInv, Own, Turn
  <2>3. \A i \in 1..Len(sends) : sends[i] # p
        BY <2>1, <2>2 DEF OwnFrame, Turn
  <2>4. want = <<>> /\ check = <<>>
    <3>1. CASE cpc = "sigs"
      <4>1. want \o check = <<>>
            BY <2>1, <3>1 DEF JInv, IInv, Stages, Turn
      <4>2. want \in Seq(Paths) /\ check \in Seq(Paths)
            BY DEF JInv, IInv, Types
      <4>3. QED
            BY <4>1, <4>2, DueOf
    <3>2. CASE cpc = "send"
          BY <3>2 DEF JInv, IInv, Stages
    <3>3. CASE cpc = "await"
          BY <3>3 DEF JInv, Ends
    <3>4. QED
          BY <1>2, <3>1, <3>2, <3>3
  <2>5. CASE s = sends
        BY <1>3, <2>3, <2>5
  <2>6. CASE s # sends
        BY <1>3, <2>4, <2>6, EmptyFrames
  <2>7. QED
        BY <2>5, <2>6
<1>6. remote'[q] = remote[q]
  <2>1. Calm /\ q \in Paths /\ walk[q].kind \in {"link", "file"} /\ (f.tag = "PUT" => q # p)
        BY <1>1, <1>4, <1>5
  <2>2. QED
        BY <2>1, ChangeSpares
<1>7. Walk(remote')[q] = Walk(remote)[q]
      BY <1>4, <1>6, SeenSame
<1>8. Walk(remote)[q] = list[q]
      BY <1>1, <1>3 DEF JInv, Untouched
<1>9. QED
      BY <1>3, <1>7, <1>8

LEMMA ChangeFrames ==
  ASSUME JInv, NEW f, NEW p, NEW ok, Turn(f, p, ok)
  PROVE  FramesFit'
<1> SUFFICES ASSUME Watched', NEW k \in 1..Len(toAgent')
             PROVE  Faithful(toAgent'[k], walk, list, remote', versions, Unedited)
    BY TurnKeepsClient DEF FramesFit
<1>1. ok /\ Calm /\ Watched
      BY TurnKeepsClient DEF Watched, Turn
<1>2. toAgent' = Rest(toAgent) /\ toAgent \in Seq(AgentFrame) /\ toAgent # <<>>
      BY <1>1 DEF Turn
<1>3. PICK g : g = Rest(toAgent)
      OBVIOUS
<1>4. g \in Seq(AgentFrame) /\ Within(g, toAgent) /\ toAgent' = g
      BY <1>2, <1>3, RestWithin
<1>5. PICK d \in Nat :
        Len(g) + d <= Len(toAgent) /\ \A i \in 1..Len(g) : Thinner(g[i], toAgent[i + d])
      BY <1>4 DEF Within
<1>6. PICK x, y : x = g[k] /\ y = toAgent[k + d]
      OBVIOUS
<1>7. k + d \in 1..Len(toAgent) /\ Thinner(x, y)
      BY <1>2, <1>4, <1>5, <1>6
<1>8. x \in AgentFrame /\ y \in AgentFrame
      BY <1>2, <1>4, <1>6, <1>7, ElementOfSeq
<1>9. Faithful(y, walk, list, remote, versions, Unedited)
      BY <1>1, <1>6, <1>7 DEF JInv, FramesFit
<1>10. ASSUME y.tag = "PUT" PROVE remote'[y.paths[1]] = remote[y.paths[1]]
  <2>1. x = y /\ y.paths[1] \in Paths
        BY <1>7, <1>8, <1>10, ThinnerKeeps, FrameKinds
  <2>2. FaithfulPut(y, y.paths[1], walk, remote, versions, Unedited)
        BY <1>9, <1>10 DEF Faithful
  <2>3. walk[y.paths[1]].kind \in {"link", "file"}
        BY <2>2 DEF FaithfulPut
  <2>4. k \in 1..Len(Rest(toAgent)) /\ Rest(toAgent)[k] = y /\ Rest(toAgent)[k].tag = "PUT"
        BY <1>3, <1>4, <1>6, <1>10, <2>1
  <2>5. Ordering(toAgent)
        BY DEF JInv, IInv
  <2>6. toAgent[1].tag = "PUT" => toAgent[1].paths[1] # y.paths[1]
        BY <1>2, <2>4, <2>5, OthersPut
  <2>7. f.tag = "PUT" => y.paths[1] # p
        BY <2>6 DEF Turn
  <2>8. QED
        BY <1>1, <2>1, <2>3, <2>7, ChangeSpares
<1>11. Faithful(x, walk, list, remote', versions, Unedited)
       BY <1>7, <1>8, <1>9, <1>10, FaithfulStays
<1>12. QED
       BY <1>4, <1>6, <1>11

\* What keeps a directory keeps the one above it.
LEMMA KeptAbove ==
  ASSUME NEW p \in Paths, NEW c \in Paths, Len(c) > 1, Front(c) = p, Kept(c)
  PROVE  Kept(p)
<1>1. PICK q \in Paths : IsPrefix(c, q) /\ IsExcluded(q) /\ remote[q] # Absent
      BY DEF Kept
<1>2. /\ Len(p) = Len(c) - 1 /\ p = SubSeq(c, 1, Len(c) - 1)
      /\ q \in Seq(STRING) /\ p \in Seq(STRING) /\ c \in Seq(STRING)
      /\ Len(q) \in Nat /\ Len(c) \in Nat /\ SubSeq(p, 1, Len(p)) = p /\ SubSeq(c, 1, Len(c)) = c
      BY FrontOfPath, PathParts, SubSeqFull
<1>3. Len(c) <= Len(q) /\ c = SubSeq(q, 1, Len(c))
      BY <1>1, <1>2 DEF IsPrefix
<1>4. PICK n : n = Len(c) - 1
      OBVIOUS
<1>5. SubSeq(SubSeq(q, 1, Len(c)), 1, n) = SubSeq(q, 1, n)
  <2>1. n \in 0..Len(c) /\ Len(c) \in 0..Len(q)
        BY <1>2, <1>3, <1>4
  <2>2. QED
        BY <1>2, <2>1, PartOfPart
<1>6. p = SubSeq(q, 1, n)
      BY <1>2, <1>3, <1>4, <1>5
<1>7. IsPrefix(p, q)
      BY <1>2, <1>3, <1>4, <1>6 DEF IsPrefix
<1>8. QED
      BY <1>1, <1>7 DEF Kept

LEMMA PrefixOfSelf == ASSUME NEW p \in Paths PROVE IsPrefix(p, p)
<1>1. Len(p) \in Nat
      BY PathParts
<1>2. QED
      BY <1>1 DEF IsPrefix

\* Nothing excluded is touched.
LEMMA TurnKeeps ==
  ASSUME JInv, NEW f, NEW p, NEW ok, Turn(f, p, ok), Calm, NEW q \in Paths, Kept(q)
  PROVE  Kept(q)'
<1>1. PICK x \in Paths : IsPrefix(q, x) /\ IsExcluded(x) /\ remote[x] # Absent
      BY DEF Kept
<1>2. p \in Paths /\ ~ IsExcluded(p) /\ Delivered(f, p, remote, remote', ok)
      BY DEF Turn
<1>3. x \notin UpTo(p)
      BY <1>1, <1>2, NotExcludedAbove
<1>4. remote'[x] = remote[x]
      BY <1>1, <1>2, <1>3 DEF Delivered
<1>5. QED
      BY <1>1, <1>4 DEF Kept

\* A directory that stays has something excluded in it: what was walked away came first.
LEMMA DeleteKeeps ==
  ASSUME JInv, NEW f, NEW p, NEW ok, Turn(f, p, ok), Calm, f.tag = "DELETE", cpc # "failed",
         remote'[p] # Absent
  PROVE  Kept(p)'
<1>1. /\ toAgent \in Seq(AgentFrame) /\ 1 \in 1..Len(toAgent) /\ f = toAgent[1] /\ f \in AgentFrame
      /\ p \in Paths /\ p = f.paths[1] /\ WellFormed(remote) /\ apc = "serve"
      /\ cpc \in {"sigs", "send", "await", "failed"}
      /\ Watched /\ ~ IsExcluded(p) /\ Delivered(f, p, remote, remote', ok)
      BY DEF Turn
<1>2. cpc = "await"
      BY <1>1 DEF JInv, IInv, Stages
<1>3. /\ walk[p] = Absent
      /\ remote[p] = Dir /\ Children(remote, p) # {}
      BY <1>1, TurnAbout DEF Delivered
<1>4. PICK c \in Paths : c \in Children(remote, p)
      BY <1>3 DEF Children
<1>5. Len(c) > 1 /\ Front(c) = p /\ remote[c] # Absent /\ p \in Above(c) /\ Len(c) = Len(p) + 1
  <2>1. Len(c) > 1 /\ Front(c) = p /\ remote[c] # Absent
        BY <1>1, <1>4, ChildOf
  <2>2. Len(c) \in Nat /\ Len(p) \in Nat
        BY <1>1, PathParts
  <2>3. QED
        BY <2>1, <2>2, FrontOfPath
<1>6. Kept(p)
  <2>1. CASE IsExcluded(c)
    <3>1. Kept(c)
          BY <1>5, <2>1, PrefixOfSelf DEF Kept
    <3>2. QED
          BY <1>1, <1>5, <3>1, KeptAbove
  <2>2. CASE ~ IsExcluded(c)
    <3>1. walk[c] = Absent
          BY <1>3, <1>5, DirIsThere DEF JInv, Shapes, Shape
    <3>2. Walk(remote)[c] # Absent
          BY <1>1, <1>5, <2>2, SeenKind
    <3>3. walk[c].kind = "none"
          BY <3>1, MakesEntries
    <3>4. Kept(c) \/ Named("DELETE", toAgent, c)
          BY <1>1, <1>2, <3>1, <3>2, <3>3 DEF JInv, Pending, Fits, Unverified
    <3>5. ASSUME Named("DELETE", toAgent, c) PROVE FALSE
      <4>1. PICK k \in 1..Len(toAgent) :
              toAgent[k].tag = "DELETE" /\ \E i \in 1..Len(toAgent[k].paths) : toAgent[k].paths[i] = c
            BY <3>5 DEF Named
      <4>2. Lines(toAgent)
            BY <1>1 DEF JInv, Ends
      <4>3. k = 1 /\ DeepestFirst(f.paths)
            BY <1>1, <4>1, <4>2 DEF Lines
      <4>4. PICK i \in 1..Len(f.paths) : f.paths[i] = c
            BY <1>1, <4>1, <4>3
      <4>5. Len(f.paths) \in Nat /\ Len(p) \in Nat /\ Len(c) \in Nat
            BY <1>1, FrameKinds, LenProperties, PathParts
      <4>6. i # 1
            BY <1>1, <1>5, <4>4, <4>5
      <4>7. 1 \in 1..Len(f.paths) /\ 1 < i
            BY <4>4, <4>5, <4>6
      <4>8. Len(p) >= Len(c)
            BY <1>1, <4>3, <4>4, <4>7 DEF DeepestFirst
      <4>9. QED
            BY <1>5, <4>5, <4>8
    <3>6. QED
          BY <1>1, <1>5, <3>4, <3>5, KeptAbove
  <2>3. QED
        BY <2>1, <2>2
<1>7. QED
      BY <1>1, <1>6, TurnKeeps

LEMMA ChangePending ==
  ASSUME JInv, NEW f, NEW p, NEW ok, Turn(f, p, ok)
  PROVE  Pending'
<1>1. PICK g : g = Rest(toAgent)
      OBVIOUS
<1> SUFFICES ASSUME Watched', cpc # "failed", NEW q \in Paths
             PROVE  \/ Fits(walk[q], Walk(remote')[q], versions[q], lag, Unedited)
                    \/ walk[q].kind = "dir" /\ Named("MKDIR", g, q)
                    \/ walk[q].kind \in {"link", "file"} /\ (Among(sends, q) \/ Named("PUT", g, q))
                    \/ walk[q].kind = "file" /\ Among(check, q)
                    \/ /\ walk[q].kind = "file" /\ Len(walk[q].data) > VerifyMax
                       /\ SameEntry(walk[q], list[q]) /\ Walk(remote')[q] = list[q]
                    \/ walk[q].kind = "none" /\ (cpc \in {"sigs", "send"} \/ Kept(q)' \/ Named("DELETE", g, q))
  <2>1. Watched' => ok
        BY TurnKeepsClient
  <2>2. ok => toAgent' = g
        BY <1>1 DEF Turn
  <2>3. QED
        BY <2>1, <2>2, TurnKeepsClient DEF Pending, Unverified
<1>2. ok /\ Calm /\ Watched
      BY TurnKeepsClient DEF Watched, Turn
<1>3. /\ toAgent \in Seq(AgentFrame) /\ toAgent # <<>> /\ f = toAgent[1] /\ p = f.paths[1]
      /\ f.tag \in {"MKDIR", "DELETE", "PUT"}
      BY DEF Turn
<1>4. CASE remote'[q] # remote[q] \/ (q = p /\ f.tag # "DELETE")
      BY <1>2, <1>4, ChangedFits
<1>5. CASE remote'[q] = remote[q] /\ ~ (q = p /\ f.tag # "DELETE")
  <2>1. Walk(remote')[q] = Walk(remote)[q]
        BY <1>5, SeenSame
  <2>2. \/ Fits(walk[q], Walk(remote)[q], versions[q], lag, Unedited)
        \/ walk[q].kind = "dir" /\ Named("MKDIR", toAgent, q)
        \/ walk[q].kind \in {"link", "file"} /\ (Among(sends, q) \/ Named("PUT", toAgent, q))
        \/ walk[q].kind = "file" /\ Among(check, q)
        \/ Unverified(q)
        \/ walk[q].kind = "none" /\ (cpc \in {"sigs", "send"} \/ Kept(q) \/ Named("DELETE", toAgent, q))
        BY <1>2 DEF JInv, Pending
  <2>3. \A tag \in {"MKDIR", "PUT"} : Named(tag, toAgent, q) => Named(tag, g, q)
        BY <1>1, <1>3, <1>5, RestNames
  <2>4. Named("DELETE", toAgent, q) => Named("DELETE", g, q) \/ (f.tag = "DELETE" /\ q = p)
        BY <1>1, <1>3, RestNames
  <2>5. Kept(q) => Kept(q)'
        BY <1>2, TurnKeeps
  <2>6. Unverified(q) =>
          /\ walk[q].kind = "file" /\ Len(walk[q].data) > VerifyMax
          /\ SameEntry(walk[q], list[q]) /\ Walk(remote')[q] = list[q]
        BY <2>1 DEF Unverified
  <2>7. ASSUME f.tag = "DELETE", q = p, walk[q].kind = "none"
        PROVE  \/ Fits(walk[q], Walk(remote')[q], versions[q], lag, Unedited)
               \/ Kept(q)'
    <3>1. CASE remote'[p] # Absent
          BY <1>2, <2>7, <3>1, DeleteKeeps
    <3>2. CASE remote'[p] = Absent
      <4>1. WellFormed(remote') /\ ~ IsExcluded(p)
            BY <1>2 DEF Turn
      <4>2. Walk(remote')[q] = Absent
            BY <2>7, <3>2, <4>1, SeenKind
      <4>3. walk[q] = Absent
            BY <1>2, <2>7, TurnAbout
      <4>4. QED
            BY <4>2, <4>3, MakesEntries DEF Fits
    <3>3. QED
          BY <3>1, <3>2
  <2>8. QED
        BY <2>1, <2>2, <2>3, <2>4, <2>5, <2>6, <2>7
<1>6. QED
      BY <1>4, <1>5

LEMMA ChangeInSteps ==
  ASSUME JInv, NEW f, NEW p, NEW ok, Turn(f, p, ok)
  PROVE  InSteps'
<1>1. /\ UNCHANGED <<local, lag, versions, cpc, walk, list, sends, quiet, settled>>
      /\ apc = "serve" /\ Working
      BY DEF Turn, client
<1>2. cpc # "list"
      BY <1>1 DEF JInv, IInv, Stages, Turn
<1> SUFFICES ASSUME settled
             PROVE  InSteps'
    BY <1>1 DEF InSteps
<1>3. /\ quiet /\ \A q \in Paths : InStep(Walk(local)[q], Walk(remote)[q])
      /\ \A q \in Paths : InStep(walk[q], list[q])
      /\ cpc \in {"sigs", "send", "await"} => \A k \in 1..Len(sends) : sends[k] \in ToSend(list)
      BY <1>1 DEF JInv, InSteps
<1>4. Calm /\ Unedited
      BY <1>3, InStepNoClash DEF Calm, Unedited
<1>5. cpc # "idle" /\ walk = Walk(local)
  <2>1. cpc # "idle"
        BY <1>1 DEF JInv, IInv, Stages
  <2>2. QED
        BY <1>4, <2>1 DEF JInv, Copies
<1>6. ASSUME NEW q \in Paths PROVE InStep(Walk(local)[q], Walk(remote')[q])
  <2>1. CASE remote'[q] = remote[q]
    <3>1. Walk(remote')[q] = Walk(remote)[q]
          BY <2>1, SeenSame
    <3>2. QED
          BY <1>3, <3>1
  <2>2. CASE remote'[q] # remote[q]
    <3>1. ok
          BY <1>4, <2>2 DEF Turn, Delivered
    <3>2. Fits(walk[q], Walk(remote')[q], versions[q], lag, Unedited)
          BY <1>4, <2>2, <3>1, ChangedFits
    <3>3. WellFormed(remote') /\ walk[q] \in Entry /\ lag \in Nat
      <4>1. WellFormed(remote')
            BY DEF Turn
      <4>2. QED
            BY <4>1, ContentsAssumption DEF JInv, IInv, Types, Listing, Walkable
    <3>4. Walk(remote')[q] \in Entry
          BY <3>3, SeenAt
    <3>5. Fits(walk[q], Walk(remote')[q], versions[q], lag, TRUE)
          BY <1>4, <3>2 DEF Fits
    <3>6. InStep(walk[q], Walk(remote')[q])
          BY <3>3, <3>4, <3>5, FitIsInStep
    <3>7. QED
          BY <1>5, <3>6
  <2>3. QED
        BY <2>1, <2>2
<1>7. \A q \in Paths : InStep(Walk(local)[q], Walk(remote)[q])'
      BY <1>1, <1>6 DEF InStep
<1>8. \A q \in Paths : InStep(walk[q], list[q])'
      BY <1>1, <1>3 DEF InStep
<1>9. ToSend(list)' = ToSend(list)
      BY <1>1 DEF ToSend, Missing, MkDirs, Differing, OnBoth
<1>10. QED
       BY <1>1, <1>2, <1>3, <1>7, <1>8, <1>9 DEF InSteps

\* What a PUT carries of a file is no longer than what it makes of it.
LEMMA CarriesNoMore ==
  ASSUME NEW f \in AgentFrame, f.tag = "PUT", f.entry.kind = "file", NEW r, NEW d, d = Made(f, r),
         d \in Seq(Blocks)
  PROVE  Payload(f) \in Nat /\ Payload(f) <= Len(d)
<1>1. CASE f.delta = <<>>
  <2>1. Payload(f) = Len(d) /\ Len(d) \in Nat
        BY <1>1, LenProperties DEF Payload, Made
  <2>2. QED
        BY <2>1
<1>2. CASE f.delta # <<>>
  <2>1. f.delta \in Seq(Op)
        BY FrameKinds
  <2>2. PICK n \in Nat : n = Len(f.delta)
        BY <2>1, LenProperties
  <2>3. Len(d) = n
    <3>1. d = [i \in 1..n |-> IF f.delta[i].op = "copy" THEN r[f.paths[1]].data[f.delta[i].ix]
                              ELSE f.delta[i].block]
          BY <1>2, <2>2 DEF Made, Patch
    <3>2. DOMAIN d = 1..n
          BY <3>1
    <3>3. DOMAIN d = 1..Len(d) /\ Len(d) \in Nat
          BY LenProperties
    <3>4. QED
          BY <2>2, <3>2, <3>3
  <2>4. PICK S : S = {i \in 1..n : f.delta[i].op = "literal"}
        OBVIOUS
  <2>5. IsFiniteSet(1..n) /\ Cardinality(1..n) = n
    <3>1. 1 \in Int /\ n \in Int /\ (IF 1 > n THEN 0 ELSE n - 1 + 1) = n
          OBVIOUS
    <3>2. IsFiniteSet(1..n) /\ Cardinality(1..n) = IF 1 > n THEN 0 ELSE n - 1 + 1
          BY <3>1, FS_Interval, Zenon
    <3>3. QED
          BY <3>1, <3>2
  <2>6. S \subseteq 1..n
        BY <2>4
  <2>7. Cardinality(S) \in Nat /\ Cardinality(S) <= n
        BY <2>5, <2>6, FS_Subset, FS_CardinalityType
  <2>8. Payload(f) = Cardinality(S)
        BY <1>2, <2>2, <2>4 DEF Payload, Literals
  <2>9. QED
        BY <2>3, <2>7, <2>8
<1>3. QED
      BY <1>1, <1>2

\* A frame that fails, when nobody else writes and nothing changed its kind: it is a link
\* that leaves the tree or comes before the root, or it is too large.
LEMMA TurnFails ==
  ASSUME JInv, NEW f, NEW p, NEW ok, Turn(f, p, ok), Calm, still, cpc # "failed", ~ ok
  PROVE  (LeavesRoot \/ TooLong \/ LinkFirst) /\ (rooted' <=> rooted)
<1>1. /\ toAgent \in Seq(AgentFrame) /\ 1 \in 1..Len(toAgent) /\ f = toAgent[1] /\ f \in AgentFrame
      /\ f.tag \in {"MKDIR", "DELETE", "PUT"} /\ p \in Paths
      /\ p = f.paths[1] /\ WellFormed(remote) /\ apc = "serve"
      /\ cpc \in {"sigs", "send", "await", "failed"}
      /\ Watched /\ ~ IsExcluded(p) /\ Delivered(f, p, remote, remote', ok)
      BY DEF Turn
<1>2. f.tag = "PUT"
      BY <1>1 DEF Delivered
<1>3. Due(walk, list, p) /\ FaithfulPut(f, p, walk, remote, versions, Unedited) /\ Unedited
      BY <1>2, TurnAbout DEF Unedited
<1>4. walk[p].kind \in {"link", "file"} /\ f.entry.kind = walk[p].kind
      BY <1>3 DEF FaithfulPut
<1>5. ASSUME NEW q \in Above(p) PROVE remote[q] = Dir
  <2>1. walk[q] = Dir /\ q \in Paths
        BY <1>1, <1>2, TurnAbout, AbovePath
  <2>2. ~ IsExcluded(q)
        BY <1>1, AbovePath, NotExcludedAbove
  <2>3. walk[q].kind = "dir"
        BY <2>1, MakesEntries
  <2>4. ~ Named("MKDIR", toAgent, q)
    <3>1. SUFFICES ASSUME NEW k \in 1..Len(toAgent), toAgent[k].tag = "MKDIR" PROVE FALSE
          BY DEF Named
    <3>2. Lines(toAgent)
          BY <1>1 DEF JInv, Ends
    <3>3. k = 1
          BY <3>1, <3>2 DEF Lines
    <3>4. QED
          BY <1>1, <1>2, <3>1, <3>3
  <2>5. Fits(walk[q], Walk(remote)[q], versions[q], lag, Unedited)
        BY <1>1, <2>1, <2>3, <2>4 DEF JInv, Pending, Unverified
  <2>6. Walk(remote)[q] = Dir
        BY <2>1, <2>3, <2>5 DEF Fits
  <2>7. QED
        BY <1>1, <2>1, <2>2, <2>6, SeenKind
<1>6. rooted' <=> rooted
  <2>1. remote' = remote
        BY <1>1 DEF Delivered
  <2>2. QED
        BY <2>1 DEF Turn, MakeRoot
<1>7. /\ p \in ToSend(list) \cup ToVerify(list)
      /\ walk[p].kind = "link" => p \in ToSend(list)
  <2>1. walk[p] # Absent /\ walk[p] # Dir
        BY <1>4, MakesEntries
  <2>2. CASE list[p] = Absent
        BY <1>1, <2>1, <2>2 DEF ToSend, Missing, MkDirs
  <2>3. CASE list[p] # Absent /\ ~ SameEntry(walk[p], list[p])
        BY <1>1, <2>1, <2>3 DEF ToSend, Differing, OnBoth
  <2>4. CASE list[p] # Absent /\ SameEntry(walk[p], list[p])
    <3>1. walk[p].kind = "file" /\ Len(walk[p].data) \in 1..VerifyMax
          BY <1>3, <2>4 DEF Due
    <3>2. QED
          BY <1>1, <2>1, <2>4, <3>1 DEF ToVerify, Differing, OnBoth
  <2>5. QED
        BY <2>2, <2>3, <2>4
<1>8. CASE walk[p].kind = "link"
  <2>1. f.entry = walk[p]
        BY <1>3, <1>8 DEF FaithfulPut
  <2>2. walk[p].to = Escape \/ (~ (Len(p) > 1) /\ ~ rooted)
        BY <1>1, <1>2, <1>5, <1>8, <2>1 DEF Delivered
  <2>3. CASE walk[p].to = Escape
    <3>1. walk[p] \in Entry
          BY <1>1 DEF JInv, IInv, Types, Listing, Walkable
    <3>2. walk[p] = Link(Escape)
          BY <1>8, <2>3, <3>1, EntryKinds
    <3>3. QED
          BY <1>1, <1>6, <3>2 DEF LeavesRoot
  <2>4. CASE ~ (Len(p) > 1) /\ ~ rooted
    <3>1. Len(p) = 1
          BY <1>1, <2>4, OneName
    <3>2. LinkFirst
          BY <1>7, <1>8, <2>4, <3>1 DEF LinkFirst
    <3>3. QED
          BY <1>6, <3>2
  <2>5. QED
        BY <2>2, <2>3, <2>4
<1>9. CASE walk[p].kind = "file"
  <2>1. PICK d : d = walk[p].data
        OBVIOUS
  <2>2. d = Made(f, remote) /\ f.len = Len(d) /\ f.entry.kind = "file"
        BY <1>3, <1>4, <1>9, <2>1 DEF FaithfulPut
  <2>3. ~ Receivable(f)
        BY <1>1, <1>2, <1>4, <1>9, <2>2 DEF Delivered
  <2>4. d \in Seq(Blocks)
    <3>1. walk[p] \in Entry
          BY <1>1 DEF JInv, IInv, Types, Listing, Walkable
    <3>2. QED
          BY <1>9, <2>1, <3>1, EntryKinds
  <2>5. Payload(f) \in Nat /\ Payload(f) <= Len(d) /\ Len(d) \in Nat
        BY <1>1, <1>2, <2>2, <2>4, CarriesNoMore, LenProperties
  <2>6. ~ (Payload(f) <= MaxFrame) /\ MaxFrame \in Nat
        BY <2>3, ContentsAssumption DEF Receivable
  <2>7. Len(walk[p].data) > MaxFrame
        BY <2>1, <2>5, <2>6
  <2>8. TooLong
        BY <1>7, <1>9, <2>7 DEF TooLong
  <2>9. QED
        BY <1>6, <2>8
<1>10. QED
       BY <1>4, <1>8, <1>9

LEMMA ChangeFailures ==
  ASSUME JInv, NEW f, NEW p, NEW ok, Turn(f, p, ok)
  PROVE  Failures'
<1>1. /\ UNCHANGED <<local, cpc, walk, list, quiet, still>>
      /\ apc = "serve" /\ cpc \in {"sigs", "send", "await", "failed"}
      /\ apc' \in {"serve", "gone"} /\ (apc' = "gone" => ~ ok)
      BY DEF Turn, client
<1>2. /\ (Early' <=> Early) /\ (KindClash' <=> KindClash) /\ (LeavesRoot' <=> LeavesRoot)
      /\ (TooLong' <=> TooLong)
      BY <1>1 DEF Early, KindClash, BeforeEpoch, LeavesRoot, TooLong, ToSend, ToVerify, Missing,
                  OnBoth, Differing, MkDirs
<1>3. (rooted' <=> rooted) => (LinkFirst' <=> LinkFirst)
      BY <1>1 DEF LinkFirst, ToSend, Missing, OnBoth, Differing, MkDirs
<1>4. ASSUME still, quiet, cpc = "failed" PROVE Early'
      BY <1>1, <1>2, <1>4 DEF JInv, Failures
<1>5. Early' => Reasons'
      BY DEF Early, Reasons
<1>6. ASSUME still, quiet, cpc # "failed", ~ ok PROVE Reasons'
  <2>1. CASE Clash(walk, list) # {}
        BY <1>2, <2>1 DEF Reasons, KindClash
  <2>2. CASE Clash(walk, list) = {}
    <3>1. Calm
          BY <1>6, <2>2 DEF Calm
    <3>2. (LeavesRoot \/ TooLong \/ LinkFirst) /\ (rooted' <=> rooted)
          BY <1>6, <3>1, TurnFails
    <3>3. QED
          BY <1>2, <1>3, <3>2 DEF Reasons
  <2>3. QED
        BY <2>1, <2>2
<1>7. QED
      BY <1>1, <1>4, <1>5, <1>6 DEF Failures

LEMMA ChangeGoesOn == JInv /\ IInv' /\ Change => JInv'
<1> SUFFICES ASSUME JInv, IInv', Change PROVE JInv'
    OBVIOUS
<1>1. PICK f, p, ok : Turn(f, p, ok)
      BY TurnOf
<1>2. /\ UNCHANGED <<local, now, lag, versions, cpc, walk, list, want, check, sigs, sends, reading,
                     quiet, still, settled>>
      /\ Unedited' = Unedited
      BY <1>1 DEF Turn, client, Unedited
<1>3. /\ toAgent \in Seq(AgentFrame) /\ toAgent # <<>> /\ toClient \in Seq(ClientFrame)
      /\ apc = "serve" /\ cpc \in {"sigs", "send", "await", "failed"} /\ Working
      /\ ok => toAgent' = Rest(toAgent) /\ apc' = "serve" /\ toClient' = toClient
      /\ ~ ok => /\ toAgent' = <<>> /\ apc' = "gone"
                 /\ toClient' = Append(toClient, [tag |-> "ERROR"])
      BY <1>1 DEF Turn
<1>4. \A k \in 1..Len(toClient') : \/ toClient'[k].tag = "ERROR"
                                   \/ k \in 1..Len(toClient) /\ toClient'[k] = toClient[k]
  <2>1. CASE ok
        BY <1>3, <2>1
  <2>2. CASE ~ ok
    <3>1. PICK e \in ClientFrame : e = [tag |-> "ERROR"]
          BY DEF ClientFrame
    <3>2. PICK n \in Nat : n = Len(toClient)
          BY <1>3, LenProperties
    <3>3. toClient' = Append(toClient, e) /\ e.tag = "ERROR"
          BY <1>3, <2>2, <3>1
    <3>4. /\ toClient'[n + 1] = e /\ \A k \in 1..n : toClient'[k] = toClient[k]
          /\ \A k \in 1..Len(toClient') : k \in 1..n \/ k = n + 1
          BY <1>3, <3>2, <3>3, AnswerMore
    <3>5. QED
          BY <3>2, <3>3, <3>4
  <2>3. QED
        BY <2>1, <2>2
<1>5. Shapes'
  <2>1. \A k \in 1..Len(toClient') : toClient'[k].tag = "LIST" =>
          \E j \in 1..Len(toClient) : toClient'[k] = toClient[j]
        BY <1>4
  <2>2. QED
        BY <1>2, <2>1, ShapesKept DEF JInv
<1>6. Times' /\ Copies'
      BY <1>2, TimesKept, CopiesKept DEF JInv
<1>7. FreshList'
      BY <1>2, <1>3 DEF FreshList
<1>8. Ends'
  <2>1. apc' = "serve" => Lines(toAgent')
        BY <1>3, RestLines DEF JInv, Ends
  <2>2. \A k \in 1..Len(toClient') : toClient'[k].tag # "DONE"
        BY <1>3, <1>4 DEF JInv, Ends
  <2>3. apc' # "idle" /\ cpc # "done"
        BY <1>3
  <2>4. QED
        BY <1>2, <2>1, <2>2, <2>3 DEF JInv, Ends
<1>9. Drawn'
      BY <1>2, DrawnKept DEF JInv
<1>10. Signed'
  <2>1. Calm' <=> Calm
        BY <1>2 DEF Calm
  <2>2. Calm /\ cpc = "sigs" => SigOf(toClient', want \o check, list)
        BY <1>4 DEF JInv, Signed, SigOf
  <2>3. QED
        BY <1>2, <2>1, <2>2 DEF JInv, Signed
<1>11. Between' /\ Untouched' /\ FramesFit' /\ Pending'
       BY <1>1, ChangeBetween, ChangeUntouched, ChangeFrames, ChangePending
<1>12. InSteps' /\ Failures'
       BY <1>1, ChangeInSteps, ChangeFailures
<1>13. QED
       BY <1>5, <1>6, <1>7, <1>8, <1>9, <1>10, <1>11, <1>12 DEF JInv

-----------------------------------------------------------------------------
(***************************************************************************)
(* The second invariant is one; what a success and a failure mean.         *)
(***************************************************************************)

LEMMA InitGoesOn == Init => JInv
<1> SUFFICES ASSUME Init PROVE JInv
    OBVIOUS
<1>1. PICK t \in Starts : local = t.local /\ now = t.now
      BY DEF Init
<1>2. \A p \in Paths : local[p].kind = "file" => local[p].mtime <= now
      BY <1>1, StartsAssumption
<1>3. /\ cpc = "idle" /\ apc = "off" /\ walk = NoTree /\ list = NoTree
      /\ want = <<>> /\ check = <<>> /\ sends = <<>> /\ reading = Shut
      /\ toAgent = <<>> /\ toClient = <<>> /\ settled = FALSE
      BY DEF Init
<1>4. IInv
      BY InitIInv
<1>5. \A p \in Paths : walk[p] = Absent /\ list[p] = Absent /\ Absent.kind = "none"
      BY <1>3, MakesEntries DEF NoTree
<1>6. \A k \in 1..Len(toClient) : FALSE
      BY <1>3, EmptyFrames
<1>7. Shapes /\ Times
      BY <1>2, <1>5, <1>6 DEF Shapes, Shape, Times
<1>8. Copies /\ FreshList /\ Ends /\ Drawn /\ Signed
      BY <1>3, <1>6 DEF Copies, FreshList, Ends, Drawn, Signed
<1>9. ~ Watched /\ ~ Working
      BY <1>3 DEF Watched, Working
<1>10. Between /\ Untouched /\ FramesFit /\ Pending
       BY <1>9 DEF Between, Untouched, FramesFit, Pending
<1>11. InSteps /\ Failures
       BY <1>3 DEF InSteps, Failures
<1>12. QED
       BY <1>4, <1>7, <1>8, <1>10, <1>11 DEF JInv

LEMMA TickGoesOn == JInv /\ IInv' /\ Tick => JInv'
<1> SUFFICES ASSUME JInv, IInv', Tick PROVE JInv'
    OBVIOUS
<1>1. now \in Int
      BY ContentsAssumption DEF JInv, IInv, Types
<1>2. now <= now'
      BY <1>1 DEF Tick
<1>3. /\ UNCHANGED <<local, remote, rooted, lag, client, apc, toAgent, toClient, versions>>
      /\ (still' <=> still) /\ (quiet' <=> quiet) /\ (settled' <=> settled)
      BY DEF Tick, history
<1>4. QED
      BY <1>2, <1>3, TimePasses

LEMMA StutterGoesOn == JInv /\ IInv' /\ UNCHANGED vars => JInv'
<1> SUFFICES ASSUME JInv, IInv', UNCHANGED vars PROVE JInv'
    OBVIOUS
<1>1. now \in Int
      BY ContentsAssumption DEF JInv, IInv, Types
<1>2. now <= now'
      BY <1>1 DEF vars, world
<1>3. /\ UNCHANGED <<local, remote, rooted, lag, client, apc, toAgent, toClient, versions>>
      /\ (still' <=> still) /\ (quiet' <=> quiet) /\ (settled' <=> settled)
      BY DEF vars, world, history
<1>4. QED
      BY <1>2, <1>3, TimePasses

LEMMA NextGoesOn == JInv /\ [Next]_vars => JInv'
<1> SUFFICES ASSUME JInv, [Next]_vars PROVE JInv'
    OBVIOUS
<1>1. IInv'
      BY NextKeeps DEF JInv
<1>2. CASE Start BY <1>1, <1>2, StartGoesOn
<1>3. CASE Plan BY <1>1, <1>3, PlanGoesOn
<1>4. CASE CollectSig BY <1>1, <1>4, CollectSigGoesOn
<1>5. CASE OpenToVerify BY <1>1, <1>5, OpenToVerifyGoesOn
<1>6. CASE Verify BY <1>1, <1>6, VerifyGoesOn
<1>7. CASE OpenToSend BY <1>1, <1>7, OpenToSendGoesOn
<1>8. CASE Send BY <1>1, <1>8, SendGoesOn
<1>9. CASE Finish BY <1>1, <1>9, FinishGoesOn
<1>10. CASE Succeed BY <1>1, <1>10, SucceedGoesOn
<1>11. CASE Fail BY <1>1, <1>11, FailGoesOn
<1>12. CASE Again BY <1>1, <1>12, AgainGoesOn
<1>13. CASE List BY <1>1, <1>13, ListGoesOn
<1>14. CASE AnswerSig BY <1>1, <1>14, AnswerSigGoesOn
<1>15. CASE Change BY <1>1, <1>15, ChangeGoesOn
<1>16. CASE Conclude BY <1>1, <1>16, ConcludeGoesOn
<1>17. CASE StrayStep BY <1>1, <1>17, StrayGoesOn
<1>18. CASE \E p \in Paths : LocalEdit(p) BY <1>1, <1>18, LocalEditGoesOn
<1>19. CASE \E p \in Paths : RemoteEdit(p) BY <1>1, <1>19, RemoteEditGoesOn
<1>20. CASE Tick BY <1>1, <1>20, TickGoesOn
<1>21. CASE Break BY <1>1, <1>21, BreakGoesOn
<1>22. CASE AgentDies BY <1>1, <1>22, AgentDiesGoesOn
<1>23. CASE UNCHANGED vars BY <1>1, <1>23, StutterGoesOn
<1>24. QED
       BY <1>2, <1>3, <1>4, <1>5, <1>6, <1>7, <1>8, <1>9, <1>10, <1>11, <1>12, <1>13, <1>14, <1>15,
          <1>16, <1>17, <1>18, <1>19, <1>20, <1>21, <1>22, <1>23
       DEF Next, ClientStep, AgentStep

\* From the LIST to the DONE every path of the remote tree is as it was listed or as it was
\* walked, every frame in flight brings what was walked, and whatever is not yet as it was
\* walked is still planned, on its way, or to be kept (Agent::sync and serve_sync).
THEOREM SecondInvariant == Spec => []JInv
<1>1. Init => JInv
      BY InitGoesOn
<1>2. JInv /\ [Next]_vars => JInv'
      BY NextGoesOn
<1>3. QED
      BY <1>1, <1>2, PTL DEF Spec

\* A sync that reports success, with nobody else writing on the remote, leaves the remote
\* tree as the client walked its own: what differed or looked unchanged was planned, what
\* was planned was sent against the signature of what the agent still held, and what was
\* deleted went children first (Agent::sync, write_file_atomic, and the DELETE arm).
THEOREM SuccessMirrorsHolds == Spec => []SuccessMirrors
<1>1. JInv => SuccessMirrors
  <2> SUFFICES ASSUME JInv, cpc = "done", quiet, ~ KindClash, NEW p \in Paths
               PROVE  Mirrors(p)
      BY DEF SuccessMirrors
  <2>1. apc = "idle"
        BY DEF JInv, Ends
  <2>2. Watched
        BY <2>1 DEF Watched, Calm, KindClash
  <2>3. PICK w, r, l : w = walk[p] /\ r = Walk(remote)[p] /\ l = list[p]
        OBVIOUS
  <2>4. w \in Entry /\ w.kind \in {"none", "file", "dir", "link"} /\ (w.kind = "none" => w = Absent)
    <3>1. w \in Entry
          BY <2>3 DEF JInv, IInv, Types, Listing, Walkable
    <3>2. QED
          BY <3>1, EntryKinds
  <2>5. \/ Fits(w, r, versions[p], lag, Unedited)
        \/ w.kind = "file" /\ Len(w.data) > VerifyMax /\ SameEntry(w, l) /\ r = l
        \/ w.kind = "none" /\ Kept(p)
        BY <2>1, <2>2, <2>3, AllDone DEF Unverified
  <2>6. CASE w.kind = "none"
        BY <2>3, <2>4, <2>5, <2>6 DEF Fits, Mirrors
  <2>7. CASE w.kind \in {"dir", "link"}
        BY <2>3, <2>5, <2>7 DEF Fits, Mirrors
  <2>8. CASE w.kind = "file"
    <3>1. /\ r.kind = "file" /\ (lag = 0 => r.mtime = w.mtime)
          /\ Bare(r) \in versions[p] \/ (Len(w.data) > VerifyMax /\ r = l)
          BY <2>5, <2>8 DEF Fits, SameEntry
    <3>2. still /\ Len(w.data) <= VerifyMax => r.data = w.data
      <4>1. Len(w.data) \in Nat /\ VerifyMax \in Nat
            BY <2>4, <2>8, EntryKinds, LenProperties, ContentsAssumption
      <4>2. ~ (Len(w.data) <= VerifyMax /\ Len(w.data) > VerifyMax)
            BY <4>1
      <4>3. QED
            BY <2>5, <2>8, <4>2 DEF Fits, Unedited
    <3>3. QED
          BY <2>3, <2>8, <3>1, <3>2 DEF Mirrors
  <2>9. QED
        BY <2>4, <2>6, <2>7, <2>8
<1>2. QED
      BY <1>1, SecondInvariant, PTL

\* A sync during which nobody edits and nothing breaks only fails for one of five reasons,
\* whatever an earlier sync left behind: a path that is a directory on one side and none on
\* the other, a link that leaves the tree, a file of before 1970, a file to be sent that may
\* not fit a frame, or a link at the top to be made when the remote root is missing (the
\* errors of Agent::sync, check_sig_size, read_for_send, read_frame and apply_put).
THEOREM UndisturbedSucceedsHolds == Spec => []UndisturbedSucceeds
<1>1. JInv => UndisturbedSucceeds
      BY DEF JInv, Failures, Reasons, Early, UndisturbedSucceeds
<1>2. QED
      BY <1>1, SecondInvariant, PTL

\* After a sync that succeeded, when nothing was edited since, the next one has nothing to
\* send and nothing to delete: what write_file_atomic leaves is what same_entry takes as
\* unchanged, but for a time the remote clock had not reached, and directories that
\* excluded entries keep.
THEOREM SettledHolds == Spec => []Settled
<1>1. JInv => Settled
  <2> SUFFICES ASSUME JInv, settled, cpc \in Active \ {"list"}
               PROVE  /\ \A p \in ToSet(sends) : lag > 0 /\ list[p].mtime < walk[p].mtime
                      /\ \A p \in ToDelete(list) : list[p] = Dir
      BY DEF Settled
  <2>1. cpc \in {"sigs", "send", "await"} /\ Working
        BY DEF Active, Working
  <2>2. /\ \A p \in Paths : InStep(walk[p], list[p])
        /\ \A k \in 1..Len(sends) : sends[k] \in ToSend(list)
        BY <2>1 DEF JInv, InSteps
  <2>3. \A p \in Paths : list[p].kind = "none" <=> list[p] = Absent
        BY EntryKinds DEF JInv, IInv, Types, Listing, Walkable
  <2>4. \A p \in Paths : walk[p].kind = "none" <=> walk[p] = Absent
        BY EntryKinds DEF JInv, IInv, Types, Listing, Walkable
  <2>5. ASSUME NEW p \in ToSet(sends) PROVE lag > 0 /\ list[p].mtime < walk[p].mtime
    <3>1. p \in ToSend(list)
          BY <2>2 DEF ToSet
    <3>2. p \in Paths /\ walk[p] # Absent /\ ~ SameEntry(walk[p], list[p])
      <4>1. CASE p \in Missing(list)
            BY <2>3, <2>4, <4>1 DEF Missing, SameEntry
      <4>2. CASE p \in Differing(list)
            BY <4>2 DEF Differing, OnBoth
      <4>3. QED
            BY <3>1, <4>1, <4>2 DEF ToSend
    <3>3. QED
          BY <2>2, <3>2 DEF InStep
  <2>6. ASSUME NEW p \in ToDelete(list) PROVE list[p] = Dir
    <3>1. p \in Paths /\ walk[p] = Absent /\ list[p] # Absent
          BY DEF ToDelete
    <3>2. walk[p].kind = "none" /\ ~ SameEntry(walk[p], list[p])
          BY <2>3, <2>4, <3>1 DEF SameEntry
    <3>3. QED
          BY <2>2, <3>1, <3>2 DEF InStep
  <2>7. QED
        BY <2>5, <2>6
<1>2. QED
      BY <1>1, SecondInvariant, PTL

=============================================================================
