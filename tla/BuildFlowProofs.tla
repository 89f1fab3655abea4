-------------------------- MODULE BuildFlowProofs --------------------------
(***************************************************************************)
(* Proofs about TransferModes and BuildFlow, for any project, any remote   *)
(* directories and any number of runs: what a transfer that reports        *)
(* success has left on the remote, and what a build that does has built.   *)
(***************************************************************************)
EXTENDS BuildFlow, TLAPS

-----------------------------------------------------------------------------
(***************************************************************************)
(* The transfers, on their own: TransferModes.                             *)
(***************************************************************************)

LEMMA FoundType == IInv => Found \in Trees
  BY BoundsAssumption DEF IInv, TypeOK, Found, Trees

\* Of a transfer, the directory keeps a tree with versions of the goal or of
\* what was there, and the goal itself if the transfer succeeds.
LEMMA ArriveLeaves ==
  ASSUME IInv, NEW goal \in Trees, NEW ok \in BOOLEAN, Arrive(goal, ok)
  PROVE  /\ remote' \in [Dirs -> Trees \cup {NoDir}]
         /\ remote'[dir] \in Trees
         /\ \A d \in Dirs \ {dir} : remote'[d] = remote[d]
         /\ \A f \in Files : remote'[dir][f] \in {goal[f], Found[f]}
         /\ ok => remote'[dir] = goal
         /\ pc' = (IF ok THEN "done" ELSE "failed") /\ sent' = local
<1>1. Found \in Trees
  BY FoundType
<1>2. PICK part \in SUBSET Files :
        /\ ok => part = Files
        /\ remote' = [remote EXCEPT ![dir] =
             [f \in Files |-> IF f \in part THEN goal[f] ELSE Found[f]]]
  BY DEF Arrive
<1> DEFINE left == [f \in Files |-> IF f \in part THEN goal[f] ELSE Found[f]]
<1>3. left \in Trees
  BY <1>1 DEF Trees
<1>4. dir \in Dirs /\ remote \in [Dirs -> Trees \cup {NoDir}]
  BY DEF IInv, TypeOK
<1>5. remote'[dir] = left /\ remote' \in [Dirs -> Trees \cup {NoDir}]
  BY <1>2, <1>3, <1>4
<1>6. ok => left = goal
  BY <1>2 DEF Trees
<1>7. pc' = (IF ok THEN "done" ELSE "failed") /\ sent' = local
  BY DEF Arrive, Goto
<1>8. \A d \in Dirs \ {dir} : remote'[d] = remote[d]
  BY <1>2, <1>4
<1> QED
  BY <1>3, <1>5, <1>6, <1>7, <1>8

\* No more does it know of the future than what is there.
LEMMA FoundPast == IInv => \A f \in Files : Found[f] \in Nat /\ Found[f] <= edits
  BY BoundsAssumption DEF IInv, TypeOK, Past, Found, Trees

\* Versions up to the last stay what they are taken for, and zero is like no other.
LEMMA LookType ==
  IInv => \A v \in 0..edits : v \in 0..MaxEdits /\ look[v] \in Nat /\ look[v] <= v
                             /\ (look[v] = 0 <=> v = 0)
  BY BoundsAssumption DEF IInv, TypeOK, Past

\* A transfer that leaves the snapshot file alone keeps the invariant, if its
\* goal takes away no file that the project has, and is for the files that it
\* brings not told from the project.
LEMMA ArriveKeepsIInv ==
  ASSUME IInv, NEW goal \in Trees, NEW ok \in BOOLEAN, Arrive(goal, ok),
         \A f \in Files : goal[f] \in {local[f], Found[f]},
         \A f \in Files : via' = "delta" \/ (via' = "tar" /\ local[f] # 0) =>
                           look[goal[f]] = look[local[f]],
         via' \in {"delta", "tar", "inc"},
         UNCHANGED <<world, snar, platform, runs, dir, basis>>
  PROVE  IInv'
<1> USE DEF IInv, world
<1>1. TypeOK'
  BY ArriveLeaves DEF TypeOK
<1>4. Past'
  <2>1. ASSUME NEW d \in Dirs, NEW f \in Files, remote'[d] # NoDir
        PROVE  remote'[d][f] <= edits
    <3>1. CASE d = dir
      <4>1. local[f] <= edits /\ Found[f] <= edits
        BY FoundPast DEF Past
      <4>2. remote'[dir][f] \in {local[f], Found[f]}
        BY ArriveLeaves
      <4> QED
        BY <3>1, <4>1, <4>2
    <3>2. CASE d # dir
      BY <2>1, <3>2, ArriveLeaves DEF Past
    <3> QED
      BY <3>1, <3>2
  <2>2. sent' = local
    BY ArriveLeaves
  <2> QED
    BY <2>1, <2>2 DEF Past
<1>2. SnapshotBacked'
  <2> SUFFICES ASSUME basis # Nowhere
               PROVE  /\ remote'[basis] \in Trees
                      /\ \A f \in Files : local[f] # 0 /\ snar[f] = local[f]
                                            => remote'[basis][f] = local[f]
    BY DEF SnapshotBacked
  <2>1. /\ basis \in Dirs /\ remote[basis] \in Trees /\ snar \in Trees
        /\ \A f \in Files : local[f] # 0 /\ snar[f] = local[f]
                              => remote[basis][f] = local[f]
    BY DEF SnapshotBacked, TypeOK
  <2>2. CASE basis # dir
    BY <2>1, <2>2, ArriveLeaves
  <2>3. CASE basis = dir
    <3>2. ASSUME NEW f \in Files, local[f] # 0, snar[f] = local[f]
          PROVE  Found[f] = local[f]
      <4>1. remote[dir][f] = local[f] /\ remote[dir] \in Trees
        BY <2>1, <2>3, <3>2
      <4>2. remote[dir] # NoDir
        BY <4>1 DEF Trees, NoDir
      <4> QED
        BY <4>1, <4>2 DEF Found
    <3>3. \A f \in Files : remote'[dir][f] \in {local[f], Found[f]}
      BY ArriveLeaves
    <3>4. remote'[dir] \in Trees
      BY ArriveLeaves
    <3> QED
      BY <2>3, <3>2, <3>3, <3>4
  <2> QED
    BY <2>2, <2>3
<1>3. Landed'
  <2> SUFFICES ASSUME pc' = "done"
               PROVE  /\ remote'[dir] \in Trees
                      /\ \A f \in Files :
                           via' = "delta" \/ (via' = "tar" /\ sent'[f] # 0) =>
                             look[remote'[dir][f]] = look[sent'[f]]
    BY DEF Landed
  <2>1. remote'[dir] = goal /\ sent' = local
    BY ArriveLeaves
  <2> QED
    BY <2>1
<1> QED
  BY <1>1, <1>2, <1>3, <1>4

LEMMA InitIInv == Init => IInv /\ ChainIsExact
<1> SUFFICES ASSUME Init PROVE IInv /\ ChainIsExact
  OBVIOUS
<1>1. TypeOK
  BY BoundsAssumption DEF Init, TypeOK, Trees
<1>2. Past
  BY BoundsAssumption DEF Init, Past, NoSnar
<1>3. SnapshotBacked /\ Landed /\ ChainIsExact
  BY DEF Init, SnapshotBacked, Landed, ChainIsExact
<1> QED
  BY <1>1, <1>2, <1>3 DEF IInv

\* An edit says what its version is taken for: itself, or an earlier one.
EditLooks ==
  /\ look' \in [0..MaxEdits -> 0..MaxEdits]
  /\ \A v \in (0..MaxEdits) \ {edits + 1} : look'[v] = look[v]
  /\ \A v \in 0..edits : look'[v] = look[v]
  /\ look'[edits + 1] \in 1..(edits + 1)

LEMMA EditLook == ASSUME IInv, NEW f \in Files, Edit(f) PROVE EditLooks
<1>1. edits + 1 \in 1..MaxEdits /\ edits \in Nat /\ look \in [0..MaxEdits -> 0..MaxEdits]
  BY BoundsAssumption DEF IInv, TypeOK, Edit
<1>2. look[edits + 1] = edits + 1
  BY <1>1, BoundsAssumption DEF IInv, Past
<1>3. CASE UNCHANGED look
  BY <1>1, <1>2, <1>3, BoundsAssumption DEF EditLooks
<1>4. ASSUME NEW v \in Known(f), look' = [look EXCEPT ![edits + 1] = look[v]]
      PROVE  EditLooks
  <2>1. v \in 0..edits /\ v # 0
    BY <1>1, BoundsAssumption DEF IInv, TypeOK, Past, Known, Trees
  <2>2. look[v] \in 1..edits
    BY <2>1, <1>1, LookType
  <2>3. look' \in [0..MaxEdits -> 0..MaxEdits]
    <3>1. \A w \in 1..edits : w \in 0..MaxEdits
      BY <1>1, BoundsAssumption
    <3> QED
      BY <1>1, <1>4, <2>2, <3>1
  <2>4. \A w \in (0..MaxEdits) \ {edits + 1} : look'[w] = look[w]
    BY <1>1, <1>4
  <2>5. \A w \in 0..edits : w \in (0..MaxEdits) \ {edits + 1}
    BY <1>1, BoundsAssumption
  <2>6. look'[edits + 1] = look[v]
    BY <1>1, <1>4
  <2>7. look[v] \in 1..(edits + 1)
    BY <1>1, <2>2
  <2> QED
    BY <2>3, <2>4, <2>5, <2>6, <2>7 DEF EditLooks
<1> QED
  BY <1>3, <1>4 DEF Edit

\* And the project has the new version, or one file less.
LEMMA EditLocal ==
  ASSUME IInv, NEW f \in Files, Edit(f)
  PROVE  /\ edits \in Nat /\ MaxEdits \in Nat /\ edits < MaxEdits /\ edits' = edits + 1
         /\ local' \in Trees
         /\ \A g \in Files \ {f} : local'[g] = local[g]
         /\ local'[f] \in {0, edits + 1}
         /\ UNCHANGED <<remote, snar, platform, runs, pc, dir, via, sent, basis>>
<1>1. /\ edits < MaxEdits /\ edits' = edits + 1
      /\ \/ local' = [local EXCEPT ![f] = 0]
         \/ local' = [local EXCEPT ![f] = edits + 1]
  BY DEF Edit
<1>2. edits \in Nat /\ MaxEdits \in Nat /\ local \in Trees
  BY BoundsAssumption DEF IInv, TypeOK
<1>3. PICK v \in {0, edits + 1} : local' = [local EXCEPT ![f] = v]
  BY <1>1
<1>4. v \in 0..MaxEdits
  BY <1>1, <1>2
<1>5. local' \in Trees /\ local'[f] = v /\ \A g \in Files \ {f} : local'[g] = local[g]
  BY <1>2, <1>3, <1>4 DEF Trees
<1>6. UNCHANGED <<remote, snar, platform, runs, pc, dir, via, sent, basis>>
  BY DEF Edit, run
<1> QED
  BY <1>1, <1>2, <1>3, <1>5, <1>6

LEMMA EditIInv == ASSUME IInv, NEW f \in Files, Edit(f) PROVE IInv'
<1> USE DEF IInv
<1>1. /\ edits' \in 0..MaxEdits /\ edits' = edits + 1 /\ edits \in Nat
      /\ UNCHANGED <<remote, snar, platform, runs, pc, dir, via, sent, basis>>
  BY EditLocal
<1>2. local' \in Trees
  BY EditLocal
<1>9. EditLooks
  BY EditLook DEF EditLooks
<1>3. TypeOK'
  BY <1>1, <1>2, <1>9 DEF TypeOK, EditLooks
<1>4. /\ \A g \in Files \ {f} : local'[g] = local[g]
      /\ local'[f] \in {0, edits + 1}
      /\ \A g \in Files : local[g] \in Nat
  <2>1. \A g \in Files : local[g] \in Nat
    BY BoundsAssumption DEF TypeOK, Trees
  <2> HIDE DEF IInv
  <2> QED
    BY <2>1, EditLocal
<1>5. snar = NoSnar \/ \A g \in Files : snar[g] \in Nat
  BY DEF TypeOK, Trees
<1>6. Past'
  <2>1. ASSUME NEW g \in Files
        PROVE  /\ local'[g] <= edits' /\ sent'[g] <= edits'
               /\ snar' # NoSnar => snar'[g] <= edits'
               /\ \A d \in Dirs : remote'[d] # NoDir => remote'[d][g] <= edits'
    <3>1. local'[g] <= edits'
      BY <1>1, <1>4 DEF Past
    <3>2. sent'[g] <= edits'
      BY <1>1, BoundsAssumption DEF Past, TypeOK, Trees
    <3>3. snar' # NoSnar => snar'[g] <= edits'
      BY <1>1, <1>5 DEF Past
    <3>4. \A d \in Dirs : remote'[d] # NoDir => remote'[d][g] \in Nat /\ remote'[d][g] <= edits'
      BY <1>1, BoundsAssumption DEF Past, TypeOK, Trees
    <3> QED
      BY <3>1, <3>2, <3>3, <3>4
  <2>2. \A v \in 0..MaxEdits :
           look'[v] <= v /\ (look'[v] = 0 => v = 0) /\ (v > edits' => look'[v] = v)
    <3> SUFFICES ASSUME NEW v \in 0..MaxEdits
                 PROVE  look'[v] <= v /\ (look'[v] = 0 => v = 0) /\ (v > edits + 1 => look'[v] = v)
      BY <1>1
    <3>1. CASE v = edits + 1
      BY <1>1, <1>9, <3>1 DEF EditLooks
    <3>2. CASE v # edits + 1
      <4>1. look'[v] = look[v]
        BY <1>9, <3>2 DEF EditLooks
      <4> QED
        BY <1>1, <4>1 DEF Past
    <3> QED
      BY <3>1, <3>2
  <2> QED
    BY <2>1, <2>2 DEF Past
<1>7. SnapshotBacked'
  <2>1. basis # Nowhere => snar \in Trees
    BY DEF SnapshotBacked
  <2>2. basis # Nowhere => snar[f] \in Nat /\ snar[f] <= edits
    BY <2>1, <1>1, BoundsAssumption DEF Past, Trees, NoSnar
  <2> QED
    BY <1>1, <1>4, <2>2 DEF SnapshotBacked
<1>8. Landed'
  <2> SUFFICES ASSUME pc = "done", NEW g \in Files,
                      via = "delta" \/ (via = "tar" /\ sent[g] # 0)
               PROVE  look'[remote[dir][g]] = look'[sent[g]]
    BY <1>1 DEF Landed
  <2>1. dir \in Dirs /\ remote[dir] \in Trees /\ look[remote[dir][g]] = look[sent[g]]
    BY DEF Landed, TypeOK
  <2>2. remote[dir][g] \in 0..MaxEdits /\ sent[g] \in 0..MaxEdits /\ remote[dir] # NoDir
    BY <2>1 DEF TypeOK, Trees, NoDir
  <2>3. remote[dir][g] <= edits /\ sent[g] <= edits
    BY <2>1, <2>2 DEF Past
  <2>4. remote[dir][g] \in 0..edits /\ sent[g] \in 0..edits
    BY <1>1, <2>2, <2>3, BoundsAssumption
  <2> QED
    BY <1>9, <2>1, <2>4 DEF EditLooks
<1> QED
  BY <1>3, <1>6, <1>7, <1>8

\* The directory that probe makes has been no directory that anything rests on.
LEMMA ProbeHostIInv ==
  ASSUME IInv, NEW d \in Dirs, ProbeHost(d)
  PROVE  IInv' /\ \A e \in Dirs : remote[e] \in Trees => remote'[e] = remote[e]
<1> DEFINE empty == [f \in Files |-> 0]
<1>1. /\ empty \in Trees /\ (NoDir \in Trees => empty = NoDir)
      /\ remote' = [remote EXCEPT ![d] = empty] /\ remote[d] = NoDir
      /\ UNCHANGED <<local, edits, look, snar, platform, runs, pc, dir, via, sent, basis>>
  BY BoundsAssumption DEF ProbeHost, Trees, NoDir, world, run
<1> HIDE DEF empty
<1>2. \A e \in Dirs : remote[e] \in Trees => remote'[e] = remote[e]
  BY <1>1 DEF IInv, TypeOK
<1>3. TypeOK'
  BY <1>1 DEF IInv, TypeOK
<1>5. Past'
  <2>1. \A e \in Dirs : remote'[e] = remote[e] \/ remote'[e] = empty
    BY <1>1 DEF IInv, TypeOK
  <2>2. \A f \in Files : empty[f] <= edits
    BY BoundsAssumption DEF empty, IInv, TypeOK
  <2>3. \A f \in Files, e \in Dirs : remote'[e] # NoDir => remote'[e][f] <= edits
    BY <2>1, <2>2 DEF IInv, Past
  <2> QED
    BY <1>1, <2>3 DEF IInv, Past
<1>4. SnapshotBacked' /\ Landed'
  BY <1>1, <1>2 DEF IInv, TypeOK, SnapshotBacked, Landed
<1> QED
  BY <1>2, <1>3, <1>4, <1>5 DEF IInv

LEMMA IncIInv == ASSUME IInv, Inc PROVE IInv'
<1> USE DEF IInv, world
<1>1. PICK ok, finished \in BOOLEAN :
        /\ ok => finished
        /\ Arrive(Unpacked, ok)
        /\ IF finished THEN snar' = local /\ Basis(ok) ELSE UNCHANGED <<snar, basis>>
  BY DEF Inc
<1>2. Unpacked \in Trees
  BY FoundType, BoundsAssumption DEF Unpacked, TypeOK, Trees
<1>3. UNCHANGED <<local, edits, look, platform, runs, dir>> /\ via' = "inc"
  BY DEF Inc
<1>4. TypeOK'
  BY <1>1, <1>2, <1>3, ArriveLeaves DEF TypeOK, Basis
<1>5. Past'
  <2>1. \A f \in Files : Unpacked[f] \in {0, local[f], Found[f]}
    BY DEF Unpacked
  <2>2. \A f \in Files : local[f] <= edits /\ Found[f] <= edits /\ edits \in Nat
    BY FoundPast DEF Past, TypeOK
  <2>3. \A f \in Files : remote'[dir][f] <= edits
    BY <1>1, <1>2, <2>1, <2>2, ArriveLeaves
  <2>4. \A d \in Dirs \ {dir} : remote'[d] = remote[d]
    BY <1>1, <1>2, ArriveLeaves
  <2>5. \A d \in Dirs, f \in Files : remote'[d] # NoDir => remote'[d][f] <= edits
    BY <2>3, <2>4 DEF Past
  <2>6. sent' = local /\ snar' \in {local, snar}
    BY <1>1, <1>2, ArriveLeaves
  <2> QED
    BY <1>3, <2>5, <2>6 DEF Past
<1>6. SnapshotBacked'
  <2>1. CASE finished /\ basis' # Nowhere
    <3>1. ok /\ basis' = dir /\ snar' = local
      BY <1>1, <2>1 DEF Basis
    <3>2. remote'[dir] = Unpacked
      BY <1>1, <1>2, <3>1, ArriveLeaves
    <3>3. \A f \in Files : local[f] # 0 => Unpacked[f] = local[f]
      <4> SUFFICES ASSUME NEW f \in Files, local[f] # 0, f \notin Changed
                   PROVE  Found[f] = local[f]
        BY DEF Unpacked
      <4>1. snar # NoSnar /\ snar[f] = local[f]
        BY DEF Changed
      <4>2. basis = dir
        BY <1>1, <2>1, <4>1 DEF Basis, TypeOK
      <4>3. CASE basis = Nowhere
        BY <4>2, <4>3, <3>1, <2>1
      <4>4. CASE basis # Nowhere
        <5>1. remote[dir] \in Trees /\ remote[dir][f] = local[f]
          BY <4>1, <4>2, <4>4 DEF SnapshotBacked
        <5> QED
          BY <5>1 DEF Found, NoDir, Trees
      <4> QED
        BY <4>3, <4>4
    <3> QED
      BY <1>2, <1>3, <3>1, <3>2, <3>3 DEF SnapshotBacked, TypeOK
  <2>2. CASE ~finished
    \* Then the transfer has failed and the snapshot is the old one.
    <3>1. \A f \in Files : local[f] # 0 /\ snar[f] = local[f] /\ basis = dir /\ basis # Nowhere
                             => Unpacked[f] = local[f] /\ Found[f] = local[f]
      <4> SUFFICES ASSUME NEW f \in Files, local[f] # 0, snar[f] = local[f],
                          basis = dir, basis # Nowhere
                   PROVE  Unpacked[f] = local[f] /\ Found[f] = local[f]
        OBVIOUS
      <4>1. remote[dir] \in Trees /\ remote[dir][f] = local[f]
        BY DEF SnapshotBacked
      <4>2. Found[f] = local[f]
        BY <4>1 DEF Found, NoDir, Trees
      <4> QED
        BY <4>2 DEF Unpacked
    <3>2. UNCHANGED <<snar, basis>>
      BY <1>1, <2>2
    <3>3. \A f \in Files : local[f] # 0 /\ snar[f] = local[f] /\ basis = dir /\ basis # Nowhere
                             => remote'[dir][f] = local[f]
      BY <1>1, <1>2, <3>1, ArriveLeaves
    <3> QED
      BY <1>1, <1>2, <1>3, <3>2, <3>3, ArriveLeaves DEF SnapshotBacked, TypeOK
  <2> QED
    BY <2>1, <2>2 DEF SnapshotBacked
<1>7. Landed'
  BY <1>1, <1>2, <1>3, ArriveLeaves DEF Landed
<1> QED
  BY <1>4, <1>5, <1>6, <1>7

LEMMA NextIInv == IInv /\ [Next]_vars => IInv'
<1> SUFFICES ASSUME IInv, [Next]_vars PROVE IInv'
  OBVIOUS
<1>1. ASSUME NEW f \in Files, Edit(f) PROVE IInv'
  BY <1>1, EditIInv
<1>2. ASSUME NEW mode \in Modes, NEW d \in Dirs, Start(mode, d) PROVE IInv'
  BY <1>2, BoundsAssumption
  DEF Start, Modes, Goto, IInv, TypeOK, Past, SnapshotBacked, Landed, world
<1>3. CASE Probe
  BY <1>3 DEF Probe, Goto, IInv, TypeOK, Past, SnapshotBacked, Landed, world
<1>4. CASE EnsureAgent
  BY <1>4 DEF EnsureAgent, Goto, IInv, TypeOK, Past, SnapshotBacked, Landed, world
<1>5. CASE Fail
  BY <1>5 DEF Fail, Goto, IInv, TypeOK, Past, SnapshotBacked, Landed, world
<1>6. CASE Delta
  <2> DEFINE goal == [f \in Files |->
                        IF look[Found[f]] = look[local[f]] THEN Found[f] ELSE local[f]]
  <2>1. PICK ok \in BOOLEAN : Arrive(goal, ok)
    BY <1>6 DEF Delta
  <2>2. goal \in Trees
    BY FoundType DEF IInv, TypeOK, Trees
  <2>3. \A f \in Files : /\ goal[f] \in {local[f], Found[f]}
                         /\ look[goal[f]] = look[local[f]]
    OBVIOUS
  <2>4. via' = "delta" /\ UNCHANGED <<world, snar, platform, runs, dir, basis>>
    BY <1>6 DEF Delta
  <2> HIDE DEF goal
  <2> QED
    BY <2>1, <2>2, <2>3, <2>4, ArriveKeepsIInv
<1>7. CASE Tar
  <2> DEFINE goal == [f \in Files |-> IF local[f] = 0 THEN Found[f] ELSE local[f]]
  <2>1. PICK ok \in BOOLEAN : Arrive(goal, ok)
    BY <1>7 DEF Tar
  <2>2. goal \in Trees
    BY FoundType DEF IInv, TypeOK, Trees
  <2>3. \A f \in Files : /\ goal[f] \in {local[f], Found[f]}
                         /\ local[f] # 0 => goal[f] = local[f]
    OBVIOUS
  <2>4. via' = "tar" /\ UNCHANGED <<world, snar, platform, runs, dir, basis>>
    BY <1>7 DEF Tar
  <2> HIDE DEF goal
  <2> QED
    BY <2>1, <2>2, <2>3, <2>4, ArriveKeepsIInv
<1>8. CASE Inc
  BY <1>8, IncIInv
<1>9. CASE UNCHANGED vars
  BY <1>9 DEF vars, run, world, IInv, TypeOK, Past, SnapshotBacked, Landed
<1>10. ASSUME NEW d \in Dirs, ProbeHost(d) PROVE IInv'
  BY <1>10, ProbeHostIInv
<1> QED
  BY <1>1, <1>2, <1>3, <1>4, <1>5, <1>6, <1>7, <1>8, <1>9, <1>10 DEF Next

\* What the snapshot file claims for a directory is there, whatever runs in
\* other modes, failed runs and edits did in between.
THEOREM ModesInvariant == Spec => []IInv
  BY InitIInv, NextIInv, PTL DEF Spec

\* A successful incremental run has left the project: established by the step
\* that ends it, and kept by the others, which leave the remote directory alone.
LEMMA NextChain == IInv /\ IInv' /\ ChainIsExact /\ [Next]_vars => ChainIsExact'
<1> SUFFICES ASSUME IInv, IInv', ChainIsExact, [Next]_vars PROVE ChainIsExact'
  OBVIOUS
<1> USE DEF ChainIsExact, Exact
<1>1. Delta => via' = "delta"
  BY DEF Delta
<1>2. Tar => via' = "tar"
  BY DEF Tar
<1>3. CASE Inc
  <2>1. PICK ok, finished \in BOOLEAN :
          /\ ok => finished
          /\ Arrive(Unpacked, ok)
          /\ IF finished THEN snar' = local /\ Basis(ok) ELSE UNCHANGED <<snar, basis>>
    BY <1>3 DEF Inc
  <2>2. Unpacked \in Trees
    BY FoundType, BoundsAssumption DEF IInv, Unpacked, TypeOK, Trees
  <2>3. (pc' = "done" => ok /\ remote'[dir] = Unpacked) /\ sent' = local
    BY <2>1, <2>2, ArriveLeaves
  <2>4. via' = "inc" /\ dir' = dir /\ local' = local
    BY <1>3 DEF Inc, world
  <2>5. ASSUME pc' = "done", basis' = dir PROVE remote'[dir] = local
    <3>1. snar' = local
      BY <2>1, <2>3, <2>5
    <3>2. basis = dir \/ snar = NoSnar \/ dir = Nowhere
      BY <2>1, <2>3, <2>5 DEF Basis
    <3>3. \A f \in Files : local[f] # 0 => Unpacked[f] = local[f]
      BY <2>3, <2>4, <2>5, <3>1, DirsAssumption DEF IInv, TypeOK, SnapshotBacked, Nowhere
    <3>4. \A f \in Files : local[f] = 0 => Unpacked[f] = 0
      BY DEF Unpacked
    <3> QED
      BY <2>2, <2>3, <2>5, <3>3, <3>4 DEF IInv, TypeOK, Trees
  <2> QED
    BY <2>3, <2>4, <2>5
<1>4. CASE pc' # "done"
  BY <1>4
<1>5. CASE UNCHANGED <<remote, pc, dir, via, sent, basis>>
  BY <1>5
<1>6. ASSUME NEW f \in Files, Edit(f) PROVE UNCHANGED <<remote, pc, dir, via, sent, basis>>
  BY <1>6 DEF Edit, run
<1>7. ASSUME NEW mode \in Modes, NEW d \in Dirs, Start(mode, d) PROVE pc' # "done"
  BY <1>7 DEF Start, Modes, Goto
<1>8. Probe \/ EnsureAgent \/ Fail => pc' # "done"
  BY DEF Probe, EnsureAgent, Fail, Goto
<1>9. ASSUME NEW d \in Dirs, ProbeHost(d)
      PROVE  UNCHANGED <<pc, dir, via, sent, basis>> /\ (pc = "done" => UNCHANGED remote[dir])
  <2>1. UNCHANGED <<pc, dir, via, sent, basis>>
    BY <1>9 DEF ProbeHost, run
  <2>2. pc = "done" => remote'[dir] = remote[dir]
    BY <1>9, <2>1, ProbeHostIInv DEF IInv, TypeOK, Landed
  <2> QED
    BY <2>1, <2>2
<1> QED
  BY <1>1, <1>2, <1>3, <1>4, <1>5, <1>6, <1>7, <1>8, <1>9 DEF Next, vars, run

\* An incremental run that reports success leaves exactly the project, as long
\* as its chain of archives is unbroken.
THEOREM ChainIsExactHolds == Spec => []ChainIsExact
  BY InitIInv, NextChain, ModesInvariant, PTL DEF Spec

-----------------------------------------------------------------------------
(***************************************************************************)
(* The runs around the transfers: BuildFlow.                               *)
(***************************************************************************)

\* The transfers of a run are those of TransferModes.
LEMMA StepIsModesStep == BTypeOK /\ [BNext]_bvars => [Next]_vars
<1> SUFFICES ASSUME BTypeOK, [BNext]_bvars PROVE [Next]_vars
  OBVIOUS
<1>1. ASSUME NEW f \in Files, EditInTime(f) PROVE Next
  BY <1>1 DEF EditInTime, Next
<1>2. ASSUME NEW mode \in Modes, Sync(mode) PROVE Next
  BY <1>2 DEF Sync, Next, BTypeOK
<1>3. Transfer => Next
  BY DEF Transfer, Next
<1>4. ASSUME NEW c \in Commands, NEW d \in Dirs, Begin(c, d) PROVE UNCHANGED vars
  BY <1>4 DEF Begin
<1>5. Refuse \/ NoSync \/ Synced \/ Cargo \/ Clean \/ CopyBack => UNCHANGED vars
  BY DEF Refuse, NoSync, Synced, Cargo, Clean, CopyBack
<1>6. ASSUME NEW d \in Dirs, ProbeInTime(d) PROVE Next
  BY <1>6 DEF ProbeInTime, Next
<1> QED
  BY <1>1, <1>2, <1>3, <1>4, <1>5, <1>6 DEF BNext, bvars

LEMMA BInitBInv == BInit => BInv
<1> SUFFICES ASSUME BInit PROVE BInv
  OBVIOUS
<1>1. IInv /\ ChainIsExact
  BY InitIInv DEF BInit
<1>2. BTypeOK
  <2>1. TypeOK
    BY <1>1 DEF IInv
  <2>2. 0 \in 0..MaxEdits /\ {} \in SUBSET (1..MaxEdits)
    BY BoundsAssumption
  <2> QED
    BY <2>1, <2>2 DEF BInit, BTypeOK, Commands
<1>3. Marked
  BY <1>2, BoundsAssumption DEF BInit, Marked, Covers, BTypeOK, TypeOK
<1>4. Along /\ BinaryIsFresh
  BY DEF BInit, Init, Along, BinaryIsFresh
<1> QED
  BY <1>1, <1>2, <1>3, <1>4 DEF BInv

\* What is taken for a version that is there stays so.
LEMMA EditKeepsAlike ==
  ASSUME IInv, NEW f \in Files, Edit(f),
         NEW v \in 0..MaxEdits, NEW w \in 0..MaxEdits, w <= edits, Alike(v, w)
  PROVE  look'[v] = look'[w]
<1>1. edits \in Nat /\ look \in [0..MaxEdits -> 0..MaxEdits]
  BY BoundsAssumption DEF IInv, TypeOK
<1>2. look[v] = look[w] /\ look[w] <= w
  BY DEF Alike, IInv, Past
<1>3. v <= edits
  <2>1. v > edits => look[v] = v
    BY DEF IInv, Past
  <2> QED
    BY <1>1, <1>2, <2>1, BoundsAssumption
<1>4. v \in 0..edits /\ w \in 0..edits
  BY <1>1, <1>3, BoundsAssumption
<1> QED
  BY <1>2, <1>4, EditLook DEF EditLooks

\* An edit covers nothing up: what cargo would see, it still does.
LEMMA EditBInv == ASSUME BInv, IInv', NEW f \in Files, EditInTime(f)
                  PROVE  BTypeOK' /\ Marked' /\ Along' /\ BinaryIsFresh'
<1>1. /\ edits \in Nat /\ edits' = edits + 1 /\ edits < MaxEdits /\ MaxEdits \in Nat
      /\ \A g \in Files \ {f} : local'[g] = local[g]
      /\ local'[f] \in {0, edits + 1}
      /\ UNCHANGED <<pc, dir, via, sent, basis, flow, compiled>>
  BY EditLocal DEF BInv, EditInTime
<1>2. PICK soon \in SUBSET Dirs :
        /\ \A d \in soon : compiled[d] # NoDir /\ mark[d] = edits
        /\ \A d \in Dirs \ soon : compiled[d] # NoDir => mark[d] < look'[edits + 1]
        /\ mark' = [d \in Dirs |-> IF d \in soon THEN edits + 1 ELSE mark[d]]
        /\ late' = [d \in Dirs |->
             IF d \in soon THEN late[d] \cup {edits + 1} ELSE late[d]]
  <2>1. PICK quick \in BOOLEAN :
          LET soon == {d \in Dirs : quick /\ compiled[d] # NoDir /\ mark[d] = edits}
          IN  /\ \A d \in Dirs \ soon : compiled[d] # NoDir => mark[d] < look'[edits + 1]
              /\ mark' = [d \in Dirs |-> IF d \in soon THEN edits + 1 ELSE mark[d]]
              /\ late' = [d \in Dirs |->
                   IF d \in soon THEN late[d] \cup {edits + 1} ELSE late[d]]
    BY DEF EditInTime
  <2> WITNESS {d \in Dirs : quick /\ compiled[d] # NoDir /\ mark[d] = edits} \in SUBSET Dirs
  <2> QED
    BY <2>1
<1>3. BTypeOK'
  <2>1. TypeOK'
    BY DEF IInv
  <2>2. mark' \in [Dirs -> 0..MaxEdits] /\ late' \in [Dirs -> SUBSET (1..MaxEdits)]
    BY <1>1, <1>2, BoundsAssumption DEF BInv, BTypeOK
  <2> QED
    BY <1>1, <2>1, <2>2 DEF BInv, BTypeOK, flow
<1>9. IInv /\ Edit(f) /\ EditLooks
  BY EditLook DEF BInv, EditInTime
\* What covers a version that is there goes on to cover it.
<1>10. ASSUME NEW d \in Dirs, NEW g \in Files, NEW v \in 0..MaxEdits, v <= edits,
              Covers(d, g, v)
       PROVE  \/ v = 0 \/ compiled'[d] = NoDir \/ look'[compiled'[d][g]] = look'[v]
              \/ v \in late'[d] \/ mark'[d] < v
  <2>1. compiled' = compiled /\ late[d] \subseteq late'[d]
    BY <1>1, <1>2
  <2>2. mark[d] < v => mark'[d] < v
    <3>1. mark[d] <= edits /\ mark[d] \in Nat /\ (mark'[d] = mark[d] \/ mark[d] = edits)
      BY <1>2, BoundsAssumption DEF BInv, Marked, BTypeOK
    <3> QED
      BY <1>1, <1>10, <3>1
  <2>3. ASSUME compiled[d] # NoDir, Alike(compiled[d][g], v)
        PROVE  look'[compiled[d][g]] = look'[v]
    <3>1. compiled[d][g] \in 0..MaxEdits
      BY <2>3 DEF BInv, BTypeOK, Trees
    <3> QED
      BY <1>9, <1>10, <2>3, <3>1, EditKeepsAlike
  <2> QED
    BY <1>10, <2>1, <2>2, <2>3 DEF Covers
<1>4. Marked'
  <2> SUFFICES ASSUME NEW d \in Dirs
               PROVE  /\ mark'[d] <= edits'
                      /\ compiled'[d] # NoDir =>
                           \A v \in 1..edits' : look'[v] <= mark'[d] => v <= mark'[d]
                      /\ \A g \in Files : Covers(d, g, local[g])'
    BY DEF Marked
  <2>1. mark[d] <= edits /\ mark[d] \in Nat
    BY BoundsAssumption DEF BInv, Marked, BTypeOK
  <2>2. mark'[d] <= edits'
    BY <1>1, <1>2, <2>1
  <2>5. ASSUME compiled[d] # NoDir, NEW v \in 1..(edits + 1), look'[v] <= mark'[d]
        PROVE  v <= mark'[d]
    <3>1. CASE d \in soon
      BY <1>1, <1>2, <3>1
    <3>2. CASE d \notin soon /\ v = edits + 1
      <4>1. mark'[d] = mark[d] /\ mark[d] < look'[v]
        BY <1>2, <2>5, <3>2
      <4>2. look'[v] \in Nat
        BY <1>9, <1>1, <3>2 DEF EditLooks
      <4> QED
        BY <2>1, <2>5, <4>1, <4>2
    <3>3. CASE d \notin soon /\ v # edits + 1
      <4>1. v \in 1..edits /\ v \in 0..edits
        BY <1>1, <3>3
      <4>2. mark'[d] = mark[d] /\ look'[v] = look[v]
        BY <1>2, <1>9, <3>3, <4>1 DEF EditLooks
      <4> QED
        BY <2>5, <4>1, <4>2 DEF BInv, Marked
    <3> QED
      BY <3>1, <3>2, <3>3
  <2>3. ASSUME NEW g \in Files \ {f} PROVE Covers(d, g, local[g])'
    <3>1. /\ local[g] \in 0..MaxEdits /\ local[g] <= edits /\ Covers(d, g, local[g])
          /\ local'[g] = local[g]
      BY <1>1 DEF BInv, IInv, Past, Marked, TypeOK, Trees
    <3> QED
      BY <1>10, <3>1 DEF Covers, Alike
  <2>4. Covers(d, f, local[f])'
    <3>1. CASE local'[f] = 0
      BY <3>1 DEF Covers
    <3>2. CASE local'[f] = edits + 1 /\ edits + 1 \in late'[d]
      BY <3>2 DEF Covers
    <3>3. CASE local'[f] = edits + 1 /\ edits + 1 \notin late'[d]
      <4>1. mark'[d] = mark[d]
        BY <1>2, <3>3
      <4> QED
        BY <4>1, <2>1, <1>1, <3>3 DEF Covers
    <3> QED
      BY <1>1, <3>1, <3>2, <3>3
  <2> QED
    BY <1>1, <2>2, <2>3, <2>4, <2>5
<1>11. /\ target \in Dirs /\ target' = target /\ sent' = sent /\ via' = via
       /\ \A g \in Files : sent[g] \in 0..MaxEdits /\ sent[g] <= edits
  BY <1>1, <1>9 DEF BInv, BTypeOK, IInv, Past, TypeOK, Trees, flow
<1>5. Stands => Stands'
  <2> SUFFICES ASSUME Stands PROVE Stands'
    OBVIOUS
  <2>1. compiled'[target] # NoDir /\ compiled' = compiled /\ late[target] \subseteq late'[target]
    BY <1>1, <1>2, <1>11 DEF Stands
  <2>2. ASSUME NEW g \in Files, Alike(compiled[target][g], sent[g])
        PROVE  look'[compiled[target][g]] = look'[sent[g]]
    <3>1. compiled[target][g] \in 0..MaxEdits
      BY <2>1, <1>1, <1>11 DEF BInv, BTypeOK, Trees
    <3> QED
      BY <1>9, <1>11, <2>2, <3>1, EditKeepsAlike
  <2> QED
    BY <1>11, <2>1, <2>2 DEF Stands, Alike
<1>6. ASSUME synced, stage \in {"sync", "cargo"}, pc = "done", NEW g \in Files
      PROVE  Covers(target, g, sent[g])'
  <2>1. Covers(target, g, sent[g])
    BY <1>6 DEF BInv, Along
  <2> QED
    BY <1>10, <1>11, <2>1 DEF Covers, Alike
<1>7. Along'
  BY <1>1, <1>5, <1>6 DEF BInv, Along, Trusted, flow
<1>8. BinaryIsFresh'
  BY <1>1, <1>5 DEF BInv, BinaryIsFresh, Trusted, flow
<1> QED
  BY <1>3, <1>4, <1>7, <1>8

\* A transfer that arrives carries what cargo has not come too early for, or
\* what it will look at.
LEMMA TransferBInv == ASSUME BInv, IInv', Transfer
                      PROVE  BTypeOK' /\ Marked' /\ Along' /\ BinaryIsFresh'
<1>1. UNCHANGED <<local, edits, look, dir>> /\ UNCHANGED <<flow, cache>> /\ stage = "sync"
  BY DEF Transfer, Probe, EnsureAgent, Fail, Delta, Tar, Inc, world
<1>2. pc' = "done" => sent' = local /\ via' # "none"
  BY DEF Transfer, Probe, EnsureAgent, Fail, Delta, Tar, Inc, Arrive, Goto
<1>3. BTypeOK'
  BY <1>1 DEF BInv, IInv, BTypeOK, flow, cache
<1>4. Marked'
  BY <1>1 DEF BInv, Marked, Covers, Alike, cache
<1>5. \A f \in Files : Covers(target, f, local[f])
  BY DEF BInv, Marked, BTypeOK
<1>6. Along'
  BY <1>1, <1>2, <1>5 DEF BInv, Along, Covers, Alike, flow, cache
<1>7. BinaryIsFresh'
  BY <1>1 DEF BinaryIsFresh, flow
<1> QED
  BY <1>3, <1>4, <1>6, <1>7

\* What has arrived is not told from what the run found.
LEMMA ArrivedIsSent ==
  ASSUME BInv, stage \in {"cargo", "copy"}, Trusted, NEW f \in Files
  PROVE  sent[f] # 0 \/ via = "delta" => Alike(remote[target][f], sent[f])
<1>1. pc = "done" /\ dir = target /\ via \in {"delta", "tar", "inc"}
  BY DEF BInv, Along, Trusted, BTypeOK, TypeOK
<1>2. CASE via \in {"delta", "tar"}
  BY <1>1, <1>2 DEF BInv, IInv, Landed, Alike
<1>3. CASE via = "inc"
  BY <1>1, <1>3 DEF BInv, Trusted, ChainIsExact, Exact, Alike
<1> QED
  BY <1>1, <1>2, <1>3

\* Cargo compiles what has arrived, or has compiled it before, or was too early.
LEMMA CompileStands ==
  ASSUME BInv, stage = "cargo", remote[target] # NoDir, Compile(target),
         UNCHANGED <<vars, target>>
  PROVE  /\ compiled' \in [Dirs -> Trees \cup {NoDir}]
         /\ mark' \in [Dirs -> 0..MaxEdits] /\ late' \in [Dirs -> SUBSET (1..MaxEdits)]
         /\ Marked'
         /\ Trusted => Stands'
<1>1. /\ target \in Dirs /\ edits \in 0..MaxEdits /\ MaxEdits \in Nat
      /\ remote \in [Dirs -> Trees \cup {NoDir}] /\ remote[target] \in Trees
      /\ compiled \in [Dirs -> Trees \cup {NoDir}]
      /\ mark \in [Dirs -> 0..MaxEdits] /\ late \in [Dirs -> SUBSET (1..MaxEdits)]
      /\ look \in [0..MaxEdits -> 0..MaxEdits]
  BY BoundsAssumption DEF BInv, BTypeOK, TypeOK
<1>4. \A f \in Files : /\ local[f] \in 0..edits /\ sent[f] \in 0..edits
                       /\ remote[target][f] \in 0..edits
  BY <1>1, BoundsAssumption DEF BInv, BTypeOK, TypeOK, IInv, Past, Trees
<1>5. UNCHANGED <<local, edits, look, remote, sent, via, basis, target>>
  BY DEF vars, world, run
<1>2. CASE UpToDate(target)
  <2>1. UNCHANGED <<compiled, mark, late>>
    BY <1>2 DEF Compile, cache
  <2>2. ASSUME Trusted, NEW f \in Files
        PROVE  /\ compiled[target] # NoDir
               /\ sent[f] # 0 => Alike(compiled[target][f], sent[f]) \/ sent[f] \in late[target]
               /\ via = "delta" /\ sent[f] = 0 => compiled[target][f] = 0
    <3>1. sent[f] # 0 \/ via = "delta" => look[remote[target][f]] = look[sent[f]]
      BY <2>2, ArrivedIsSent DEF Alike
    <3>2. /\ compiled[target] # NoDir
          /\ (compiled[target][f] = 0) = (remote[target][f] = 0)
          /\ remote[target][f] <= mark[target]
      BY <1>2 DEF UpToDate
    <3>3. Covers(target, f, sent[f])
      BY <2>2 DEF BInv, Along, Trusted
    <3>5. /\ look[remote[target][f]] \in Nat /\ look[remote[target][f]] <= remote[target][f]
          /\ look[remote[target][f]] = 0 <=> remote[target][f] = 0
          /\ look[sent[f]] = 0 <=> sent[f] = 0
      BY <1>4, LookType DEF BInv
    <3>4. sent[f] # 0 => ~ (mark[target] < sent[f])
      <4> SUFFICES ASSUME sent[f] # 0 PROVE sent[f] <= mark[target]
        BY <1>1, <1>4
      <4>1. sent[f] \in 1..edits
        BY <1>1, <1>4
      <4>2. look[sent[f]] <= mark[target]
        <5>1. mark[target] \in Nat /\ remote[target][f] \in Nat
          BY <1>1, <1>4
        <5> QED
          BY <3>1, <3>2, <3>5, <5>1
      <4> QED
        BY <1>1, <3>2, <4>1, <4>2 DEF BInv, Marked
    <3>6. via = "delta" /\ sent[f] = 0 => compiled[target][f] = 0
      BY <3>1, <3>2, <3>5
    <3> QED
      BY <3>2, <3>3, <3>4, <3>6 DEF Covers
  <2>3. compiled[target] # NoDir
    BY <1>2 DEF UpToDate
  <2>4. Marked'
    BY <1>5, <2>1 DEF BInv, Marked, Covers, Alike
  <2>5. Trusted => Stands'
    BY <1>5, <2>1, <2>2, <2>3 DEF Stands, Alike
  <2> QED
    BY <1>1, <2>1, <2>4, <2>5
<1>3. CASE ~ UpToDate(target)
  <2> DEFINE early == {v \in 1..edits :
                         \E f \in Files : v = local[f] /\ look[v] # look[remote[target][f]]}
  <2>1. /\ compiled' = [compiled EXCEPT ![target] = remote[target]]
        /\ mark' = [mark EXCEPT ![target] = edits]
        /\ late' = [late EXCEPT ![target] = early]
    BY <1>3 DEF Compile
  <2>2. early \in SUBSET (1..MaxEdits)
    BY <1>1, BoundsAssumption
  <2>3. /\ compiled' \in [Dirs -> Trees \cup {NoDir}]
        /\ mark' \in [Dirs -> 0..MaxEdits] /\ late' \in [Dirs -> SUBSET (1..MaxEdits)]
    BY <1>1, <2>1, <2>2
  <2>4. /\ compiled'[target] = remote[target] /\ mark'[target] = edits /\ late'[target] = early
        /\ \A d \in Dirs \ {target} : /\ compiled'[d] = compiled[d]
                                      /\ mark'[d] = mark[d] /\ late'[d] = late[d]
    BY <1>1, <2>1
  <2>5. \A f \in Files : \/ local[f] = 0 \/ local[f] \in early
                         \/ look[remote[target][f]] = look[local[f]]
    <3> SUFFICES ASSUME NEW f \in Files, local[f] # 0,
                        look[remote[target][f]] # look[local[f]]
                 PROVE  local[f] \in early
      OBVIOUS
    <3>1. local[f] \in 1..edits
      BY <1>1, <1>4
    <3> QED
      BY <3>1
  <2> HIDE DEF early
  <2>6. Marked'
    <3> SUFFICES ASSUME NEW d \in Dirs
                 PROVE  /\ mark'[d] <= edits
                        /\ compiled'[d] # NoDir =>
                             \A v \in 1..edits : look[v] <= mark'[d] => v <= mark'[d]
                        /\ \A f \in Files :
                             \/ local[f] = 0 \/ compiled'[d] = NoDir
                             \/ look[compiled'[d][f]] = look[local[f]]
                             \/ local[f] \in late'[d] \/ mark'[d] < local[f]
      BY <1>5 DEF Marked, Covers, Alike
    <3>1. CASE d = target
      <4>1. /\ compiled'[d] = remote[target] /\ mark'[d] = edits /\ late'[d] = early
            /\ edits \in Nat /\ edits <= edits
        BY <1>1, <2>4, <3>1
      <4>2. \A v \in 1..edits : v <= edits
        BY <1>1
      <4> QED
        BY <2>5, <4>1, <4>2
    <3>2. CASE d # target
      <4>1. compiled'[d] = compiled[d] /\ mark'[d] = mark[d] /\ late'[d] = late[d]
        BY <2>4, <3>2
      <4> QED
        BY <4>1 DEF BInv, Marked, Covers, Alike
    <3> QED
      BY <3>1, <3>2
  <2>9. Trusted => Stands'
    <3> SUFFICES ASSUME Trusted, NEW f \in Files
                 PROVE  /\ sent[f] # 0 => look[remote[target][f]] = look[sent[f]]
                        /\ via = "delta" /\ sent[f] = 0 => remote[target][f] = 0
      BY <1>5, <2>4 DEF Stands, Alike
    <3>1. sent[f] # 0 \/ via = "delta" => look[remote[target][f]] = look[sent[f]]
      BY ArrivedIsSent DEF Alike
    <3>2. /\ look[remote[target][f]] = 0 <=> remote[target][f] = 0
          /\ look[sent[f]] = 0 <=> sent[f] = 0
      BY <1>4, LookType DEF BInv
    <3> QED
      BY <3>1, <3>2
  <2> QED
    BY <2>3, <2>6, <2>9
<1> QED
  BY <1>2, <1>3

\* A run that ends, and how, and what is kept of it.
LEMMA EndKeeps ==
  ASSUME BInv, NEW code \in {"ok", "code", "error"}, End(code)
  PROVE  /\ stage' = "ended" /\ exit' = code
         /\ cmd' \in Commands /\ synced' \in BOOLEAN /\ (synced' => synced)
         /\ code = "ok" => UNCHANGED <<cmd, synced>>
<1>1. cmd \in Commands /\ synced \in BOOLEAN /\ "sync" \in Commands
  BY DEF BInv, BTypeOK, Commands
<1>2. CASE code = "ok"
  BY <1>1, <1>2 DEF End
<1>3. CASE code # "ok"
  BY <1>1, <1>3 DEF End
<1> QED
  BY <1>2, <1>3

LEMMA CargoBInv == ASSUME BInv, Cargo
                   PROVE  BTypeOK' /\ Marked' /\ Along' /\ BinaryIsFresh'
<1>1. PICK ok, builds \in BOOLEAN :
        /\ ExecRemote(ok) /\ ExecRemote(builds)
        /\ ok /\ cmd = "build" => builds
        /\ IF builds THEN Compile(target) ELSE UNCHANGED cache
        /\ \/ ~ok /\ End("code")
           \/ ok /\ cmd = "build" /\ GoOn("copy")
           \/ ok /\ cmd = "other" /\ End("ok")
  BY DEF Cargo
<1>2. stage = "cargo" /\ cmd \in {"build", "other"} /\ UNCHANGED <<vars, target>>
  BY DEF Cargo
<1>3. /\ compiled' \in [Dirs -> Trees \cup {NoDir}]
      /\ mark' \in [Dirs -> 0..MaxEdits] /\ late' \in [Dirs -> SUBSET (1..MaxEdits)]
      /\ Marked'
  <2>1. CASE builds
    BY <1>1, <1>2, <2>1, CompileStands DEF ExecRemote
  <2>2. CASE ~builds
    BY <1>1, <1>2, <2>2 DEF BInv, BTypeOK, Marked, Covers, Alike, cache, vars, world
  <2> QED
    BY <2>1, <2>2
<1>4. /\ \/ stage' = "ended" /\ (exit' = "ok" => cmd' = "other")
         \/ stage' = "copy" /\ ok /\ cmd = "build" /\ UNCHANGED <<cmd, synced>>
      /\ exit' \in {"none", "ok", "code", "error"}
      /\ cmd' \in Commands /\ synced' \in BOOLEAN /\ (synced' => synced)
  <2>1. CASE ~ok /\ End("code")
    BY <2>1, EndKeeps
  <2>2. CASE ok /\ cmd = "build" /\ GoOn("copy")
    BY <2>2 DEF GoOn, BInv, BTypeOK
  <2>3. CASE ok /\ cmd = "other" /\ End("ok")
    BY <2>3, EndKeeps
  <2> QED
    BY <1>1, <2>1, <2>2, <2>3
<1>5. BTypeOK'
  BY <1>2, <1>3, <1>4 DEF BInv, BTypeOK, TypeOK, vars, world, run
<1>7. stage' = "copy" /\ Trusted => Stands'
  BY <1>1, <1>2, <1>4, CompileStands DEF ExecRemote
<1>8. Along'
  BY <1>2, <1>4, <1>7 DEF BInv, Along, Trusted, vars, run
<1>9. BinaryIsFresh'
  BY <1>2, <1>4 DEF BinaryIsFresh
<1> QED
  BY <1>3, <1>5, <1>8, <1>9

\* Nothing that is said of a run is about the remote tree.
LEMMA ProbeBInv == ASSUME BInv, IInv', NEW d \in Dirs, ProbeInTime(d)
                   PROVE  BTypeOK' /\ Marked' /\ Along' /\ BinaryIsFresh'
<1>1. UNCHANGED <<local, edits, look, pc, dir, via, sent, basis, flow, cache>>
  BY DEF ProbeInTime, ProbeHost, world, run
<1>2. BTypeOK'
  BY <1>1 DEF BInv, IInv, BTypeOK, flow, cache
<1> QED
  BY <1>1, <1>2 DEF BInv, Marked, Along, BinaryIsFresh, Stands, Trusted, Covers, Alike, flow, cache

\* The rest of a run.
LEMMA RunBInv ==
  ASSUME BInv, IInv',
         \/ \E c \in Commands, d \in Dirs : Begin(c, d)
         \/ \E mode \in Modes : Sync(mode)
         \/ Refuse \/ NoSync \/ Synced \/ Clean \/ CopyBack \/ UNCHANGED bvars
  PROVE  BTypeOK' /\ Marked' /\ Along' /\ BinaryIsFresh'
<1>1. ASSUME NEW c \in Commands, NEW d \in Dirs, Begin(c, d)
      PROVE  BTypeOK' /\ Marked' /\ Along' /\ BinaryIsFresh'
  <2>1. /\ UNCHANGED <<vars, compiled, mark, late>> /\ target' \in Dirs /\ cmd' \in Commands
        /\ stage' = "require" /\ synced' = FALSE /\ exit' = "none"
    BY <1>1 DEF Begin, cache
  <2>2. BTypeOK' /\ Marked'
    BY <2>1 DEF BInv, IInv, BTypeOK, Marked, Covers, Alike, vars, world
  <2> QED
    BY <2>1, <2>2 DEF BInv, Along, BinaryIsFresh, vars, run
<1>2. ASSUME NEW mode \in Modes, Sync(mode)
      PROVE  BTypeOK' /\ Marked' /\ Along' /\ BinaryIsFresh'
  <2>1. /\ UNCHANGED <<local, edits, look, compiled, mark, late, cmd, target, exit>>
        /\ pc' # "done" /\ dir' = target /\ stage' = "sync" /\ synced' = TRUE
    BY <1>2 DEF Sync, Start, Modes, Goto, cache, world
  <2>2. BTypeOK' /\ Marked'
    BY <2>1 DEF BInv, IInv, BTypeOK, Marked, Covers, Alike
  <2> QED
    BY <2>1, <2>2 DEF Along, BinaryIsFresh
<1>3. CASE Clean
  <2>1. /\ UNCHANGED <<vars, target, mark, late>> /\ cmd = "clean"
        /\ compiled' = compiled \/ compiled' = [compiled EXCEPT ![target] = NoDir]
    BY <1>3 DEF Clean
  <2>5. PICK code \in {"ok", "code"} : End(code)
    BY <1>3 DEF Clean
  <2>6. /\ stage' = "ended" /\ exit' \in {"ok", "code"} /\ (exit' = "ok" => cmd' = "clean")
        /\ cmd' \in Commands /\ synced' \in BOOLEAN /\ (synced' => synced)
    BY <2>1, <2>5, EndKeeps
  <2>2. \A d \in Dirs : compiled'[d] \in {compiled[d], NoDir}
    BY <2>1 DEF BInv, BTypeOK
  <2>3. Marked'
    BY <2>1, <2>2 DEF BInv, Marked, Covers, Alike, vars, world
  <2>4. BTypeOK'
    BY <2>1, <2>6 DEF BInv, BTypeOK, IInv
  <2> QED
    BY <2>1, <2>3, <2>4, <2>6 DEF BInv, Along, BinaryIsFresh, vars, run
<1>4. ASSUME UNCHANGED <<vars, target, cache>>, cmd' \in Commands, synced' \in BOOLEAN,
             stage' \in {"idle", "require", "sync", "cargo", "copy", "ended"},
             exit' \in {"none", "ok", "code", "error"}
      PROVE  /\ BTypeOK' /\ Marked'
             /\ UNCHANGED <<pc, dir, via, sent, edits, remote, basis, compiled, mark, late,
                            target>>
             /\ Stands' = Stands /\ (synced' = synced => Trusted' = Trusted)
             /\ \A f \in Files : Covers(target, f, sent[f])' = Covers(target, f, sent[f])
  BY <1>4
  DEF BInv, IInv, BTypeOK, Marked, Covers, Alike, Stands, Trusted, vars, world, run, cache
<1>5. CASE Refuse
  <2>1. /\ UNCHANGED <<vars, target, cache>> /\ stage' = "ended" /\ exit' = "error"
        /\ cmd' \in Commands /\ synced' \in BOOLEAN /\ (synced' => synced)
    BY <1>5, EndKeeps DEF Refuse
  <2> QED
    BY <1>4, <2>1 DEF BInv, Along, BinaryIsFresh
<1>6. CASE NoSync
  <2>1. /\ UNCHANGED <<vars, cmd, target, synced, cache>> /\ stage' = "cargo" /\ exit' = exit
        /\ stage = "require" /\ exit \in {"none", "ok", "code", "error"}
        /\ cmd \in Commands /\ synced \in BOOLEAN
    BY <1>6 DEF NoSync, GoOn, BInv, BTypeOK
  <2> QED
    BY <1>4, <2>1 DEF BInv, Along, BinaryIsFresh
<1>7. CASE Synced
  <2>1. UNCHANGED <<vars, target, cache>> /\ stage = "sync"
    BY <1>7 DEF Synced
  <2>2. /\ exit' \in {"none", "ok", "code", "error"}
        /\ cmd' \in Commands /\ synced' \in BOOLEAN /\ (synced' => synced)
        /\ \/ stage' = "ended" /\ exit' = "error"
           \/ stage' = "ended" /\ exit' = "ok" /\ cmd' = "sync"
           \/ stage' = "cargo" /\ pc = "done" /\ synced' = synced
    <3>1. CASE pc = "failed" /\ End("error")
      BY <3>1, EndKeeps
    <3>2. CASE pc = "done" /\ cmd = "sync" /\ End("ok")
      BY <3>2, EndKeeps
    <3>3. CASE pc = "done" /\ cmd # "sync" /\ GoOn("cargo")
      BY <3>3 DEF GoOn, BInv, BTypeOK
    <3> QED
      BY <1>7, <3>1, <3>2, <3>3 DEF Synced
  <2> QED
    BY <1>4, <2>1, <2>2 DEF BInv, Along, BinaryIsFresh
<1>8. CASE CopyBack
  <2>1. UNCHANGED <<vars, target, cache>> /\ stage = "copy"
    BY <1>8 DEF CopyBack
  <2>2. PICK code \in {"ok", "error"} : End(code)
    BY <1>8 DEF CopyBack
  <2>3. /\ stage' = "ended" /\ exit' = code
        /\ cmd' \in Commands /\ synced' \in BOOLEAN /\ (synced' => synced)
        /\ code = "ok" => UNCHANGED <<cmd, synced>>
    BY <2>2, EndKeeps
  <2> QED
    BY <1>4, <2>1, <2>3 DEF BInv, Along, BinaryIsFresh
<1>9. CASE UNCHANGED bvars
  <2>1. /\ UNCHANGED <<vars, cmd, target, synced, cache, stage, exit>>
        /\ stage \in {"idle", "require", "sync", "cargo", "copy", "ended"}
        /\ exit \in {"none", "ok", "code", "error"}
        /\ cmd \in Commands /\ synced \in BOOLEAN
    BY <1>9 DEF bvars, flow, BInv, BTypeOK
  <2> QED
    BY <1>4, <2>1 DEF BInv, Along, BinaryIsFresh
<1> QED
  BY <1>1, <1>2, <1>3, <1>5, <1>6, <1>7, <1>8, <1>9

LEMMA BNextBInv == BInv /\ [BNext]_bvars => BInv'
<1> SUFFICES ASSUME BInv, [BNext]_bvars PROVE BInv'
  OBVIOUS
<1>1. [Next]_vars
  BY StepIsModesStep DEF BInv
<1>2. IInv'
  BY <1>1, NextIInv DEF BInv
<1>3. ChainIsExact'
  BY <1>1, <1>2, NextChain DEF BInv
<1>4. BTypeOK' /\ Marked' /\ Along' /\ BinaryIsFresh'
  BY <1>2, EditBInv, TransferBInv, CargoBInv, ProbeBInv, RunBInv DEF BNext
<1> QED
  BY <1>2, <1>3, <1>4 DEF BInv

\* Types, and what cargo has compiled and what the snapshot claims, at every
\* point of any sequence of runs.
THEOREM BuildInvariant == BSpec => []BInv
  BY BInitBInv, BNextBInv, PTL DEF BSpec

\* A build that reports success hands back a binary of the sources it found,
\* but for a file that was written between an earlier run's walk and its cargo,
\* and for a long one that delta sync did not tell from what was there.
THEOREM BinaryIsFreshHolds == BSpec => []BinaryIsFresh
<1>1. BInv => BinaryIsFresh
  BY DEF BInv
<1> QED
  BY <1>1, BuildInvariant, PTL

\* The transfers of any sequence of runs are a behaviour of TransferModes: all
\* that is proved of that holds here.
THEOREM BuildFlowRefinesModes == BSpec => Spec
<1>1. BInit => Init
  BY DEF BInit
<1>2. BInv /\ [BNext]_bvars => [Next]_vars
  BY StepIsModesStep DEF BInv
<1> QED
  BY <1>1, <1>2, BuildInvariant, PTL DEF BSpec, Spec

=============================================================================
