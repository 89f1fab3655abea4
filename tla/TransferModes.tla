--------------------------- MODULE TransferModes ---------------------------
(***************************************************************************)
(* The transfer modes (src/transfer.rs) over a sequence of runs: which way *)
(* the sources take to the remote directory, and what they find there from *)
(* earlier runs, in whatever mode and however those ended.                 *)
(*                                                                         *)
(* A tree gives each file a version, 0 when it is not there; a version is  *)
(* never used twice.  The single transfer is a step: module SyncSession    *)
(* has the delta sync and TarPipeline the tar stream, and what these can   *)
(* leave behind is what the steps of this module can.                      *)
(*                                                                         *)
(* An incremental tar dumps what has changed since the snapshot file was   *)
(* written, and writes that file again when tar ends, whatever becomes of  *)
(* the stream.  The file is named after the host and the project.          *)
(***************************************************************************)
EXTENDS Naturals, FiniteSets

CONSTANTS
  Files,      \* the files of the project
  Long,       \* those too long for delta sync to look into when they seem the same
  Dirs,       \* the remote directories that runs are configured with
  MaxEdits,   \* bound: edits of the project
  MaxRuns     \* bound: runs

ASSUME BoundsAssumption == MaxEdits \in Nat \ {0} /\ MaxRuns \in Nat
ASSUME LongAssumption == Long \subseteq Files
ASSUME DirsAssumption == "nowhere" \notin Dirs

VARIABLES
  local,      \* local[f]: the version of f, 0 for none
  edits,      \* how many versions there have been
  look,       \* look[v]: the version that delta sync takes v for
  remote,     \* remote[d]: the tree in d, NoDir when there is no d
  snar,       \* the tree the snapshot file describes, NoSnar when it is not there
  platform,   \* the agent runs on the remote: same platform, and it starts
  runs,       \* how many runs there have been
  pc,         \* where the run is
  dir,        \* the remote directory of the run
  \* History, read by no action:
  via,        \* the transfer that the run came to
  sent,       \* the project as the run found it
  basis       \* the directory that got all the snapshot stands for, if any

run == <<pc, dir, via, sent>>
world == <<local, edits, look>>
vars == <<world, remote, snar, platform, runs, run, basis>>

NoDir == [f \in {} |-> 0]
NoSnar == [f \in {} |-> 0]
Nowhere == "nowhere"
Modes == {"auto", "delta", "tar", "inc"}
Trees == [Files -> 0..MaxEdits]

TypeOK ==
  /\ local \in Trees /\ edits \in 0..MaxEdits
  /\ look \in [0..MaxEdits -> 0..MaxEdits]
  /\ remote \in [Dirs -> Trees \cup {NoDir}]
  /\ snar \in Trees \cup {NoSnar}
  /\ platform \in BOOLEAN
  /\ runs \in 0..MaxRuns
  /\ pc \in {"idle", "probe", "agent", "delta", "tar", "inc", "done", "failed"}
  /\ dir \in Dirs
  /\ via \in {"none", "delta", "tar", "inc"} /\ sent \in Trees
  /\ basis \in Dirs \cup {Nowhere}

Init ==
  /\ local = [f \in Files |-> 1] /\ edits = 1
  /\ look = [v \in 0..MaxEdits |-> v]
  /\ remote = [d \in Dirs |-> NoDir]
  /\ snar = NoSnar
  /\ platform \in BOOLEAN
  /\ runs = 0
  /\ pc = "idle" /\ dir \in Dirs
  /\ via = "none" /\ sent = local
  /\ basis = Nowhere

\* The versions of f that delta sync can find and take for a new one.
Known(f) == {remote[d][f] : d \in {e \in Dirs : remote[e] # NoDir}} \ {0}

\* A file is written, or removed.  A long one may get the length and, within the
\* same second, the time of modification that an earlier version of it has.
Edit(f) ==
  /\ edits < MaxEdits
  /\ edits' = edits + 1
  /\ \/ local' = [local EXCEPT ![f] = 0] /\ UNCHANGED look
     \/ /\ local' = [local EXCEPT ![f] = edits + 1]
        /\ \/ UNCHANGED look
           \/ f \in Long /\ \E v \in Known(f) : look' = [look EXCEPT ![edits + 1] = look[v]]
  /\ UNCHANGED <<remote, snar, platform, runs, run, basis>>

\* `cargo remote probe` makes the remote directory, whatever else runs: it takes
\* no lock.  From then on it is no longer cold.
ProbeHost(d) ==
  /\ remote[d] = NoDir
  /\ remote' = [remote EXCEPT ![d] = [f \in Files |-> 0]]
  /\ UNCHANGED <<world, snar, platform, runs, run, basis>>

-----------------------------------------------------------------------------

Goto(label) == pc' = label

\* Transfer::sync, in the mode and for the directory of the configuration.
Start(mode, d) ==
  /\ pc \in {"idle", "done", "failed"}
  /\ runs < MaxRuns /\ runs' = runs + 1
  /\ dir' = d
  /\ Goto(CASE mode = "auto" -> "probe"
            [] mode = "delta" -> "agent"
            [] mode = "tar" -> "tar"
            [] mode = "inc" -> "inc")
  /\ via' = "none"
  /\ UNCHANGED <<world, remote, snar, platform, sent, basis>>

\* auto_sync: test -d.
Probe ==
  /\ pc = "probe"
  /\ Goto(IF remote[dir] # NoDir THEN "agent" ELSE "tar")
  /\ UNCHANGED <<world, remote, snar, platform, runs, dir, via, sent, basis>>

\* delta_sync: ensure_agent, and incremental tar where the agent does not run.
EnsureAgent ==
  /\ pc = "agent"
  /\ Goto(IF platform THEN "delta" ELSE "inc")
  /\ UNCHANGED <<world, remote, snar, platform, runs, dir, via, sent, basis>>

\* The connection is lost, or the run is killed, between two steps.
Fail ==
  /\ pc \in {"probe", "agent", "delta", "tar", "inc"}
  /\ Goto("failed")
  /\ UNCHANGED <<world, remote, snar, platform, runs, dir, via, sent, basis>>

\* What the remote directory holds before the transfer.
Found == IF remote[dir] = NoDir THEN [f \in Files |-> 0] ELSE remote[dir]

\* The remote directory gets all of a transfer that makes it `goal`, or, when
\* the transfer fails, some of it.
Arrive(goal, ok) ==
  /\ \E part \in SUBSET Files :
       /\ ok => part = Files
       /\ remote' = [remote EXCEPT ![dir] =
            [f \in Files |-> IF f \in part THEN goal[f] ELSE Found[f]]]
  /\ Goto(IF ok THEN "done" ELSE "failed")
  /\ sent' = local

\* Delta sync with delete = true: the directory becomes the project, except that
\* what looks the same there is left alone.
Delta ==
  /\ pc = "delta"
  /\ LET goal == [f \in Files |->
                    IF look[Found[f]] = look[local[f]] THEN Found[f] ELSE local[f]]
     IN  \E ok \in BOOLEAN : Arrive(goal, ok)
  /\ via' = "delta"
  /\ UNCHANGED <<world, snar, platform, runs, dir, basis>>

\* Mutant of Tar: the remote directory is emptied before it is unpacked into.
TarAfresh ==
  /\ pc = "tar"
  /\ \E ok \in BOOLEAN, part \in SUBSET Files :
       /\ ok => part = Files
       /\ remote' = [remote EXCEPT ![dir] =
            [f \in Files |-> IF f \in part THEN local[f] ELSE 0]]
       /\ Goto(IF ok THEN "done" ELSE "failed")
  /\ sent' = local /\ via' = "tar"
  /\ UNCHANGED <<world, snar, platform, runs, dir, basis>>

\* A full archive is unpacked over what is there.
Tar ==
  /\ pc = "tar"
  /\ \E ok \in BOOLEAN :
       Arrive([f \in Files |-> IF local[f] = 0 THEN Found[f] ELSE local[f]], ok)
  /\ via' = "tar"
  /\ UNCHANGED <<world, snar, platform, runs, dir, basis>>

\* What --listed-incremental dumps.
Changed == {f \in Files : local[f] # 0 /\ (snar = NoSnar \/ snar[f] # local[f])}

\* Unpacking it removes what the dumped directory does not list.
Unpacked ==
  [f \in Files |-> CASE local[f] = 0 -> 0
                     [] f \in Changed -> local[f]
                     [] OTHER -> Found[f]]

\* The snapshot stands for what dir has now, if it did for what dir had.
Basis(ok) ==
  basis' = IF ok /\ (snar = NoSnar \/ basis = dir) THEN dir ELSE Nowhere

\* Mutant of Inc: the remote does not process deletions.
IncKeeps ==
  /\ pc = "inc"
  /\ \E ok, finished \in BOOLEAN :
       /\ ok => finished
       /\ Arrive([f \in Files |-> IF f \in Changed THEN local[f] ELSE Found[f]], ok)
       /\ IF finished THEN snar' = local /\ Basis(ok) ELSE UNCHANGED <<snar, basis>>
  /\ via' = "inc"
  /\ UNCHANGED <<world, platform, runs, dir>>

\* An incremental archive.  The local tar may have finished although the
\* transfer failed.
Inc ==
  /\ pc = "inc"
  /\ \E ok, finished \in BOOLEAN :
       /\ ok => finished
       /\ Arrive(Unpacked, ok)
       /\ IF finished THEN snar' = local /\ Basis(ok) ELSE UNCHANGED <<snar, basis>>
  /\ via' = "inc"
  /\ UNCHANGED <<world, platform, runs, dir>>

Next ==
  \/ \E f \in Files : Edit(f)
  \/ \E mode \in Modes, d \in Dirs : Start(mode, d)
  \/ \E d \in Dirs : ProbeHost(d)
  \/ Probe \/ EnsureAgent \/ Fail \/ Delta \/ Tar \/ Inc

Spec == Init /\ [][Next]_vars

-----------------------------------------------------------------------------

\* Every file of the project is on the remote, as the run found it.
Fresh == \A f \in Files : sent[f] # 0 => remote[dir][f] = sent[f]

\* And nothing else is.
Exact == remote[dir] = sent

\* An incremental run that reports success leaves exactly the project for as
\* long as the archives since the snapshot file was first written have all
\* arrived in this one directory, whatever other modes did to it in between.
ChainIsExact == pc = "done" /\ via = "inc" /\ basis = dir => Exact

\* The snapshot never claims a file for the directory it stands for that the
\* directory does not have in that version: a failed or a different transfer
\* in between takes nothing away that later archives would leave out.
SnapshotBacked ==
  basis # Nowhere =>
    /\ snar \in Trees /\ remote[basis] \in Trees
    /\ \A f \in Files : local[f] # 0 /\ snar[f] = local[f] => remote[basis][f] = local[f]

\* No tree has a version of the future, and none is taken for a later one.
Past ==
  /\ \A f \in Files :
       /\ local[f] <= edits /\ sent[f] <= edits
       /\ snar # NoSnar => snar[f] <= edits
       /\ \A d \in Dirs : remote[d] # NoDir => remote[d][f] <= edits
  /\ \A v \in 0..MaxEdits :
       look[v] <= v /\ (look[v] = 0 => v = 0) /\ (v > edits => look[v] = v)

\* What a transfer that succeeds leaves is a tree, and is not told from what it
\* should be.
Landed ==
  pc = "done" =>
    /\ remote[dir] \in Trees
    /\ \A f \in Files :
         via = "delta" \/ (via = "tar" /\ sent[f] # 0) =>
           look[remote[dir][f]] = look[sent[f]]

\* The inductive invariant.
IInv == TypeOK /\ Past /\ SnapshotBacked /\ Landed

\* A run that reports success has brought every file up to date.  The code does
\* not keep this promise in the incremental mode.
SourcesSynced == pc = "done" => Fresh

=============================================================================
