----------------------------- MODULE BuildFlow -----------------------------
(***************************************************************************)
(* A run of cargo-remote from end to end (src/main.rs, src/runner.rs): the *)
(* check of the host, the transfer of module TransferModes, cargo on the   *)
(* remote, and the copy back.  The run lock keeps runs apart.              *)
(*                                                                         *)
(* Cargo itself is external: it compiles what is in the directory, unless  *)
(* the files are the ones it compiled before and none has been modified    *)
(* since then.  The time of modification is what the transfer has set: the *)
(* local one, in whole seconds.  As versions grow with time, the last      *)
(* version of the second in which cargo started tells what is newer.       *)
(***************************************************************************)
EXTENDS TransferModes

VARIABLES
  stage,      \* where the run is
  cmd,        \* the command: "build" with copy back, "other" for the rest of cargo's
  target,     \* the remote directory it is configured with
  synced,     \* the run transfers, no --no-sync
  exit,       \* the exit of the run: zero, cargo's code, or an error of its own
  compiled,   \* compiled[d]: the tree cargo last compiled in d, NoDir for none
  mark,       \* mark[d]: no version up to this one is newer than that
  \* History, read by no action:
  late        \* late[d]: the local versions that cargo was too early for in d

flow == <<stage, cmd, target, synced, exit>>
cache == <<compiled, mark, late>>
bvars == <<vars, flow, cache>>

Commands == {"sync", "build", "other", "clean"}

BTypeOK ==
  /\ TypeOK
  /\ stage \in {"idle", "require", "sync", "cargo", "copy", "ended"}
  /\ cmd \in Commands /\ target \in Dirs /\ synced \in BOOLEAN
  /\ exit \in {"none", "ok", "code", "error"}
  /\ compiled \in [Dirs -> Trees \cup {NoDir}]
  /\ mark \in [Dirs -> 0..MaxEdits]
  /\ late \in [Dirs -> SUBSET (1..MaxEdits)]

BInit ==
  /\ Init
  /\ stage = "idle" /\ cmd = "sync" /\ target \in Dirs
  /\ synced = FALSE /\ exit = "none"
  /\ compiled = [d \in Dirs |-> NoDir]
  /\ mark = [d \in Dirs |-> 0]
  /\ late = [d \in Dirs |-> {}]

\* An edit, within the second in which cargo has last started somewhere or not.
\* Versions with the same time of modification are of the same second.
EditInTime(f) ==
  /\ Edit(f)
  /\ \E quick \in BOOLEAN :
       LET soon == {d \in Dirs : quick /\ compiled[d] # NoDir /\ mark[d] = edits}
       IN  /\ \A d \in Dirs \ soon :
                compiled[d] # NoDir => mark[d] < look'[edits + 1]
           /\ mark' = [d \in Dirs |-> IF d \in soon THEN edits + 1 ELSE mark[d]]
           /\ late' = [d \in Dirs |->
                IF d \in soon THEN late[d] \cup {edits + 1} ELSE late[d]]
  /\ UNCHANGED <<flow, compiled>>

\* The command probe, at any time.
ProbeInTime(d) == ProbeHost(d) /\ UNCHANGED <<flow, cache>>

-----------------------------------------------------------------------------

\* The run goes on, with what it is about.
GoOn(to) == stage' = to /\ UNCHANGED <<cmd, synced, exit>>

\* The run is over.  Of one that has failed nothing but that is of interest.
End(code) ==
  /\ stage' = "ended" /\ exit' = code
  /\ cmd' = IF code = "ok" THEN cmd ELSE "sync"
  /\ synced' = (code = "ok" /\ synced)

\* main::run: the run has its configuration, its connection and the lock.
Begin(c, d) ==
  /\ stage \in {"idle", "ended"}
  /\ stage' = "require" /\ cmd' = c /\ target' = d
  /\ synced' = FALSE /\ exit' = "none"
  /\ UNCHANGED <<vars, cache>>

\* A bad profile, a host that does not meet the requirements, or no host any more.
Refuse ==
  /\ stage = "require"
  /\ End("error")
  /\ UNCHANGED <<vars, target, cache>>

\* do_sync, in some mode.
Sync(mode) ==
  /\ stage = "require" /\ cmd # "clean"
  /\ Start(mode, target)
  /\ stage' = "sync" /\ synced' = TRUE
  /\ UNCHANGED <<cmd, target, exit, cache>>

\* --no-sync, and clean.
NoSync ==
  /\ stage = "require" /\ cmd # "sync"
  /\ GoOn("cargo")
  /\ UNCHANGED <<vars, target, cache>>

Transfer ==
  /\ stage = "sync"
  /\ Probe \/ EnsureAgent \/ Fail \/ Delta \/ Tar \/ Inc
  /\ UNCHANGED <<flow, cache>>

\* Mutant of Synced: cargo runs on what a failed transfer has left.
SyncedAnyway ==
  /\ stage = "sync" /\ pc \in {"done", "failed"}
  /\ IF cmd = "sync" THEN End("ok") ELSE GoOn("cargo")
  /\ UNCHANGED <<vars, target, cache>>

\* What comes after the transfer.
Synced ==
  /\ stage = "sync"
  /\ \/ pc = "failed" /\ End("error")
     \/ pc = "done" /\ cmd = "sync" /\ End("ok")
     \/ pc = "done" /\ cmd # "sync" /\ GoOn("cargo")
  /\ UNCHANGED <<vars, target, cache>>

\* Cargo finds nothing to do in d.
UpToDate(d) ==
  /\ compiled[d] # NoDir
  /\ \A f \in Files : /\ (compiled[d][f] = 0) = (remote[d][f] = 0)
                      /\ remote[d][f] <= mark[d]

Compile(d) ==
  IF UpToDate(d) THEN UNCHANGED cache
  ELSE /\ compiled' = [compiled EXCEPT ![d] = remote[d]]
       /\ mark' = [mark EXCEPT ![d] = edits]
       /\ late' = [late EXCEPT ![d] =
            {v \in 1..edits :
               \E f \in Files : v = local[f] /\ look[v] # look[remote[d][f]]}]

\* exec_remote: cargo's exit code, 255 when none arrives; without the directory
\* not even cd succeeds.
ExecRemote(ok) == remote[target] = NoDir => ~ok

\* Mutant of Cargo: the exit code of a build is not looked at.
CargoUnchecked ==
  /\ stage = "cargo" /\ cmd \in {"build", "other"}
  /\ \E ok, builds \in BOOLEAN :
       /\ ExecRemote(ok) /\ ExecRemote(builds)
       /\ ok /\ cmd = "build" => builds
       /\ IF builds THEN Compile(target) ELSE UNCHANGED cache
       /\ \/ ~ok /\ cmd = "other" /\ End("code")
          \/ cmd = "build" /\ GoOn("copy")
          \/ ok /\ cmd = "other" /\ End("ok")
  /\ UNCHANGED <<vars, target>>

\* A cargo command that compiles, all or some, or not at all.
Cargo ==
  /\ stage = "cargo" /\ cmd \in {"build", "other"}
  /\ \E ok, builds \in BOOLEAN :
       /\ ExecRemote(ok) /\ ExecRemote(builds)
       /\ ok /\ cmd = "build" => builds
       /\ IF builds THEN Compile(target) ELSE UNCHANGED cache
       /\ \/ ~ok /\ End("code")
          \/ ok /\ cmd = "build" /\ GoOn("copy")
          \/ ok /\ cmd = "other" /\ End("ok")
  /\ UNCHANGED <<vars, target>>

\* cargo clean.
Clean ==
  /\ stage = "cargo" /\ cmd = "clean"
  /\ \E ok \in BOOLEAN :
       /\ ExecRemote(ok)
       /\ End(IF ok THEN "ok" ELSE "code")
       /\ compiled' = IF ok THEN [compiled EXCEPT ![target] = NoDir] ELSE compiled
  /\ UNCHANGED <<vars, target, mark, late>>

\* copy_back_binaries: what cargo has left there arrives, or the run fails.
CopyBack ==
  /\ stage = "copy"
  /\ End("ok") \/ End("error")
  /\ UNCHANGED <<vars, target, cache>>

BNext ==
  \/ \E f \in Files : EditInTime(f)
  \/ \E d \in Dirs : ProbeInTime(d)
  \/ \E c \in Commands, d \in Dirs : Begin(c, d)
  \/ \E mode \in Modes : Sync(mode)
  \/ Refuse \/ NoSync \/ Transfer \/ Synced \/ Cargo \/ Clean \/ CopyBack

BSpec == BInit /\ [][BNext]_bvars

-----------------------------------------------------------------------------

\* The transfer of this run brings all there is to bring: delta and full tar
\* do whatever was before, an incremental archive if its snapshot is true.
Trusted == synced /\ (via = "inc" => basis = target)

\* Delta sync takes v for w: they are the same, or a long file that has had both.
Alike(v, w) == look[v] = look[w]

\* The binary stands for the project as the run found it, but for versions
\* that cargo came too early for, or that delta sync did not tell from another.
Stands ==
  /\ compiled[target] # NoDir
  /\ \A f \in Files :
       /\ sent[f] # 0 =>
            Alike(compiled[target][f], sent[f]) \/ sent[f] \in late[target]
       /\ via = "delta" /\ sent[f] = 0 => compiled[target][f] = 0

\* A build that reports success has handed back a binary of the sources it
\* found, through any earlier runs and failures, with two exceptions.  One is a
\* file written after the last transfer that read it, and no later than the second
\* in which some cargo started: it reaches the remote as old as it is, and cargo,
\* which has compiled since, does not look at it.  The other is a long file that
\* was written twice within a second, at the same length: delta sync looks no
\* further, and leaves the first where it is.
BinaryIsFresh ==
  stage = "ended" /\ exit = "ok" /\ cmd = "build" /\ Trusted => Stands

\* Cargo looks at a version, has compiled it, or was too early for it.
Covers(d, f, v) ==
  v = 0 \/ compiled[d] = NoDir \/ Alike(compiled[d][f], v) \/ v \in late[d] \/ mark[d] < v

\* No version of the project can slip past cargo unnoticed, and what is alike is
\* as old.
Marked == \A d \in Dirs :
  /\ mark[d] <= edits
  /\ compiled[d] # NoDir =>
       \A v \in 1..edits : look[v] <= mark[d] => v <= mark[d]
  /\ \A f \in Files : Covers(d, f, local[f])

\* Once the transfer has arrived, that is where cargo runs, and what it carried
\* is covered; once cargo is done with it, it is compiled.
Along ==
  /\ pc = "done" => via # "none"
  /\ (stage = "sync" => synced) /\ (stage = "require" => ~synced)
  /\ synced => dir = target
  /\ synced /\ stage \in {"cargo", "copy"} => pc = "done"
  /\ synced /\ stage \in {"sync", "cargo"} /\ pc = "done" =>
       \A f \in Files : Covers(target, f, sent[f])
  /\ stage = "copy" => cmd = "build" /\ (Trusted => Stands)

\* The inductive invariant.
BInv == BTypeOK /\ Marked /\ Along /\ IInv /\ ChainIsExact /\ BinaryIsFresh

=============================================================================
