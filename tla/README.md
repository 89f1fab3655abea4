# cargo-remote, formally

TLA+ modules that model cargo-remote, the TLC configurations that check them on
small instances, and theorems about them that TLAPS proves for every instance.
References such as `agent.rs:976` are lines of `src/src/agent.rs` and so on.
`PROJECT.json` maps every definition to the lines it stands for.

1. [The system](#1-the-system)
2. [The modules](#2-the-modules)
3. [The runs](#3-the-runs)
4. [Fairness](#4-fairness)
5. [The proofs](#5-the-proofs)
6. [Where code and documentation disagree](#6-where-code-and-documentation-disagree)
7. [What is left out](#7-what-is-left-out)
8. [Plan](#8-plan)

## 1. The system

`cargo remote build` brings the sources of a project to a remote directory, runs
cargo there, and brings the binaries back. One client process per run talks over
one ssh connection to shell commands, and, when the platforms match, to an
*agent*: a copy of its own binary that it has installed on the remote and that
speaks a framed protocol over stdin and stdout.

```
main::run ── run lock (a file, per host and project)
   │
   ├─ config, cli, project ......... what to do, where
   ├─ Ssh::connect ................. one ssh connection: host key, then the user's keys
   ├─ require ...................... does the host meet the requirements
   ├─ Transfer::sync ── auto ─┬─ delta ── ensure_agent ── Agent::sync ⇄ serve_sync
   │                          ├─ tar ───── tar | gz | thread ═ channel ═ exec_send → tar -x
   │                          └─ tar-inc   the same, with a snapshot file
   ├─ exec_remote .................. cargo, in the remote directory
   └─ copy_back_binaries ─┬─ Agent::fetch ⇄ serve_fetch
                          └─ exec_download (cat), and cat Cargo.lock
```

### Inventory

| component | state it keeps | operations | what is hard | what makes it correct |
|---|---|---|---|---|
| run lock, `main.rs` 339-411 | a file with a pid | acquire, reclaim a stale one, drop | system calls of several processes interleave; killed runs | at most one holder; no stale lock stops a run; no file is left behind |
| delta sync, `agent.rs` 585-790, 1001-1066 | client: walk, plan, signatures; agent: position in the protocol | SYNC_REQ, LIST, MKDIR, SIG_REQ, SIG, PUT, DELETE, PLAN_DONE, DONE, ERROR | both trees are edited meanwhile; lost connections, dead agents, frames of an abandoned client applied later | a sync that succeeds mirrors the tree; each path is a whole version at all times; it never hangs |
| file tree, `agent.rs` 135-260, 415-520, 950-1105 | the directory tree, temporary files | walk, same_entry, write_file_atomic, apply_put, MKDIR, DELETE | links, paths that change kind, excluded entries inside deleted directories | the operations leave a tree that the next sync gets right |
| rsync algorithm, `rsync.rs` | rolling sums, window | signature, delta, roll, patch | unsigned arithmetic over a long scan; a short last block; patch on a changed file | round trip; bounded output; no block is missed |
| tar pipeline, `transfer.rs` 197-327, `ssh.rs` exec_send | pipes, channel, window | spawn, read, send, wait, close, join | six processes, threads and tasks, each of which may fail while buffers are full | success means all arrived; it ends |
| transfer modes, `transfer.rs` 77-210 | remote directories, snapshot file | auto, delta, tar, tar-inc | what a failed or a different transfer has left is what the next one finds | success means the sources are there |
| build flow, `main.rs` 51-330, `runner.rs` | the stage of a run, cargo's fingerprints | require, sync, cargo, clean, copy back | edits while a run is under way; the modification times cargo goes by; failures in every stage | a build that succeeds hands back a binary of the current sources |
| agent bootstrap, `runner.rs` 516-620, `agent.rs` Agent::start | the installed file, the cached path | uname, version check, upload, verify, start, start again | one file for all projects and clients; uploads that go on after their client is gone | what a run starts is its own build, or it knows why not |
| copy back, `runner.rs` 625-720, `agent.rs` fetch and serve_fetch, `ssh.rs` exec_download, exec_capture | the buffer of the framing, a temporary file | find, fetch, cat, apply_remote_lockfile | builds on both sides meanwhile, streams cut into any pieces or cut off | whole files only; nothing stale is reported as brought |
| ssh sessions, `ssh.rs` | known_hosts files, channels | connect, check_server_key, authenticate, exec_term, exec_capture, exec_send, exec_download | two files and a user vouch for a key while a timeout runs and other runs add keys; a closed channel looks the same at the end and at a loss | nothing is sent to a server nobody vouches for; a key that works is reached; an exit code is what the remote said |
| configuration, `config.rs`, `cli.rs`, `main.rs` 118-275 | six layers of settings | read, strip, overlay, merge | which layer wins, what a project may not set, where the host came from | each setting comes from the highest layer that may give it; nothing is copied back from a host of a project file unasked |
| probe and requirements, `runner.rs` 240-514 | what the host was seen to have | probe, check_requirements | two pieces of code judge the same host; probe itself changes what `auto` does | what probe calls ready a run does not turn away |
| ssh config, `sshcfg.rs` | - | parse, match globs | a glob that goes back, negated patterns, blocks that overlap | the setting is the one ssh itself would use |
| project discovery, `project.rs` | - | cargo metadata, sanitized names | - | two projects do not share a directory |
| progress, `progress.rs` | counters, a drawing task | - | - | display only |

### Interactions that matter

* The run lock is per host, project *and machine* (the file is in a local
  directory). Two machines, or two projects, share the agent: `AgentBootstrap`.
  One machine's runs on a project are kept apart (but see section 6).
* `probe` takes no lock and makes the remote directory (`runner.rs:497`), after
  which `auto` takes it for warm: `ProbeHost` of `TransferModes`.
* A delta is made on one side against a signature of the other side's file, and
  applied to what that file is *later*, in both directions: `SyncSession`,
  `CopyBack`.
* The sync preserves modification times in whole seconds (`agent.rs:988`), and
  cargo decides by them whether to compile: `BuildFlow`.
* `ensure_agent` remembers the path for the whole run; the copy back starts the
  agent a second time, after the build, without another check: `AgentBootstrap`.
* Runs of one user share `known_hosts`, under no lock: another run may add a key
  between the check of this one's and its answer: `HostKeys`.
* Where the host was named (`config.rs:124`) decides much later whether binaries are
  copied back (`main.rs:230`): `ConfigLayers`.
* `probe` and a run judge a host by different code (`runner.rs:304`, `243`, `526`),
  and `probe` makes the directory by which `auto` chooses: `HostCheck`.

## 2. The modules

| module | stands for | built on | proofs |
|---|---|---|---|
| `RunLock` | `acquire_run_lock_in`, `Drop for RunLock` | | `ConcurrentRunsProofs` |
| `FileTree` | paths, entries and the file-system calls of the agent | | |
| `BlockDelta` | signature, delta, patch at the grain of blocks | | |
| `SyncSession` | `Agent::sync` and `serve_sync` | `FileTree`, `BlockDelta` | `SyncSessionProofs`, `SyncOutcomeProofs` |
| `Replica` | abstract: what a sync promises of each path | | `SyncSessionProofs` |
| `RsyncDelta` | `rsync.rs`, byte by byte | | `RsyncDeltaProofs` |
| `TarPipeline` | `tar_sync`, `run_tar_pipeline`, `exec_send` | | `TarPipelineProofs` |
| `TransferModes` | `Transfer::sync` over a sequence of runs | | `BuildFlowProofs` |
| `BuildFlow` | `main::run` from the requirements to the copy back | `TransferModes` | `BuildFlowProofs` |
| `AgentBootstrap` | `ensure_agent`, `Agent::start` | | `ConcurrentRunsProofs` |
| `CopyBack` | `copy_back_binaries`, `fetch`, `serve_fetch`, `exec_download`, the framing | `BlockDelta` | `CopyBackProofs` |
| `ConfigLayers` | `Config::load_from`, `RemoteOpts::merge`, `build_context` | | `RunSetupProofs` |
| `HostPatterns` | `strict_host_key_setting`, `glob_match` | | `RunSetupProofs` |
| `HostKeys` | `Ssh::connect`, `check_server_key`, `unknown_key` | `HostPatterns` | `RunSetupProofs` |
| `Authentication` | `authenticate` | | `RunSetupProofs` |
| `HostCheck` | `probe`, `check_requirements`, what each transfer needs | | `RunSetupProofs` |
| `RunSetup` | a run from its command line to the host | the four above | `RunSetupProofs` |

`MC<module>` gives the constants of `<module>` for TLC. A definition whose comment
begins with "Mutant of" is a plausible bug, used only to see that the properties
notice it.

**RunLock.** One action for each system call of a run; `creator` and `content`
are the file, `stage[r]` is where run `r` is. (Its names differ from those of
`AgentBootstrap`, so that `ConcurrentRunsProofs` can extend both.) `write!(f, pid)` writes into the file
that was opened, which may no longer be the one at the path; `remove_file` takes
whatever is at the path. `met` and `robbed` are history.

**SyncSession.** The client's actions are the stages of `Agent::sync`: `Start`
(walk, SYNC_REQ), `Plan` (LIST to MKDIR and SIG_REQ), `CollectSig`, `Verify`,
`Send` (one PUT), `Finish` (DELETE, PLAN_DONE), `Succeed`, `Fail`. The agent takes
one frame, or one path of a frame, at a time: `List`, `AnswerSig`, `Change`,
`Conclude`. `read_for_send` is two steps, `Open`, which compares length and time
with those of the walk, and `DataRead`: an edit in between is sent under the old
metadata. The agent's clock may lag the client's (`lag`), and a file may be of
before 1970 (a negative time), so that `Clamp` changes a time. No local file is newer
than the clock at the start (`StartsAssumption`): a file with a time still to come is
the same to the agent as a clock that lags by more, and is modelled so. The world
edits either tree, lets a second pass, breaks the connection, or kills the agent, perhaps within a PUT (`HalfPut`). `stray` holds
the frames that an abandoned agent still finds in its pipe. `FileTree` returns
for each call the tree it leaves *and* whether it failed, since the code often
ignores the error; it resolves a link in a path as the kernel
does. `rooted` says whether the synced root exists: an agent walks a missing one as empty, and only a directory
or a file that comes makes it, a link does not (`PutLink`). A PUT that is larger than `MaxFrame`
ends the agent (`Receivable`). What it has the agent
remove is `Deletes`, what is listed and not walked (`ToDelete`), the deepest first.
A remote link that leaves the root leads to no part of the tree, and no state starts with
one (`StartsAssumption`); local ones there are.

**Replica** is what the session implements (`PathReplica` in `SyncSession`, by a
refinement mapping that renames `remote` to `store` and takes the excluded paths
for `Protected`): at every moment each path holds nothing or a whole local
version, excluded paths are never touched, and only a path that somebody else
wrote to during a sync is no longer covered.

**RsyncDelta.** A step is one turn of `delta`'s loop (`Match` or `Slide`), or one
op of `patch`. `BlockDelta`, which the sessions use, is its abstraction: what `RoundTrip`
shows of the bytes is what `Patch(old, Delta(new, Signature(old))) = new` assumes.
`Totals` is the function of the sums up to each place of a block, which is what
`SumA` and `SumB` end with, and what the proofs do induction on.

**TarPipeline.** The archive is a number of chunks, and so is each buffer. `tar`,
the compressor, the producer thread, the sending task, the remote `tar` and
`tar_sync` itself take turns in any order, and each of the local tar, the compressor
and the remote may fail at any time.

**TransferModes** is above these two: a whole transfer is one step that makes some
or all of a tree arrive, as the sessions below it can leave it. A tree gives each
file a version. GNU tar's `--listed-incremental` is external and modelled from its
use: it dumps what differs from the snapshot, rewrites the snapshot when it ends
whatever becomes of the stream, and on unpacking removes what the archive's
directories do not list. `basis`, a history variable, is the directory for which
the snapshot is true. Of a `Long` file a new version may have the length and the second of an
earlier one: `look` says which versions are one to delta sync, which then leaves the file as it is.

**BuildFlow** extends it with the run around the transfer; hence `TransferModes`
is its abstraction, which is proved (`BuildFlowRefinesModes`). Cargo is external:
it compiles when the set of files has changed or a file is newer than its last
start. As versions grow with time, `mark[d]`, the last version of the second in
which cargo started, says what is newer; an edit may or may not fall into that
second (`quick`). `late[d]` has the versions that cargo came too early for: written
after the walk but not after that second. What a failed run was about is forgotten when it
ends (`End`), as nothing reads it later.

**AgentBootstrap.** Clients with builds of their own install one file. The upload
command runs on the remote and goes on when its client is gone: `orphans`.
`swapped[r]` records that somebody else put a file there since `r` saw its own.

**CopyBack.** The stream from the remote is a sequence of cells that arrives in
pieces of any length, so that `read_frame` is modelled by what it does: it waits
until the buffer holds a whole frame and drains exactly that. The other path is
`cat`, whose exit status comes behind its output, or not at all.

**ConfigLayers.** A setting's value is the layer it comes from, so that "which layer
wins" is what the state says; only of `copy_back` the value itself counts. One step
for each file that is read, one for the options. `seen` and `options` are history:
the properties compare the result with what the files and the options hold.

**HostPatterns** translates the glob loop, turn by turn (`GlobTurn`), and the scan of
the `Host` lines, on sequences of characters, and states next to them what
ssh_config(5) says of patterns: the name can be cut into pieces that fit (`Fits`), and
the first block with the keyword counts (`Says`). A run finds one of `SshConfigs`
(`Readings` in `HostKeys`) and keeps both readings of it, which `Vouched` compares.

**HostKeys.** `CheckKey` is the whole of `check_server_key` up to the prompt;
`Answer` and `Timeout` race; `late` is the process that has printed the timeout and
still waits for the user's line, as the blocking read keeps the runtime from
ending. The verdict of russh on a file is external (`Recorded`), also for files with
several keys of a host. `OtherLearns` and `Rekey` are the world.

**Authentication** tries the keys in order. **HostCheck** lets the user start `probe`,
a sync or a build in any order on one host that does not change but for the
directory that `probe` and a sync make. **RunSetup** puts these phases one after
another, as `build_context` and `Ssh::connect` do; what a phase leaves behind and
nothing reads later is reset, so that the phases do not multiply.

## 3. The runs

Twelve runs. The counts are of distinct states.

| run | property | what is asked, and what could go wrong |
|---|---|---|
| `runlock_pass` 18 482 | `LockInv` | the inductive invariant of section 5 |
| | `ExclusionUnlessRobbed` | two runs hold the lock only if one was robbed of its file by another |
| | `NoOrphanLock` | however many race, a run that ends by itself leaves no file |
| | `AloneNeverBails` | a stale lock, empty or not, never stops a run that meets no other |
| `runlock_exclusion` | `MutualExclusion` | *violated*: section 6 |
| `sync_pass` 406 543 | `TypeOK` | the tree stays a tree, whatever the steps of agents old and new do to it |
| | `SuccessMirrors` | a sync that reports success mirrors the walked tree, whatever earlier ones left half done and whatever was edited locally meanwhile |
| | `UndisturbedSucceeds` | a sync that nothing disturbs succeeds, from any state earlier failures left, but for the five cases of section 6 |
| | `Settled` | a file that is in step is not sent again by the next sync, unless a clock that lags or a time before 1970 keeps the times apart |
| | `NoGap` | a path that is there on both sides never goes missing during a sync |
| | `ReplicaSpec` | `SyncSession` implements `Replica` |
| | `SyncEnds` | client and agent never wait for each other, every SIG counted on is sent |
| `rsync_delta` 659 567 | `RoundTrip` | patch after delta gives the new file |
| | `OutputBounded` | whatever file patch finds, it gives the expected length or an error |
| | `RollIsRollsum` | no drift or underflow of the rolling sums |
| | `NoBlockMissed` | no window moved past by a byte was a block of the old file |
| `tar_pass` 182 377 | `IInv` | the inductive invariant |
| | `SuccessIsComplete` | success means that all has arrived and tar did not complain |
| | `NothingLost` | each chunk is in one buffer, until the remote or the compressor fails |
| | `EofIsLast` | the remote stdin is closed behind the last chunk |
| | `EndsUnlessStuck` | a transfer ends, but for the one deadlock of section 6 |
| `tar_ends` | `TransferEnds` | *violated*: section 6 |
| `modes_synced` | `SourcesSynced` | *violated*: section 6 |
| `build_pass` 3 834 085 | `IInv`, `ChainIsExact` (of `TransferModes`) | success of an incremental archive means the sources are there, while its snapshot is true of the directory, whatever modes, failures and probes came in between |
| | `BInv`, `BinaryIsFresh` | a build that succeeds hands back a binary of the sources it found, but for what cargo came too early for and what delta sync did not tell from an earlier version |
| `bootstrap_pass` 458 104 | `IInv` | a run that has seen its agent finds it there and fit to start, unless another client replaced it: no upload cut off counts as whole |
| | `FallsBackForCause` | a run does without the agent only for a reason |
| | `StartsUnlessReplaced` | nor does it fail to start it without one, the second time included |
| | `BootstrapEnds` | no upload is waited for that will not end |
| `copyback_pass` 512 068 | `Delivered` | when all is brought, each file is one the remote had since the start, or it vanished there |
| | `WholeFiles` | at every moment each local binary is a whole one, local or remote |
| | `FramesAligned` | however the stream is cut, the buffer begins at a frame and ends empty |
| | `LockAsked` | `Cargo.lock` changes only when asked for, and then to the remote one |
| | `CopyBackEnds` | it ends |
| `copyback_lock` | `CargoLockWhole` | *violated*: section 6 |
| `setup_pass` 1 233 333 | `HighestWins` | each setting is from the highest layer that may give it, a list has all of them in order, and a key that was ignored was warned about |
| | `CopyBackFollowsHost` | whether binaries come back is what the highest layer that counts says; where none does, they come from every host but one that a project file names |
| | `Vouched` | a server is trusted only with a key that is recorded, or accepted where the user may be asked, never against the user's own file; the reading of the ssh config agrees with ssh |
| | `UsableKeyWins` | authentication fails only if no key works that is reached |
| | `ProbeHolds` | no run is turned away by what a host lacks that probe has called ready, nor does without the agent that probe has promised, but for the exceptions of section 6 |
| | `ConnectEnds` | the timeout ends every attempt, the prompt included |

### Bounds, and why they are enough

* `RunLock`: 4 runs. The shortest behaviours that need the most runs are a crashed
  owner, two reclaimers of its file and one late run. For any number: section 5.
* `Sync_pass` starts from two kinds of states (`Starts`). *Edited*: one synced path, one
  excluded, one place for a temporary file; two syncs, one edit on each side, one
  break or death, two seconds, a clock that lags or not, and a file of before 1970 on
  either side. Contents of one block and
  of two, with a block in common by position or not: the file grows, shrinks, is
  verified (`VerifyMax` = 1 block, the `VERIFY_MAX` of 1 MiB) or not, and is edited
  within the second of its last change or after it. *Trees*: all 1050 pairs of trees
  over two top-level names with a child: a file, a link to the other name, a link out
  of the root (locally only), a directory that is empty or not, on either side, with one child
  excluded, and every local tree against a root that is missing; no edits, two syncs, one of
  them perhaps cut short. `MaxFrame` is two blocks, and one file has three: it is sent
  whole, which the agent refuses, or as a delta, which fits. Since paths meet only
  through the plan and the tree, the edits need only one of them. What section 5
  proves holds for any trees, with edits everywhere and all the time.
* `RsyncDelta`: blocks of 3 bytes over 0..2, so that different blocks share a
  rolling checksum (1 0 1 and 0 2 0); all new files of up to 6 bytes, old files
  with a whole, a short, a repeated and no last block, and files replaced before
  patch. `RoundTrip` is proved for all lengths.
* `Tar`: buffers of 2 chunks and archives of 1, 2 and 9: less than one buffer, one
  buffer, and more than all of them together. Proved for any sizes.
* `Modes_synced`: two files, two directories, four runs, three edits; `build_pass`
  has one directory, as the compilation in a directory depends on no other, and
  the theorems cover any number of both.
* `Build_pass`: three transferring runs, any number of others, and two edits after
  the first version, and both files `Long`: a run to be cut off, one that leaves cargo too
  early, and one to be wrong about it.
* `Bootstrap_pass`: two clients, two builds, three runs: an upload cut off, one
  that replaces it, and an upgrade. Two pieces, so that a file can be half there.
* `CopyBack`: two binaries, each new, alike at the end or gone; one build on each
  side, which writes one content, and one fault anywhere. Proved for any names, any
  contents and any number of builds and faults.
* `Setup_pass`: two control keys, `host` and `copy_back`, and one list stand for all
  keys, as the code treats the others like one or the other; all files over them.
  Every ssh config of one block with a pattern of up to four characters over two
  letters, `*` and `?` (a star, what it swallows, a restart and a tail), and all of two
  blocks with one or two patterns, negated or not. Two keys of the server, known to
  either file or none; one other run and one new key. Up to three keys of the user and
  two offers. Every host over two systems, four words for the processor and the
  sets of tools, and two commands, so that one follows a probe. For any numbers of
  them: section 5.

`CHECK_DEADLOCK FALSE` is in every configuration because the program, or the
bound, ends: a lock is dropped, a transfer returns, the last run is over. That
nothing stops earlier is what the liveness properties say.

## 4. Fairness

* `SyncSession`: weak fairness of the client's steps and of the agent's steps. Both
  are processes that read and write as soon as they can, and ssh delivers in
  order. None for edits, breaks, deaths, or for `Start` and `Again`: whether to
  run again is the user's business. None for stray frames.
* `TarPipeline`: weak fairness of each process, thread and task: the operating
  system and tokio schedule what can run. None for failures. A remote tar that
  lives and never reads is out of it: the keepalives of `ssh.rs:237` end a dead
  connection (`RemoteFails`), not that.
* `CopyBack`: weak fairness of the client and of the agent (`cat` is part of the
  stream). A step of `Receive` takes any piece of what is on its way.
* `AgentBootstrap`: weak fairness of each client's `Bootstrap` steps, its upload
  command included: the shell goes on while there is input. None for `Begin`,
  losses, failures, orphans, or `Start`.
* `RunSetup`: weak fairness of `CheckKey` or `Timeout` (tokio's timer fires if the
  server does not answer), of `Connected` and of `LogIn`. None for `Answer` and
  `LateAnswer`: the user may never type a line, and then only the timeout ends
  the attempt.
* `RunLock`, `TransferModes`, `BuildFlow`, `RsyncDelta`: none; only safety is asked.

## 5. The proofs

All theorems hold for every value of the constants that the named assumptions
allow: any number of runs, files, directories, clients, builds and bounds.

| module | assumptions | theorems |
|---|---|---|
| `ConcurrentRunsProofs` | of `RunLock`: `NoRun` is no run; of `AgentBootstrap`: size positive, there is a build | of `RunLock`: `RunLockInvariant`, `ExclusionUnlessRobbedHolds`, `NoOrphanLockHolds`, `AloneNeverBailsHolds`; of `AgentBootstrap`: `BootstrapInvariant`, `FallsBackHolds`, `StartsHolds` |
| `RsyncDeltaProofs` | bytes are naturals, the block length is positive, files are sequences of bytes | `DeltaInvariant`, `RoundTripHolds`, `OutputBoundedHolds`, `RollIsRollsumHolds`, `NoUnderflowHolds`, `NoBlockMissedHolds` |
| `TarPipelineProofs` | sizes are positive | `PipelineInvariant`, `SuccessIsCompleteHolds`, `NothingLostHolds`, `EofIsLastHolds` |
| `BuildFlowProofs` | bounds are naturals; long files are files; `"nowhere"` is no directory | of `TransferModes`: `ModesInvariant`, `ChainIsExactHolds`; of `BuildFlow`: `BuildInvariant`, `BinaryIsFreshHolds`, `BuildFlowRefinesModes` |
| `CopyBackProofs` | finitely many names; files and `Cargo.lock` are sequences of blocks, the remote `Cargo.lock` not empty; `None` is no file and an exit status no block | `CopyBackInvariant`, `DeliveredHolds`, `WholeFilesHolds`, `FramesAlignedHolds`, `LockAskedHolds` |
| `SyncSessionProofs` | trees are trees, a missing root holds nothing and no remote link leaves the root at first; each path is listed once, below one that is a path; files are sequences of blocks; a temporary name is not excluded; no local file is of the future; `VerifyMax` and `MaxFrame` are naturals | `SyncInvariant`, `TypeOKHolds`, `NoGapHolds`, `ReplicaHolds` (`Spec => ReplicaSpec`) |
| `SyncOutcomeProofs` | those of `SyncSessionProofs` | `SecondInvariant`, `SuccessMirrorsHolds`, `UndisturbedSucceedsHolds`, `SettledHolds` |
| `RunSetupProofs` | types of the constants; `host` and `copy_back` are control keys; ssh configs are sequences of blocks, and the host's name has no `*` | `GlobMatchFits`, `ReadingsAgree`, `SetupInvariant`, `HighestWinsHolds`, `CopyBackFollowsHostHolds`, `VouchedHolds`, `UsableKeyWinsHolds`, `ProbeKeepsWord` |

Each follows the same argument: `Init => IInv`, one step per action for
`IInv /\ [Next]_vars => IInv'`, and `IInv` implies the property (or, for what
depends on the step that made it true, the property is a part of the invariant).
What each invariant has to add, and why:

* **RunLock.** `ExclusionUnlessRobbed` alone is not inductive: nothing would say
  that an un-robbed holder has its file. `OwnsOrRobbed` says it, `ContentIsCreators`
  that a pid in the file is its creator's, `SeesOthers` that no run probes itself;
  `AloneIsAlone` says that a run that met nobody finds the path free when it
  creates the file again, which is what `AloneNeverBails` rests on.
* **RsyncDelta.** The ops made so far are faithful to their part of the new file
  and each begins where the one before ends (`Tiling`); patch has rebuilt what the
  ops it applied cover (`Rebuilt`). The lemmas on `Tiles` are about adding an op to
  a delta; no induction over the sequence is needed, as each op carries its
  place as history. `OutputBounded` is inductive on top of the types.
  `RollIsRollsum` is inductive on top of `IInv`: a window that moves by a byte loses the
  term of its first byte and gains that of its last, which is shown of the partial sums
  of `Totals` by induction on their place, and the weighted sum loses the plain one.
  From it follow `NoUnderflow` (what `roll` takes away is in the sums, so that the
  unsigned arithmetic never wraps below zero) and `NoBlockMissed`.
* **TarPipeline.** Who still has what open (`Ends`), that the sender returns only
  when the remote has ended (`SenderWaits`), that the producer leaves its loop at
  the end of the archive or because its receiver is gone (`LoopLeft`); with these
  `Results` says what each success rests on.
* **TransferModes.** `SnapshotBacked`: what the snapshot claims for the directory it
  is true for is there. It survives full archives, delta syncs, failures and
  probes in between, and from it an incremental archive's success is exact.
* **BuildFlow.** `Marked`: a current version of a file is compiled, newer than the
  mark, or one that cargo came too early for: nothing slips past cargo unnoticed.
  Versions that delta sync took for one another are `Alike`, and count as one.
  `Along` carries this for what a run has sent, from the transfer to cargo and from
  there to the copy back.
* **RunSetup.** The invariant is that of its four phases (`CInv`, `KInv`, `AInv`, `HInv`):
  each phase's steps keep its own part, and the `*Kept` lemmas carry the others along.
  `CInv` says of the layers merged so far what `HighestWins` says of all, and that
  `fromProject` covers a host of a project file; `KInv` that the user is only asked
  about a key that contradicts nothing; `AInv` that no key so far was of use, with the
  number of offers as a cardinality; `HInv` that what a probe has seen stays so.
  `Vouched` needs that connect reads `StrictHostKeyChecking` as ssh does (`Agreed`), for
  every config, and this is a theorem, too (`ReadingsAgree`). Its core is `GlobMatchFits`:
  the loop of `glob_match` remembers one `*` only. `GlobInv` is its invariant: the name
  fits the pattern if what is left of it fits what is left of the pattern, *or* if the
  rest fits with a longer piece for the last `*`; a `*` that is met makes an earlier one
  irrelevant, as whatever that one could still take this one can take (`LongerPiece`).
  `GlobRank` falls with every turn, so that the loop has ended after `turns` of them. A
  `*` in a name would be taken for that character before it is taken for a pattern, for
  which reason the assumption excludes it.
* **CopyBack.** None of its properties says anything of what is on its way.
  `StreamOK` does: the cells in the buffer and on the wire, taken together, are
  frames, with their headers at the positions `H`, however they are cut; only an agent
  that is gone leaves the last one short (`Unbroken`); every FETCHED holds what is
  `Good`: a version the remote has had, or a delta that makes one of the file its
  signature was of; nothing comes behind DONE. `SigsOK` says that each signature that
  is still to be answered is `Usable`: that of the local file, or of a file that has been
  built or brought since. `CatOK` says the same of `cat`: what has come and what is to
  come begin the output of one version. `StreamPart` and `StreamGrows` are the two
  lemmas on which the steps rest: taking a frame in front, or cells behind, leaves a
  stream, and so does a frame put behind whole ones.
* **SyncSession.** The invariant says, besides the types, four things. (1) *Where the
  processes are*: `Stages` (which frames can be on their way at each stage), `Planned`,
  `Opened`, `Ordering` (PUTs are of different paths and before what is deleted) and `Own`
  (what is still to be sent is not on its way). (2) *The trees*: `NoLink` are the paths
  where neither side has a link; every frame names paths below such directories
  (`Frames`, `Lists`, `Walked`), so that it writes where it says, and that also when an
  abandoned agent applies it later. (3) *Versions*: what the client has walked, read or
  put into a frame is what the local file was at some time (`Sides`, `Sound`). (4)
  *Signatures and deltas*: a delta on its way makes a version of what the remote file is
  now (`Deltas`), as nothing else has changed that path; as do the signatures it will be
  made of (`Sigs`, `Answers`: the SIGs that have come and those still asked for are what
  the client waits for, in order). Where others write to a path during a sync it is
  `shaken`, and (4) says nothing of it. The lemmas on `FileTree` say of each call
  what it does to every path (`Effect`), that a path whose directories are no links leads
  to itself, by induction on its length, and that the tree stays a tree. TLC has checked
  the invariant on all states of `sync_pass`.

  `SuccessMirrors`, `UndisturbedSucceeds` and `Settled` are about what a whole plan comes
  to, and `IInv` says nothing of the paths that no frame names. The second invariant,
  `JInv`, is about all of them, while the agent works on a plan that nobody else's writes
  and no kind clash have made wrong (`Watched`):

  * `Between`: every path of the remote is as it was listed or as it was walked (`Fits`: a
    file may hold a later version and, where the remote clock is behind, an earlier time),
    and what the client has still to ask for or to send is as it was listed (`Untouched`).
    From this, directories are all there is on the way to a path that was walked or listed
    (`WayIsClear`), so that the calls of the agent succeed and do what they are meant to
    (`Delivers`). That is false as soon as a path is a directory on one side only.
  * `Pending`: a path that is not as it was walked is named by a frame in flight, or still
    to be sent or verified; or it is to be deleted, which the client asks for last; or it
    is too long to be verified and looked unchanged; or excluded entries keep it. When the
    frames have run out (`Ends`) only the last two are left, which is `Mirrors`.
  * `FramesFit`: each frame brings what was walked, a PUT with a delta also when it is
    applied to what the remote file holds now; this takes that signatures are those of
    what was listed (`Signed`). `Lines` is the order of the frames, MKDIR first and one
    DELETE, deepest path first. That a directory is empty when its turn comes, unless
    excluded entries are in it, follows from `Pending` of its children and from that order
    (`DeleteKeeps`); that a link's directories are there when it is made, from the MKDIR
    frame in front.
  * `InSteps`, while nothing has happened since a success: the two trees, and what the next
    sync has walked and listed, are `InStep` at each path. `Failures`: while nothing has
    disturbed a sync, it has failed for one of the reasons `UndisturbedSucceeds` names.

  The proof has one lemma per action again (`...GoesOn`), on lemmas on what a step that
  only takes from a plan keeps (`...Kept`); `Turn` has what each frame the agent applies
  has in common. TLC has checked `JInv`, too, on all states of `sync_pass`.
* **AgentBootstrap.** `ReadyIsMine` for the three places where a run counts on the
  file, each with `swapped` as its only excuse.

`BuildFlowRefinesModes` (`BSpec => Spec`) has no refinement mapping but the
identity: every step of a run is a step of `TransferModes` or leaves its variables
alone. So what is proved of the modes holds of whole runs. `ReplicaHolds` (`Spec =>
ReplicaSpec`) maps `remote` to `store` and the excluded paths to `Protected`; a step of
the agent is a write of versions to some paths or a stutter, an edit of the remote
another's write.

What the proofs have corrected in the model: the cases of `Walk` overlapped for an
excluded file of before 1970; `Mirrors` excused a directory that could not be removed only
if an excluded path was right below it; a temporary file could be left where there was no
directory for it. The second invariant of `SyncSession` has found three more. `Mirrors`
compared the remote tree itself and not what a walk sees of it, so that it was false of a
remote file of before 1970 that has the walked contents, which `same_entry` rightly leaves
alone. `Settled` was false for a local file with a time still to come, if the clocks were
said to agree. And `settled` counted a success that a remote link to a directory had made
possible, so that `Settled` had to excuse kind clashes of the next sync; now `Succeed` looks
at what it has walked and listed itself, and `Settled` excuses none.

**Only model-checked.** Liveness (`SyncEnds`, `EndsUnlessStuck`, `BootstrapEnds`,
`CopyBackEnds`, `ConnectEnds`), as the prover has no rules for fairness and ENABLED. Every
other property of a passing run is proved. The library's induction theorems cannot be
used, as they take an operator; induction over the naturals, of a set of them, is derived
from the well-foundedness of `<` (`SetInduction`) in `SyncSessionProofs`,
`RsyncDeltaProofs` and `RunSetupProofs`, and used on positions in a path, in a block or
in a pattern, and on the turns of a loop.

## 6. Where code and documentation disagree

Each is a run that TLC ends with a counterexample; see `findings`.

* **Two runs can hold the lock** (`runlock_exclusion`, `main.rs:384-406`). The file is
  empty between its creation and the write of the pid; a run that reads it then
  takes it for stale. A reclaimed lock never gets a pid at all, so that every later
  run takes it for stale too. The comment at `main.rs:339` promises exclusion.
* **A transfer can hang when the remote fails** (`tar_ends`, `transfer.rs:315-321`).
  The producer stops reading and waits for a tar that is blocked writing to the
  pipe whose reader the producer still holds.
* **An incremental archive that never arrived moves the snapshot on**
  (`modes_synced`, `transfer.rs:105-121, 204`). So does one to another remote
  directory. The next sync leaves files out and reports success.
* **A `Cargo.lock` cut short replaces the local one** (`copyback_lock`, `runner.rs:699`,
  `ssh.rs:406-412`) when the connection is lost while `cat` runs.

Known exceptions that the properties name instead:

* *Too early for cargo* (`late` in `BuildFlow`): a file edited after the walk of a run
  and no later than the second in which that run's cargo starts arrives with the
  next sync, older than the compilation. Cargo does not look at it.
* *Looks alike* (`look` in `TransferModes`): a file over `VERIFY_MAX` that is written twice
  within a second, at the same length, is to delta sync the one it has
  (`agent.rs:640-646`): the sync succeeds, and the build is of the first version.
* *Undisturbed and yet failed* (`UndisturbedSucceeds`), besides the next one: a local link
  that leads out of the root (`LeavesRoot`); a file of before 1970, see below (`BeforeEpoch`);
  a file that has to be sent and is larger than a frame may be, 512 MiB, unless it goes as a
  delta that is not, which fails at every sync (`TooLong`, `agent.rs:380`); and, where the
  remote root is missing, a link at the top that is sent before any directory or file has
  made the root (`LinkFirst`, `agent.rs:1088-1090`).
* *Kind clash* (`KindClash` in `SyncSession`): where a path is a directory on one side
  and something else on the other, a sync fails, as PUT comes before DELETE, or, when
  a remote link to a directory is taken for it (`agent.rs:1072-1074`), succeeds
  without having mirrored the tree.
* *Mixes*: a delta patched onto a file that was replaced with one of enough blocks
  gives a mix of two versions (`shaken`, `touched`); the next sync finds a small one
  by its signature and misses a large one if length and mtime agree.

* *Probe and run* (`ProbeHolds`): wherever `uname -m` says `arm64`, as on macOS,
  `bootstrap_agent` compares the raw word (`runner.rs:539`) where `probe` normalizes it
  (`runner.rs:371-372`), so that `probe` calls the agent usable and a sync never uses
  it; nor does `probe` try whether a program of this machine starts on the host, so that one
  with an older libc, or a home without exec, falls back on tar (`runner.rs:604-616`); `probe` says
  ready of a cargo whose version it cannot parse, which
  `check_requirements` refuses if one is required; and of a host without tar for
  `rsync`, although the fallback needs it.
* *An old server and an RSA key* (`UsableKeyWins`): the first RSA key ends the
  authentication (`ssh.rs:540`, `579`), although a later key might work.
* *Times that never agree* (`Settled`): with a remote clock that lags, or for a file with
  a time in the future, a fresh copy gets another time and is sent again at every sync
  until the clock has caught up (`agent.rs:988`); a file of before 1970 is walked with time
  0 but compared with its own time in `read_for_send` (`agent.rs:225`), so that a sync
  that has to send it fails.

Seen on reading, with no run:

* `docs/configuration.md:48-51` and the comment at `main.rs:227-229` let only
  `--copy-back` or the *global* `copy_back` force the copy back from a project's host;
  the code takes the merged value (`main.rs:230`), which a trusted project file may set, as the
  table of the same page has it (`docs/configuration.md:100`, "trusted only"). The documentation
  contradicts itself; `CopyBackFollowsHost` states what the code and the table say, and would
  have to be changed with the code if the text is what is meant.
* `cli.rs:188` says that options of the subcommand win, but `--no-copy-back` before it
  beats `--copy-back` behind it (`cli.rs:209-214`), and switches can only be turned one
  way: a file's `sync = false` or `exclude_git = true` has no option against it.
* `docs/configuration.md:31-33` promises a warning for each key that is ignored; a
  `trust_project_config` alone is dropped without one (`config.rs:86`).
* When `CONNECT_TIMEOUT` passes during the prompt, the error is printed and the process
  stays until Enter is pressed (`late` in `HostKeys`).
* A `known_hosts` of the user that cannot be read keeps the system-wide one from being
  asked (`ssh.rs:78-88`), and so a key recorded there is asked about again.

## 7. What is left out

Of the modelled parts:

* All: file modes, progress lines, logging, the texts of errors, the dry run.
* `RunLock`: a pid the kernel hands out again, a failed write of the pid (ignored by
  the code, with the effect of a kill before it), errors of the directory or of the
  first create other than that it exists, and the build for other systems.
* `SyncSession`: the walk is one step; a path is applied in one step but for `HalfPut`;
  a link that leads to a link is not followed further; HELLO is in `AgentBootstrap`; the byte layout of frames.
  Of the sizes, a PUT has its limit; a LIST, a SIG or the paths of an MKDIR, a SIG_REQ or a DELETE over
  the same limit take a tree of millions of entries or a file of terabytes, and are left out. An
  edit of a file is one step, so that a read in the middle of a single write is, too.
* `RsyncDelta`: the strong hash is injective; the encoding of ops, cut to 32 bits.
* `TarPipeline`: the contents of the archive; an I/O error of the reader, which takes
  the same path as an error of the spawn.
* `TransferModes`: a transfer is a step whose success is what `SyncSession` and
  `TarPipeline` show, delta being exact but for long files that look alike (the other exceptions fail or
  need another writer on the remote); excluded files. Times of modification are those of the
  local clock, which is taken to go forward only.
* `BuildFlow`: the update of `Cargo.lock`; quoting, environment and toolchain of the
  remote command; the comparisons of the requirements (`HostCheck` has them); an exit code cut to 8 bits;
  a cargo that goes on after its connection is lost; in a build of several packages,
  which of them are compiled.
* `AgentBootstrap`: permissions of the directory, a remote that is reinstalled.
* `CopyBack`: whether the agent runs is fixed for a run; the size limits, idle timeouts
  and modification times; the temporary file of the lock is one step; a channel
  whose data is not asked for any more.

* `HostPatterns`: a line of the ssh config is its words, so that `Keyword=value`, and `true` for
  `yes`, are outside.
* `ConfigLayers`: the switches (see section 6), `CARGO_REMOTE_CARGO` and `RUSTFLAGS`,
  which have no layers; what is a valid value is a choice (`ok`).
* `HostKeys`: keys of several algorithms for one server; an entry of the file that
  revokes a key; the line of the file. `Authentication`: a connection that is lost
  meanwhile, and where the keys are found.
* `HostCheck`: a host that changes between a probe and a run; a connection lost within
  `probe`, which ends it with an error; versions beyond their order.

Not modelled: project discovery (`cargo metadata` and the sanitizing of a name) and
`parse_hosts`, sequential string handling that the unit tests reach; the key exchange
and the signatures, which are in the library russh; the quoting of remote command
lines, which is about the characters of a string; the terminal of `exec_term`, whose
result is a step of `BuildFlow`; the progress display; the benchmarks, which are no
part of the program.

## 8. Plan

The order is by what loses most when it is wrong: the lock and the sync come
first, then the ways around them, then the runs that compose them.

Done: `RunLock`, `FileTree` with `SyncSession` and `Replica`, `RsyncDelta`,
`TarPipeline`, `TransferModes`, `CopyBack`, `BuildFlow`, `AgentBootstrap`, and
`RunSetup` with the four phases it is made of, with the proofs of section 5.

What could come next: idle timeouts and size limits of `ChannelIo`, with a slow agent, in
`CopyBack`; a host that changes between a probe and a run, in `HostCheck`.

Each run answers its own question; where one of these steps asks the same question
of a larger model it takes the place of the run there is.
