------------------------------ MODULE RunLock ------------------------------
(***************************************************************************)
(* The lock file that serializes cargo-remote runs on one project and host *)
(* (acquire_run_lock_in and Drop for RunLock in src/main.rs, the unix      *)
(* build).  A run is one process: it tries to create the file, writes its  *)
(* pid into it, works, and removes the file.  A run that finds the file    *)
(* reads the pid, probes it with kill(pid, 0), and either gives up or      *)
(* reclaims the lock by removing the file and creating it again.           *)
(*                                                                         *)
(* Each action is one system call: everything between two of them can be   *)
(* interleaved with another run's.  The pid of a run is the run itself:    *)
(* a pid that the kernel hands out again is not modelled.                  *)
(***************************************************************************)

CONSTANTS
  Processes, \* the processes that ever ask for the lock
  NoRun      \* no process: an absent file, or a file with no pid in it

ASSUME NoRunAssumption == NoRun \notin Processes

VARIABLES
  stage,    \* stage[r]: where run r is in acquire_run_lock_in or after it
  creator,  \* the run that created the file now at the path, NoRun if none
  content,  \* the pid in that file, NoRun if it is empty (or absent)
  seen,     \* seen[r]: the pid r read from the file it found
  \* History, read by no action:
  met,      \* the runs that ever were alive together with another run
  robbed    \* the runs whose file another run deleted while they lived

program == <<stage, creator, content, seen>>
lockVars == <<stage, creator, content, seen, met, robbed>>

Ended == {"idle", "done", "bailed", "crashed"}
Trying == {"create", "read", "probe", "remove", "recreate"}
Stages == Ended \cup Trying \cup {"write", "held"}

\* The processes that kill(pid, 0) finds.
Live == {r \in Processes : stage[r] \notin Ended}

LockTypes ==
  /\ stage \in [Processes -> Stages]
  /\ creator \in Processes \cup {NoRun}
  /\ content \in Processes \cup {NoRun}
  /\ seen \in [Processes -> Processes \cup {NoRun}]
  /\ met \subseteq Processes
  /\ robbed \subseteq Processes

LockInit ==
  /\ stage = [r \in Processes |-> "idle"]
  /\ creator = NoRun
  /\ content = NoRun
  /\ seen = [r \in Processes |-> NoRun]
  /\ met = {}
  /\ robbed = {}

-----------------------------------------------------------------------------

Enter(r, next) == stage' = [stage EXCEPT ![r] = next]

\* The file appears at the path, empty, and belongs to r.
NewFile(r) ==
  /\ creator = NoRun
  /\ creator' = r
  /\ content' = NoRun

\* Whatever file is at the path is removed, whoever created it.
Unlink(r) ==
  /\ creator' = NoRun
  /\ content' = NoRun
  /\ robbed' = robbed \cup ({creator} \cap (Live \ {r}))

\* A process starts and reaches acquire_run_lock.
Arrive(r) ==
  /\ stage[r] = "idle"
  /\ Enter(r, "create")
  /\ met' = IF Live = {} THEN met ELSE met \cup Live \cup {r}
  /\ UNCHANGED <<creator, content, seen, robbed>>

\* Mutant of Create: the file is opened without create_new.
CreateNotExclusive(r) ==
  /\ stage[r] = "create"
  /\ \/ NewFile(r)
     \/ creator # NoRun /\ UNCHANGED <<creator, content>>
  /\ Enter(r, "write")
  /\ UNCHANGED <<seen, met, robbed>>

\* The first create_new: O_CREAT | O_EXCL.
Create(r) ==
  /\ stage[r] = "create"
  /\ \/ NewFile(r) /\ Enter(r, "write")
     \/ creator # NoRun /\ Enter(r, "read") /\ UNCHANGED <<creator, content>>
  /\ UNCHANGED <<seen, met, robbed>>

\* Mutant of WritePid: the pid is written to the path, not to the open file.
WritePidByPath(r) ==
  /\ stage[r] = "write"
  /\ content' = IF creator = NoRun THEN NoRun ELSE r
  /\ Enter(r, "held")
  /\ UNCHANGED <<creator, seen, met, robbed>>

\* write!(f, pid) goes to the file r created, which may no longer be the
\* one at the path.
WritePid(r) ==
  /\ stage[r] = "write"
  /\ content' = IF creator = r THEN r ELSE content
  /\ Enter(r, "held")
  /\ UNCHANGED <<creator, seen, met, robbed>>

\* read_to_string and parse: None for an absent or an empty file.
ReadPid(r) ==
  /\ stage[r] = "read"
  /\ seen' = [seen EXCEPT ![r] = content]
  /\ Enter(r, "probe")
  /\ UNCHANGED <<creator, content, met, robbed>>

\* Mutant of Probe: a lock with no pid in it counts as held.
ProbeNoPidIsAlive(r) ==
  /\ stage[r] = "probe"
  /\ Enter(r, IF seen[r] \in Live \cup {NoRun} THEN "bailed" ELSE "remove")
  /\ UNCHANGED <<creator, content, seen, met, robbed>>

\* kill(pid, 0); no pid counts as not alive.
Probe(r) ==
  /\ stage[r] = "probe"
  /\ Enter(r, IF seen[r] \in Live THEN "bailed" ELSE "remove")
  /\ UNCHANGED <<creator, content, seen, met, robbed>>

\* remove_file of what is taken for a stale lock.
Remove(r) ==
  /\ stage[r] = "remove"
  /\ Unlink(r)
  /\ Enter(r, "recreate")
  /\ UNCHANGED <<seen, met>>

\* The second create_new.  It returns the lock without writing a pid.
Recreate(r) ==
  /\ stage[r] = "recreate"
  /\ \/ NewFile(r) /\ Enter(r, "held")
     \/ creator # NoRun /\ Enter(r, "bailed") /\ UNCHANGED <<creator, content>>
  /\ UNCHANGED <<seen, met, robbed>>

\* Mutant of Release: the lock is not dropped at the end.
ReleaseForgets(r) ==
  /\ stage[r] = "held"
  /\ Enter(r, "done")
  /\ UNCHANGED <<creator, content, seen, met, robbed>>

\* The run ends, with success or an error, and drops its RunLock.
Release(r) ==
  /\ stage[r] = "held"
  /\ Unlink(r)
  /\ Enter(r, "done")
  /\ UNCHANGED <<seen, met>>

\* The process is killed: nothing is dropped.
Crash(r) ==
  /\ r \in Live
  /\ Enter(r, "crashed")
  /\ UNCHANGED <<creator, content, seen, met, robbed>>

Step(r) ==
  \/ Arrive(r) \/ Create(r) \/ WritePid(r) \/ ReadPid(r) \/ Probe(r)
  \/ Remove(r) \/ Recreate(r) \/ Release(r) \/ Crash(r)

LockNext == \E r \in Processes : Step(r)

LockSpec == LockInit /\ [][LockNext]_lockVars

-----------------------------------------------------------------------------

\* The runs for which acquire_run_lock has returned Ok.
Holders == {r \in Processes : stage[r] = "held"}

\* What the comment on RunLock promises: two runs on the same project and
\* host never work at the same time.  The code does not keep this promise.
MutualExclusion == \A r, s \in Holders : r = s

\* What the code does guarantee: two runs hold the lock together only if
\* one of them lost its file to another run (reclaim or Drop deletes by
\* path, not by owner).  A holder that was not robbed is alone with its file.
ExclusionUnlessRobbed ==
  \A r, s \in Holders : r = s \/ r \in robbed \/ s \in robbed

\* A run that ends by itself leaves no lock behind: a file at the path has a
\* creator that still runs or that was killed, however many runs raced for it.
NoOrphanLock ==
  creator # NoRun => stage[creator] \in {"write", "held", "crashed"}

\* A stale lock never stops a run that meets no other run: only a run that
\* overlapped with another one is ever told that the lock is held.
AloneNeverBails == \A r \in Processes : stage[r] = "bailed" => r \in met

-----------------------------------------------------------------------------
(***************************************************************************)
(* The inductive invariant behind the three properties.                    *)
(***************************************************************************)

\* A pid in the file is the pid of the run that created the file.
ContentIsCreators == content # NoRun => content = creator

\* A run that holds the lock, or is about to, owns the file or was robbed.
OwnsOrRobbed ==
  \A r \in Processes : stage[r] \in {"write", "held"} /\ r \notin robbed => creator = r

\* A run that met nobody is the only one alive, never saw its own pid in
\* the file, and finds the path free when it creates the file again.
AloneIsAlone ==
  \A r \in Processes \ met :
    /\ r \in Live => Live = {r}
    /\ stage[r] = "recreate" => creator = NoRun

\* No run reads its own pid: it has no file when it reads.
SeesOthers == \A r \in Processes : seen[r] # r

LockInv ==
  /\ LockTypes
  /\ ContentIsCreators
  /\ NoOrphanLock
  /\ OwnsOrRobbed
  /\ AloneIsAlone
  /\ SeesOthers
  /\ AloneNeverBails

=============================================================================
