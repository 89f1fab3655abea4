--------------------------- MODULE AgentBootstrap ---------------------------
(***************************************************************************)
(* Putting the agent on the remote (src/runner.rs, ensure_agent) and       *)
(* starting it (src/agent.rs, Agent::start).  The agent is a copy of the   *)
(* local binary; there is one for all projects and all clients of a remote *)
(* base directory, and the run lock, which is one for each project and     *)
(* machine, does not keep their runs apart.                                *)
(*                                                                         *)
(* A binary is uploaded into a file of its own name by a shell command of  *)
(* the remote, `cat > tmp && chmod && mv`, which goes on when the client   *)
(* is gone: cat then sees the end of its input.                            *)
(***************************************************************************)
EXTENDS Naturals

CONSTANTS
  Runs,       \* clients that run at the same time
  Builds,     \* builds of the program
  Size,       \* pieces a binary is sent in
  MaxBegins   \* bound: runs, of all clients

ASSUME SizeAssumption == Size \in Nat \ {0} /\ MaxBegins \in Nat
ASSUME BuildsAssumption == Builds # {}

VARIABLES
  same,       \* uname of the remote names the local platform
  starts,     \* the builds that the remote can start
  proto,      \* the protocol that each build speaks
  agent,      \* the file in place, NoAgent when there is none
  orphans,    \* uploads whose client is gone, on their way into place
  begins,     \* how many runs there have been
  mine,       \* the build of each run
  pc,         \* where each run is
  job,        \* where its upload command is
  tmp,        \* how much of its file has arrived
  \* History, read by no action:
  lost,       \* the connection of the run is lost
  swapped     \* another file has come into place since the run saw its own there

host == <<same, starts, proto>>
client == <<begins, mine, pc, lost>>
upload == <<job, tmp>>
vars == <<host, agent, orphans, client, upload, swapped>>

Binaries == [build : Builds, size : 0..Size]
NoAgent == [size |-> 0]

TypeOK ==
  /\ same \in BOOLEAN
  /\ starts \subseteq Builds /\ proto \in [Builds -> {1, 2}]
  /\ agent \in Binaries \cup {NoAgent} /\ orphans \subseteq Binaries
  /\ begins \in 0..MaxBegins
  /\ mine \in [Runs -> Builds]
  /\ pc \in [Runs -> {"idle", "uname", "check", "upload", "verify", "ready", "serving",
                      "none", "failed"}]
  /\ job \in [Runs -> {"off", "cat", "moved", "bad"}]
  /\ tmp \in [Runs -> 0..Size]
  /\ lost \in [Runs -> BOOLEAN] /\ swapped \in [Runs -> BOOLEAN]

Init ==
  /\ same \in BOOLEAN
  /\ starts \in SUBSET Builds /\ proto \in [Builds -> {1, 2}]
  /\ agent = NoAgent /\ orphans = {}
  /\ begins = 0
  /\ mine = [r \in Runs |-> CHOOSE b \in Builds : TRUE]
  /\ pc = [r \in Runs |-> "idle"]
  /\ job = [r \in Runs |-> "off"] /\ tmp = [r \in Runs |-> 0]
  /\ lost = [r \in Runs |-> FALSE] /\ swapped = [r \in Runs |-> FALSE]

Goto(r, label) == pc' = [pc EXCEPT ![r] = label]

\* A client runs, with this or, after an upgrade, another build.
Begin(r, b) ==
  /\ pc[r] \in {"idle", "none", "serving", "failed"}
  /\ begins < MaxBegins /\ begins' = begins + 1
  /\ mine' = [mine EXCEPT ![r] = b]
  /\ lost' = [lost EXCEPT ![r] = FALSE]
  /\ Goto(r, "uname")
  /\ UNCHANGED <<host, agent, orphans, upload, swapped>>

\* uname -sm must be the local OS and architecture, letter for letter.
Uname(r) ==
  /\ pc[r] = "uname"
  /\ Goto(r, IF same THEN "check" ELSE "none")
  /\ UNCHANGED <<host, agent, orphans, begins, mine, lost, upload, swapped>>

\* `agent --version` says so: it starts, and its hash is that of the build.
Answers(b) == agent = [build |-> b, size |-> Size] /\ b \in starts

\* Mutant of Check: an agent that speaks the protocol will do.
CheckProto(r) ==
  /\ pc[r] = "check"
  /\ IF \E b \in starts : agent = [build |-> b, size |-> Size] /\ proto[b] = proto[mine[r]]
     THEN Goto(r, "ready") /\ swapped' = [swapped EXCEPT ![r] = FALSE] /\ UNCHANGED upload
     ELSE /\ Goto(r, "upload")
          /\ job' = [job EXCEPT ![r] = "cat"]
          /\ UNCHANGED <<tmp, swapped>>
  /\ UNCHANGED <<host, agent, orphans, begins, mine, lost>>

\* The installed agent is this build, or the upload begins.
Check(r) ==
  /\ pc[r] = "check"
  /\ IF Answers(mine[r])
     THEN Goto(r, "ready") /\ swapped' = [swapped EXCEPT ![r] = FALSE] /\ UNCHANGED upload
     ELSE /\ Goto(r, "upload")
          /\ job' = [job EXCEPT ![r] = "cat"]
          /\ UNCHANGED <<tmp, swapped>>
  /\ UNCHANGED <<host, agent, orphans, begins, mine, lost>>

\* exec_send: a piece arrives.
SendChunk(r) ==
  /\ job[r] = "cat" /\ tmp[r] < Size
  /\ tmp' = [tmp EXCEPT ![r] = @ + 1]
  /\ UNCHANGED <<host, agent, orphans, client, job, swapped>>

\* The disk is full, or the directory cannot be made.
JobFails(r) ==
  /\ job[r] = "cat"
  /\ job' = [job EXCEPT ![r] = "bad"]
  /\ UNCHANGED <<host, agent, orphans, client, tmp, swapped>>

\* mv -f puts a file into place, at once; a run has seen what is there or not.
Place(file, seen) ==
  /\ agent' = file
  /\ swapped' = [q \in Runs |-> q \notin seen /\ (swapped[q] \/ agent # file)]

\* The end of the input comes behind the last piece.
Move(r) ==
  /\ job[r] = "cat" /\ tmp[r] = Size
  /\ Place([build |-> mine[r], size |-> tmp[r]], {r})
  /\ job' = [job EXCEPT ![r] = "moved"]
  /\ UNCHANGED <<host, orphans, client, tmp>>

OrphanMove ==
  /\ \E file \in orphans :
       /\ Place(file, {})
       /\ orphans' = orphans \ {file}
  /\ UNCHANGED <<host, client, upload>>

\* Mutant of Uploaded: a failed upload is waited for.
UploadedOrWait(r) ==
  /\ pc[r] = "upload" /\ job[r] = "moved"
  /\ Goto(r, "verify")
  /\ job' = [job EXCEPT ![r] = "off"] /\ tmp' = [tmp EXCEPT ![r] = 0]
  /\ UNCHANGED <<host, agent, orphans, begins, mine, lost, swapped>>

\* Mutant of Uploaded: the exit code is not looked at.
UploadedUnchecked(r) ==
  /\ pc[r] = "upload" /\ job[r] \in {"moved", "bad"}
  /\ Goto(r, "verify")
  /\ job' = [job EXCEPT ![r] = "off"] /\ tmp' = [tmp EXCEPT ![r] = 0]
  /\ UNCHANGED <<host, agent, orphans, begins, mine, lost, swapped>>

\* The exit code of the upload command.
Uploaded(r) ==
  /\ pc[r] = "upload" /\ job[r] \in {"moved", "bad"}
  /\ Goto(r, IF job[r] = "moved" THEN "verify" ELSE "failed")
  /\ job' = [job EXCEPT ![r] = "off"] /\ tmp' = [tmp EXCEPT ![r] = 0]
  /\ UNCHANGED <<host, agent, orphans, begins, mine, lost, swapped>>

\* Mutant of Verify: uname was enough.
VerifyNothing(r) ==
  /\ pc[r] = "verify"
  /\ Goto(r, "ready")
  /\ UNCHANGED <<host, agent, orphans, begins, mine, lost, upload, swapped>>

\* It must start here too; the caller uses tar if not.
Verify(r) ==
  /\ pc[r] = "verify"
  /\ Goto(r, IF Answers(mine[r]) THEN "ready" ELSE "none")
  /\ swapped' = [swapped EXCEPT ![r] = @ /\ ~ Answers(mine[r])]
  /\ UNCHANGED <<host, agent, orphans, begins, mine, lost, upload>>

\* What is in place starts, and says HELLO with the protocol of the run.
Greets(r) == \E b \in starts : agent = [build |-> b, size |-> Size] /\ proto[b] = proto[mine[r]]

\* Agent::start.  For the copy back it is started once more, long after it was
\* seen to be there: the result of ensure_agent is kept.
Start(r) ==
  /\ pc[r] \in {"ready", "serving"}
  /\ Goto(r, IF Greets(r) THEN "serving" ELSE "failed")
  /\ UNCHANGED <<host, agent, orphans, begins, mine, lost, upload, swapped>>

\* The connection of a run is lost.  Its upload command goes on with what it
\* has.  exec_capture returns nothing at all for what is cut off: another
\* platform, and no agent that starts.
Lose(r) ==
  /\ pc[r] \in {"uname", "check", "upload", "verify", "ready", "serving"}
  /\ lost' = [lost EXCEPT ![r] = TRUE]
  /\ \E label \in {"failed"} \cup (IF pc[r] \in {"uname", "verify"} THEN {"none"} ELSE {}) :
       Goto(r, label)
  /\ orphans' = orphans \cup
       (IF job[r] = "cat" THEN {[build |-> mine[r], size |-> tmp[r]]} ELSE {})
  /\ job' = [job EXCEPT ![r] = "off"] /\ tmp' = [tmp EXCEPT ![r] = 0]
  /\ UNCHANGED <<host, agent, begins, mine, swapped>>

Bootstrap(r) ==
  \/ Uname(r) \/ Check(r) \/ SendChunk(r) \/ Move(r) \/ Uploaded(r) \/ Verify(r)

Next ==
  \/ \E r \in Runs :
       \/ \E b \in Builds : Begin(r, b)
       \/ Bootstrap(r) \/ JobFails(r) \/ Start(r) \/ Lose(r)
  \/ OrphanMove

Spec == Init /\ [][Next]_vars

\* A client goes on as long as the remote answers.
FairSpec == Spec /\ \A r \in Runs : WF_vars(Bootstrap(r))

-----------------------------------------------------------------------------

\* An upload command belongs to a run that waits for it.
JobsOwned == \A r \in Runs : job[r] # "off" => pc[r] = "upload"

\* A run that has its agent finds it in place and fit to start, unless another
\* file has been moved there since: no upload that was cut off or has failed,
\* no agent of another build and none that this remote cannot start is ever
\* taken for it.
ReadyIsMine ==
  \A r \in Runs : pc[r] = "ready" /\ ~ swapped[r] => Answers(mine[r])

\* The inductive invariant.
IInv ==
  /\ TypeOK /\ JobsOwned /\ ReadyIsMine
  /\ \A r \in Runs : pc[r] = "serving" /\ ~ swapped[r] => Answers(mine[r])
  /\ \A r \in Runs : job[r] = "moved" \/ pc[r] = "verify" =>
       swapped[r] \/ agent = [build |-> mine[r], size |-> Size]

\* A run does without the agent only for a reason: the remote is another
\* platform (or spells it in another way), cannot start the binary, is gone, or
\* has got another agent from another client at this very moment.
FallsBackForCause ==
  \A r \in Runs : pc[r] = "none" =>
    ~ same \/ mine[r] \notin starts \/ lost[r] \/ swapped[r]

\* A run that has its agent fails to start it only if its connection is lost or
\* another client has replaced it; not in its first use, and not in its second.
StartsUnlessReplaced ==
  [][\A r \in Runs : pc[r] \in {"ready", "serving"} /\ pc'[r] = "failed" =>
       lost'[r] \/ swapped[r]]_vars

\* ensure_agent comes to an end: no upload is waited for that will not end.
BootstrapEnds ==
  \A r \in Runs : pc[r] = "uname" ~> pc[r] \in {"ready", "serving", "none", "failed"}

=============================================================================
