------------------------------ MODULE CopyBack ------------------------------
(***************************************************************************)
(* Copy back after a build (copy_back_binaries in src/runner.rs): find     *)
(* lists the binaries, the agent's fetch (Agent::fetch and serve_fetch in  *)
(* src/agent.rs) or, without an agent, one `cat` per file (exec_download   *)
(* in src/ssh.rs) brings them, and a last `cat` (exec_capture) brings      *)
(* Cargo.lock.  Meanwhile somebody builds on either side, and the          *)
(* connection may break.                                                   *)
(*                                                                         *)
(* What comes back is a stream of cells that arrives in pieces.  A frame   *)
(* is a length cell and so many payload cells; the output of cat is one    *)
(* cell for each block, then the exit status.                              *)
(***************************************************************************)
EXTENDS BlockDelta, FiniteSets

CONSTANTS
  Names,           \* the names of the binaries
  Blocks,          \* what files are made of
  Pairs,           \* what a file can be at first, [local, remote]
  Contents,        \* what a build writes
  OldLock, NewLock,  \* Cargo.lock here and there
  MaxLocalEdits,   \* bound: local builds
  MaxRemoteEdits,  \* bound: remote builds and removals
  MaxFaults        \* bound: lost connections and agents that fail

None == <<"none">>

\* A file, or that there is none.
Copies == Seq(Blocks) \cup {None}

ASSUME NamesAssumption == IsFiniteSet(Names)
ASSUME NoneAssumption == None \notin Seq(Blocks)
ASSUME CopiesAssumption ==
  /\ Pairs \subseteq [local : Copies, remote : Copies]
  /\ Contents \subseteq Seq(Blocks)

\* No Cargo.lock is empty.
ASSUME LockAssumption == OldLock \in Seq(Blocks) /\ NewLock \in Seq(Blocks) \ {<<>>}

VARIABLES
  local, remote,   \* the binaries on either side
  lock, side,      \* Cargo.lock and Cargo.lock.remote
  update,          \* --update-lockfile
  agentRuns,       \* ensure_agent has a path
  pc,              \* where copy_back_binaries is
  files,           \* what find has listed
  i,               \* the file it is at
  written,         \* the names that have been fetched
  buf,             \* ChannelIo: the cells read and not used yet
  out,             \* what cat has given so far; the temporary file, or a buffer
  apc,             \* the agent: "off", "sigs", "answer", "idle" or "gone"
  sigs,            \* the agent: the signatures it has, None for none
  j,               \* the agent: the file it is at
  toAgent,         \* the frames on their way to the agent
  wire,            \* the cells on their way back
  broken,          \* the connection is lost
  used,            \* how much of each bound is used up
  \* History, read by no action:
  held,            \* held[n]: what n has been remotely
  mine,            \* mine[n]: what n has been locally, but for the copy back
  touched          \* the names built locally since the copy back began

locals == <<lock, side, update, agentRuns>>
client == <<pc, files, i, written, buf, out>>
agent == <<apc, sigs, j>>
link == <<toAgent, wire, broken>>
history == <<held, mine, touched>>
vars == <<local, remote, locals, client, agent, link, used, history>>

Init ==
  /\ \E pair \in [Names -> Pairs] :
       /\ local = [n \in Names |-> pair[n].local]
       /\ remote = [n \in Names |-> pair[n].remote]
  /\ lock = OldLock /\ side = None
  /\ update \in BOOLEAN /\ agentRuns \in BOOLEAN
  /\ pc = "find" /\ files = <<>> /\ i = 1 /\ written = {}
  /\ buf = <<>> /\ out = <<>>
  /\ apc = "off" /\ sigs = [n \in Names |-> None] /\ j = 1
  /\ toAgent = <<>> /\ wire = <<>> /\ broken = FALSE
  /\ used = [local |-> 0, remote |-> 0, faults |-> 0]
  /\ held = [n \in Names |-> {remote[n]}]
  /\ mine = [n \in Names |-> {local[n]}]
  /\ touched = {}

-----------------------------------------------------------------------------
(***************************************************************************)
(* Frames.                                                                 *)
(***************************************************************************)

\* The cells of a frame: write_frame puts the length and the tag in front.
Frame(tag, payload) == <<[len |-> Len(payload), tag |-> tag]>> \o payload

\* A frame with a header, of pack_hdr.
Packed(hdr, data) == <<hdr>> \o data

\* read_frame: the buffer holds a frame, which is what is in front.
Complete == buf # <<>> /\ Len(buf) >= 1 + Head(buf).len
Payload == SubSeq(buf, 2, 1 + Head(buf).len)

\* Mutant of Unread: the length without the length cell is drained.
UnreadShort == SubSeq(buf, 1 + Head(buf).len, Len(buf))

Unread == SubSeq(buf, 2 + Head(buf).len, Len(buf))

\* cat, its output and its exit status.
Exit(code) == [exit |-> code]
ASSUME ExitAssumption == Exit(0) \notin Blocks /\ Exit(1) \notin Blocks

Cat(content) == IF content = None THEN <<Exit(1)>> ELSE Append(content, Exit(0))

-----------------------------------------------------------------------------
(***************************************************************************)
(* copy_back_binaries.                                                     *)
(***************************************************************************)

GiveUp ==
  /\ pc' = "failed"
  /\ UNCHANGED <<files, i, written, buf, out>>

\* find, in whatever order the directory has.  Its exit status counts, and it
\* may have failed for reasons of its own: the profile has no directory there.
Find ==
  /\ pc = "find"
  /\ \/ GiveUp /\ UNCHANGED toAgent
     \/ /\ ~ broken
        /\ \E found \in SetToSeqs({n \in Names : remote[n] # None}) :
             /\ files' = found
             /\ pc' = IF found = <<>> THEN "lock" ELSE IF agentRuns THEN "sigs" ELSE "get"
             /\ toAgent' = IF found = <<>> \/ ~ agentRuns THEN <<>>
                           ELSE <<[tag |-> "FETCH_REQ", paths |-> found]>>
             /\ UNCHANGED <<i, written, buf, out>>
  /\ UNCHANGED <<local, remote, locals, agent, wire, broken, used, history>>

\* Mutant of SendSig: a file that is not there locally needs no signature.
SendSigIfAny ==
  /\ pc = "sigs"
  /\ i' = IF i = Len(files) THEN 1 ELSE i + 1
  /\ pc' = IF i = Len(files) THEN "recv" ELSE "sigs"
  /\ toAgent' = IF broken \/ local[files[i]] = None THEN toAgent ELSE
       Append(toAgent, [tag |-> "FETCH_SIG", path |-> files[i],
                        sig |-> Signature(local[files[i]])])
  /\ UNCHANGED <<files, written, buf, out>>
  /\ UNCHANGED <<local, remote, locals, agent, wire, broken, used, history>>

\* One signature per file, None when there is nothing to make it of.
SendSig ==
  /\ pc = "sigs"
  /\ i' = IF i = Len(files) THEN 1 ELSE i + 1
  /\ pc' = IF i = Len(files) THEN "recv" ELSE "sigs"
  /\ toAgent' = IF broken THEN toAgent ELSE
       Append(toAgent, [tag |-> "FETCH_SIG", path |-> files[i],
                        sig |-> IF local[files[i]] \in {None, <<>>} THEN None
                                ELSE Signature(local[files[i]])])
  /\ UNCHANGED <<files, written, buf, out>>
  /\ UNCHANGED <<local, remote, locals, agent, wire, broken, used, history>>

\* read_frame waits for more, and any piece of the stream is next.
Receive ==
  /\ pc = "recv" /\ ~ Complete
  /\ \E k \in 1..Len(wire) :
       /\ buf' = buf \o SubSeq(wire, 1, k)
       /\ wire' = SubSeq(wire, k + 1, Len(wire))
  /\ UNCHANGED <<pc, files, i, written, out>>
  /\ UNCHANGED <<local, remote, locals, agent, toAgent, broken, used, history>>

\* FETCHED: what has vanished is skipped, a delta is applied to what the local
\* file holds by now, and the result is renamed over it.
TakeFetched ==
  /\ pc = "recv" /\ Complete /\ i <= Len(files)
  /\ Head(buf).tag = "FETCHED"
  /\ LET hdr == Head(Payload)
         data == Tail(Payload)
         n == files[i]
         old == IF local[n] = None THEN <<>> ELSE local[n]
     IN  IF hdr.path # n \/ (hdr.delta /\ ~ CanPatch(old, data))
         THEN GiveUp /\ UNCHANGED local
         ELSE /\ buf' = Unread /\ i' = i + 1
              /\ IF hdr.exists
                 THEN /\ written' = written \cup {n}
                      /\ local' = [local EXCEPT ![n] =
                           IF hdr.delta THEN Patch(old, data) ELSE data]
                 ELSE UNCHANGED <<written, local>>
              /\ UNCHANGED <<pc, files, out>>
  /\ UNCHANGED <<remote, locals, agent, link, used, history>>

\* DONE, behind the last file.
TakeDone ==
  /\ pc = "recv" /\ Complete /\ i > Len(files)
  /\ Head(buf).tag = "DONE"
  /\ buf' = Unread /\ pc' = "lock"
  /\ toAgent' = IF broken THEN toAgent ELSE Append(toAgent, [tag |-> "QUIT"])
  /\ UNCHANGED <<files, i, written, out>>
  /\ UNCHANGED <<local, remote, locals, agent, wire, broken, used, history>>

\* expect: ERROR, another tag than is due, or the end of the channel.
Refuse ==
  /\ pc = "recv"
  /\ IF Complete
     THEN Head(buf).tag # (IF i <= Len(files) THEN "FETCHED" ELSE "DONE")
     ELSE wire = <<>> /\ (broken \/ apc = "gone")
  /\ GiveUp
  /\ UNCHANGED <<local, remote, locals, agent, link, used, history>>

\* exec_download opens a channel for the next file.
Get ==
  /\ pc = "get"
  /\ IF i > Len(files)
     THEN pc' = "lock" /\ UNCHANGED <<files, i, written, buf, out, wire>>
     ELSE IF broken
     THEN GiveUp /\ UNCHANGED wire
     ELSE /\ pc' = "getting" /\ out' = <<>> /\ wire' = Cat(remote[files[i]])
          /\ UNCHANGED <<files, i, written, buf>>
  /\ UNCHANGED <<local, remote, locals, agent, toAgent, broken, used, history>>

\* Mutant of Data: the output goes to the file itself.
DataInPlace ==
  /\ pc \in {"getting", "locking"}
  /\ wire # <<>> /\ Head(wire) \notin {Exit(0), Exit(1)}
  /\ out' = Append(out, Head(wire))
  /\ local' = IF pc = "getting" THEN [local EXCEPT ![files[i]] = out'] ELSE local
  /\ wire' = Tail(wire)
  /\ UNCHANGED <<pc, files, i, written, buf>>
  /\ UNCHANGED <<remote, locals, agent, toAgent, broken, used, history>>

\* The output of cat goes to the temporary file, or to the buffer.
Data ==
  /\ pc \in {"getting", "locking"}
  /\ wire # <<>> /\ Head(wire) \notin {Exit(0), Exit(1)}
  /\ out' = Append(out, Head(wire))
  /\ wire' = Tail(wire)
  /\ UNCHANGED <<pc, files, i, written, buf>>
  /\ UNCHANGED <<local, remote, locals, agent, toAgent, broken, used, history>>

\* The channel closes behind the exit status, or because the connection is
\* lost.
Closed == wire \in {<<Exit(0)>>, <<Exit(1)>>} \/ (wire = <<>> /\ broken)

\* Mutant of Got: the exit status is not looked at.
GotAnyway ==
  /\ pc = "getting" /\ Closed
  /\ wire' = <<>>
  /\ local' = [local EXCEPT ![files[i]] = out]
  /\ written' = written \cup {files[i]}
  /\ i' = i + 1 /\ pc' = "get" /\ out' = <<>>
  /\ UNCHANGED <<files, buf>>
  /\ UNCHANGED <<remote, locals, agent, toAgent, broken, used, history>>

\* exec_download: the temporary file is renamed over the file if the exit
\* status is 0, and removed if not.
Got ==
  /\ pc = "getting" /\ Closed
  /\ wire' = <<>>
  /\ IF wire = <<Exit(0)>>
     THEN /\ local' = [local EXCEPT ![files[i]] = out]
          /\ written' = written \cup {files[i]}
          /\ i' = i + 1 /\ pc' = "get" /\ out' = <<>>
          /\ UNCHANGED <<files, buf>>
     ELSE GiveUp /\ UNCHANGED local
  /\ UNCHANGED <<remote, locals, agent, toAgent, broken, used, history>>

\* copy_back_lockfile: cat Cargo.lock || true.
GetLock ==
  /\ pc = "lock"
  /\ IF broken
     THEN GiveUp /\ UNCHANGED wire
     ELSE /\ pc' = "locking" /\ out' = <<>> /\ wire' = Append(NewLock, Exit(0))
          /\ UNCHANGED <<files, i, written, buf>>
  /\ UNCHANGED <<local, remote, locals, agent, toAgent, broken, used, history>>

\* Mutant of ApplyLock: --update-lockfile is not asked for.
ApplyLockAlways ==
  /\ pc = "locking" /\ Closed
  /\ wire' = <<>>
  /\ lock' = IF out # <<>> THEN out ELSE lock
  /\ pc' = "done"
  /\ UNCHANGED <<files, i, written, buf, out, side, update, agentRuns>>
  /\ UNCHANGED <<local, remote, agent, toAgent, broken, used, history>>

\* apply_remote_lockfile, of what exec_capture gives; whatever its status.
ApplyLock ==
  /\ pc = "locking" /\ Closed
  /\ wire' = <<>>
  /\ LET differs == out # <<>> /\ out # lock
     IN  /\ lock' = IF differs /\ update THEN out ELSE lock
         /\ side' = IF differs /\ ~ update THEN out ELSE side
  /\ pc' = "done"
  /\ UNCHANGED <<files, i, written, buf, out, update, agentRuns>>
  /\ UNCHANGED <<local, remote, agent, toAgent, broken, used, history>>

ClientStep ==
  \/ Find \/ SendSig \/ Receive \/ TakeFetched \/ TakeDone \/ Refuse
  \/ Get \/ Data \/ Got \/ GetLock \/ ApplyLock

-----------------------------------------------------------------------------
(***************************************************************************)
(* The agent, serve_fetch.                                                 *)
(***************************************************************************)

\* FETCH_REQ.
Request ==
  /\ apc = "off"
  /\ toAgent # <<>> /\ Head(toAgent).tag = "FETCH_REQ"
  /\ toAgent' = Tail(toAgent)
  /\ apc' = "sigs"
  /\ UNCHANGED <<local, remote, locals, client, sigs, j, wire, broken, used, history>>

\* One FETCH_SIG for each path of the request, filed under its own path.
TakeSig ==
  /\ apc = "sigs"
  /\ toAgent # <<>> /\ Head(toAgent).tag = "FETCH_SIG"
  /\ toAgent' = Tail(toAgent)
  /\ sigs' = [sigs EXCEPT ![Head(toAgent).path] = Head(toAgent).sig]
  /\ j' = IF j = Len(files) THEN 1 ELSE j + 1
  /\ apc' = IF j = Len(files) THEN "answer" ELSE "sigs"
  /\ UNCHANGED <<local, remote, locals, client, wire, broken, used, history>>

\* The answer for a file with this content: as a delta when that is shorter.
Fetched(n, content) ==
  LET delta == Delta(content, sigs[n])
      isDelta == content # None /\ sigs[n] # None /\ IsShorter(delta)
      hdr == [path |-> n, exists |-> content # None, delta |-> isDelta]
  IN  Frame("FETCHED", Packed(hdr,
        IF content = None THEN <<>> ELSE IF isDelta THEN delta ELSE content))

\* One FETCHED, of what the file holds now; then DONE.
Answer ==
  /\ apc = "answer"
  /\ IF j <= Len(files)
     THEN /\ wire' = wire \o Fetched(files[j], remote[files[j]])
          /\ j' = j + 1 /\ UNCHANGED apc
     ELSE /\ wire' = wire \o Frame("DONE", <<>>)
          /\ apc' = "idle" /\ UNCHANGED j
  /\ UNCHANGED <<local, remote, locals, client, sigs, toAgent, broken, used, history>>

\* QUIT.
Leave ==
  /\ apc = "idle"
  /\ toAgent # <<>> /\ Head(toAgent).tag = "QUIT"
  /\ toAgent' = Tail(toAgent)
  /\ apc' = "gone"
  /\ UNCHANGED <<local, remote, locals, client, sigs, j, wire, broken, used, history>>

AgentStep == Request \/ TakeSig \/ Answer \/ Leave

-----------------------------------------------------------------------------
(***************************************************************************)
(* The rest of the world.                                                  *)
(***************************************************************************)

Ended == pc \in {"done", "failed"}

Spend(what, max) ==
  /\ ~ Ended
  /\ used[what] < max
  /\ used' = [used EXCEPT ![what] = @ + 1]

\* The local file stands for a signature that has been sent, or will have.
SigSent(n) ==
  /\ pc # "find"
  /\ pc = "sigs" => \E k \in 1..(i - 1) : files[k] = n

\* A local build, or cargo clean.
LocalEdit(n) ==
  /\ Spend("local", MaxLocalEdits)
  /\ \E c \in Contents \cup {None} :
       /\ c # local[n]
       /\ local' = [local EXCEPT ![n] = c]
       /\ mine' = [mine EXCEPT ![n] = @ \cup {c}]
  /\ touched' = IF SigSent(n) THEN touched \cup {n} ELSE touched
  /\ UNCHANGED <<remote, locals, client, agent, link, held>>

\* Somebody else's build on the remote, or cargo clean.
RemoteEdit(n) ==
  /\ Spend("remote", MaxRemoteEdits)
  /\ \E c \in Contents \cup {None} :
       /\ c # remote[n]
       /\ remote' = [remote EXCEPT ![n] = c]
       /\ held' = [held EXCEPT ![n] = @ \cup {c}]
  /\ UNCHANGED <<local, locals, client, agent, link, mine, touched>>

\* The connection is lost, and with it the last of what was on its way.
Break ==
  /\ Spend("faults", MaxFaults)
  /\ ~ broken /\ broken' = TRUE
  /\ toAgent' = <<>> /\ wire' \in Prefixes(wire)
  /\ apc' = "gone"
  /\ UNCHANGED <<local, remote, locals, client, sigs, j, history>>

\* The agent cannot read a file, or is killed; it says so with ERROR, or not.
AgentFails ==
  /\ Spend("faults", MaxFaults)
  /\ apc \in {"sigs", "answer"}
  /\ apc' = "gone"
  /\ toAgent' = <<>>
  /\ wire' \in {wire, wire \o Frame("ERROR", <<"message">>)}
  /\ UNCHANGED <<local, remote, locals, client, sigs, j, broken, history>>

Next ==
  \/ ClientStep \/ AgentStep
  \/ \E n \in Names : LocalEdit(n) \/ RemoteEdit(n)
  \/ Break \/ AgentFails

\* The client, the agent and cat run whenever they can.
Fairness == WF_vars(ClientStep) /\ WF_vars(AgentStep)

Spec == Init /\ [][Next]_vars /\ Fairness

-----------------------------------------------------------------------------
(***************************************************************************)
(* Properties.                                                             *)
(***************************************************************************)

\* When all files have been brought, each is one that the remote has had since
\* the copy back began, unless it vanished there or was built locally after
\* its signature was made.
Delivered ==
  pc \in {"lock", "locking", "done"} =>
    \A n \in ToSet(files) :
      \/ n \in written /\ (n \in touched \/ local[n] \in held[n])
      \/ None \in held[n]

\* At no time, not when the copy back is cut short either, is a local file
\* anything but a whole local or a whole remote version.  (A delta applied to
\* a file built locally after its signature was made is a mix of the two.)
WholeFiles == \A n \in Names : n \notin touched => local[n] \in mine[n] \cup held[n]

\* However the stream is cut up, the buffer begins with a frame, and nothing
\* is left in it behind the last one.
FramesAligned ==
  /\ buf # <<>> => Head(buf) \in [len : Nat, tag : {"FETCHED", "DONE", "ERROR"}]
  /\ pc \in {"lock", "locking", "done"} => buf = <<>>

\* Cargo.lock changes only when asked for, and unless the connection is lost a
\* copy back that succeeds has put the whole remote one here or beside it.
LockAsked ==
  /\ ~ update => lock = OldLock
  /\ update => side = None
  /\ pc = "done" /\ ~ broken => NewLock \in {lock, side}

\* The copy back ends: client and agent never wait for each other.
CopyBackEnds == <>Ended

\* --update-lockfile is an atomic write: Cargo.lock is the old one or the new
\* one.  Not so when the connection is lost while cat runs.
CargoLockWhole == lock \in {OldLock, NewLock}

=============================================================================
