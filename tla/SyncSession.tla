---------------------------- MODULE SyncSession ----------------------------
(***************************************************************************)
(* Delta sync (src/agent.rs): the client (Agent::sync) brings the tree of  *)
(* the remote agent (serve_sync) in line with the local one over an        *)
(* ordered channel.  People and programs edit both trees meanwhile, the    *)
(* connection breaks, the agent dies, and a failed sync is run again.      *)
(*                                                                         *)
(* client: walk, SYNC_REQ, plan from LIST, MKDIR, SIG_REQ, one SIG per     *)
(*         path, PUT per file, DELETE, PLAN_DONE, wait for DONE;           *)
(* agent:  one frame at a time, ERROR and exit when a frame fails.         *)
(*                                                                         *)
(* When a client is gone its agent still finds the frames that were in the *)
(* pipe: they are applied later, even while the next sync is running.      *)
(***************************************************************************)
EXTENDS FileTree, BlockDelta

CONSTANTS
  Contents,        \* what a file can hold: sequences of blocks
  Starts,          \* the states to start from: both trees, whether the remote
                   \* root is there, the clock, how far the clock of the remote
                   \* lags, what is used of the bounds
  VerifyMax,       \* the longest file that is verified when it looks unchanged
  MaxFrame,        \* the most that the agent takes in one frame, in blocks
  Staging,         \* the paths a dead agent can leave a temporary file at
  MaxTime,         \* bound: the clock, in seconds
  MaxLocalEdits,   \* bound: edits of the local tree
  MaxRemoteEdits,  \* bound: edits of the remote tree by anybody but the agent
  MaxBreaks,       \* bound: lost connections, killed clients, dead agents
  MaxSessions      \* bound: syncs

\* A remote link that leaves the root is not modelled: it leads to places that
\* are no part of the tree.  The clock is at no time before that of a local file:
\* a remote clock behind one that is has a greater lag.
ASSUME StartsAssumption ==
  \A t \in Starts :
    /\ WellFormed(t.local) /\ WellFormed(t.remote) /\ Confined(t.remote)
    /\ t.rooted \in BOOLEAN /\ (t.rooted \/ \A p \in Paths : t.remote[p] = Absent)
    /\ t.now \in 1..MaxTime /\ t.lag \in Nat
    /\ \A p \in Paths : t.local[p].kind = "file" => t.local[p].mtime <= t.now
    /\ t.used \in [local : Nat, remote : Nat, breaks : Nat, sessions : Nat]
ASSUME ContentsAssumption ==
  Contents \subseteq Seq(Blocks) /\ {MaxTime, VerifyMax, MaxFrame} \subseteq Nat
\* A temporary file has a name that no one excludes.
ASSUME StagingAssumption == \A p \in Staging : p \in Paths /\ ~ IsExcluded(p)

VARIABLES
  local, remote,       \* the two trees
  rooted,              \* the remote directory that is synced into is there
  now, lag,            \* the local clock, and how far the remote one is behind
  cpc,                 \* where the client is
  walk,                \* client: the local tree as it walked it
  list,                \* client: the remote tree as the agent listed it
  want, check,         \* client: the paths whose SIG it still waits for
  sigs,                \* client: the signatures it has, <<>> for none
  sends,               \* client: the paths still to be PUT, in order
  reading,             \* client: the file it has open, with its content then
  apc,                 \* where the agent is
  toAgent, toClient,   \* the frames in flight
  stray,               \* frames an abandoned agent has still to apply
  used,                \* how much of each bound is used up
  \* History, read by no action:
  versions,            \* versions[p]: every entry p ever had locally
  shaken,              \* paths nothing is promised of: changed remotely by
                       \* others during a sync, or directories on one side only
  quiet,               \* nobody else changed remote since this sync's LIST
  still,               \* no local edit and no break since this sync's walk
  settled              \* nothing happened to either tree since a success that
                       \* found no clash

client == <<cpc, walk, list, want, check, sigs, sends, reading>>
world == <<local, remote, rooted, now, lag>>
history == <<versions, shaken, quiet, still, settled>>
vars == <<world, client, apc, toAgent, toClient, stray, used, history>>

Active == {"list", "sigs", "send", "await"}

NoTree == [p \in Paths |-> Absent]
NoSigs == [p \in Paths |-> <<>>]

\* The paths of a set, in walk order.
Ordered(S) ==
  LET first[n \in 0..Len(PathOrder)] ==
        IF n = 0 THEN <<>>
        ELSE IF PathOrder[n] \in S THEN Append(first[n - 1], PathOrder[n]) ELSE first[n - 1]
  IN  first[Len(PathOrder)]

Shut == [path |-> <<>>]

\* An entry without its times: the promise is about content.
Bare(e) == IF e.kind = "file" THEN File(e.data, 0) ELSE e

\* Paths that are a directory on one side and something else on the other.
Clash(l, r) ==
  {p \in Paths : /\ Absent \notin {l[p], r[p]} /\ l[p].kind # r[p].kind
                /\ "dir" \in {l[p].kind, r[p].kind}}

Init ==
  /\ \E t \in Starts : /\ local = t.local /\ remote = t.remote
                      /\ rooted = t.rooted /\ now = t.now /\ lag = t.lag /\ used = t.used
  /\ cpc = "idle" /\ apc = "off"
  /\ walk = NoTree /\ list = NoTree
  /\ want = <<>> /\ check = <<>> /\ sends = <<>>
  /\ sigs = NoSigs /\ reading = Shut
  /\ toAgent = <<>> /\ toClient = <<>> /\ stray = <<>>
  /\ versions = [p \in Paths |-> {Bare(local[p])}]
  /\ shaken = IF Clash(local, remote) = {} THEN {} ELSE Paths
  /\ quiet = TRUE /\ still = TRUE /\ settled = FALSE

Spend(what, max) ==
  /\ used[what] < max
  /\ used' = [used EXCEPT ![what] = @ + 1]

-----------------------------------------------------------------------------
(***************************************************************************)
(* Frames.                                                                 *)
(***************************************************************************)

PathFrame(tag, paths) ==
  IF paths = <<>> THEN <<>> ELSE <<[tag |-> tag, paths |-> paths]>>

\* len is the length as walked.
PutFrame(p, entry, delta, len) ==
  [tag |-> "PUT", paths |-> <<p>>, entry |-> entry, delta |-> delta, len |-> len]

\* A frame that names many paths is consumed one path at a time.
Rest(frames) ==
  IF Len(Head(frames).paths) <= 1
  THEN Tail(frames)
  ELSE <<[Head(frames) EXCEPT !.paths = Tail(@)]>> \o Tail(frames)

\* Mutant of Clamp: the time of the write.
WriteTime(mtime) == now - lag

\* The clamp of write_file_atomic: no mtime in the agent's own future.
Clamp(mtime) == IF mtime > now - lag THEN now - lag ELSE mtime

\* apply_put.  A delta is applied to what the file holds by now, and only the
\* length of what comes out is checked; the length of whole content is not.
ApplyPut(t, p, frame) ==
  LET e == frame.entry
      at == Real(t, p)
      old == IF t[Hop(t, at)].kind = "file" THEN t[Hop(t, at)].data ELSE <<>>
      data == IF frame.delta = <<>> THEN e.data ELSE Patch(old, frame.delta)
  IN  CASE e.kind = "dir" -> CreateDirAll(t, p)
        [] e.kind = "link" -> PutLink(t, p, e.to, rooted)
        [] e.kind = "file" ->
             IF /\ CanPatch(old, frame.delta)
                /\ frame.delta # <<>> => Len(data) = frame.len
             THEN WriteFileAtomic(t, p, File(data, Clamp(e.mtime)))
             ELSE Fails(t)

\* What a PUT carries of a file: its content, or the delta sent for it.
Payload(frame) ==
  IF frame.entry.kind # "file" THEN 0
  ELSE IF frame.delta = <<>> THEN Len(frame.entry.data) ELSE Literals(frame.delta)

\* read_frame refuses a frame that is too large.
Receivable(frame) == Payload(frame) <= MaxFrame

\* What the agent does to its tree for the first path of a frame.
Apply(t, frame) ==
  LET p == Head(frame.paths)
  IN  CASE frame.tag = "MKDIR" -> CreateDirAll(t, p)
        [] frame.tag = "DELETE" -> Yields(RemoveEntry(t, p))
        [] frame.tag = "PUT" -> IF Receivable(frame) THEN ApplyPut(t, p, frame) ELSE Fails(t)
        [] OTHER -> Yields(t)

\* Whatever comes into a tree makes its root first.
MakeRoot == rooted' = (rooted \/ remote' # remote)

-----------------------------------------------------------------------------
(***************************************************************************)
(* The client.                                                             *)
(***************************************************************************)

\* Agent::start, the walk, and SYNC_REQ to a new agent.
Start ==
  /\ cpc = "idle"
  /\ Spend("sessions", MaxSessions)
  /\ walk' = Walk(local)
  /\ toAgent' = <<[tag |-> "SYNC_REQ", paths |-> <<>>]>>
  /\ cpc' = "list" /\ apc' = "start"
  /\ still' = TRUE
  /\ UNCHANGED <<world, list, want, check, sigs, sends, reading, toClient, stray,
                 versions, shaken, quiet, settled>>

\* The plan, from metadata alone; r is the remote tree as listed.
Missing(r) == {p \in Paths : walk[p] # Absent /\ r[p] = Absent}
OnBoth(r) == {p \in Paths : walk[p] # Absent /\ r[p] # Absent}
Differing(r) == {p \in OnBoth(r) : ~ SameEntry(walk[p], r[p])}

\* Missing directories are made first, all else that differs is sent.
MkDirs(r) == {p \in Missing(r) : walk[p] = Dir}
ToSend(r) == (Missing(r) \ MkDirs(r)) \cup Differing(r)

\* A delta needs a signature of what the remote file holds.
NeedSig(r) ==
  {p \in Differing(r) : /\ walk[p].kind = "file" /\ r[p].kind = "file"
                        /\ Len(r[p].data) > 0}

\* Mutant of ToVerify: whatever looks unchanged is left alone.
VerifyNothing(r) == {}

\* Small files that look unchanged are compared by signature.
ToVerify(r) ==
  {p \in OnBoth(r) \ Differing(r) :
     walk[p].kind = "file" /\ Len(walk[p].data) \in 1..VerifyMax}

\* Mutant of ToDelete: all that differs is deleted.
DeleteDiffering(r) == {p \in Paths : r[p] # Absent /\ ~ SameEntry(walk[p], r[p])}

\* What is listed and not walked is deleted, deepest first, then in reverse walk
\* order.
ToDelete(r) == {p \in Paths : walk[p] = Absent /\ r[p] # Absent}

Deletes(r) ==
  LET rank(p) == SelectInSeq(PathOrder, LAMBDA q : q = p)
      before(p, q) == Len(p) > Len(q) \/ (Len(p) = Len(q) /\ rank(p) > rank(q))
  IN  {s \in SetToSeqs(ToDelete(r)) :
         \A i, j \in 1..Len(s) : i < j => before(s[i], s[j])}

\* LIST arrives: plan, then MKDIR and SIG_REQ.
Plan ==
  /\ cpc = "list"
  /\ toClient # <<>> /\ Head(toClient).tag = "LIST"
  /\ LET r == Head(toClient).tree
     IN  /\ list' = r
         /\ want' = Ordered(NeedSig(r))
         /\ check' = Ordered(ToVerify(r))
         /\ sends' = Ordered(ToSend(r))
         /\ toAgent' = toAgent
              \o PathFrame("MKDIR", Ordered(MkDirs(r)))
              \o PathFrame("SIG_REQ", Ordered(NeedSig(r)) \o Ordered(ToVerify(r)))
  /\ toClient' = Tail(toClient)
  /\ sigs' = NoSigs
  /\ cpc' = "sigs"
  /\ UNCHANGED <<world, walk, reading, apc, stray, used, history>>

\* The client returns an error and drops its connection.
GiveUp ==
  /\ cpc' = "failed"
  /\ reading' = Shut
  /\ UNCHANGED <<world, walk, list, want, check, sigs, sends, apc, toAgent,
                 stray, used, history>>

\* read_for_send, first half: the open file must still have the walked length
\* and modification time.
CanRead(p) == SameEntry(walk[p], local[p])

Open(p) ==
  IF CanRead(p)
  THEN /\ reading' = [path |-> p, data |-> local[p].data]
       /\ UNCHANGED <<world, cpc, walk, list, want, check, sigs, sends, apc,
                      toAgent, stray, used, history>>
  ELSE GiveUp

\* Second half: what is read later is what the file held when it was opened, or
\* what has been written into it since; it is not compared with the walk again.
DataRead ==
  LET e == local[reading.path]
  IN  {reading.data} \cup (IF e.kind = "file" THEN {e.data} ELSE {})

\* Mutant of SigFits: the local length bounds the signature.
SigFitsLocal(p, sig) == Len(sig) <= Len(walk[p].data)

\* check_sig_size for a file that differs: the listed length bounds it.
SigFits(p, sig) == Len(sig) <= Len(list[p].data)

\* One SIG for a file that differs.
CollectSig ==
  /\ cpc = "sigs" /\ want # <<>>
  /\ toClient # <<>> /\ Head(toClient).tag = "SIG"
  /\ toClient' = Tail(toClient)
  /\ LET p == Head(want)
         sig == Head(toClient).sig
     IN  IF ~ SigFits(p, sig)
         THEN GiveUp
         ELSE /\ sigs' = [sigs EXCEPT ![p] = sig]
              /\ want' = Tail(want)
              /\ UNCHANGED <<world, cpc, walk, list, check, sends, reading, apc,
                             toAgent, stray, used, history>>

\* One SIG for a file that looks unchanged has come: read the local file, and
\* resend it if the content is not the same.
OpenToVerify ==
  /\ cpc = "sigs" /\ want = <<>> /\ check # <<>> /\ reading = Shut
  /\ toClient # <<>> /\ Head(toClient).tag = "SIG"
  /\ Open(Head(check)) /\ UNCHANGED toClient

Verify ==
  /\ cpc = "sigs" /\ want = <<>> /\ check # <<>> /\ reading # Shut
  /\ toClient' = Tail(toClient)
  /\ LET p == Head(check)
         sig == Head(toClient).sig
     IN  \E data \in DataRead :
           IF Len(sig) > Len(walk[p].data)
           THEN GiveUp
           ELSE /\ sends' = IF sig = Signature(data) THEN sends ELSE Append(sends, p)
                /\ check' = Tail(check)
                /\ reading' = Shut
                /\ UNCHANGED <<world, cpc, walk, list, want, sigs, apc,
                               toAgent, stray, used, history>>

\* One PUT: a directory or a link as walked, or the walked times with the
\* content as read now, whole or as a delta.
Sending == cpc \in {"sigs", "send"} /\ want = <<>> /\ check = <<>> /\ sends # <<>>

Put(p, entry, delta) ==
  /\ toAgent' = Append(toAgent, PutFrame(p, entry, delta,
                  IF walk[p].kind = "file" THEN Len(walk[p].data) ELSE 0))
  /\ sends' = Tail(sends)
  /\ cpc' = "send" /\ reading' = Shut
  /\ UNCHANGED <<world, walk, list, want, check, sigs, apc, toClient, stray, used,
                 history>>

OpenToSend ==
  /\ Sending /\ reading = Shut /\ walk[Head(sends)].kind = "file"
  /\ Open(Head(sends)) /\ UNCHANGED toClient

Send ==
  /\ Sending
  /\ LET p == Head(sends)
     IN  \/ walk[p].kind # "file" /\ Put(p, walk[p], <<>>)
         \/ /\ reading # Shut
            /\ \E data \in DataRead :
                 LET delta == Delta(data, sigs[p])
                 IN  Put(p, File(data, walk[p].mtime),
                         IF IsShorter(delta) THEN delta ELSE <<>>)

\* DELETE and PLAN_DONE.
Finish ==
  /\ cpc \in {"sigs", "send"} /\ want = <<>> /\ check = <<>> /\ sends = <<>>
  /\ \E deletes \in Deletes(list) :
       toAgent' = toAgent \o PathFrame("DELETE", deletes)
                          \o <<[tag |-> "PLAN_DONE", paths |-> <<>>]>>
  /\ cpc' = "await"
  /\ UNCHANGED <<world, walk, list, want, check, sigs, sends, reading, apc, toClient,
                 stray, used, history>>

\* DONE: the sync is reported as a success.
Succeed ==
  /\ cpc = "await"
  /\ toClient # <<>> /\ Head(toClient).tag = "DONE"
  /\ toClient' = Tail(toClient)
  /\ cpc' = "done"
  /\ settled' = (quiet /\ still /\ Clash(walk, list) = {})
  /\ UNCHANGED <<world, walk, list, want, check, sigs, sends, reading, apc, toAgent,
                 stray, used, versions, shaken, quiet, still>>

\* ERROR, or the end of the agent's output.
Fail ==
  /\ cpc \in Active /\ apc = "gone"
  /\ toClient # <<>> => Head(toClient).tag = "ERROR"
  /\ GiveUp /\ UNCHANGED toClient

\* The next run.  Frames the old agent has not read yet become stray, or
\* some of the last ones are lost.
Again ==
  /\ cpc \in {"done", "failed"}
  /\ used.sessions < MaxSessions
  /\ stray = <<>>
  /\ stray' \in IF apc = "serve" THEN Prefixes(toAgent) ELSE {<<>>}
  /\ cpc' = "idle" /\ apc' = "off"
  /\ toAgent' = <<>> /\ toClient' = <<>>
  /\ walk' = NoTree /\ list' = NoTree
  /\ want' = <<>> /\ check' = <<>> /\ sends' = <<>> /\ sigs' = NoSigs
  /\ UNCHANGED <<world, reading, used, history>>

ClientStep ==
  \/ Start \/ Plan \/ CollectSig \/ OpenToVerify \/ Verify \/ OpenToSend \/ Send
  \/ Finish \/ Succeed \/ Fail \/ Again

-----------------------------------------------------------------------------
(***************************************************************************)
(* The agent.                                                              *)
(***************************************************************************)

\* SYNC_REQ: walk the remote tree and answer with LIST.
List ==
  /\ apc = "start"
  /\ toAgent # <<>> /\ Head(toAgent).tag = "SYNC_REQ"
  /\ toAgent' = Tail(toAgent)
  /\ toClient' = Append(toClient, [tag |-> "LIST", tree |-> Walk(remote)])
  /\ apc' = "serve"
  /\ quiet' = TRUE
  /\ UNCHANGED <<world, client, stray, used, versions, shaken, still, settled>>

\* Mutant of AnswerSig: no SIG for a file that has vanished.
AnswerSigIfAny ==
  /\ apc = "serve"
  /\ toAgent # <<>> /\ Head(toAgent).tag = "SIG_REQ"
  /\ toAgent' = Rest(toAgent)
  /\ LET data == ReadNoFollow(remote, Head(Head(toAgent).paths))
     IN  toClient' = IF data = <<>> THEN toClient
                     ELSE Append(toClient, [tag |-> "SIG", sig |-> Signature(data)])
  /\ UNCHANGED <<world, client, apc, stray, used, history>>

\* One path of SIG_REQ: exactly one SIG, empty when there is no file to read.
AnswerSig ==
  /\ apc = "serve"
  /\ toAgent # <<>> /\ Head(toAgent).tag = "SIG_REQ"
  /\ toAgent' = Rest(toAgent)
  /\ LET p == Head(Head(toAgent).paths)
     IN  toClient' = Append(toClient,
           [tag |-> "SIG", sig |-> Signature(ReadNoFollow(remote, p))])
  /\ UNCHANGED <<world, client, apc, stray, used, history>>

\* One path of MKDIR or DELETE, or one PUT.  An error ends the agent.
Change ==
  /\ apc = "serve"
  /\ toAgent # <<>> /\ Head(toAgent).tag \in {"MKDIR", "DELETE", "PUT"}
  /\ LET result == Apply(remote, Head(toAgent))
     IN  /\ remote' = result.tree /\ MakeRoot
         /\ IF result.ok
            THEN toAgent' = Rest(toAgent) /\ UNCHANGED <<apc, toClient>>
            ELSE /\ apc' = "gone"
                 /\ toAgent' = <<>>
                 /\ toClient' = Append(toClient, [tag |-> "ERROR"])
  /\ UNCHANGED <<local, now, lag, client, stray, used, history>>

\* PLAN_DONE: answer DONE.
Conclude ==
  /\ apc = "serve"
  /\ toAgent # <<>> /\ Head(toAgent).tag = "PLAN_DONE"
  /\ toAgent' = Tail(toAgent)
  /\ toClient' = Append(toClient, [tag |-> "DONE"])
  /\ apc' = "idle"
  /\ UNCHANGED <<world, client, stray, used, history>>

AgentStep == List \/ AnswerSig \/ Change \/ Conclude

-----------------------------------------------------------------------------
(***************************************************************************)
(* The rest of the world.                                                  *)
(***************************************************************************)

\* The agent of an earlier sync applies a frame it still found in its pipe.
StrayStep ==
  /\ stray # <<>>
  /\ LET frame == Head(stray)
         changes == frame.tag \in {"MKDIR", "DELETE", "PUT"}
         result == IF changes THEN Apply(remote, frame) ELSE Yields(remote)
     IN  /\ remote' = result.tree /\ MakeRoot
         /\ stray' = IF result.ok THEN Rest(stray) ELSE <<>>
         /\ quiet' = (quiet /\ ~ changes)
         /\ settled' = (settled /\ ~ changes)
         /\ shaken' = IF changes /\ apc \notin {"off", "start"}
                      THEN shaken \cup {Head(frame.paths)} ELSE shaken
  /\ UNCHANGED <<local, now, lag, client, apc, toAgent, toClient, used, versions,
                 still>>

\* A user or a program writes or removes a local file.
LocalEdit(p) ==
  /\ Spend("local", MaxLocalEdits)
  /\ p \notin Staging
  /\ local[p].kind \in {"file", "none"}
  /\ Len(p) > 1 => local[Front(p)] = Dir
  /\ \E e \in {File(c, now) : c \in Contents} \cup {Absent} :
       /\ e # local[p]
       /\ local' = [local EXCEPT ![p] = e]
       /\ versions' = [versions EXCEPT ![p] = @ \cup {Bare(e)}]
  /\ still' = FALSE /\ settled' = FALSE
  /\ UNCHANGED <<remote, rooted, now, lag, client, apc, toAgent, toClient, stray,
                 shaken, quiet>>

\* A build or another user writes or removes a remote file, with any mtime.
RemoteEdit(p) ==
  /\ Spend("remote", MaxRemoteEdits)
  /\ p \notin Staging
  /\ remote[p].kind \in {"file", "none"}
  /\ Len(p) > 1 => remote[Front(p)] = Dir
  /\ \E e \in {Absent} \cup UNION {{File(c, t) : c \in Contents} : t \in 1..now} :
       /\ e # remote[p]
       /\ remote' = [remote EXCEPT ![p] = e]
  /\ MakeRoot
  /\ quiet' = FALSE /\ settled' = FALSE
  /\ shaken' = IF apc = "serve" \/ stray # <<>> THEN shaken \cup {p} ELSE shaken
  /\ UNCHANGED <<local, now, lag, client, apc, toAgent, toClient, stray, versions,
                 still>>

\* A second passes.
Tick ==
  /\ now < MaxTime
  /\ now' = now + 1
  /\ UNCHANGED <<local, remote, rooted, lag, client, apc, toAgent, toClient, stray, used,
                 history>>

\* The connection breaks or the client is killed: the last frames may be lost.
Break ==
  /\ cpc \in Active
  /\ Spend("breaks", MaxBreaks)
  /\ toAgent' \in Prefixes(toAgent)
  /\ toClient' = <<>>
  /\ cpc' = "failed" /\ reading' = Shut
  /\ still' = FALSE
  /\ UNCHANGED <<world, walk, list, want, check, sigs, sends, apc, stray,
                 versions, shaken, quiet, settled>>

\* What a PUT leaves when it is cut short: a temporary file that was not
\* renamed, or the place of a link that was removed and not made again.
HalfPut(frame) ==
  LET at == Real(remote, Head(frame.paths))
  IN  \/ /\ frame.entry.kind = "file"
         /\ \E p \in Staging :
              /\ remote[p] = Absent
              /\ Len(p) > 1 => remote[Front(p)] = Dir
              /\ remote' = [remote EXCEPT ![p] = File(<<>>, now - lag)]
      \/ /\ frame.entry.kind = "link" /\ frame.entry.to # Escape
         /\ remote[at] \notin {Absent, Dir}
         /\ remote' = [remote EXCEPT ![at] = Absent]

\* A frame that makes the directories its path is in, from the root down.
MakesParents(frame) ==
  frame.tag = "MKDIR" \/ (frame.tag = "PUT" /\ frame.entry.kind # "link" /\ Receivable(frame))

\* The agent is killed, perhaps in the middle of a PUT, or when it has made no
\* more than the root.
AgentDies ==
  /\ apc \in {"start", "serve"}
  /\ Spend("breaks", MaxBreaks)
  /\ \/ UNCHANGED <<remote, rooted>>
     \/ /\ apc = "serve" /\ toAgent # <<>> /\ MakesParents(Head(toAgent))
        /\ rooted' = TRUE /\ UNCHANGED remote
     \/ /\ toAgent # <<>> /\ Head(toAgent).tag = "PUT" /\ HalfPut(Head(toAgent))
        /\ MakeRoot
  /\ apc' = "gone"
  /\ toAgent' = <<>>
  /\ still' = FALSE /\ settled' = FALSE
  /\ UNCHANGED <<local, now, lag, client, toClient, stray, versions, shaken, quiet>>

Next ==
  \/ ClientStep \/ AgentStep \/ StrayStep
  \/ \E p \in Paths : LocalEdit(p) \/ RemoteEdit(p)
  \/ Tick \/ Break \/ AgentDies

\* The client and the agent are processes that run whenever they can; when
\* to run the next sync is up to the user.
Fairness ==
  /\ WF_vars(\/ Plan \/ CollectSig \/ OpenToVerify \/ Verify \/ OpenToSend \/ Send
             \/ Finish \/ Succeed \/ Fail)
  /\ WF_vars(AgentStep)

Spec == Init /\ [][Next]_vars /\ Fairness

-----------------------------------------------------------------------------
(***************************************************************************)
(* Properties.                                                             *)
(***************************************************************************)

KindClash == Clash(walk, list) # {}

\* A local link that the agent refuses to make.
LeavesRoot == \E p \in Paths : walk[p] = Link(Escape)

\* A local file of before 1970: walk reads its time as 0, read_for_send does not.
BeforeEpoch == \E p \in Paths : local[p].kind = "file" /\ local[p].mtime < 0

\* A local file that may not fit a frame.
TooLong ==
  \E p \in ToSend(list) \cup ToVerify(list) :
     walk[p].kind = "file" /\ Len(walk[p].data) > MaxFrame

\* A link at the top, due when nothing has made the remote root yet.
LinkFirst ==
  ~ rooted /\ \E p \in ToSend(list) : Len(p) = 1 /\ walk[p].kind = "link"

TypeOK ==
  /\ \A p \in Paths : local[p].kind \in {"none", "file", "dir", "link"}
  /\ WellFormed(local) /\ WellFormed(remote)
  /\ rooted \in BOOLEAN /\ (rooted \/ remote = NoTree)
  /\ now \in 1..MaxTime
  /\ cpc \in Active \cup {"idle", "done", "failed"}
  /\ apc \in {"off", "start", "serve", "idle", "gone"}
  /\ ToSet(want) \cup ToSet(check) \cup ToSet(sends) \subseteq Paths
  /\ shaken \subseteq Paths

\* An excluded entry that the agent leaves alone is here or below.
Kept(p) == \E q \in Paths : IsPrefix(p, q) /\ IsExcluded(q) /\ remote[q] # Absent

\* p on the remote is, as a walk sees it, what the client walked, with its time
\* unless the clock of the remote is behind.  A file may hold a later version,
\* which the client read; a file too long to be verified may be one that only
\* looked unchanged.
Mirrors(p) ==
  LET r == Walk(remote)[p]
  IN  CASE walk[p].kind = "none" -> r = Absent \/ Kept(p)
        [] walk[p].kind \in {"dir", "link"} -> r = walk[p]
        [] walk[p].kind = "file" ->
             /\ r.kind = "file"
             /\ lag = 0 => r.mtime = walk[p].mtime
             /\ \/ Bare(r) \in versions[p]
                \/ Len(walk[p].data) > VerifyMax /\ r = list[p]
             /\ still /\ Len(walk[p].data) <= VerifyMax => r.data = walk[p].data

\* When a sync reports success and nobody else wrote to the remote tree since
\* it was listed, the remote tree is the local tree, whatever earlier syncs
\* left half done and whatever was edited locally meanwhile.  (Not so where a path
\* was a directory on one side only: a remote link to one is taken for it.)
SuccessMirrors ==
  cpc = "done" /\ quiet /\ ~ KindClash =>
    \A p \in Paths : ~ IsExcluded(p) => Mirrors(p)

\* A sync that nothing disturbs succeeds, whatever state earlier, failed
\* syncs and foreign edits left the remote tree in.  (A path that has become a
\* directory or has been one is sent before anything is deleted, and fails; a
\* link at the top fails when it is the first thing to come below a missing root.
\* A file that does not fit a frame, a link out of the root and a file of before
\* 1970 fail at every sync that has to send, to make or to read them.)
UndisturbedSucceeds ==
  cpc = "failed" /\ quiet /\ still =>
    KindClash \/ LeavesRoot \/ BeforeEpoch \/ TooLong \/ LinkFirst

\* When nothing happens between a successful sync and the next one, the next one
\* sends nothing and deletes nothing but directories that excluded files keep:
\* what a sync writes is what the next one takes as unchanged.  (A file with a
\* time in the future of the remote clock gets another time, and goes again.)
Settled ==
  settled /\ cpc \in Active \ {"list"} =>
    /\ \A p \in ToSet(sends) : lag > 0 /\ list[p].mtime < walk[p].mtime
    /\ \A p \in ToDelete(list) : list[p] = Dir

\* No path that exists on both sides, and is a file locally, goes missing on
\* the remote during a sync: what was there stays until the file replaces it.
\* (A link is removed and made again, so it may go missing.)
NoGap ==
  [][\A p \in Paths :
       /\ cpc \in Active /\ walk[p].kind = "file"
       /\ remote[p] # Absent /\ remote'[p] = Absent /\ p \notin shaken
       => used'.remote # used.remote \/ stray' # stray]_vars

\* Every path of the remote tree always is nothing or a whole local version.
PathReplica ==
  INSTANCE Replica WITH store <- [p \in Paths |-> Bare(remote[p])], edits <- used.remote, Nothing <- Absent,
                        Protected <- {p \in Paths : IsExcluded(p)},
                        Scratch <- Staging
ReplicaSpec == PathReplica!Spec

\* A sync that has started ends: the client and the agent never wait for
\* each other, and every SIG the client counts on is sent.
SyncEnds == (cpc = "list") ~> (cpc \in {"done", "failed"})

=============================================================================
