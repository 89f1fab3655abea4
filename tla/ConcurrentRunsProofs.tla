----------------------- MODULE ConcurrentRunsProofs -----------------------
(***************************************************************************)
(* Proofs about what runs that go on at the same time do to the files they *)
(* share: the lock file on the local machine (RunLock), for any set of     *)
(* runs, and the agent binary on the remote (AgentBootstrap), for any      *)
(* clients, builds, remotes and sizes of the binary.                       *)
(***************************************************************************)
EXTENDS RunLock, AgentBootstrap, TLAPS

-----------------------------------------------------------------------------
(***************************************************************************)
(* The lock.  LockInv is inductive: it holds at the start (InitLockInv)    *)
(* and every action preserves it (NextLockInv, one step per action).  The  *)
(* properties the TLC run checks follow from it.                           *)
(***************************************************************************)

\* The initial state, in which nobody has asked for the lock, satisfies LockInv.
LEMMA InitLockInv == LockInit => LockInv
  BY NoRunAssumption
  DEF LockInit, LockInv, LockTypes, ContentIsCreators, NoOrphanLock, OwnsOrRobbed,
      AloneIsAlone, SeesOthers, AloneNeverBails, Live, Stages, Ended, Trying

\* Every system call of every run preserves LockInv.
LEMMA NextLockInv == LockInv /\ [LockNext]_lockVars => LockInv'
<1> SUFFICES ASSUME LockInv, [LockNext]_lockVars PROVE LockInv'
    OBVIOUS
<1> USE NoRunAssumption
<1> USE DEF LockInv, LockTypes, ContentIsCreators, NoOrphanLock, OwnsOrRobbed,
            AloneIsAlone, SeesOthers, AloneNeverBails, Live, Stages, Ended,
            Trying, Enter
<1>1. CASE UNCHANGED lockVars
      BY <1>1 DEF lockVars
<1>2. ASSUME NEW r \in Processes, Arrive(r) PROVE LockInv'
      BY <1>2 DEF Arrive
<1>3. ASSUME NEW r \in Processes, Create(r) PROVE LockInv'
      BY <1>3 DEF Create, NewFile
<1>4. ASSUME NEW r \in Processes, WritePid(r) PROVE LockInv'
      BY <1>4 DEF WritePid
<1>5. ASSUME NEW r \in Processes, ReadPid(r) PROVE LockInv'
      BY <1>5 DEF ReadPid
<1>6. ASSUME NEW r \in Processes, Probe(r) PROVE LockInv'
      BY <1>6 DEF Probe
<1>7. ASSUME NEW r \in Processes, Remove(r) PROVE LockInv'
      BY <1>7 DEF Remove, Unlink
<1>8. ASSUME NEW r \in Processes, Recreate(r) PROVE LockInv'
      BY <1>8 DEF Recreate, NewFile
<1>9. ASSUME NEW r \in Processes, Release(r) PROVE LockInv'
      BY <1>9 DEF Release, Unlink
<1>10. ASSUME NEW r \in Processes, Crash(r) PROVE LockInv'
      BY <1>10 DEF Crash
<1>11. QED
      BY <1>1, <1>2, <1>3, <1>4, <1>5, <1>6, <1>7, <1>8, <1>9, <1>10
      DEF LockNext, Step

\* The inductive invariant holds in every reachable state.
THEOREM RunLockInvariant == LockSpec => []LockInv
<1>1. LockInit => LockInv
      BY InitLockInv
<1>2. LockInv /\ [LockNext]_lockVars => LockInv'
      BY NextLockInv
<1>3. QED
      BY <1>1, <1>2, PTL DEF LockSpec

\* Two runs hold the lock of one project and host at the same time only if
\* another run deleted the file of one of them.
THEOREM ExclusionUnlessRobbedHolds == LockSpec => []ExclusionUnlessRobbed
<1>1. LockInv => ExclusionUnlessRobbed
      BY DEF LockInv, OwnsOrRobbed, ExclusionUnlessRobbed, Holders
<1>2. QED
      BY <1>1, RunLockInvariant, PTL

\* No run that ended by itself leaves a lock file at the path.
THEOREM NoOrphanLockHolds == LockSpec => []NoOrphanLock
<1>1. LockInv => NoOrphanLock
      BY DEF LockInv
<1>2. QED
      BY <1>1, RunLockInvariant, PTL

\* A run that meets no other run is never refused, whatever crashed runs
\* left behind.
THEOREM AloneNeverBailsHolds == LockSpec => []AloneNeverBails
<1>1. LockInv => AloneNeverBails
      BY DEF LockInv
<1>2. QED
      BY <1>1, RunLockInvariant, PTL

-----------------------------------------------------------------------------
(***************************************************************************)
(* The agent binary.                                                       *)
(***************************************************************************)

LEMMA InitIInv == Init => IInv /\ FallsBackForCause
<1> SUFFICES ASSUME Init PROVE IInv /\ FallsBackForCause
  OBVIOUS
<1>1. TypeOK
  <2>1. \A r \in Runs : (CHOOSE b \in Builds : TRUE) \in Builds
    BY BuildsAssumption
  <2> QED
    BY <2>1, SizeAssumption DEF Init, TypeOK
<1> QED
  BY <1>1 DEF Init, IInv, JobsOwned, ReadyIsMine, FallsBackForCause

LEMMA NextType == TypeOK /\ [Next]_vars => TypeOK'
<1> SUFFICES ASSUME TypeOK, [Next]_vars PROVE TypeOK'
  OBVIOUS
<1> USE SizeAssumption DEF TypeOK, host, client, upload, Goto
<1>1. ASSUME NEW r \in Runs, NEW b \in Builds, Begin(r, b) PROVE TypeOK'
  BY <1>1 DEF Begin
<1>2. ASSUME NEW r \in Runs, Uname(r) PROVE TypeOK'
  BY <1>2 DEF Uname
<1>3. ASSUME NEW r \in Runs, Check(r) PROVE TypeOK'
  BY <1>3 DEF Check
<1>4. ASSUME NEW r \in Runs, SendChunk(r) PROVE TypeOK'
  BY <1>4 DEF SendChunk
<1>5. ASSUME NEW r \in Runs, Move(r) PROVE TypeOK'
  BY <1>5 DEF Move, Place, Binaries
<1>6. ASSUME NEW r \in Runs, Uploaded(r) PROVE TypeOK'
  BY <1>6 DEF Uploaded
<1>7. ASSUME NEW r \in Runs, Verify(r) PROVE TypeOK'
  BY <1>7 DEF Verify
<1>8. ASSUME NEW r \in Runs, JobFails(r) PROVE TypeOK'
  BY <1>8 DEF JobFails
<1>9. ASSUME NEW r \in Runs, Start(r) PROVE TypeOK'
  BY <1>9 DEF Start
<1>10. ASSUME NEW r \in Runs, Lose(r) PROVE TypeOK'
  BY <1>10 DEF Lose, Binaries
<1>11. ASSUME OrphanMove PROVE TypeOK'
  BY <1>11 DEF OrphanMove, Place
<1>12. ASSUME UNCHANGED vars PROVE TypeOK'
  BY <1>12 DEF vars
<1> QED
  BY <1>1, <1>2, <1>3, <1>4, <1>5, <1>6, <1>7, <1>8, <1>9, <1>10, <1>11, <1>12 DEF Next, Bootstrap

\* What a run knows of the agent in place, until another file comes there.
Known(r) ==
  /\ job[r] # "off" => pc[r] = "upload"
  /\ pc[r] \in {"ready", "serving"} => swapped[r] \/ Answers(mine[r])
  /\ job[r] = "moved" \/ pc[r] = "verify" =>
       swapped[r] \/ agent = [build |-> mine[r], size |-> Size]
  /\ pc[r] = "none" => ~ same \/ mine[r] \notin starts \/ lost[r] \/ swapped[r]

LEMMA KnownAll == TypeOK => ((\A r \in Runs : Known(r)) <=> (IInv /\ FallsBackForCause))
  BY DEF Known, IInv, FallsBackForCause, JobsOwned, ReadyIsMine, TypeOK

\* Another file in place is noticed in the history of all that have not put it there.
LEMMA PlaceKnown ==
  ASSUME TypeOK, NEW file, NEW aware, Place(file, aware), UNCHANGED <<host, client>>,
         NEW r \in Runs \ aware, Known(r), UNCHANGED <<job[r]>>
  PROVE  Known(r)'
<1>1. /\ swapped'[r] = (swapped[r] \/ agent # file) /\ agent' = file
      /\ UNCHANGED <<same, starts, mine, pc, lost>>
  BY DEF Place, host, client
<1> QED
  BY <1>1 DEF Known, Answers

\* No other run knows anything of what a run does but for the agent.
LEMMA OthersKnown ==
  ASSUME TypeOK, NEW r \in Runs, Known(r),
         UNCHANGED <<host, agent, pc[r], job[r], mine[r], lost[r], swapped[r]>>
  PROVE  Known(r)'
  BY DEF Known, Answers, host

LEMMA NextKnown ==
  ASSUME TypeOK, TypeOK', \A r \in Runs : Known(r), [Next]_vars
  PROVE  \A r \in Runs : Known(r)'
<1>1. ASSUME NEW q \in Runs, NEW b \in Builds, Begin(q, b), NEW r \in Runs PROVE Known(r)'
  <2>1. CASE r # q
    <3>1. UNCHANGED <<host, agent, pc[r], job[r], mine[r], lost[r], swapped[r]>>
      BY <1>1, <2>1 DEF Begin, TypeOK, Goto, client, upload
    <3> QED
      BY <3>1, OthersKnown
  <2>2. CASE r = q
    BY <1>1, <2>2 DEF Begin, Known, Answers, TypeOK, Goto, host, client, upload
  <2> QED
    BY <2>1, <2>2
<1>2. ASSUME NEW q \in Runs, Uname(q), NEW r \in Runs PROVE Known(r)'
  <2>1. CASE r # q
    <3>1. UNCHANGED <<host, agent, pc[r], job[r], mine[r], lost[r], swapped[r]>>
      BY <1>2, <2>1 DEF Uname, TypeOK, Goto, client, upload
    <3> QED
      BY <3>1, OthersKnown
  <2>2. CASE r = q
    BY <1>2, <2>2 DEF Uname, Known, Answers, TypeOK, Goto, host, client, upload
  <2> QED
    BY <2>1, <2>2
<1>3. ASSUME NEW q \in Runs, Check(q), NEW r \in Runs PROVE Known(r)'
  <2>1. CASE r # q
    <3>1. UNCHANGED <<host, agent, pc[r], job[r], mine[r], lost[r], swapped[r]>>
      BY <1>3, <2>1 DEF Check, TypeOK, Goto, client, upload
    <3> QED
      BY <3>1, OthersKnown
  <2>2. CASE r = q
    BY <1>3, <2>2 DEF Check, Known, Answers, TypeOK, Goto, host, client, upload
  <2> QED
    BY <2>1, <2>2
<1>4. ASSUME NEW q \in Runs, SendChunk(q), NEW r \in Runs PROVE Known(r)'
  <2>1. CASE r # q
    <3>1. UNCHANGED <<host, agent, pc[r], job[r], mine[r], lost[r], swapped[r]>>
      BY <1>4, <2>1 DEF SendChunk, TypeOK, Goto, client, upload
    <3> QED
      BY <3>1, OthersKnown
  <2>2. CASE r = q
    BY <1>4, <2>2 DEF SendChunk, Known, Answers, TypeOK, Goto, host, client, upload
  <2> QED
    BY <2>1, <2>2
<1>5. ASSUME NEW q \in Runs, Move(q), NEW r \in Runs PROVE Known(r)'
  <2>1. CASE r # q
    <3>1. UNCHANGED <<host, client>> /\ job'[r] = job[r]
      BY <1>5, <2>1 DEF Move, TypeOK
    <3> QED
      BY <1>5, <2>1, <3>1, PlaceKnown DEF Move
  <2>2. CASE r = q
    <3>1. /\ pc[r] = "upload" /\ UNCHANGED <<pc, mine>>
          /\ agent' = [build |-> mine[r], size |-> Size]
      BY <1>5, <2>2 DEF Move, Place, Known, client
    <3> QED
      BY <3>1 DEF Known
  <2> QED
    BY <2>1, <2>2
<1>6. ASSUME NEW q \in Runs, Uploaded(q), NEW r \in Runs PROVE Known(r)'
  <2>1. CASE r # q
    <3>1. UNCHANGED <<host, agent, pc[r], job[r], mine[r], lost[r], swapped[r]>>
      BY <1>6, <2>1 DEF Uploaded, TypeOK, Goto, client, upload
    <3> QED
      BY <3>1, OthersKnown
  <2>2. CASE r = q
    BY <1>6, <2>2 DEF Uploaded, Known, Answers, TypeOK, Goto, host, client, upload
  <2> QED
    BY <2>1, <2>2
<1>7. ASSUME NEW q \in Runs, Verify(q), NEW r \in Runs PROVE Known(r)'
  <2>1. CASE r # q
    <3>1. UNCHANGED <<host, agent, pc[r], job[r], mine[r], lost[r], swapped[r]>>
      BY <1>7, <2>1 DEF Verify, TypeOK, Goto, client, upload
    <3> QED
      BY <3>1, OthersKnown
  <2>2. CASE r = q
    BY <1>7, <2>2 DEF Verify, Known, Answers, TypeOK, Goto, host, client, upload
  <2> QED
    BY <2>1, <2>2
<1>8. ASSUME NEW q \in Runs, JobFails(q), NEW r \in Runs PROVE Known(r)'
  <2>1. CASE r # q
    <3>1. UNCHANGED <<host, agent, pc[r], job[r], mine[r], lost[r], swapped[r]>>
      BY <1>8, <2>1 DEF JobFails, TypeOK, Goto, client, upload
    <3> QED
      BY <3>1, OthersKnown
  <2>2. CASE r = q
    BY <1>8, <2>2 DEF JobFails, Known, Answers, TypeOK, Goto, host, client, upload
  <2> QED
    BY <2>1, <2>2
<1>9. ASSUME NEW q \in Runs, Start(q), NEW r \in Runs PROVE Known(r)'
  <2>1. CASE r # q
    <3>1. UNCHANGED <<host, agent, pc[r], job[r], mine[r], lost[r], swapped[r]>>
      BY <1>9, <2>1 DEF Start, TypeOK, Goto, client, upload
    <3> QED
      BY <3>1, OthersKnown
  <2>2. CASE r = q
    BY <1>9, <2>2 DEF Start, Greets, Known, Answers, TypeOK, Goto, host, client, upload
  <2> QED
    BY <2>1, <2>2
<1>10. ASSUME NEW q \in Runs, Lose(q), NEW r \in Runs PROVE Known(r)'
  <2>1. CASE r # q
    <3>1. UNCHANGED <<host, agent, pc[r], job[r], mine[r], lost[r], swapped[r]>>
      BY <1>10, <2>1 DEF Lose, TypeOK, Goto, client, upload
    <3> QED
      BY <3>1, OthersKnown
  <2>2. CASE r = q
    BY <1>10, <2>2 DEF Lose, Known, Answers, TypeOK, Goto, host, client, upload
  <2> QED
    BY <2>1, <2>2
<1>11. ASSUME OrphanMove, NEW r \in Runs PROVE Known(r)'
  <2>1. PICK file \in orphans : Place(file, {})
    BY <1>11 DEF OrphanMove
  <2>2. UNCHANGED <<host, client>> /\ job'[r] = job[r]
    BY <1>11 DEF OrphanMove, upload
  <2> QED
    BY <2>1, <2>2, PlaceKnown
<1>12. ASSUME UNCHANGED vars, NEW r \in Runs PROVE Known(r)'
  BY <1>12, OthersKnown DEF vars, client, upload
<1> QED
  BY <1>1, <1>2, <1>3, <1>4, <1>5, <1>6, <1>7, <1>8, <1>9, <1>10, <1>11, <1>12 DEF Next, Bootstrap

\* What a run knows of the agent holds in every reachable state, for any number
\* of clients that install theirs at the same time.
THEOREM BootstrapInvariant == Spec => [](IInv /\ FallsBackForCause)
<1>1. IInv => TypeOK
  BY DEF IInv
<1>2. IInv /\ FallsBackForCause /\ [Next]_vars => (IInv /\ FallsBackForCause)'
  <2> SUFFICES ASSUME IInv, FallsBackForCause, [Next]_vars
               PROVE  (IInv /\ FallsBackForCause)'
    OBVIOUS
  <2>1. TypeOK /\ TypeOK'
    BY <1>1, NextType
  <2>2. \A r \in Runs : Known(r)
    BY <2>1, KnownAll
  <2>3. \A r \in Runs : Known(r)'
    BY <2>1, <2>2, NextKnown
  <2> QED
    BY <2>1, <2>3 DEF Known, IInv, FallsBackForCause, JobsOwned, ReadyIsMine
<1> QED
  BY <1>2, InitIInv, PTL DEF Spec

THEOREM ReadyHolds == Spec => []IInv
  BY BootstrapInvariant, PTL

\* A run does without the agent only for a reason.
THEOREM FallsBackHolds == Spec => []FallsBackForCause
  BY BootstrapInvariant, PTL

\* A run that has its agent starts it, unless another client has replaced it.
THEOREM StartsHolds == Spec => StartsUnlessReplaced
<1> DEFINE Fails(r) == pc[r] \in {"ready", "serving"} /\ pc'[r] = "failed"
<1>1. IInv /\ [Next]_vars => [\A r \in Runs : Fails(r) => lost'[r] \/ swapped[r]]_vars
  <2> SUFFICES ASSUME IInv, Next, NEW r \in Runs, Fails(r)
               PROVE  lost'[r] \/ swapped[r]
    OBVIOUS
  <2>1. TypeOK
    BY DEF IInv
  <2>2. Start(r) \/ Lose(r)
    <3>1. pc' # pc
      OBVIOUS
    <3>2. ASSUME NEW q \in Runs, NEW b \in Builds, Begin(q, b) PROVE FALSE
      BY <2>1, <3>2 DEF Begin, Goto, TypeOK
    <3>3. ASSUME NEW q \in Runs, Uname(q) \/ Check(q) \/ Verify(q) PROVE FALSE
      BY <2>1, <3>3 DEF Uname, Check, Verify, Goto, TypeOK
    <3>4. ASSUME NEW q \in Runs, Uploaded(q) PROVE FALSE
      BY <2>1, <3>4 DEF Uploaded, Goto, TypeOK
    <3>5. ASSUME NEW q \in Runs, SendChunk(q) \/ Move(q) \/ JobFails(q) PROVE FALSE
      BY <3>1, <3>5 DEF SendChunk, Move, JobFails, client
    <3>6. ASSUME OrphanMove PROVE FALSE
      BY <3>1, <3>6 DEF OrphanMove, client
    <3>7. ASSUME NEW q \in Runs, Start(q) \/ Lose(q) PROVE q = r
      BY <2>1, <3>7 DEF Start, Lose, Goto, TypeOK
    <3> QED
      BY <3>2, <3>3, <3>4, <3>5, <3>6, <3>7 DEF Next, Bootstrap
  <2>3. CASE Start(r)
    <3>1. ~ Greets(r)
      BY <2>1, <2>3 DEF Start, Goto, TypeOK
    <3>2. ~ Answers(mine[r])
      BY <3>1 DEF Greets, Answers
    <3> QED
      BY <3>2 DEF IInv, ReadyIsMine
  <2>4. CASE Lose(r)
    BY <2>1, <2>4 DEF Lose, TypeOK
  <2> QED
    BY <2>2, <2>3, <2>4
<1> QED
  BY <1>1, ReadyHolds, PTL DEF Spec, StartsUnlessReplaced

=============================================================================
