-------------------------- MODULE TarPipelineProofs --------------------------
(***************************************************************************)
(* Proofs about TarPipeline, for archives and buffers of every size.       *)
(***************************************************************************)
EXTENDS TarPipeline, TLAPS

LEMMA InitIInv == Init => IInv
<1> SUFFICES ASSUME Init PROVE IInv
  OBVIOUS
<1> USE BufferAssumption DEF Init
<1>1. TypeOK
  <2>1. made \in 0..size /\ got \in 0..made /\ gzPipe \in 0..PipeSize
        /\ pipe \in 0..PipeSize /\ queue \in 0..QueueSize /\ wire \in 0..Window
    OBVIOUS
  <2> QED
    BY <2>1, Zenon DEF TypeOK
<1>2. NothingInvented /\ NothingLost
  BY DEF NothingInvented, NothingLost, Buffered, InHand
<1>3. SenderWaits /\ Ends /\ LoopLeft /\ Results
  BY DEF SenderWaits, Ends, LoopLeft, Results, RxOpen
<1> QED
  BY <1>1, <1>2, <1>3 DEF IInv

\* The local processes only move chunks on, or lose what they hold.
LEMMA LocalIInv == IInv /\ (Tar \/ Gz \/ TarFails \/ GzFails) => IInv'
<1> SUFFICES ASSUME IInv, Tar \/ Gz \/ TarFails \/ GzFails PROVE IInv'
  OBVIOUS
<1> USE BufferAssumption
    DEF IInv, TypeOK, NothingInvented, NothingLost, SenderWaits, Ends, LoopLeft, Results,
        Buffered, InHand, RxOpen, AtEnd, locals, thread, task, far
<1>1. CASE TarWrite
  BY <1>1 DEF TarWrite, TarUnread, Returned
<1>2. CASE TarExit \/ TarSigpipe \/ TarFails
  BY <1>2 DEF TarExit, TarSigpipe, TarFails, TarEnd
<1>3. CASE GzCopy
  BY <1>3 DEF GzCopy
<1>4. CASE GzExit \/ GzSigpipe \/ GzFails
  BY <1>4 DEF GzExit, GzSigpipe, GzFails, GzEnd
<1> QED
  BY <1>1, <1>2, <1>3, <1>4 DEF Tar, Gz

\* The producer leaves its loop only when there is no more to come.
LEMMA ProducerIInv == IInv /\ Producer => IInv'
<1> SUFFICES ASSUME IInv, Producer PROVE IInv'
  OBVIOUS
<1> USE BufferAssumption
    DEF IInv, TypeOK, NothingInvented, NothingLost, SenderWaits, Ends, LoopLeft, Results,
        Buffered, InHand, RxOpen, AtEnd, locals, task, far, ProducerStep
<1>1. CASE Spawn
  <2>1. /\ producer = "spawn" /\ txOpen
        /\ producer' \in {"read", "err"} /\ txOpen' \in BOOLEAN
        /\ txOpen' <=> producer' = "read"
        /\ UNCHANGED <<locals, pipe, queue, task, wire, far, main>>
    BY <1>1, Zenon DEF Spawn
  <2> QED
    BY <2>1
<1>2. CASE Read
  BY <1>2 DEF Read
<1>3. CASE SendChunk
  BY <1>3 DEF SendChunk
<1>4. CASE DropTx
  BY <1>4 DEF DropTx
<1>5. CASE WaitTar
  BY <1>5 DEF WaitTar
<1>6. CASE WaitGz
  BY <1>6 DEF WaitGz
<1> QED
  BY <1>1, <1>2, <1>3, <1>4, <1>5, <1>6 DEF Producer

\* exec_send returns behind the remote, and closes its input behind the queue.
LEMMA SenderIInv == IInv /\ Sender => IInv'
<1> SUFFICES ASSUME IInv, Sender PROVE IInv'
  OBVIOUS
<1> USE BufferAssumption
    DEF IInv, TypeOK, NothingInvented, NothingLost, SenderWaits, Ends, LoopLeft, Results,
        Buffered, InHand, RxOpen, AtEnd, locals, thread, far, SenderStep
<1>1. CASE Receive
  BY <1>1 DEF Receive
<1>2. CASE Push
  BY <1>2 DEF Push
<1>3. CASE SendEof
  BY <1>3 DEF SendEof
<1>4. CASE Close
  BY <1>4 DEF Close
<1> QED
  BY <1>1, <1>2, <1>3, <1>4 DEF Sender

\* The remote succeeds only with the whole archive, tar_sync only with both.
LEMMA RemoteIInv == IInv /\ (Remote \/ RemoteFails \/ Main) => IInv'
<1> SUFFICES ASSUME IInv, Remote \/ RemoteFails \/ Main PROVE IInv'
  OBVIOUS
<1> USE BufferAssumption
    DEF IInv, TypeOK, NothingInvented, NothingLost, SenderWaits, Ends, LoopLeft, Results,
        Buffered, InHand, RxOpen, AtEnd, locals, thread, task, far
<1>1. CASE RemoteRead
  BY <1>1 DEF RemoteRead
<1>2. CASE RemoteExit \/ RemoteFails
  BY <1>2 DEF RemoteExit, RemoteFails
<1>3. CASE Sent \/ Join
  BY <1>3 DEF Sent, Join, Returned
<1> QED
  BY <1>1, <1>2, <1>3 DEF Remote, Main

LEMMA NextIInv == IInv /\ [Next]_vars => IInv'
<1> SUFFICES ASSUME IInv, [Next]_vars PROVE IInv'
  OBVIOUS
<1>1. CASE Next
  BY <1>1, LocalIInv, ProducerIInv, SenderIInv, RemoteIInv DEF Next, Fault
<1>2. CASE UNCHANGED vars
  BY <1>2
  DEF vars, locals, thread, task, far, IInv, TypeOK, NothingInvented, NothingLost,
      SenderWaits, Ends, LoopLeft, Results, Buffered, InHand, RxOpen, AtEnd
<1> QED
  BY <1>1, <1>2

\* The inductive invariant holds in every reachable state of tar_sync and of
\* the stages it runs.
THEOREM PipelineInvariant == Spec => []IInv
  BY InitIInv, NextIInv, PTL DEF Spec

\* tar_sync reports success only for an archive that arrived whole from a tar
\* and a compressor that succeeded.
THEOREM SuccessIsCompleteHolds == Spec => []SuccessIsComplete
<1>1. IInv => SuccessIsComplete
  BY DEF IInv, Results, SuccessIsComplete
<1> QED
  BY <1>1, PipelineInvariant, PTL

\* run_tar_pipeline and exec_send lose no chunk while the remote runs.
THEOREM NothingLostHolds == Spec => []NothingLost
<1>1. IInv => NothingLost
  BY DEF IInv
<1> QED
  BY <1>1, PipelineInvariant, PTL

\* exec_send closes the remote stdin only behind the last chunk.
THEOREM EofIsLastHolds == Spec => []EofIsLast
<1>1. IInv => EofIsLast
  BY DEF IInv, TypeOK, Ends, LoopLeft, SenderWaits, RxOpen, AtEnd, EofIsLast, InHand
<1> QED
  BY <1>1, PipelineInvariant, PTL

=============================================================================
