---------------------------- MODULE TarPipeline ----------------------------
(***************************************************************************)
(* A tar transfer (tar_sync and run_tar_pipeline in src/transfer.rs, and   *)
(* exec_send in src/ssh.rs):                                               *)
(*                                                                         *)
(*   tar -pipe-> [compressor -pipe->] producer thread -queue-> exec_send   *)
(*       -ssh window-> remote tar                                          *)
(*                                                                         *)
(* Every stage is a process, a thread or a task of its own.  The archive   *)
(* is a number of chunks, and so is what each buffer holds: no stage can   *)
(* reorder them.  tar_sync waits for exec_send, then joins the producer.   *)
(***************************************************************************)
EXTENDS Naturals

CONSTANTS
  Sizes,       \* how many chunks an archive can have
  PipeSize,    \* what a pipe holds
  QueueSize,   \* what the channel between the thread and the task holds
  Window       \* what ssh takes before the remote has read any of it

ASSUME BufferAssumption ==
  /\ Sizes \subseteq Nat \ {0}
  /\ PipeSize \in Nat \ {0} /\ QueueSize \in Nat \ {0} /\ Window \in Nat \ {0}

VARIABLES
  size,        \* the chunks of the archive
  tar,         \* "run", "ok" or "failed"
  made,        \* the chunks tar has written
  gz,          \* the compressor: "none", "run", "ok" or "failed"
  gzPipe,      \* the chunks between tar and the compressor
  pipe,        \* the chunks in front of the producer
  producer,    \* where run_tar_pipeline is, "ok" or "err" when it has returned
  queue,       \* the chunks in the channel
  txOpen,      \* the producer still has its end of the channel
  sender,      \* exec_send: "loop", "push", "returned" or "err"
  eof,         \* exec_send has closed the remote stdin
  wire,        \* the chunks the remote has still to read
  remote,      \* "run", "ok" or "failed"
  got,         \* the chunks the remote tar has read
  main         \* tar_sync: "send", "join", "ok" or "failed"

locals == <<size, tar, made, gz, gzPipe>>
thread == <<producer, txOpen>>
task == <<sender, eof>>
far == <<remote, got>>
vars == <<locals, pipe, thread, queue, task, wire, far, main>>

TypeOK ==
  /\ size \in Sizes /\ made \in 0..size /\ got \in 0..made
  /\ tar \in {"run", "ok", "failed"}
  /\ gz \in {"none", "run", "ok", "failed"}
  /\ gzPipe \in 0..PipeSize /\ pipe \in 0..PipeSize
  /\ producer \in {"spawn", "read", "send", "drop", "waitTar", "waitGz", "ok", "err"}
  /\ queue \in 0..QueueSize /\ wire \in 0..Window
  /\ txOpen \in BOOLEAN /\ eof \in BOOLEAN
  /\ sender \in {"loop", "push", "returned", "err"}
  /\ remote \in {"run", "ok", "failed"}
  /\ main \in {"send", "join", "ok", "failed"}

Init ==
  /\ size \in Sizes
  /\ tar = "run" /\ made = 0
  /\ gz \in {"none", "run"} /\ gzPipe = 0
  /\ pipe = 0
  /\ producer = "spawn" /\ queue = 0 /\ txOpen = TRUE
  /\ sender = "loop" /\ eof = FALSE /\ wire = 0
  /\ remote = "run" /\ got = 0
  /\ main = "send"

-----------------------------------------------------------------------------
(***************************************************************************)
(* The local processes.  They run from when the producer has spawned them. *)
(***************************************************************************)

\* run_tar_pipeline has returned, and its reader is closed.
Returned == producer \in {"ok", "err"}

\* Nobody can read what tar writes.
TarUnread == IF gz = "none" THEN Returned ELSE gz # "run"

TarWrite ==
  /\ tar = "run" /\ producer # "spawn"
  /\ made < size /\ ~ TarUnread
  /\ IF gz = "none"
     THEN pipe < PipeSize /\ pipe' = pipe + 1 /\ UNCHANGED gzPipe
     ELSE gzPipe < PipeSize /\ gzPipe' = gzPipe + 1 /\ UNCHANGED pipe
  /\ made' = made + 1
  /\ UNCHANGED <<size, tar, gz, thread, queue, task, wire, far, main>>

\* tar ends: by itself, because of SIGPIPE, or because something is wrong.
TarEnd(status) ==
  /\ tar = "run" /\ producer # "spawn"
  /\ tar' = status
  /\ UNCHANGED <<size, made, gz, gzPipe, pipe, thread, queue, task, wire, far, main>>

TarExit == made = size /\ TarEnd("ok")
TarSigpipe == made < size /\ TarUnread /\ TarEnd("failed")
TarFails == TarEnd("failed")

GzCopy ==
  /\ gz = "run" /\ ~ Returned
  /\ gzPipe > 0 /\ pipe < PipeSize
  /\ gzPipe' = gzPipe - 1 /\ pipe' = pipe + 1
  /\ UNCHANGED <<size, tar, made, gz, thread, queue, task, wire, far, main>>

GzEnd(status) ==
  /\ gz = "run" /\ producer # "spawn"
  /\ gz' = status /\ gzPipe' = 0
  /\ UNCHANGED <<size, tar, made, pipe, thread, queue, task, wire, far, main>>

GzExit == gzPipe = 0 /\ tar # "run" /\ GzEnd("ok")
GzSigpipe == gzPipe > 0 /\ Returned /\ GzEnd("failed")
GzFails == GzEnd("failed")

-----------------------------------------------------------------------------
(***************************************************************************)
(* The producer thread, run_tar_pipeline.                                  *)
(***************************************************************************)

ProducerStep == UNCHANGED <<locals, task, wire, far, main>>

\* tar is spawned, then the compressor.  On an error the thread returns, and
\* what it has is dropped: the end of the channel, and the pipes.
Spawn ==
  /\ producer = "spawn"
  /\ \/ producer' = "read" /\ UNCHANGED txOpen
     \/ producer' = "err" /\ txOpen' = FALSE
  /\ UNCHANGED <<pipe, queue>> /\ ProducerStep

\* Nothing more will come: the last process in front of the reader is gone.
AtEnd == pipe = 0 /\ (IF gz = "none" THEN tar ELSE gz) # "run"

Read ==
  /\ producer = "read"
  /\ \/ pipe > 0 /\ pipe' = pipe - 1 /\ producer' = "send"
     \/ AtEnd /\ producer' = "drop" /\ UNCHANGED pipe
  /\ UNCHANGED <<txOpen, queue>> /\ ProducerStep

\* The receiving end lives as long as exec_send.
RxOpen == sender \notin {"returned", "err"}

\* Mutant of SendChunk: a full queue does not block, the chunk is dropped.
SendChunkOrDrop ==
  /\ producer = "send"
  /\ \/ RxOpen /\ queue < QueueSize /\ queue' = queue + 1 /\ producer' = "read"
     \/ RxOpen /\ queue = QueueSize /\ producer' = "read" /\ UNCHANGED queue
     \/ ~ RxOpen /\ producer' = "drop" /\ UNCHANGED queue
  /\ UNCHANGED <<txOpen, pipe>> /\ ProducerStep

\* blocking_send: an error, when the receiver is gone, ends the loop.
SendChunk ==
  /\ producer = "send"
  /\ \/ RxOpen /\ queue < QueueSize /\ queue' = queue + 1 /\ producer' = "read"
     \/ ~ RxOpen /\ producer' = "drop" /\ UNCHANGED queue
  /\ UNCHANGED <<txOpen, pipe>> /\ ProducerStep

DropTx ==
  /\ producer = "drop"
  /\ txOpen' = FALSE
  /\ producer' = "waitTar"
  /\ UNCHANGED <<pipe, queue>> /\ ProducerStep

\* Mutant of WaitTar: a tar that failed is waited for and forgotten.
WaitTarOnly ==
  /\ producer = "waitTar" /\ tar # "run"
  /\ producer' = IF gz = "none" THEN "ok" ELSE "waitGz"
  /\ UNCHANGED <<txOpen, pipe, queue>> /\ ProducerStep

\* tar.wait(), with the reader still open.
WaitTar ==
  /\ producer = "waitTar" /\ tar # "run"
  /\ producer' = IF gz = "none" THEN (IF tar = "ok" THEN "ok" ELSE "err") ELSE "waitGz"
  /\ UNCHANGED <<txOpen, pipe, queue>> /\ ProducerStep

\* c.wait(); both must have succeeded.
WaitGz ==
  /\ producer = "waitGz" /\ gz # "run"
  /\ producer' = IF gz = "ok" /\ tar = "ok" THEN "ok" ELSE "err"
  /\ UNCHANGED <<txOpen, pipe, queue>> /\ ProducerStep

-----------------------------------------------------------------------------
(***************************************************************************)
(* The task, exec_send.  Its two select arms are Receive or SendEof, and   *)
(* Close.  While it pushes a chunk it looks at neither.                    *)
(***************************************************************************)

SenderStep == UNCHANGED <<locals, pipe, thread, far, main>>

\* Mutant of Receive: the producer is joined before exec_send is awaited.
ReceiveAfterJoin ==
  /\ sender = "loop" /\ ~ eof /\ queue > 0 /\ Returned
  /\ queue' = queue - 1
  /\ sender' = "push"
  /\ UNCHANGED <<eof, wire>> /\ SenderStep

Receive ==
  /\ sender = "loop" /\ ~ eof /\ queue > 0
  /\ queue' = queue - 1
  /\ sender' = "push"
  /\ UNCHANGED <<eof, wire>> /\ SenderStep

\* data_bytes waits for room in the window.  On a closed channel it is taken
\* to return, with an error or not.
Push ==
  /\ sender = "push"
  /\ \/ remote = "run" /\ wire < Window /\ wire' = wire + 1 /\ sender' = "loop"
     \/ remote # "run" /\ sender' \in {"loop", "err"} /\ UNCHANGED wire
  /\ UNCHANGED <<eof, queue>> /\ SenderStep

\* Mutant of SendEof: the queue may still hold something.
SendEofEarly ==
  /\ sender = "loop" /\ ~ eof /\ ~ txOpen
  /\ eof' = TRUE
  /\ UNCHANGED <<sender, queue, wire>> /\ SenderStep

\* recv() gives None: the queue is empty and its sending end is gone.
SendEof ==
  /\ sender = "loop" /\ ~ eof
  /\ queue = 0 /\ ~ txOpen
  /\ eof' = TRUE
  /\ UNCHANGED <<sender, queue, wire>> /\ SenderStep

\* Close, or the end of the connection: the exit status is the result, 255
\* when there is none.
Close ==
  /\ sender = "loop" /\ remote # "run"
  /\ sender' = "returned"
  /\ UNCHANGED <<eof, queue, wire>> /\ SenderStep

-----------------------------------------------------------------------------
(***************************************************************************)
(* The remote command, mkdir -p D && [decompress |] tar -x.                *)
(***************************************************************************)

RemoteRead ==
  /\ remote = "run" /\ wire > 0
  /\ wire' = wire - 1 /\ got' = got + 1
  /\ UNCHANGED <<locals, pipe, thread, queue, task, remote, main>>

\* tar -x succeeds when it has seen the end of the archive, and fails when its
\* input ends before that.
RemoteExit ==
  /\ remote = "run"
  /\ got = size \/ (eof /\ wire = 0)
  /\ remote' = IF got = size THEN "ok" ELSE "failed"
  /\ UNCHANGED <<locals, pipe, thread, queue, task, wire, got, main>>

\* The disk is full, there is no tar, the connection is lost.
RemoteFails ==
  /\ remote = "run"
  /\ remote' = "failed"
  /\ UNCHANGED <<locals, pipe, thread, queue, task, wire, got, main>>

-----------------------------------------------------------------------------
(***************************************************************************)
(* tar_sync.                                                               *)
(***************************************************************************)

\* An error of exec_send is returned at once; its result is looked at later.
Sent ==
  /\ main = "send" /\ ~ RxOpen
  /\ main' = IF sender = "err" THEN "failed" ELSE "join"
  /\ UNCHANGED <<locals, pipe, thread, queue, task, wire, far>>

\* Mutant of Join: the exit code is not looked at.
JoinOnly ==
  /\ main = "join" /\ Returned
  /\ main' = IF producer = "ok" THEN "ok" ELSE "failed"
  /\ UNCHANGED <<locals, pipe, thread, queue, task, wire, far>>

\* producer.join(), then the exit code.
Join ==
  /\ main = "join" /\ Returned
  /\ main' = IF producer = "ok" /\ remote = "ok" THEN "ok" ELSE "failed"
  /\ UNCHANGED <<locals, pipe, thread, queue, task, wire, far>>

-----------------------------------------------------------------------------

Tar == TarWrite \/ TarExit \/ TarSigpipe
Gz == GzCopy \/ GzExit \/ GzSigpipe
Producer == Spawn \/ Read \/ SendChunk \/ DropTx \/ WaitTar \/ WaitGz
Sender == Receive \/ Push \/ SendEof \/ Close
Remote == RemoteRead \/ RemoteExit
Main == Sent \/ Join
Fault == TarFails \/ GzFails \/ RemoteFails

Next == Tar \/ Gz \/ Producer \/ Sender \/ Remote \/ Main \/ Fault

\* Processes, threads and tasks run whenever they can.  Nothing has to fail.
Fairness ==
  /\ WF_vars(Tar) /\ WF_vars(Gz) /\ WF_vars(Producer)
  /\ WF_vars(Sender) /\ WF_vars(Remote) /\ WF_vars(Main)

Spec == Init /\ [][Next]_vars /\ Fairness

-----------------------------------------------------------------------------

Ended == main \in {"ok", "failed"}

\* A transfer that is reported as a success has carried the whole archive, and
\* tar had nothing to complain about, whichever stage ended first.
SuccessIsComplete == main = "ok" => got = size /\ tar = "ok" /\ gz \in {"none", "ok"}

\* A chunk is dropped only when the remote is gone or the compressor failed:
\* until then all that tar made is in exactly one of the buffers.
InHand == (IF producer = "send" THEN 1 ELSE 0) + (IF sender = "push" THEN 1 ELSE 0)
Buffered == gzPipe + pipe + InHand + queue + wire
NothingLost == remote = "run" /\ gz # "failed" => made = got + Buffered

\* The remote stdin is closed only behind the last chunk.
EofIsLast ==
  eof /\ remote = "run" => pipe + gzPipe + queue + InHand = 0 \/ producer = "err"

\* What is left of a transfer whose remote failed while there was much to
\* write: the producer waits for a process that waits for the producer to read.
Stuck ==
  /\ remote # "run" /\ pipe = PipeSize
  /\ \/ /\ producer = "waitTar" /\ tar = "run" /\ made < size
        /\ gz = "none" \/ (gz = "run" /\ gzPipe = PipeSize)
     \/ producer = "waitGz" /\ gz = "run" /\ gzPipe > 0

\* Every transfer ends, unless the remote failed and it is Stuck.
EndsUnlessStuck == <>(Ended \/ Stuck)

\* Every transfer ends, with an error when the remote has failed.  The code
\* does not keep this promise.
TransferEnds == <>Ended

-----------------------------------------------------------------------------
(***************************************************************************)
(* The inductive invariant behind the safety properties.                   *)
(***************************************************************************)

\* Nothing appears from nowhere, whatever failed.
NothingInvented ==
  /\ got <= made
  /\ remote = "run" => got + Buffered <= made

\* exec_send returns only when the remote has ended.
SenderWaits == ~ RxOpen => remote # "run"

\* Who still has what open.
Ends ==
  /\ txOpen <=> producer \in {"spawn", "read", "send", "drop"}
  /\ gz # "run" => gzPipe = 0
  /\ eof => queue = 0 /\ ~ txOpen /\ sender # "push"

\* The producer leaves its loop at the end, or because the remote is gone.
LoopLeft ==
  producer \in {"drop", "waitTar", "waitGz", "ok"} /\ RxOpen => AtEnd

\* What each result rests on.
Results ==
  /\ producer = "ok" => tar = "ok" /\ gz \in {"none", "ok"}
  /\ remote = "ok" => got = size
  /\ main = "ok" => producer = "ok" /\ remote = "ok"

IInv ==
  /\ TypeOK
  /\ NothingInvented
  /\ NothingLost
  /\ SenderWaits
  /\ Ends
  /\ LoopLeft
  /\ Results

=============================================================================
