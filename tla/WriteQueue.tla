----------------------------- MODULE WriteQueue -----------------------------
(***************************************************************************)
(* The input path of a session: ptyx_write and ptyx_write_owned put chunks *)
(* in a bounded queue, the thread "ptyx-writer" writes them to the PTY     *)
(* (native/src/writer.rs, fd.rs), and ptyx_close ends it                   *)
(* (runtime.rs close_runtime).                                             *)
(*                                                                         *)
(* The runtime lock is held for the whole of a write and of a close, so    *)
(* the calls come one after the other, and cpc is where the one in         *)
(* progress is; the writer thread, the reader thread, the kernel and the   *)
(* child interleave with it.  Bytes are numbered in the order in which     *)
(* they are accepted.  Between two steps of a thread the queue's mutex is  *)
(* free: each step is what the code does under one hold of it.             *)
(***************************************************************************)
EXTENDS Integers, Sequences, SequencesExt

CONSTANTS
  MaxBytes,   \* write_queue_max_bytes
  Lengths,    \* lengths of the chunks that callers write
  PtyRoom,    \* bytes of input the terminal holds for a child that lags
  SlaveKept,  \* TRUE: a process the child left behind may keep the slave open
  MaxAccepted \* bound of the model: bytes ever accepted

ASSUME SizeAssumption ==
  /\ MaxBytes \in Nat /\ PtyRoom \in Nat \ {0} /\ MaxAccepted \in Nat
  /\ Lengths \subseteq Nat /\ SlaveKept \in BOOLEAN

VARIABLES
  cpc, call,                        \* the call in progress: its step, its chunk's length
  buffer, freed,                    \* who owns the buffer of an owned write; times it was freed
  queue, queuedBytes, closed, failure, \* WriteQueueState
  wpc, chunk,                       \* the writer thread and what is left of its chunk
  innerClosed, stop,                \* SessionInner.closed, SessionRuntime.stop
  rpc, nonblocking,                 \* the reader thread; O_NONBLOCK of the PTY's master
  unread, slaveOpen,                \* the terminal: input not read yet, whether a slave is open
  accepted, written,                \* history: bytes accepted, bytes written
  errors                            \* history: write errors posted

queueVars  == <<queue, queuedBytes, closed, failure>>
writerVars == <<wpc, chunk, errors>>
bufferVars == <<buffer, freed>>
callVars   == <<cpc, call, bufferVars, innerClosed, stop, accepted>>
fdVars     == <<rpc, nonblocking>>
ttyVars    == <<unread, slaveOpen, written>>
vars == <<queueVars, writerVars, callVars, fdVars, ttyVars>>

Init ==
  /\ cpc = "idle" /\ call = 0 /\ buffer = "none" /\ freed = 0
  /\ queue = <<>> /\ queuedBytes = 0 /\ closed = FALSE /\ failure = FALSE
  /\ wpc = "none" /\ chunk = <<>> /\ errors = 0
  /\ innerClosed = FALSE /\ stop = FALSE
  /\ rpc = "starting" /\ nonblocking = FALSE
  /\ unread = 0 /\ slaveOpen = TRUE
  /\ accepted = 0 /\ written = <<>>

(* Mutant of Bytes: the numbers begin with the last byte accepted.         *)
BytesFromLast(n) == [i \in 1..n |-> accepted + i - 1]

(* The bytes of a chunk of length n, when it is accepted.                  *)
Bytes(n) == [i \in 1..n |-> accepted + i]

(***************************************************************************)
(* ptyx_write, which copies, and ptyx_write_owned, which takes over a      *)
(* buffer of ptyx_buffer_alloc that its caller has filled.                 *)
(***************************************************************************)

(* ensure_started: the thread may fail to be created.                      *)
WriterStarts == wpc' = IF wpc = "none" THEN "dequeue" ELSE wpc
WriterFails  == wpc = "none" /\ UNCHANGED wpc

(* An empty ptyx_write returns before the writer is started, one that is   *)
(* larger than the queue after it.                                         *)
WriteStarts ==
  /\ cpc = "idle"
  /\ \E len \in Lengths \ {0} :
       /\ accepted + len <= MaxAccepted
       /\ call' = len
       /\ \/ WriterStarts /\ cpc' = IF len > MaxBytes THEN "idle" ELSE "check"
          \/ WriterFails /\ cpc' = "idle"
  /\ UNCHANGED <<queueVars, chunk, errors, bufferVars, innerClosed, stop, accepted, fdVars, ttyVars>>

(* validate_enqueue                                                        *)
Allowed(len) == ~failure /\ ~closed /\ queuedBytes + len <= MaxBytes

(* check_enqueue_allowed, then the copy, whose allocation may fail.        *)
WriteChecked ==
  /\ cpc = "check"
  /\ \/ Allowed(call) /\ cpc' = "enqueue"
     \/ cpc' = "idle"
  /\ UNCHANGED <<queueVars, writerVars, call, bufferVars, innerClosed, stop, accepted, fdVars, ttyVars>>

(* _sessionWriteOwned: ptyx_buffer_alloc, and the caller's bytes.          *)
AllocBuffer ==
  /\ cpc = "idle"
  /\ \E len \in Lengths : accepted + len <= MaxAccepted /\ call' = len
  /\ buffer' = "caller" /\ freed' = 0
  /\ cpc' = "take"
  /\ UNCHANGED <<queueVars, writerVars, innerClosed, stop, accepted, fdVars, ttyVars>>

(* ptyx_write_owned takes the box and its bytes, and starts the writer.    *)
TakeBuffer ==
  /\ cpc = "take"
  /\ buffer' = "library"
  /\ \/ WriterStarts /\ cpc' = "enqueue"
     \/ WriterFails /\ cpc' = "giveBack"
  /\ UNCHANGED <<queueVars, chunk, errors, call, freed, innerClosed, stop, accepted, fdVars, ttyVars>>

(* The bytes are moved: the queue, or an empty write, has consumed them.   *)
BufferConsumed == buffer' = IF buffer = "library" THEN "queue" ELSE buffer

(* Mutant of Enqueue: the queue is not validated again.                    *)
EnqueueUnchecked ==
  /\ cpc = "enqueue"
  /\ queue' = Append(queue, Bytes(call))
  /\ queuedBytes' = queuedBytes + call
  /\ accepted' = accepted + call
  /\ BufferConsumed
  /\ cpc' = "notify"
  /\ UNCHANGED <<closed, failure, writerVars, call, freed, innerClosed, stop, fdVars, ttyVars>>

(* enqueue_owned                                                           *)
Enqueue ==
  /\ cpc = "enqueue"
  /\ \/ /\ call # 0 /\ Allowed(call)
        /\ queue' = Append(queue, Bytes(call))
        /\ queuedBytes' = queuedBytes + call
        /\ accepted' = accepted + call
        /\ BufferConsumed
        /\ cpc' = "notify"
     \/ /\ call = 0
        /\ BufferConsumed
        /\ cpc' = "idle"
        /\ UNCHANGED <<queue, queuedBytes, accepted>>
     \/ /\ call # 0 /\ ~Allowed(call)
        /\ cpc' = IF buffer = "library" THEN "giveBack" ELSE "idle"
        /\ UNCHANGED <<queue, queuedBytes, accepted, buffer>>
  /\ UNCHANGED <<closed, failure, writerVars, call, freed, innerClosed, stop, fdVars, ttyVars>>

(* Mutant of GiveBack: the box is dropped when ptyx_write_owned returns.   *)
GiveBackDropped ==
  /\ cpc = "giveBack"
  /\ buffer' = "caller" /\ freed' = freed + 1
  /\ cpc' = "release"
  /\ UNCHANGED <<queueVars, writerVars, call, innerClosed, stop, accepted, fdVars, ttyVars>>

(* return_owned_buffer                                                     *)
GiveBack ==
  /\ cpc = "giveBack"
  /\ buffer' = "caller"
  /\ cpc' = "release"
  /\ UNCHANGED <<queueVars, writerVars, call, freed, innerClosed, stop, accepted, fdVars, ttyVars>>

(* The status is an error: the caller frees the buffer, and throws.        *)
FreeBuffer ==
  /\ cpc = "release"
  /\ buffer' = "none" /\ freed' = freed + 1
  /\ cpc' = "idle"
  /\ UNCHANGED <<queueVars, writerVars, call, innerClosed, stop, accepted, fdVars, ttyVars>>

Woken == IF wpc = "waiting" THEN "dequeue" ELSE wpc

(* Mutant of Notify: the writer is not notified.                           *)
NotifyNobody ==
  /\ cpc = "notify"
  /\ cpc' = "idle"
  /\ UNCHANGED <<queueVars, writerVars, call, bufferVars, innerClosed, stop, accepted, fdVars, ttyVars>>

Notify ==
  /\ cpc = "notify"
  /\ wpc' = Woken /\ cpc' = "idle"
  /\ UNCHANGED <<queueVars, chunk, errors, call, bufferVars, innerClosed, stop, accepted, fdVars, ttyVars>>

(***************************************************************************)
(* ptyx_close: session::close and close_runtime.                           *)
(***************************************************************************)
CloseStarts ==
  /\ cpc = "idle"
  /\ innerClosed' = TRUE /\ cpc' = "stop"
  /\ UNCHANGED <<queueVars, writerVars, call, bufferVars, stop, accepted, fdVars, ttyVars>>

CloseStops ==
  /\ cpc = "stop"
  /\ stop' = TRUE /\ cpc' = "closeQueue"
  /\ UNCHANGED <<queueVars, writerVars, call, bufferVars, innerClosed, accepted, fdVars, ttyVars>>

CloseQueue ==
  /\ cpc = "closeQueue"
  /\ closed' = TRUE /\ queue' = <<>> /\ queuedBytes' = 0
  /\ cpc' = "notifyAll"
  /\ UNCHANGED <<failure, writerVars, call, bufferVars, innerClosed, stop, accepted, fdVars, ttyVars>>

(* Mutant of NotifyAll: a writer that waits for a chunk is not woken.      *)
NotifyAllNobody ==
  /\ cpc = "notifyAll"
  /\ cpc' = "joinReader"
  /\ UNCHANGED <<queueVars, writerVars, call, bufferVars, innerClosed, stop, accepted, fdVars, ttyVars>>

NotifyAll ==
  /\ cpc = "notifyAll"
  /\ wpc' = Woken /\ cpc' = "joinReader"
  /\ UNCHANGED <<queueVars, chunk, errors, call, bufferVars, innerClosed, stop, accepted, fdVars, ttyVars>>

JoinReader ==
  /\ cpc = "joinReader" /\ rpc = "done"
  /\ cpc' = "joinWriter"
  /\ UNCHANGED <<queueVars, writerVars, call, bufferVars, innerClosed, stop, accepted, fdVars, ttyVars>>

JoinWriter ==
  /\ cpc = "joinWriter" /\ wpc \in {"none", "done"}
  /\ cpc' = "closed"
  /\ UNCHANGED <<queueVars, writerVars, call, bufferVars, innerClosed, stop, accepted, fdVars, ttyVars>>

(***************************************************************************)
(* writer_loop.  Only the writer records a failure, and ends when it has:  *)
(* dequeue never finds one.                                                *)
(***************************************************************************)

SaturatingSub(a, b) == IF a > b THEN a - b ELSE 0

(* Mutant of Dequeue: the bytes of the chunk stay counted.                 *)
DequeueUncounted ==
  /\ wpc = "dequeue"
  /\ \/ /\ queue # <<>>
        /\ chunk' = Head(queue) /\ queue' = Tail(queue)
        /\ wpc' = "guard"
        /\ UNCHANGED queuedBytes
     \/ /\ queue = <<>>
        /\ wpc' = IF closed THEN "done" ELSE "waiting"
        /\ UNCHANGED <<queue, queuedBytes, chunk>>
  /\ UNCHANGED <<closed, failure, errors, callVars, fdVars, ttyVars>>

Dequeue ==
  /\ wpc = "dequeue"
  /\ \/ /\ queue # <<>>
        /\ chunk' = Head(queue) /\ queue' = Tail(queue)
        /\ queuedBytes' = SaturatingSub(queuedBytes, Len(chunk'))
        /\ wpc' = "guard"
     \/ /\ queue = <<>>
        /\ wpc' = IF closed THEN "done" ELSE "waiting"
        /\ UNCHANGED <<queue, queuedBytes, chunk>>
  /\ UNCHANGED <<closed, failure, errors, callVars, fdVars, ttyVars>>

WriterGuard ==
  /\ wpc = "guard"
  /\ wpc' = IF innerClosed THEN "fail" ELSE "test"
  /\ UNCHANGED <<queueVars, chunk, errors, callVars, fdVars, ttyVars>>

(* The head of the loop of write_direct_chunk: is_closed.                  *)
WriterTests ==
  /\ wpc = "test"
  /\ wpc' = IF closed THEN "done" ELSE "write"
  /\ chunk' = IF closed THEN <<>> ELSE chunk
  /\ UNCHANGED <<queueVars, errors, callVars, fdVars, ttyVars>>

Min2(a, b) == IF a < b THEN a ELSE b

(* Mutant of WriteSome: the bytes that were written are written again.     *)
WriteSomeAgain ==
  /\ wpc = "write" /\ slaveOpen
  /\ \E n \in 1..Min2(Len(chunk), PtyRoom - unread) :
       /\ written' = written \o SubSeq(chunk, 1, n)
       /\ unread' = unread + n
       /\ chunk' = IF n = Len(chunk) THEN <<>> ELSE chunk
  /\ wpc' = IF chunk' = <<>> THEN "dequeue" ELSE IF nonblocking THEN "test" ELSE "write"
  /\ UNCHANGED <<queueVars, errors, callVars, fdVars, slaveOpen>>

(* write(2) takes what there is room for.  It returns with a part of the   *)
(* chunk only from a descriptor that does not block.                       *)
WriteSome ==
  /\ wpc = "write" /\ slaveOpen
  /\ \E n \in 1..Min2(Len(chunk), PtyRoom - unread) :
       /\ written' = written \o SubSeq(chunk, 1, n)
       /\ unread' = unread + n
       /\ chunk' = SubSeq(chunk, n + 1, Len(chunk))
  /\ wpc' = IF chunk' = <<>> THEN "dequeue" ELSE IF nonblocking THEN "test" ELSE "write"
  /\ UNCHANGED <<queueVars, errors, callVars, fdVars, slaveOpen>>

(* EAGAIN, and EINTR; a descriptor that blocks gives neither.              *)
WriteWouldBlock ==
  /\ wpc = "write" /\ nonblocking /\ slaveOpen /\ unread = PtyRoom
  /\ wpc' = "poll"
  /\ UNCHANGED <<queueVars, chunk, errors, callVars, fdVars, ttyVars>>

(* wait_writable_for returns once there is room, and after 10 ms.          *)
PollReturns ==
  /\ wpc = "poll"
  /\ wpc' = "test"
  /\ UNCHANGED <<queueVars, chunk, errors, callVars, fdVars, ttyVars>>

(* EIO: no slave is open.                                                  *)
WriteFails ==
  /\ wpc = "write" /\ ~slaveOpen
  /\ wpc' = "fail"
  /\ UNCHANGED <<queueVars, chunk, errors, callVars, fdVars, ttyVars>>

(* Mutant of RecordFailure: the failure is posted and not kept.            *)
RecordNothing ==
  /\ wpc = "fail"
  /\ queue' = <<>> /\ queuedBytes' = 0 /\ chunk' = <<>>
  /\ wpc' = "post"
  /\ UNCHANGED <<failure, closed, errors, callVars, fdVars, ttyVars>>

(* record_failure: fail(), then post_error.                                *)
RecordFailure ==
  /\ wpc = "fail"
  /\ failure' = TRUE /\ queue' = <<>> /\ queuedBytes' = 0 /\ chunk' = <<>>
  /\ wpc' = "post"
  /\ UNCHANGED <<closed, errors, callVars, fdVars, ttyVars>>

(* Mutant of PostFailure: the writer ends without a word.                  *)
PostNothing ==
  /\ wpc = "post"
  /\ wpc' = "done"
  /\ UNCHANGED <<queueVars, chunk, errors, callVars, fdVars, ttyVars>>

PostFailure ==
  /\ wpc = "post"
  /\ errors' = errors + 1 /\ wpc' = "done"
  /\ UNCHANGED <<queueVars, chunk, callVars, fdVars, ttyVars>>

(***************************************************************************)
(* The reader, which makes the master non-blocking while it runs, and the  *)
(* other side of the terminal.                                             *)
(***************************************************************************)
ReaderStarts ==
  /\ rpc = "starting"
  /\ rpc' = "running" /\ nonblocking' = TRUE
  /\ UNCHANGED <<queueVars, writerVars, callVars, ttyVars>>

(* FdNonblockingGuard::drop                                                *)
ReaderEnds ==
  /\ rpc = "running" /\ (stop \/ ~slaveOpen)
  /\ rpc' = "done" /\ nonblocking' = FALSE
  /\ UNCHANGED <<queueVars, writerVars, callVars, ttyVars>>

ChildReads ==
  /\ slaveOpen /\ unread > 0
  /\ unread' = unread - 1
  /\ UNCHANGED <<queueVars, writerVars, callVars, fdVars, slaveOpen, written>>

(* The child has ended: by itself, or killed by close.                     *)
SlaveCloses ==
  /\ slaveOpen
  /\ slaveOpen' = FALSE
  /\ UNCHANGED <<queueVars, writerVars, callVars, fdVars, unread, written>>

CallStep ==
  \/ WriteChecked \/ TakeBuffer \/ Enqueue \/ GiveBack \/ FreeBuffer \/ Notify
  \/ CloseStops \/ CloseQueue \/ NotifyAll \/ JoinReader \/ JoinWriter
WriterStep ==
  \/ Dequeue \/ WriterGuard \/ WriterTests \/ WriteSome \/ WriteWouldBlock \/ PollReturns
  \/ WriteFails \/ RecordFailure \/ PostFailure
ReaderStep == ReaderStarts \/ ReaderEnds

Next ==
  \/ WriteStarts \/ AllocBuffer \/ CloseStarts
  \/ CallStep \/ WriterStep \/ ReaderStep \/ ChildReads \/ SlaveCloses

(* Threads run.  A killed child lets go of the terminal, unless another    *)
(* process keeps it; nothing obliges a child to read its input.            *)
Fairness ==
  /\ WF_vars(CallStep) /\ WF_vars(WriterStep) /\ WF_vars(ReaderStep)
  /\ WF_vars(innerClosed /\ ~SlaveKept /\ SlaveCloses)

Spec == Init /\ [][Next]_vars /\ Fairness

(***************************************************************************)
(* Properties                                                              *)
(***************************************************************************)
Queued == FlattenSeq(queue)

(* Every variable holds a value of its type.                               *)
FlagsOK ==
  /\ closed \in BOOLEAN /\ failure \in BOOLEAN /\ innerClosed \in BOOLEAN
  /\ stop \in BOOLEAN /\ nonblocking \in BOOLEAN /\ slaveOpen \in BOOLEAN

StagesOK ==
  /\ cpc \in {"idle", "check", "take", "enqueue", "giveBack", "release", "notify", "stop", "closeQueue", "notifyAll",
              "joinReader", "joinWriter", "closed"}
  /\ wpc \in {"none", "dequeue", "waiting", "guard", "test", "write", "poll", "fail", "post", "done"}
  /\ rpc \in {"starting", "running", "done"} /\ buffer \in {"none", "caller", "library", "queue"}

BytesOK ==
  /\ call \in Nat /\ accepted \in 0..MaxAccepted /\ errors \in Nat /\ freed \in Nat
  /\ unread \in 0..PtyRoom /\ queuedBytes \in Nat
  /\ queue \in Seq(Seq(1..MaxAccepted)) /\ chunk \in Seq(1..MaxAccepted)
  /\ written \in Seq(1..MaxAccepted)

TypeOK == FlagsOK /\ StagesOK /\ BytesOK

(* The bytes accepted are, in their order, those written, those the writer *)
(* holds and those queued, and none of them is missing or there twice      *)
(* until a failure or close gives the rest up ("Chunks are never split     *)
(* while queued, so one caller write stays contiguous", writer.rs:98-99).  *)
BytesInOrder ==
  LET all == written \o chunk \o Queued IN
    /\ all = [i \in 1..Len(all) |-> i]
    /\ ~closed /\ ~failure => Len(all) = accepted

(* queued_bytes is the size of what is queued and within the limit, which  *)
(* two checks of it, a copy apart, uphold (writer.rs 130-161).             *)
QueueBounded == queuedBytes = Len(Queued) /\ queuedBytes <= MaxBytes

(* A chunk that was accepted has a writer: none is queued once the writer  *)
(* has given up, however late the write was validated.                     *)
NoChunkStranded == wpc \in {"none", "post", "done"} => queue = <<>>

(* "On success, ownership of buffer moves to the session.  On failure,     *)
(* ownership remains with the caller and the buffer must be freed"         *)
(* (include/ptyx.h 308-309): between calls no buffer is left with nobody   *)
(* to free it, and none has been freed twice or freed while it is queued.  *)
BufferFreedOnce ==
  /\ freed <= 1 /\ (buffer = "queue" => freed = 0)
  /\ cpc = "idle" => buffer \in {"none", "queue"}

(* The writer ends because the queue was closed, or after one error event. *)
WriterEndsLoudly == wpc = "done" => (closed /\ errors = 0) \/ (failure /\ errors = 1)

(* Each accepted byte is written, unless writing fails or the session is   *)
(* closed, if the child reads its input.                                   *)
WritesArrive ==
  WF_vars(ChildReads) =>
    \A n \in 1..MaxAccepted :
      accepted >= n ~> Len(written) >= n \/ failure \/ innerClosed

(* "These helpers keep PTY reads and writes interruptible" (fd.rs:3-4): a  *)
(* close is not held up by a writer whose child does not read.             *)
CloseReturns == cpc = "stop" ~> cpc = "closed"

(* The queue and its writer are a BytePipe.                                *)
Pipe == INSTANCE BytePipe WITH
  lost   <- accepted - Len(written) - Len(chunk) - Len(Queued),
  broken <- closed \/ failure
ImplementsBytePipe == Pipe!Spec
=============================================================================
