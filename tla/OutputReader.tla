--------------------------- MODULE OutputReader ---------------------------
(***************************************************************************)
(* The native half of ptyx's output path: the reader thread (reader.rs),   *)
(* the batch it fills and flushes (output.rs) and the posts it makes to    *)
(* the Dart output port (message.rs), together with what it reads from:    *)
(* the child writing to the PTY slave.                                     *)
(*                                                                         *)
(* Bytes are named by their position in the child's output.  A run of      *)
(* consecutive bytes is a Chunk [lo, hi): what a buffer holds, where it    *)
(* starts and how long it is.  Two buffers hold adjacent output exactly    *)
(* when one ends where the other starts, so a byte lost, repeated or       *)
(* overtaken shows as a gap or an overlap between chunks.                  *)
(***************************************************************************)
EXTENDS Integers, Sequences

CONSTANTS
  RequireAcks,   \* RuntimeConfig.require_acks
  MaxInflight,   \* OutputConfig.max_inflight
  BatchMax,      \* OutputConfig.output_batch_max_bytes
  ReadMax,       \* OutputConfig.read_buffer_size
  UseExternal,   \* OutputConfig.use_external_output
  MaxExternal,   \* OutputConfig.max_external_output_bytes
  Nonblocking,   \* TRUE: read_unix_fd; FALSE: read_blocking (no raw fd)
  PtyCapacity,   \* bytes the terminal holds for a reader that lags
  MaxOutput      \* bound of the model: bytes the child ever writes

ASSUME FlagAssumption ==
  RequireAcks \in BOOLEAN /\ UseExternal \in BOOLEAN /\ Nonblocking \in BOOLEAN
ASSUME SizeAssumption ==
  /\ MaxInflight \in Nat \ {0} /\ BatchMax \in Nat \ {0} /\ ReadMax \in Nat \ {0}
  /\ PtyCapacity \in Nat \ {0} /\ MaxExternal \in Nat /\ MaxOutput \in Nat

VARIABLES
  produced, consumed, slaveOpen,  \* the PTY: bytes written, read, and the slave's writers
  rpc, cont,                      \* the reader thread, and where flush() returns to
  data,                           \* the part of the read buffer append() has not taken
  batch, timer,                   \* OutputBuffer: batch, first_pending_at
  stop, inflight,                 \* shared with the session runtime
  externalBytes, peers,           \* external_bytes and the peers that own its bytes
  inbox, portOpen                 \* the isolate's message queue

ptyVars    == <<produced, consumed, slaveOpen>>
bufferVars == <<data, batch, timer>>
sharedVars == <<stop, inflight>>
portVars   == <<externalBytes, peers, inbox, portOpen>>
readerVars == <<rpc, cont, ptyVars, bufferVars, sharedVars, portVars>>

Chunk == {c \in [lo : Nat, hi : Nat] : c.lo <= c.hi}
Size(c) == c.hi - c.lo
EmptyAt(n) == [lo |-> n, hi |-> n]

(* A message in the isolate's queue.  Only "output" carries bytes; the     *)
(* others stand at the place of the stream where they were posted.         *)
Message ==
  {m \in [kind : {"output", "closed", "error"}, lo : Nat, hi : Nat, external : BOOLEAN] :
     m.lo <= m.hi}
OutputMessage(c, ext) == [kind |-> "output", lo |-> c.lo, hi |-> c.hi, external |-> ext]
ControlMessage(k, n)  == [kind |-> k, lo |-> n, hi |-> n, external |-> FALSE]

(* A post reaches the queue while the isolate lives, and fails after.      *)
Post(m) == inbox' = IF portOpen THEN Append(inbox, m) ELSE inbox

ReaderInit ==
  /\ produced = 0 /\ consumed = 0 /\ slaveOpen = TRUE
  /\ rpc = "start" /\ cont = "append"
  /\ data = EmptyAt(0) /\ batch = EmptyAt(0) /\ timer = "none"
  /\ stop = FALSE /\ inflight = 0
  /\ externalBytes = 0 /\ peers = {}
  /\ inbox = <<>> /\ portOpen = TRUE

(***************************************************************************)
(* The PTY, as the reader sees it.                                         *)
(***************************************************************************)
Unread == produced - consumed
Readable == Unread > 0 \/ ~slaveOpen

ChildWrites ==
  /\ slaveOpen /\ produced < MaxOutput /\ Unread < PtyCapacity
  /\ produced' = produced + 1
  /\ UNCHANGED <<consumed, slaveOpen, rpc, cont, bufferVars, sharedVars, portVars>>

(* The child and everything it started have closed the slave.              *)
SlaveCloses ==
  /\ slaveOpen
  /\ slaveOpen' = FALSE
  /\ UNCHANGED <<produced, consumed, rpc, cont, bufferVars, sharedVars, portVars>>

(* output_batch_max_delay has passed since first_pending_at.               *)
DelayElapses ==
  /\ timer = "running"
  /\ timer' = "expired"
  /\ UNCHANGED <<rpc, cont, ptyVars, data, batch, sharedVars, portVars>>

(***************************************************************************)
(* flush()                                                                 *)
(***************************************************************************)
EnterFlush(k) == rpc' = "flush" /\ cont' = k

ReturnFromFlush ==
  rpc' = CASE cont = "append" -> "append"
           [] cont = "loop"   -> "loop"
           [] cont = "exit"   -> "exit"
           [] cont = "error"  -> "postError"

FlushBegins ==
  /\ rpc = "flush"
  /\ \/ /\ Size(batch) = 0
        /\ timer' = "none"
        /\ ReturnFromFlush
     \/ /\ Size(batch) > 0
        /\ rpc' = IF RequireAcks THEN "capacity" ELSE "post"
        /\ UNCHANGED timer
  /\ UNCHANGED <<cont, ptyVars, data, batch, sharedVars, portVars>>

(* Mutant of CheckCapacity: one byte more before the reader waits.         *)
CheckCapacityLate ==
  /\ rpc = "capacity"
  /\ \/ inflight > MaxInflight /\ ~stop /\ rpc' = "entering"
     \/ stop /\ ReturnFromFlush
     \/ inflight <= MaxInflight /\ ~stop /\ rpc' = "reserve"
  /\ UNCHANGED <<cont, ptyVars, bufferVars, sharedVars, portVars>>

(* wait_for_inflight_capacity: the predicate is read under the inflight    *)
(* lock.  "entering" still holds it; cv.wait_timeout then releases it.     *)
CheckCapacity ==
  /\ rpc = "capacity"
  /\ \/ inflight >= MaxInflight /\ ~stop /\ rpc' = "entering"
     \/ stop /\ ReturnFromFlush
     \/ inflight < MaxInflight /\ ~stop /\ rpc' = "reserve"
  /\ UNCHANGED <<cont, ptyVars, bufferVars, sharedVars, portVars>>

EnterWait ==
  /\ rpc = "entering"
  /\ rpc' = "waiting"
  /\ UNCHANGED <<cont, ptyVars, bufferVars, sharedVars, portVars>>

(* Mutant of WaitTimesOut: cv.wait without a timeout.                      *)
WaitForever == FALSE /\ UNCHANGED readerVars

WaitTimesOut ==
  /\ rpc = "waiting"
  /\ rpc' = "capacity"
  /\ UNCHANGED <<cont, ptyVars, bufferVars, sharedVars, portVars>>

ReserveInflight ==
  /\ rpc = "reserve"
  /\ inflight' = inflight + Size(batch)
  /\ rpc' = "post"
  /\ UNCHANGED <<cont, ptyVars, bufferVars, stop, portVars>>

(* Mutant of ExternalFits: each batch is held to the limit on its own.     *)
ExternalFitsAlone(len) == UseExternal /\ len <= MaxExternal

(* reserve_external_bytes: fetch_update that refuses to pass the limit.    *)
ExternalFits(len) == UseExternal /\ externalBytes + len <= MaxExternal

(* Mutant of PostBatch: batch.clear() is forgotten.                        *)
PostBatchKept ==
  /\ rpc = "post" /\ portOpen
  /\ Post(OutputMessage(batch, FALSE))
  /\ timer' = "none"
  /\ ReturnFromFlush
  /\ UNCHANGED <<cont, ptyVars, data, batch, sharedVars, externalBytes, peers, portOpen>>

PostBatch ==
  /\ rpc = "post" /\ portOpen
  /\ LET m == OutputMessage(batch, ExternalFits(Size(batch))) IN
       /\ Post(m)
       /\ externalBytes' = IF m.external THEN externalBytes + Size(m) ELSE externalBytes
       /\ peers' = IF m.external THEN peers \union {m} ELSE peers
  /\ batch' = EmptyAt(batch.hi)
  /\ timer' = "none"
  /\ ReturnFromFlush
  /\ UNCHANGED <<cont, ptyVars, data, sharedVars, portOpen>>

(* The isolate is gone: an external peer is dropped on the spot and takes  *)
(* its bytes back, so neither counter nor peer outlives the attempt.       *)
PostFails ==
  /\ rpc = "post" /\ ~portOpen
  /\ rpc' = IF RequireAcks THEN "release" ELSE "exit"
  /\ UNCHANGED <<cont, ptyVars, bufferVars, sharedVars, portVars>>

(* Mutant of ReleaseInflight: the reservation of a failed post is kept.    *)
KeepInflight ==
  /\ rpc = "release"
  /\ rpc' = "exit"
  /\ UNCHANGED <<cont, ptyVars, bufferVars, sharedVars, portVars>>

(* release_inflight, then flush() fails; the error post that follows fails *)
(* as well, whichever caller makes it, and every caller then leaves.       *)
ReleaseInflight ==
  /\ rpc = "release"
  /\ inflight' = IF inflight > Size(batch) THEN inflight - Size(batch) ELSE 0
  /\ rpc' = "exit"
  /\ UNCHANGED <<cont, ptyVars, bufferVars, stop, portVars>>

(***************************************************************************)
(* append(): one round of its loop, and the end of it.                     *)
(***************************************************************************)
Extend(b, n) == [b EXCEPT !.hi = @ + n]

(* Mutant of Take: append() copies everything the read returned.           *)
TakeAll == Size(data)

Take ==
  LET available == IF Size(batch) < BatchMax THEN BatchMax - Size(batch) ELSE 1
  IN  IF Size(data) < available THEN Size(data) ELSE available

AppendRound ==
  /\ rpc = "append" /\ Size(data) > 0
  /\ timer' = IF Size(batch) = 0 THEN "running" ELSE timer
  /\ batch' = Extend(batch, Take)
  /\ data' = [data EXCEPT !.lo = @ + Take]
  /\ IF Size(batch) + Take >= BatchMax
       THEN EnterFlush("append")
       ELSE UNCHANGED <<rpc, cont>>
  /\ UNCHANGED <<ptyVars, sharedVars, portVars>>

(* The Unix loop reads on until the fd would block, unless it is stopped.  *)
(* The blocking loop flushes a batch that is already overdue.              *)
AppendReturns ==
  /\ rpc = "append" /\ Size(data) = 0
  /\ IF Nonblocking
       THEN /\ rpc' = IF stop THEN "loop" ELSE "read"
            /\ UNCHANGED cont
       ELSE IF timer = "expired" THEN EnterFlush("loop")
                                 ELSE rpc' = "loop" /\ UNCHANGED cont
  /\ UNCHANGED <<ptyVars, bufferVars, sharedVars, portVars>>

(***************************************************************************)
(* The reader loop.                                                        *)
(***************************************************************************)
(* BusyGuard, read_context_for_inner and set_nonblocking: any of them may  *)
(* fail, and the reader then reports the error and leaves.                 *)
ReaderStarts ==
  /\ rpc = "start"
  /\ \/ rpc' = "loop" /\ UNCHANGED cont
     \/ rpc' = "postError" /\ cont' = "error"
  /\ UNCHANGED <<ptyVars, bufferVars, sharedVars, portVars>>

LoopTop ==
  /\ rpc = "loop"
  /\ IF stop THEN EnterFlush("exit")
             ELSE rpc' = "read" /\ UNCHANGED cont
  /\ UNCHANGED <<ptyVars, bufferVars, sharedVars, portVars>>

ReadData ==
  /\ rpc = "read"
  /\ \E n \in 1..ReadMax :
       /\ n <= Unread
       /\ data' = [lo |-> consumed, hi |-> consumed + n]
       /\ consumed' = consumed + n
  /\ rpc' = "append"
  /\ UNCHANGED <<produced, slaveOpen, cont, batch, timer, sharedVars, portVars>>

ReadWouldBlock ==
  /\ rpc = "read" /\ Nonblocking /\ ~Readable
  /\ rpc' = "poll"
  /\ UNCHANGED <<cont, ptyVars, bufferVars, sharedVars, portVars>>

(* Mutant of ReadEof: end of file without the last flush.                  *)
ReadEofUnflushed ==
  /\ rpc = "read" /\ Unread = 0 /\ ~slaveOpen
  /\ rpc' = "exit" /\ cont' = "exit"
  /\ UNCHANGED <<ptyVars, bufferVars, sharedVars, portVars>>

ReadEof ==
  /\ rpc = "read" /\ Unread = 0 /\ ~slaveOpen
  /\ EnterFlush("exit")
  /\ UNCHANGED <<ptyVars, bufferVars, sharedVars, portVars>>

(* read or poll reports an error other than EINTR, EAGAIN and EIO.         *)
ReadFails ==
  /\ rpc \in {"read", "poll"}
  /\ EnterFlush("error")
  /\ UNCHANGED <<ptyVars, bufferVars, sharedVars, portVars>>

(* poll_readable: readiness wins over an elapsed delay; a timeout, idle or *)
(* timed, flushes.                                                         *)
PollReady ==
  /\ rpc = "poll" /\ Readable
  /\ rpc' = "loop"
  /\ UNCHANGED <<cont, ptyVars, bufferVars, sharedVars, portVars>>

(* Mutant of PollTimesOut: the elapsed delay flushes nothing.              *)
PollIgnoresTimeout ==
  /\ rpc = "poll" /\ ~Readable
  /\ rpc' = "loop"
  /\ UNCHANGED <<cont, ptyVars, bufferVars, sharedVars, portVars>>

PollTimesOut ==
  /\ rpc = "poll" /\ ~Readable
  /\ EnterFlush("loop")
  /\ UNCHANGED <<ptyVars, bufferVars, sharedVars, portVars>>

PostError ==
  /\ rpc = "postError"
  /\ Post(ControlMessage("error", batch.lo))
  /\ rpc' = "exit"
  /\ UNCHANGED <<cont, ptyVars, bufferVars, sharedVars, externalBytes, peers, portOpen>>

(* close_ports, and the thread ends.                                       *)
ClosePorts ==
  /\ rpc = "exit"
  /\ Post(ControlMessage("closed", batch.lo))
  /\ rpc' = "done"
  /\ UNCHANGED <<cont, ptyVars, bufferVars, sharedVars, externalBytes, peers, portOpen>>

(***************************************************************************)
(* The calls the Dart side makes on what it shares with the reader.        *)
(***************************************************************************)
(* notify_all: a reader in the wait set goes back to its predicate.        *)
Notify == rpc' = IF rpc = "waiting" THEN "capacity" ELSE rpc

(* Mutant of AckOutput: the message tag is counted in, and may wrap.       *)
AckOutputTagged(n) ==
  IF RequireAcks
    THEN rpc # "entering" /\ inflight' = inflight - (n + 1) /\ Notify
    ELSE UNCHANGED <<rpc, inflight>>

(* ack_output: the inflight lock must be free, the subtraction saturates.  *)
AckOutput(n) ==
  IF RequireAcks
    THEN /\ rpc # "entering"
         /\ inflight' = IF inflight > n THEN inflight - n ELSE 0
         /\ Notify
    ELSE UNCHANGED <<rpc, inflight>>
===========================================================================
