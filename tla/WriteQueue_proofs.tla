-------------------------- MODULE WriteQueue_proofs --------------------------
(***************************************************************************)
(* What holds of the write queue for every limit, every length of chunk    *)
(* and every terminal: the order of the bytes, the bound of the queue, who *)
(* owns an owned buffer, how the writer ends, and that the queue and its   *)
(* writer are a BytePipe.                                                  *)
(***************************************************************************)
EXTENDS WriteQueue, DataInduction

(***************************************************************************)
(* The inductive invariant                                                 *)
(***************************************************************************)

(* A call has room in the model for the chunk it carries.                  *)
RoomInv == cpc \in {"check", "take", "enqueue"} => accepted + call <= MaxAccepted

(* A closed queue is empty, a failed one has lost its writer, and a call   *)
(* that may still enqueue has started one.                                 *)
QueueInv ==
  /\ closed => queue = <<>>
  /\ failure => queue = <<>> /\ wpc \in {"post", "done"}
  /\ wpc = "post" => failure
  /\ wpc = "done" => closed \/ failure
  /\ wpc = "none" => queue = <<>> /\ cpc \notin {"check", "enqueue", "notify"}

(* A writer that looks for a chunk, or has ended, holds none.              *)
ChunkInv == wpc \in {"none", "dequeue", "waiting", "post", "done"} => chunk = <<>>

(* The writer posts its error last.                                        *)
ErrorInv == errors = IF failure /\ wpc = "done" THEN 1 ELSE 0

(* Who owns the buffer, by the step of the call.                           *)
BufferInv ==
  /\ cpc \in {"take", "release"} => buffer = "caller" /\ freed = 0
  /\ cpc = "giveBack" => buffer = "library" /\ freed = 0
  /\ cpc = "enqueue" => buffer # "caller"
  /\ cpc \notin {"take", "release", "giveBack", "enqueue"} => buffer \in {"none", "queue"}
  /\ buffer # "none" => freed = 0
  /\ freed <= 1

(* What has been accepted and not given up, in the order it goes through.  *)
Line == written \o chunk \o Queued
Numbered(s) == s = [i \in 1..Len(s) |-> i]

LineInv ==
  /\ Numbered(Line)
  /\ Len(Line) <= accepted
  /\ ~closed /\ ~failure => Len(Line) = accepted

IInv ==
  /\ TypeOK /\ RoomInv /\ QueueInv /\ ChunkInv /\ ErrorInv /\ BufferInv /\ LineInv /\ QueueBounded

(***************************************************************************)
(* Bytes and chunks                                                        *)
(***************************************************************************)
Byte == 1..MaxAccepted

(* A chunk that fits the model is a sequence of bytes.                     *)
LEMMA BytesType ==
  ASSUME accepted \in Nat, NEW n \in Nat, accepted + n <= MaxAccepted
  PROVE  Bytes(n) \in Seq(Byte) /\ Len(Bytes(n)) = n
<1>1. \A i \in 1..n : accepted + i \in Byte
  BY SizeAssumption DEF Byte
<1> QED
  BY <1>1 DEF Bytes

(* What a write of n bytes makes of the chunk.                             *)
LEMMA ChunkSplits ==
  ASSUME NEW c \in Seq(Byte), NEW n \in 1..Len(c)
  PROVE  /\ SubSeq(c, 1, n) \in Seq(Byte) /\ Len(SubSeq(c, 1, n)) = n
         /\ SubSeq(c, n + 1, Len(c)) \in Seq(Byte) /\ Len(SubSeq(c, n + 1, Len(c))) = Len(c) - n
         /\ SubSeq(c, 1, n) \o SubSeq(c, n + 1, Len(c)) = c
<1>1. \A i \in 1..Len(c) : c[i] \in Byte
  OBVIOUS
<1>2. Len(c) \in Nat /\ n \in Int /\ n + 1 \in Int /\ 1 \in Int /\ Len(c) \in Int /\ n <= Len(c) /\ 1 <= n
  OBVIOUS
<1>3. /\ SubSeq(c, 1, n) \in Seq(Byte) /\ Len(SubSeq(c, 1, n)) = n
      /\ \A i \in 1..n : SubSeq(c, 1, n)[i] = c[i]
  BY <1>1, <1>2, SubSeqProperties
<1>4. /\ SubSeq(c, n + 1, Len(c)) \in Seq(Byte) /\ Len(SubSeq(c, n + 1, Len(c))) = Len(c) - n
      /\ \A i \in 1..(Len(c) - n) : SubSeq(c, n + 1, Len(c))[i] = c[n + i]
  <2>1. \A i \in n + 1..Len(c) : c[i] \in Byte
    BY <1>1, <1>2
  <2> QED
    BY <1>2, <2>1, SubSeqProperties
<1> DEFINE a == SubSeq(c, 1, n)
           b == SubSeq(c, n + 1, Len(c))
<1>5. a \o b \in Seq(Byte) /\ Len(a \o b) = Len(c)
  BY <1>2, <1>3, <1>4, ConcatProperties
<1>6. \A i \in 1..Len(c) : (a \o b)[i] = c[i]
  <2> SUFFICES ASSUME NEW i \in 1..Len(c) PROVE (a \o b)[i] = c[i]
    OBVIOUS
  <2>1. a \in Seq(Byte) /\ b \in Seq(Byte) /\ Len(a) = n /\ Len(b) = Len(c) - n
    BY <1>3, <1>4
  <2>2. (a \o b)[i] = IF i <= n THEN a[i] ELSE b[i - n]
    <3> HIDE DEF a, b
    <3> QED
      BY <1>2, <2>1, ConcatProperties
  <2>3. i <= n => a[i] = c[i]
    BY <1>3
  <2>4. i > n => b[i - n] = c[i]
    <3>1. i > n => i - n \in 1..(Len(c) - n) /\ n + (i - n) = i
      BY <1>2
    <3> QED
      BY <1>4, <3>1
  <2> HIDE DEF a, b
  <2> QED
    BY <1>2, <2>2, <2>3, <2>4
<1> QED
  BY <1>3, <1>4, <1>5, <1>6, SeqEqual

(***************************************************************************)
(* Every variable keeps its type                                           *)
(***************************************************************************)
LEMMA FlagsStep == TypeOK /\ [Next]_vars => FlagsOK'
<1> SUFFICES ASSUME TypeOK, [Next]_vars PROVE FlagsOK'
  OBVIOUS
<1> USE DEF TypeOK, FlagsOK, queueVars, writerVars, bufferVars, callVars, fdVars, ttyVars
<1>1. CASE UNCHANGED vars
  BY <1>1, Zenon DEF vars
<1>2. CASE WriteStarts \/ WriteChecked \/ AllocBuffer \/ TakeBuffer \/ Enqueue \/ GiveBack \/ FreeBuffer \/ Notify
  BY <1>2, Zenon DEF WriteStarts, WriteChecked, AllocBuffer, TakeBuffer, Enqueue, GiveBack, FreeBuffer, Notify
<1>3. CASE CloseStarts \/ CloseStops \/ CloseQueue \/ NotifyAll \/ JoinReader \/ JoinWriter
  BY <1>3, Zenon DEF CloseStarts, CloseStops, CloseQueue, NotifyAll, JoinReader, JoinWriter
<1>4. CASE WriterStep
  BY <1>4, Zenon DEF WriterStep, Dequeue, WriterGuard, WriterTests, WriteSome, WriteWouldBlock, PollReturns,
     WriteFails, RecordFailure, PostFailure
<1>5. CASE ReaderStep \/ ChildReads \/ SlaveCloses
  BY <1>5, Zenon DEF ReaderStep, ReaderStarts, ReaderEnds, ChildReads, SlaveCloses
<1> QED
  BY <1>1, <1>2, <1>3, <1>4, <1>5 DEF Next, CallStep

LEMMA StagesStep == TypeOK /\ [Next]_vars => StagesOK'
<1> SUFFICES ASSUME TypeOK, [Next]_vars PROVE StagesOK'
  OBVIOUS
<1> USE DEF TypeOK, StagesOK, queueVars, writerVars, bufferVars, callVars, fdVars, ttyVars
<1>1. CASE UNCHANGED vars
  BY <1>1 DEF vars
<1>2. CASE WriteStarts \/ WriteChecked \/ AllocBuffer \/ TakeBuffer
  BY <1>2 DEF WriteStarts, WriteChecked, AllocBuffer, TakeBuffer, WriterStarts, WriterFails
<1>3. CASE Enqueue \/ GiveBack \/ FreeBuffer \/ Notify \/ NotifyAll
  BY <1>3 DEF Enqueue, BufferConsumed, GiveBack, FreeBuffer, Notify, NotifyAll, Woken
<1>4. CASE CloseStarts \/ CloseStops \/ CloseQueue \/ JoinReader \/ JoinWriter
  BY <1>4 DEF CloseStarts, CloseStops, CloseQueue, JoinReader, JoinWriter
<1>5. CASE WriterStep
  BY <1>5 DEF WriterStep, Dequeue, WriterGuard, WriterTests, WriteSome, WriteWouldBlock, PollReturns,
     WriteFails, RecordFailure, PostFailure
<1>6. CASE ReaderStep \/ ChildReads \/ SlaveCloses
  BY <1>6 DEF ReaderStep, ReaderStarts, ReaderEnds, ChildReads, SlaveCloses
<1> QED
  BY <1>1, <1>2, <1>3, <1>4, <1>5, <1>6 DEF Next, CallStep

LEMMA BytesStep == TypeOK /\ RoomInv /\ [Next]_vars => BytesOK'
<1> SUFFICES ASSUME TypeOK, RoomInv, [Next]_vars PROVE BytesOK'
  OBVIOUS
<1> USE DEF TypeOK, BytesOK, queueVars, writerVars, bufferVars, callVars, fdVars, ttyVars
<1>t. /\ accepted \in Nat /\ MaxAccepted \in Nat /\ MaxBytes \in Nat /\ PtyRoom \in Nat /\ Lengths \subseteq Nat
  BY SizeAssumption
<1>e. <<>> \in Seq(1..MaxAccepted) /\ <<>> \in Seq(Seq(1..MaxAccepted))
  OBVIOUS
<1>1. CASE UNCHANGED vars
  BY <1>1 DEF vars
<1>2. CASE WriteStarts \/ WriteChecked \/ AllocBuffer \/ TakeBuffer
  <2>1. UNCHANGED <<queue, queuedBytes, chunk, errors, accepted, unread, written>>
    BY <1>2, Zenon DEF WriteStarts, WriteChecked, AllocBuffer, TakeBuffer
  <2>2. (call' = call \/ call' \in Lengths) /\ (freed' = freed \/ freed' = 0)
    BY <1>2 DEF WriteStarts, WriteChecked, AllocBuffer, TakeBuffer
  <2>3. call' \in Nat /\ freed' \in Nat
    <3>1. call \in Nat /\ freed \in Nat
      BY Zenon
    <3>2. Lengths \subseteq Nat /\ 0 \in Nat
      BY ONLY <1>t
    <3> QED
      BY ONLY <2>2, <3>1, <3>2, Zenon
  <2> QED
    BY <2>1, <2>3
<1>3. CASE GiveBack \/ FreeBuffer \/ Notify \/ NotifyAll
  <2>1. /\ UNCHANGED <<queue, queuedBytes, chunk, errors, call, accepted, unread, written>>
        /\ freed' = freed \/ freed' = freed + 1
    BY <1>3, Zenon DEF GiveBack, FreeBuffer, Notify, NotifyAll
  <2> QED
    BY <2>1
<1>4. CASE CloseStarts \/ CloseStops \/ CloseQueue \/ JoinReader \/ JoinWriter
  <2>1. /\ queue' = queue \/ queue' = <<>>
        /\ queuedBytes' = queuedBytes \/ queuedBytes' = 0
        /\ UNCHANGED <<chunk, errors, call, accepted, freed, unread, written>>
    BY <1>4 DEF CloseStarts, CloseStops, CloseQueue, JoinReader, JoinWriter
  <2>2. queue' \in Seq(Seq(1..MaxAccepted))
    BY <1>e, <2>1, Zenon
  <2> QED
    BY <2>1, <2>2
<1>5. CASE Enqueue
  <2>1. CASE call # 0 /\ Allowed(call)
    <3>1. Bytes(call) \in Seq(1..MaxAccepted)
      BY <1>t, <1>5, BytesType DEF Enqueue, RoomInv, Byte
    <3>2. /\ queue' = Append(queue, Bytes(call)) /\ queuedBytes' = queuedBytes + call
          /\ accepted' = accepted + call /\ accepted + call <= MaxAccepted
          /\ UNCHANGED <<call, errors, freed, unread, chunk, written>>
      BY <1>5, <2>1 DEF Enqueue, RoomInv
    <3> QED
      BY <1>t, <3>1, <3>2
  <2>2. CASE ~(call # 0 /\ Allowed(call))
    BY <1>5, <2>2 DEF Enqueue
  <2> QED
    BY <2>1, <2>2
<1>6. CASE Dequeue
  <2>1. queue # <<>> => Head(queue) \in Seq(1..MaxAccepted) /\ Tail(queue) \in Seq(Seq(1..MaxAccepted))
    BY HeadTailProperties
  <2>2. chunk' \in Seq(1..MaxAccepted) /\ queue' \in Seq(Seq(1..MaxAccepted))
    BY <1>6, <2>1 DEF Dequeue
  <2>3. Len(chunk') \in Nat
    BY <2>2
  <2>4. queuedBytes' \in Nat
    BY <1>6, <2>3 DEF Dequeue, SaturatingSub
  <2> QED
    BY <1>6, <2>2, <2>4 DEF Dequeue
<1>7. CASE WriterGuard \/ WriterTests \/ WriteWouldBlock \/ PollReturns \/ WriteFails \/ RecordFailure \/ PostFailure
  <2>1. /\ queue' = queue \/ queue' = <<>>
        /\ queuedBytes' = queuedBytes \/ queuedBytes' = 0
        /\ chunk' = chunk \/ chunk' = <<>>
        /\ errors' = errors \/ errors' = errors + 1
        /\ UNCHANGED <<call, accepted, freed, unread, written>>
    BY <1>7 DEF WriterGuard, WriterTests, WriteWouldBlock, PollReturns, WriteFails, RecordFailure, PostFailure
  <2>2. queue' \in Seq(Seq(1..MaxAccepted)) /\ chunk' \in Seq(1..MaxAccepted)
    BY <1>e, <2>1, Zenon
  <2>3. queuedBytes' \in Nat /\ errors' \in Nat
    BY <2>1
  <2> QED
    BY <2>1, <2>2, <2>3
<1>8. CASE WriteSome
  <2>1. PICK n \in 1..Min2(Len(chunk), PtyRoom - unread) :
          /\ written' = written \o SubSeq(chunk, 1, n) /\ unread' = unread + n
          /\ chunk' = SubSeq(chunk, n + 1, Len(chunk))
    BY <1>8 DEF WriteSome
  <2>2. n \in 1..Len(chunk) /\ unread + n \in 0..PtyRoom
    BY <1>t, <2>1 DEF Min2
  <2>3. SubSeq(chunk, 1, n) \in Seq(1..MaxAccepted) /\ SubSeq(chunk, n + 1, Len(chunk)) \in Seq(1..MaxAccepted)
    BY <2>2, ChunkSplits DEF Byte
  <2>4. written \o SubSeq(chunk, 1, n) \in Seq(1..MaxAccepted)
    BY <2>3, ConcatProperties
  <2> QED
    BY <1>8, <2>1, <2>2, <2>3, <2>4 DEF WriteSome
<1>9. CASE ReaderStep \/ ChildReads \/ SlaveCloses
  <2>1. UNCHANGED <<call, accepted, errors, freed, queuedBytes, queue, chunk, written>>
    BY <1>9, Zenon DEF ReaderStep, ReaderStarts, ReaderEnds, ChildReads, SlaveCloses
  <2>2. unread' = unread \/ (unread > 0 /\ unread' = unread - 1)
    BY <1>9, Zenon DEF ReaderStep, ReaderStarts, ReaderEnds, ChildReads, SlaveCloses
  <2>3. unread' \in 0..PtyRoom
    BY <1>t, <2>2
  <2> QED
    BY <2>1, <2>3
<1> QED
  BY <1>1, <1>2, <1>3, <1>4, <1>5, <1>6, <1>7, <1>8, <1>9 DEF Next, CallStep, WriterStep

LEMMA TypeStep == TypeOK /\ RoomInv /\ [Next]_vars => TypeOK'
BY FlagsStep, StagesStep, BytesStep DEF TypeOK

(***************************************************************************)
(* The stages of the threads                                               *)
(***************************************************************************)
LEMMA RoomStep == TypeOK /\ RoomInv /\ [Next]_vars => RoomInv'
<1> SUFFICES ASSUME TypeOK, RoomInv, [Next]_vars PROVE RoomInv'
  OBVIOUS
<1> USE DEF RoomInv, queueVars, writerVars, bufferVars, callVars, fdVars, ttyVars
<1>1. CASE UNCHANGED vars
  BY <1>1 DEF vars
<1>2. CASE WriteStarts \/ WriteChecked \/ AllocBuffer \/ TakeBuffer
  BY <1>2 DEF WriteStarts, WriteChecked, AllocBuffer, TakeBuffer
<1>3. CASE Enqueue \/ GiveBack \/ FreeBuffer \/ Notify \/ NotifyAll
  BY <1>3 DEF Enqueue, GiveBack, FreeBuffer, Notify, NotifyAll
<1>4. CASE CloseStarts \/ CloseStops \/ CloseQueue \/ JoinReader \/ JoinWriter
  BY <1>4 DEF CloseStarts, CloseStops, CloseQueue, JoinReader, JoinWriter
<1>5. CASE WriterStep
  BY <1>5 DEF WriterStep, Dequeue, WriterGuard, WriterTests, WriteSome, WriteWouldBlock, PollReturns,
     WriteFails, RecordFailure, PostFailure
<1>6. CASE ReaderStep \/ ChildReads \/ SlaveCloses
  BY <1>6 DEF ReaderStep, ReaderStarts, ReaderEnds, ChildReads, SlaveCloses
<1> QED
  BY <1>1, <1>2, <1>3, <1>4, <1>5, <1>6 DEF Next, CallStep

LEMMA QueueStep == TypeOK /\ QueueInv /\ [Next]_vars => QueueInv'
<1> SUFFICES ASSUME TypeOK, QueueInv, [Next]_vars PROVE QueueInv'
  OBVIOUS
<1> USE DEF TypeOK, FlagsOK, QueueInv, queueVars, writerVars, bufferVars, callVars, fdVars, ttyVars
<1>1. CASE UNCHANGED vars
  BY <1>1 DEF vars
<1>2. CASE WriteStarts \/ WriteChecked \/ AllocBuffer \/ TakeBuffer
  BY <1>2 DEF WriteStarts, WriteChecked, AllocBuffer, TakeBuffer, WriterStarts, WriterFails
<1>3. CASE Enqueue
  BY <1>3 DEF Enqueue, Allowed
<1>4. CASE GiveBack \/ FreeBuffer \/ Notify \/ NotifyAll
  BY <1>4 DEF GiveBack, FreeBuffer, Notify, NotifyAll, Woken
<1>5. CASE CloseStarts \/ CloseStops \/ CloseQueue \/ JoinReader \/ JoinWriter
  BY <1>5 DEF CloseStarts, CloseStops, CloseQueue, JoinReader, JoinWriter
<1>6. CASE Dequeue
  BY <1>6 DEF Dequeue
<1>7. CASE WriterGuard \/ WriterTests \/ WriteSome \/ WriteWouldBlock \/ PollReturns \/ WriteFails
  BY <1>7 DEF WriterGuard, WriterTests, WriteSome, WriteWouldBlock, PollReturns, WriteFails
<1>8. CASE RecordFailure \/ PostFailure
  BY <1>8 DEF RecordFailure, PostFailure
<1>9. CASE ReaderStep \/ ChildReads \/ SlaveCloses
  BY <1>9 DEF ReaderStep, ReaderStarts, ReaderEnds, ChildReads, SlaveCloses
<1> QED
  BY <1>1, <1>2, <1>3, <1>4, <1>5, <1>6, <1>7, <1>8, <1>9 DEF Next, CallStep, WriterStep

LEMMA ChunkStep == TypeOK /\ ChunkInv /\ [Next]_vars => ChunkInv'
<1> SUFFICES ASSUME TypeOK, ChunkInv, [Next]_vars PROVE ChunkInv'
  OBVIOUS
<1> USE DEF ChunkInv, queueVars, writerVars, bufferVars, callVars, fdVars, ttyVars
<1>1. CASE UNCHANGED chunk /\ (UNCHANGED wpc \/ wpc' = Woken \/ WriterStarts)
  BY <1>1 DEF Woken, WriterStarts
<1>2. CASE WriteStarts \/ TakeBuffer \/ Notify \/ NotifyAll
  BY <1>1, <1>2 DEF WriteStarts, TakeBuffer, Notify, NotifyAll, WriterFails
<1>3. CASE WriteChecked \/ AllocBuffer \/ Enqueue \/ GiveBack \/ FreeBuffer
  BY <1>1, <1>3 DEF WriteChecked, AllocBuffer, Enqueue, GiveBack, FreeBuffer
<1>4. CASE CloseStarts \/ CloseStops \/ CloseQueue \/ JoinReader \/ JoinWriter
  BY <1>1, <1>4 DEF CloseStarts, CloseStops, CloseQueue, JoinReader, JoinWriter
<1>5. CASE WriterStep
  BY <1>5 DEF WriterStep, Dequeue, WriterGuard, WriterTests, WriteSome, WriteWouldBlock, PollReturns,
     WriteFails, RecordFailure, PostFailure
<1>6. CASE ReaderStep \/ ChildReads \/ SlaveCloses \/ UNCHANGED vars
  BY <1>1, <1>6 DEF ReaderStep, ReaderStarts, ReaderEnds, ChildReads, SlaveCloses, vars
<1> QED
  BY <1>2, <1>3, <1>4, <1>5, <1>6 DEF Next, CallStep

LEMMA ErrorStep == TypeOK /\ QueueInv /\ ErrorInv /\ [Next]_vars => ErrorInv'
<1> SUFFICES ASSUME TypeOK, QueueInv, ErrorInv, [Next]_vars PROVE ErrorInv'
  OBVIOUS
<1> USE DEF ErrorInv, QueueInv, queueVars, writerVars, bufferVars, callVars, fdVars, ttyVars
<1>1. CASE UNCHANGED <<errors, failure>> /\ (UNCHANGED wpc \/ wpc' = Woken \/ WriterStarts)
  BY <1>1 DEF Woken, WriterStarts
<1>2. CASE WriteStarts \/ TakeBuffer \/ Notify \/ NotifyAll
  BY <1>1, <1>2 DEF WriteStarts, TakeBuffer, Notify, NotifyAll, WriterFails
<1>3. CASE WriteChecked \/ AllocBuffer \/ Enqueue \/ GiveBack \/ FreeBuffer
  BY <1>1, <1>3 DEF WriteChecked, AllocBuffer, Enqueue, GiveBack, FreeBuffer
<1>4. CASE CloseStarts \/ CloseStops \/ CloseQueue \/ JoinReader \/ JoinWriter
  BY <1>1, <1>4 DEF CloseStarts, CloseStops, CloseQueue, JoinReader, JoinWriter
<1>5. CASE WriterStep /\ wpc \notin {"fail", "post"}
  BY <1>5 DEF WriterStep, Dequeue, WriterGuard, WriterTests, WriteSome, WriteWouldBlock, PollReturns,
     WriteFails, RecordFailure, PostFailure
<1>6. CASE RecordFailure
  BY <1>6 DEF RecordFailure
<1>7. CASE PostFailure
  BY <1>7 DEF PostFailure
<1>8. CASE ReaderStep \/ ChildReads \/ SlaveCloses \/ UNCHANGED vars
  BY <1>1, <1>8 DEF ReaderStep, ReaderStarts, ReaderEnds, ChildReads, SlaveCloses, vars
<1>9. WriterStep => wpc \notin {"fail", "post"} \/ RecordFailure \/ PostFailure
  BY DEF WriterStep, Dequeue, WriterGuard, WriterTests, WriteSome, WriteWouldBlock, PollReturns, WriteFails
<1> QED
  BY <1>2, <1>3, <1>4, <1>5, <1>6, <1>7, <1>8, <1>9 DEF Next, CallStep

LEMMA BufferStep == TypeOK /\ BufferInv /\ [Next]_vars => BufferInv'
<1> SUFFICES ASSUME TypeOK, BufferInv, [Next]_vars PROVE BufferInv'
  OBVIOUS
<1> USE DEF TypeOK, StagesOK, BufferInv, queueVars, writerVars, bufferVars, callVars, fdVars, ttyVars
<1>1. CASE UNCHANGED <<cpc, buffer, freed>>
  BY <1>1
<1>2. CASE WriteStarts \/ WriteChecked
  BY <1>2 DEF WriteStarts, WriteChecked
<1>3. CASE AllocBuffer \/ TakeBuffer
  BY <1>3 DEF AllocBuffer, TakeBuffer
<1>4. CASE Enqueue
  BY <1>4 DEF Enqueue, BufferConsumed
<1>5. CASE GiveBack \/ FreeBuffer
  BY <1>5 DEF GiveBack, FreeBuffer
<1>6. CASE Notify \/ CloseStarts \/ CloseStops \/ CloseQueue \/ NotifyAll \/ JoinReader \/ JoinWriter
  BY <1>6 DEF Notify, CloseStarts, CloseStops, CloseQueue, NotifyAll, JoinReader, JoinWriter
<1>7. CASE WriterStep
  BY <1>1, <1>7 DEF WriterStep, Dequeue, WriterGuard, WriterTests, WriteSome, WriteWouldBlock, PollReturns,
     WriteFails, RecordFailure, PostFailure
<1>8. CASE ReaderStep \/ ChildReads \/ SlaveCloses \/ UNCHANGED vars
  BY <1>1, <1>8 DEF ReaderStep, ReaderStarts, ReaderEnds, ChildReads, SlaveCloses, vars
<1> QED
  BY <1>2, <1>3, <1>4, <1>5, <1>6, <1>7, <1>8 DEF Next, CallStep

(***************************************************************************)
(* The line of bytes                                                       *)
(***************************************************************************)
(* The parts of a line are sequences of bytes, and their lengths add up.   *)
LEMMA LineParts ==
  ASSUME NEW w \in Seq(Byte), NEW c \in Seq(Byte), NEW q \in Seq(Seq(Byte))
  PROVE  /\ FlattenSeq(q) \in Seq(Byte)
         /\ w \o c \in Seq(Byte) /\ Len(w \o c) = Len(w) + Len(c)
         /\ (w \o c) \o FlattenSeq(q) \in Seq(Byte)
         /\ Len((w \o c) \o FlattenSeq(q)) = Len(w) + Len(c) + Len(FlattenSeq(q))
         /\ Len(w) \in Nat /\ Len(c) \in Nat /\ Len(FlattenSeq(q)) \in Nat
<1>1. FlattenSeq(q) \in Seq(Byte)
  BY FlattenType
<1>2. w \o c \in Seq(Byte) /\ Len(w \o c) = Len(w) + Len(c)
  BY ConcatProperties
<1> DEFINE v == w \o c
           f == FlattenSeq(q)
<1>3. v \o f \in Seq(Byte) /\ Len(v \o f) = Len(v) + Len(f)
  <2>1. v \in Seq(Byte) /\ f \in Seq(Byte)
    BY <1>1, <1>2
  <2> HIDE DEF v, f
  <2> QED
    BY ONLY <2>1, ConcatLength
<1> QED
  BY <1>1, <1>2, <1>3

(* The same, of the line as it is and as a step leaves it.                 *)
LEMMA LineType ==
  ASSUME TypeOK
  PROVE  /\ written \in Seq(Byte) /\ chunk \in Seq(Byte) /\ queue \in Seq(Seq(Byte)) /\ Queued \in Seq(Byte)
         /\ written \o chunk \in Seq(Byte) /\ Len(written \o chunk) = Len(written) + Len(chunk)
         /\ Line \in Seq(Byte) /\ Len(Line) = Len(written) + Len(chunk) + Len(Queued)
         /\ Len(written) \in Nat /\ Len(chunk) \in Nat /\ Len(Queued) \in Nat
<1>1. written \in Seq(Byte) /\ chunk \in Seq(Byte) /\ queue \in Seq(Seq(Byte))
  BY DEF TypeOK, BytesOK, Byte
<1> QED
  BY <1>1, LineParts DEF Line, Queued

LEMMA LineTypeNext ==
  ASSUME TypeOK'
  PROVE  /\ written' \in Seq(Byte) /\ chunk' \in Seq(Byte) /\ Queued' \in Seq(Byte)
         /\ Line' \in Seq(Byte) /\ Len(Line') = Len(written') + Len(chunk') + Len(Queued')
         /\ Len(written') \in Nat /\ Len(chunk') \in Nat /\ Len(Queued') \in Nat
<1>1. written' \in Seq(Byte) /\ chunk' \in Seq(Byte) /\ queue' \in Seq(Seq(Byte))
  BY DEF TypeOK, BytesOK, Byte
<1> QED
  BY <1>1, LineParts DEF Line, Queued

(* A numbered sequence holds at each place its number.                     *)
LEMMA NumberedPlaces ==
  ASSUME NEW s \in Seq(Byte)
  PROVE  Numbered(s) <=> \A i \in 1..Len(s) : s[i] = i
<1>1. s = [i \in 1..Len(s) |-> s[i]]
  OBVIOUS
<1>2. Numbered(s) => \A i \in 1..Len(s) : s[i] = i
  BY DEF Numbered
<1>3. (\A i \in 1..Len(s) : s[i] = i) => Numbered(s)
  BY <1>1 DEF Numbered
<1> QED
  BY <1>2, <1>3

(* What comes first of a numbered sequence is numbered.                    *)
LEMMA NumberedPrefix ==
  ASSUME NEW a \in Seq(Byte), NEW b \in Seq(Byte), Numbered(a \o b)
  PROVE  Numbered(a)
<1>1. Len(a) \in Nat /\ Len(b) \in Nat /\ Len(a \o b) = Len(a) + Len(b) /\ a \o b \in Seq(Byte)
  BY ConcatProperties
<1>2. \A i \in 1..Len(a) : (a \o b)[i] = a[i]
  BY <1>1, ConcatProperties
<1>3. \A i \in 1..Len(a) : (a \o b)[i] = i
  <2>1. \A i \in 1..Len(a \o b) : (a \o b)[i] = i
    BY <1>1, NumberedPlaces
  <2> QED
    BY <1>1, <2>1
<1> QED
  BY <1>2, <1>3, NumberedPlaces

(* What comes last of it goes on where the rest ends.                      *)
LEMMA NumberedRest ==
  ASSUME NEW a \in Seq(Byte), NEW b \in Seq(Byte), Numbered(a \o b)
  PROVE  b = [i \in 1..Len(b) |-> Len(a) + i]
<1>1. Len(a) \in Nat /\ Len(b) \in Nat /\ Len(a \o b) = Len(a) + Len(b) /\ a \o b \in Seq(Byte)
  BY ConcatProperties
<1>2. ASSUME NEW i \in 1..Len(b) PROVE b[i] = Len(a) + i
  <2>1. /\ Len(a) + i \in 1..Len(a \o b) /\ Len(a) + i > Len(a)
        /\ (Len(a) + i) - Len(a) = i
    BY <1>1
  <2>2. (a \o b)[Len(a) + i] = b[i]
    BY <1>1, <2>1, ConcatProperties
  <2>3. (a \o b)[Len(a) + i] = Len(a) + i
    BY <1>1, <2>1, NumberedPlaces
  <2> QED
    BY <2>2, <2>3
<1>3. b = [i \in 1..Len(b) |-> b[i]]
  OBVIOUS
<1> QED
  BY <1>2, <1>3

(* What is added to a numbered sequence goes on where it ends.             *)
LEMMA NumberedGrows ==
  ASSUME NEW a \in Seq(Byte), NEW b \in Seq(Byte), Numbered(a),
         b = [i \in 1..Len(b) |-> Len(a) + i]
  PROVE  Numbered(a \o b)
<1>1. Len(a) \in Nat /\ Len(b) \in Nat /\ Len(a \o b) = Len(a) + Len(b) /\ a \o b \in Seq(Byte)
  BY ConcatProperties
<1>2. \A i \in 1..Len(a \o b) : (a \o b)[i] = IF i <= Len(a) THEN a[i] ELSE b[i - Len(a)]
  BY <1>1, ConcatProperties
<1>3. \A i \in 1..Len(a) : a[i] = i
  BY DEF Numbered
<1>4. \A i \in 1..Len(b) : b[i] = Len(a) + i
  OBVIOUS
<1>5. ASSUME NEW i \in 1..Len(a \o b) PROVE (a \o b)[i] = i
  <2>1. CASE i <= Len(a)
    BY <1>1, <1>2, <1>3, <2>1
  <2>2. CASE i > Len(a)
    <3>1. i - Len(a) \in 1..Len(b) /\ Len(a) + (i - Len(a)) = i
      BY <1>1, <2>2
    <3>2. b[i - Len(a)] = i
      BY <1>4, <3>1
    <3> QED
      BY <1>1, <1>2, <2>2, <3>2
  <2> QED
    BY <1>1, <2>1, <2>2
<1> QED
  BY <1>1, <1>5, NumberedPlaces

(* What each step makes of the line.                                       *)
LEMMA NothingQueued ==
  /\ queue = <<>> => Queued = <<>>
  /\ queue' = <<>> => Queued' = <<>>
BY FlattenEmpty DEF Queued

LEMMA EnqueueExtends ==
  ASSUME TypeOK, RoomInv, Enqueue, call # 0, Allowed(call)
  PROVE  /\ Bytes(call) \in Seq(Byte) /\ Len(Bytes(call)) = call
         /\ Queued' = Queued \o Bytes(call) /\ Line' = Line \o Bytes(call)
         /\ Len(Queued') = Len(Queued) + call
<1>1. Bytes(call) \in Seq(Byte) /\ Len(Bytes(call)) = call
  BY BytesType DEF Enqueue, RoomInv, TypeOK, BytesOK
<1>2. queue' = Append(queue, Bytes(call)) /\ UNCHANGED <<written, chunk>>
  BY DEF Enqueue, writerVars, ttyVars
<1>3. Queued' = Queued \o Bytes(call)
  BY <1>1, <1>2, LineType, FlattenAppend DEF Queued
<1> DEFINE w == written \o chunk
           q == Queued
           b == Bytes(call)
<1>t. w \in Seq(Byte) /\ q \in Seq(Byte) /\ b \in Seq(Byte)
  BY <1>1, LineType
<1>4. Len(Queued') = Len(Queued) + call
  <2> HIDE DEF q, b
  <2>1. Len(q \o b) = Len(q) + Len(b)
    BY ONLY <1>t, ConcatLength
  <2> QED
    BY <1>1, <1>3, <2>1 DEF q, b
<1>5. w \o (q \o b) = (w \o q) \o b
  <2> HIDE DEF w, q, b
  <2> QED
    BY ONLY <1>t, ConcatRegroups
<1> QED
  BY <1>1, <1>2, <1>3, <1>4, <1>5 DEF Line

LEMMA DequeueKeeps ==
  ASSUME TypeOK, ChunkInv, Dequeue, queue # <<>>
  PROVE  /\ chunk = <<>> /\ Line' = Line
         /\ chunk' \in Seq(Byte) /\ Queued' \in Seq(Byte) /\ Len(Queued) = Len(chunk') + Len(Queued')
<1>1. chunk = <<>> /\ chunk' = Head(queue) /\ queue' = Tail(queue) /\ UNCHANGED written
  BY DEF Dequeue, ChunkInv, ttyVars
<1>2. chunk' \in Seq(Byte) /\ queue' \in Seq(Seq(Byte))
  BY <1>1, LineType, HeadTailProperties
<1>3. Queued' \in Seq(Byte)
  BY <1>2, FlattenType DEF Queued
<1>4. Queued = chunk' \o Queued'
  BY <1>1, LineType, FlattenHead DEF Queued
<1>5. Len(Queued) = Len(chunk') + Len(Queued')
  BY <1>2, <1>3, <1>4, ConcatProperties
<1>6. written \o <<>> = written
  BY LineType, ConcatEmptySeq
<1> DEFINE w == written
           a == chunk'
           q == Queued'
<1>7. (w \o a) \o q = w \o (a \o q)
  <2>1. w \in Seq(Byte) /\ a \in Seq(Byte) /\ q \in Seq(Byte)
    BY <1>2, <1>3, LineType
  <2> HIDE DEF w, a, q
  <2> QED
    BY ONLY <2>1, ConcatRegroups
<1> QED
  BY <1>1, <1>2, <1>3, <1>4, <1>5, <1>6, <1>7 DEF Line

LEMMA WriteMoves ==
  ASSUME TypeOK, WriteSome
  PROVE  /\ UNCHANGED <<queue, Queued>> /\ Line' = Line
         /\ \E n \in 1..Len(chunk) : /\ written' = written \o SubSeq(chunk, 1, n)
                                     /\ Len(written') = Len(written) + n /\ Len(chunk') = Len(chunk) - n
<1>1. PICK n \in 1..Min2(Len(chunk), PtyRoom - unread) :
        written' = written \o SubSeq(chunk, 1, n) /\ chunk' = SubSeq(chunk, n + 1, Len(chunk))
  BY DEF WriteSome
<1>2. n \in 1..Len(chunk)
  BY <1>1, LineType, SizeAssumption DEF Min2, TypeOK, BytesOK
<1>3. UNCHANGED <<queue, Queued>>
  BY DEF WriteSome, queueVars, Queued
<1> DEFINE a == SubSeq(chunk, 1, n)
           b == SubSeq(chunk, n + 1, Len(chunk))
<1>4. /\ a \in Seq(Byte) /\ Len(a) = n /\ b \in Seq(Byte) /\ Len(b) = Len(chunk) - n /\ a \o b = chunk
  BY <1>2, LineType, ChunkSplits
<1>5. written' = written \o a /\ chunk' = b
  BY <1>1
<1> HIDE DEF a, b
<1>6. (written \o a) \o b = written \o (a \o b)
  <2>1. written \in Seq(Byte) /\ a \in Seq(Byte) /\ b \in Seq(Byte)
    BY <1>4, LineType
  <2> QED
    BY ONLY <2>1, ConcatRegroups
<1>7. Len(written') = Len(written) + n
  BY <1>4, <1>5, LineType, ConcatProperties
<1>8. Line' = Line
  BY <1>3, <1>4, <1>5, <1>6 DEF Line
<1>9. written' = written \o SubSeq(chunk, 1, n)
  BY <1>1
<1> QED
  BY <1>2, <1>3, <1>4, <1>5, <1>7, <1>8, <1>9

(* Giving up the queue, and the chunk with it or not, cuts the line off.   *)
LEMMA DropCuts ==
  ASSUME TypeOK, queue' = <<>>, UNCHANGED written, chunk' = chunk \/ chunk' = <<>>
  PROVE  /\ Line' \in Seq(Byte) /\ Queued' = <<>>
         /\ \E rest \in Seq(Byte) : Line = Line' \o rest
         /\ Len(Line') = Len(written') + Len(chunk') /\ Len(Line') <= Len(Line)
<1>1. Queued' = <<>>
  BY NothingQueued
<1>2. CASE chunk' = chunk
  <2>1. (written \o chunk) \o <<>> = written \o chunk
    BY LineType, ConcatEmptySeq
  <2>2. Line' = written \o chunk
    BY <1>1, <1>2, <2>1 DEF Line
  <2>3. Line = Line' \o Queued
    BY <2>2 DEF Line
  <2>4. Len(Line') = Len(written) + Len(chunk) /\ Line' \in Seq(Byte)
    BY <2>2, LineType
  <2>5. \E rest \in Seq(Byte) : Line = Line' \o rest
    BY <2>3, LineType
  <2>6. Len(Line') = Len(written') + Len(chunk') /\ Len(Line') <= Len(Line)
    BY <1>2, <2>4, LineType
  <2> QED
    BY <1>1, <2>4, <2>5, <2>6
<1>3. CASE chunk' = <<>>
  <2>1. (written \o <<>>) \o <<>> = written
    BY LineType, ConcatEmptySeq
  <2>2. Line' = written
    BY <1>1, <1>3, <2>1 DEF Line
  <2>3. chunk \o Queued \in Seq(Byte)
    BY LineType, ConcatProperties
  <2>4. Line = Line' \o (chunk \o Queued)
    BY <2>2, LineType, ConcatAssociative DEF Line
  <2>5. Len(Line') = Len(written) /\ Line' \in Seq(Byte) /\ Len(chunk') = 0
    BY <1>3, <2>2, LineType
  <2>6. \E rest \in Seq(Byte) : Line = Line' \o rest
    BY <2>3, <2>4
  <2>7. Len(Line') = Len(written') + Len(chunk') /\ Len(Line') <= Len(Line)
    BY <2>5, LineType
  <2> QED
    BY <1>1, <2>5, <2>6, <2>7
<1> QED
  BY <1>2, <1>3

(***************************************************************************)
(* The line stays numbered                                                 *)
(***************************************************************************)
(* Steps that only move bytes along, or do not touch them at all.          *)
Moves ==
  /\ UNCHANGED <<accepted, Line>> /\ closed' = closed /\ failure' = failure
  /\ UNCHANGED written \/ WriteSome

(* Steps that cut the line off: from now on the queue is broken.           *)
Cuts ==
  /\ queue' = <<>> /\ (chunk' = chunk \/ chunk' = <<>>) /\ (closed' \/ failure')
  /\ UNCHANGED <<accepted, written>>

LEMMA LineSteps ==
  ASSUME TypeOK, RoomInv, QueueInv, ChunkInv, [Next]_vars
  PROVE  Moves \/ Cuts \/ (Enqueue /\ call # 0 /\ Allowed(call))
<1> USE DEF Moves, queueVars, writerVars, bufferVars, callVars, fdVars, ttyVars
<1>1. CASE UNCHANGED <<accepted, written, chunk, queue, closed, failure>>
  BY <1>1 DEF Line, Queued
<1>2. CASE WriteStarts \/ WriteChecked \/ AllocBuffer \/ TakeBuffer \/ GiveBack \/ FreeBuffer \/ Notify \/ NotifyAll
  BY <1>1, <1>2 DEF WriteStarts, WriteChecked, AllocBuffer, TakeBuffer, GiveBack, FreeBuffer, Notify, NotifyAll
<1>3. CASE Enqueue
  BY <1>1, <1>3 DEF Enqueue
<1>4. CASE CloseStarts \/ CloseStops \/ JoinReader \/ JoinWriter
  BY <1>1, <1>4 DEF CloseStarts, CloseStops, JoinReader, JoinWriter
<1>5. CASE CloseQueue
  BY <1>5 DEF CloseQueue, Cuts
<1>6. CASE Dequeue
  <2>1. CASE queue # <<>>
    BY <1>6, <2>1, DequeueKeeps DEF Dequeue
  <2>2. CASE queue = <<>>
    BY <1>1, <1>6, <2>2 DEF Dequeue
  <2> QED
    BY <2>1, <2>2
<1>7. CASE WriterTests
  <2>1. CASE closed
    BY <1>7, <2>1 DEF WriterTests, QueueInv, Cuts
  <2>2. CASE ~closed
    BY <1>1, <1>7, <2>2 DEF WriterTests
  <2> QED
    BY <2>1, <2>2
<1>8. CASE WriteSome
  BY <1>8, WriteMoves DEF WriteSome
<1>9. CASE WriterGuard \/ WriteWouldBlock \/ PollReturns \/ WriteFails \/ PostFailure
  BY <1>1, <1>9 DEF WriterGuard, WriteWouldBlock, PollReturns, WriteFails, PostFailure
<1>10. CASE RecordFailure
  BY <1>10 DEF RecordFailure, Cuts
<1>11. CASE ReaderStep \/ ChildReads \/ SlaveCloses \/ UNCHANGED vars
  BY <1>1, <1>11 DEF ReaderStep, ReaderStarts, ReaderEnds, ChildReads, SlaveCloses, vars
<1> QED
  BY <1>2, <1>3, <1>4, <1>5, <1>6, <1>7, <1>8, <1>9, <1>10, <1>11 DEF Next, CallStep, WriterStep

LEMMA LineStep == TypeOK /\ RoomInv /\ QueueInv /\ ChunkInv /\ LineInv /\ [Next]_vars => LineInv'
<1> SUFFICES ASSUME TypeOK, RoomInv, QueueInv, ChunkInv, LineInv, [Next]_vars PROVE LineInv'
  OBVIOUS
<1>1. CASE Moves
  BY <1>1 DEF Moves, LineInv, Numbered
<1>2. CASE Cuts
  <2>1. /\ Line' \in Seq(Byte) /\ Len(Line') <= Len(Line)
        /\ \E rest \in Seq(Byte) : Line = Line' \o rest
    BY <1>2, DropCuts DEF Cuts
  <2>2. PICK rest \in Seq(Byte) : Line = Line' \o rest
    BY <2>1
  <2>3. Numbered(Line')
    BY <2>1, <2>2, NumberedPrefix DEF LineInv
  <2>4. Len(Line') <= accepted' /\ (closed' \/ failure')
    <3>1. Len(Line') \in Nat /\ Len(Line) \in Nat /\ accepted \in Nat /\ accepted' = accepted
      BY <1>2, <2>1, LineType DEF Cuts, TypeOK, BytesOK
    <3> QED
      BY <1>2, <2>1, <3>1 DEF Cuts, LineInv
  <2> QED
    BY <2>3, <2>4 DEF LineInv, Numbered
<1>3. CASE Enqueue /\ call # 0 /\ Allowed(call)
  <2>1. /\ Bytes(call) \in Seq(Byte) /\ Len(Bytes(call)) = call /\ Line' = Line \o Bytes(call)
        /\ Line \in Seq(Byte)
    BY <1>3, EnqueueExtends, LineType
  <2>2. Len(Line) = accepted /\ Numbered(Line) /\ accepted \in Nat /\ call \in Nat
    BY <1>3 DEF LineInv, Allowed, TypeOK, BytesOK
  <2>3. Bytes(call) = [i \in 1..Len(Bytes(call)) |-> Len(Line) + i]
    BY <2>1, <2>2 DEF Bytes
  <2>4. Numbered(Line \o Bytes(call))
    BY <2>1, <2>2, <2>3, NumberedGrows
  <2>5. Len(Line \o Bytes(call)) = accepted + call
    BY <2>1, <2>2, ConcatProperties
  <2>6. accepted' = accepted + call
    BY <1>3 DEF Enqueue
  <2>7. Len(Line') = accepted' /\ accepted' \in Nat
    BY <2>1, <2>2, <2>5, <2>6
  <2> QED
    BY <2>1, <2>4, <2>7 DEF LineInv, Numbered
<1> QED
  BY <1>1, <1>2, <1>3, LineSteps

(* The count is the size of the queue, and within the limit.               *)
LEMMA BoundStep == TypeOK /\ RoomInv /\ ChunkInv /\ QueueBounded /\ [Next]_vars => QueueBounded'
<1> SUFFICES ASSUME TypeOK, RoomInv, ChunkInv, QueueBounded, [Next]_vars PROVE QueueBounded'
  OBVIOUS
<1> USE DEF QueueBounded, queueVars, writerVars, bufferVars, callVars, fdVars, ttyVars
<1>1. CASE UNCHANGED <<queue, queuedBytes>>
  BY <1>1 DEF Queued
<1>2. CASE queue' = <<>> /\ queuedBytes' = 0
  <2>1. Queued' = <<>> /\ Len(<<>>) = 0
    BY <1>2, NothingQueued
  <2> QED
    BY <1>2, <2>1, SizeAssumption
<1>3. CASE WriteStarts \/ WriteChecked \/ AllocBuffer \/ TakeBuffer \/ GiveBack \/ FreeBuffer \/ Notify \/ NotifyAll
  BY <1>1, <1>3 DEF WriteStarts, WriteChecked, AllocBuffer, TakeBuffer, GiveBack, FreeBuffer, Notify, NotifyAll
<1>4. CASE Enqueue
  <2>1. CASE call # 0 /\ Allowed(call)
    <3>1. Len(Queued') = Len(Queued) + call
      BY <1>4, <2>1, EnqueueExtends
    <3> QED
      BY <1>4, <2>1, <3>1 DEF Enqueue, Allowed
  <2>2. CASE ~(call # 0 /\ Allowed(call))
    BY <1>1, <1>4, <2>2 DEF Enqueue
  <2> QED
    BY <2>1, <2>2
<1>5. CASE CloseStarts \/ CloseStops \/ CloseQueue \/ JoinReader \/ JoinWriter
  BY <1>1, <1>2, <1>5 DEF CloseStarts, CloseStops, CloseQueue, JoinReader, JoinWriter
<1>6. CASE Dequeue
  <2>1. CASE queue # <<>>
    <3>1. /\ Len(Queued) = Len(chunk') + Len(Queued')
          /\ Len(chunk') \in Nat /\ Len(Queued') \in Nat
      BY <1>6, <2>1, DequeueKeeps
    <3>2. queuedBytes' = SaturatingSub(queuedBytes, Len(chunk'))
      BY <1>6, <2>1 DEF Dequeue
    <3>3. queuedBytes' = Len(Queued')
      BY <3>1, <3>2 DEF SaturatingSub
    <3> QED
      BY <3>1, <3>3, SizeAssumption
  <2>2. CASE queue = <<>>
    BY <1>1, <1>6, <2>2 DEF Dequeue
  <2> QED
    BY <2>1, <2>2
<1>7. CASE WriterGuard \/ WriterTests \/ WriteSome \/ WriteWouldBlock \/ PollReturns \/ WriteFails \/ PostFailure
  BY <1>1, <1>7 DEF WriterGuard, WriterTests, WriteSome, WriteWouldBlock, PollReturns, WriteFails, PostFailure
<1>8. CASE RecordFailure
  BY <1>2, <1>8 DEF RecordFailure
<1>9. CASE ReaderStep \/ ChildReads \/ SlaveCloses \/ UNCHANGED vars
  BY <1>1, <1>9 DEF ReaderStep, ReaderStarts, ReaderEnds, ChildReads, SlaveCloses, vars
<1> QED
  BY <1>3, <1>4, <1>5, <1>6, <1>7, <1>8, <1>9 DEF Next, CallStep, WriterStep

(***************************************************************************)
(* The invariant                                                           *)
(***************************************************************************)
LEMMA InitInv == Init => IInv
<1> SUFFICES ASSUME Init PROVE IInv
  OBVIOUS
<1> USE DEF Init
<1>1. TypeOK
  <2>1. FlagsOK /\ StagesOK
    BY DEF FlagsOK, StagesOK
  <2>2. <<>> \in Seq(1..MaxAccepted) /\ <<>> \in Seq(Seq(1..MaxAccepted))
    OBVIOUS
  <2>3. queue \in Seq(Seq(1..MaxAccepted)) /\ chunk \in Seq(1..MaxAccepted) /\ written \in Seq(1..MaxAccepted)
    BY <2>2, Zenon
  <2>4. BytesOK
    BY <2>3, SizeAssumption DEF BytesOK
  <2> QED
    BY <2>1, <2>4 DEF TypeOK
<1>2. RoomInv /\ QueueInv /\ ChunkInv /\ ErrorInv /\ BufferInv
  BY DEF RoomInv, QueueInv, ChunkInv, ErrorInv, BufferInv
<1>3. Queued = <<>> /\ Len(<<>>) = 0
  BY NothingQueued
<1>4. QueueBounded
  BY <1>3, SizeAssumption DEF QueueBounded
<1>5. LineInv
  <2>1. Line \in Seq(Byte) /\ Len(Line) = 0
    BY <1>1, <1>3, LineType
  <2>2. \A i \in 1..Len(Line) : Line[i] = i
    BY <2>1
  <2>3. Numbered(Line)
    BY <2>1, <2>2, NumberedPlaces
  <2> QED
    BY <2>1, <2>3 DEF LineInv
<1> QED
  BY <1>1, <1>2, <1>4, <1>5 DEF IInv

LEMMA StepInv == IInv /\ [Next]_vars => IInv'
BY TypeStep, RoomStep, QueueStep, ChunkStep, ErrorStep, BufferStep, LineStep, BoundStep DEF IInv

(* The invariant is one of every behaviour.                                *)
THEOREM Inductive == Spec => []IInv
BY InitInv, StepInv, PTL DEF Spec

(* Every variable of the write queue keeps its type.                       *)
THEOREM TypeCorrect == Spec => []TypeOK
<1>1. IInv => TypeOK
  BY DEF IInv
<1> QED
  BY <1>1, Inductive, PTL

(* Bytes are written in the order they were accepted, each of them once,   *)
(* and none is missing while the queue works.                              *)
THEOREM OrderKept == Spec => []BytesInOrder
<1>1. IInv => BytesInOrder
  BY DEF IInv, LineInv, Line, Numbered, BytesInOrder
<1> QED
  BY <1>1, Inductive, PTL

(* queued_bytes is the size of the queue, and never over the limit.        *)
THEOREM QueueWithinLimit == Spec => []QueueBounded
<1>1. IInv => QueueBounded
  BY DEF IInv
<1> QED
  BY <1>1, Inductive, PTL

(* No chunk is queued for a writer that has given up.                      *)
THEOREM NothingStranded == Spec => []NoChunkStranded
<1>1. IInv => NoChunkStranded
  BY DEF IInv, QueueInv, NoChunkStranded
<1> QED
  BY <1>1, Inductive, PTL

(* A buffer is freed once, by the caller or with the chunk.                *)
THEOREM BufferOwned == Spec => []BufferFreedOnce
<1>1. IInv => BufferFreedOnce
  BY DEF IInv, BufferInv, BufferFreedOnce
<1> QED
  BY <1>1, Inductive, PTL

(* The writer ends by close, or with exactly one error posted.             *)
THEOREM WriterIsHeard == Spec => []WriterEndsLoudly
<1>1. IInv => WriterEndsLoudly
  BY DEF IInv, QueueInv, ErrorInv, WriterEndsLoudly, TypeOK, FlagsOK
<1> QED
  BY <1>1, Inductive, PTL

(***************************************************************************)
(* The queue and its writer are a BytePipe                                 *)
(***************************************************************************)
LEMMA PipeInit == Init => Pipe!Init
<1> SUFFICES ASSUME Init PROVE Pipe!Init
  OBVIOUS
<1>1. Queued = <<>> /\ written = <<>> /\ chunk = <<>> /\ accepted = 0 /\ Len(<<>>) = 0
  BY NothingQueued DEF Init
<1>2. accepted - Len(written) - Len(chunk) - Len(Queued) = 0
  <2>1. Len(written) = 0 /\ Len(chunk) = 0 /\ Len(Queued) = 0 /\ accepted = 0
    BY <1>1, Zenon
  <2> QED
    BY <2>1
<1>3. (closed \/ failure) = FALSE
  BY DEF Init
<1> QED
  BY <1>1, <1>2, <1>3 DEF Pipe!Init

(* The bytes given up are those that the line lacks.                       *)
Lost == accepted - Len(written) - Len(chunk) - Len(Queued)

LEMMA PipeStep == IInv /\ IInv' /\ [Next]_vars => [Pipe!Next]_(Pipe!pipeVars)
<1> SUFFICES ASSUME IInv, IInv', [Next]_vars PROVE [Pipe!Next]_(Pipe!pipeVars)
  OBVIOUS
<1>1. /\ Len(written) \in Nat /\ Len(chunk) \in Nat /\ Len(Queued) \in Nat /\ accepted \in Nat
      /\ Len(Line) = Len(written) + Len(chunk) + Len(Queued) /\ Len(Line) <= accepted
      /\ Lost \in Nat /\ Lost = accepted - Len(Line)
  <2>1. TypeOK /\ Len(Line) <= accepted /\ accepted \in Nat
    BY DEF IInv, LineInv, TypeOK, BytesOK
  <2>2. /\ Len(written) \in Nat /\ Len(chunk) \in Nat /\ Len(Queued) \in Nat
        /\ Len(Line) = Len(written) + Len(chunk) + Len(Queued)
    BY <2>1, LineType
  <2> QED
    BY <2>1, <2>2 DEF Lost
<1>2. /\ Len(written') \in Nat /\ Len(chunk') \in Nat /\ Len(Queued') \in Nat /\ accepted' \in Nat
      /\ Len(Line') = Len(written') + Len(chunk') + Len(Queued') /\ Len(Line') <= accepted'
      /\ Lost' \in Nat /\ Lost' = accepted' - Len(Line')
  <2>1. TypeOK' /\ Len(Line') <= accepted' /\ accepted' \in Nat
    BY DEF IInv, LineInv, TypeOK, BytesOK
  <2>2. /\ Len(written') \in Nat /\ Len(chunk') \in Nat /\ Len(Queued') \in Nat
        /\ Len(Line') = Len(written') + Len(chunk') + Len(Queued')
    BY <2>1, LineTypeNext
  <2> QED
    BY <2>1, <2>2 DEF Lost
<1>3. TypeOK /\ RoomInv /\ QueueInv /\ ChunkInv /\ LineInv
  BY DEF IInv
<1>4. CASE Moves /\ UNCHANGED written
  <2>1. Lost' = Lost /\ UNCHANGED <<accepted, written>> /\ (closed \/ failure)' = (closed \/ failure)
    BY <1>1, <1>2, <1>4 DEF Moves
  <2> QED
    BY <2>1 DEF Pipe!pipeVars, Lost
<1>5. CASE Moves /\ WriteSome
  <2>1. Lost' = Lost /\ UNCHANGED accepted /\ (closed \/ failure)' = (closed \/ failure)
    BY <1>1, <1>2, <1>5 DEF Moves
  <2>2. PICK n \in 1..Len(chunk) : written' = written \o SubSeq(chunk, 1, n)
    BY <1>3, <1>5, WriteMoves
  <2> DEFINE a == SubSeq(chunk, 1, n)
  <2>3. a \in Seq(Byte) /\ Len(a) = n /\ written \in Seq(Byte)
    BY <1>3, LineType, ChunkSplits
  <2>4. Numbered(written')
    <3>1. written' \in Seq(Byte) /\ chunk' \in Seq(Byte) /\ Queued' \in Seq(Byte) /\ Numbered(Line')
      BY LineTypeNext DEF IInv, LineInv, Numbered
    <3> DEFINE w == written'
               c == chunk'
               q == Queued'
    <3>2. w \in Seq(Byte) /\ c \in Seq(Byte) /\ q \in Seq(Byte) /\ Numbered((w \o c) \o q)
      BY <3>1 DEF Line
    <3> HIDE DEF w, c, q
    <3>3. w \o c \in Seq(Byte)
      BY ONLY <3>2, ConcatLength
    <3>4. Numbered(w \o c)
      BY ONLY <3>2, <3>3, NumberedPrefix
    <3>5. Numbered(w)
      BY ONLY <3>2, <3>4, NumberedPrefix
    <3> QED
      BY <3>5 DEF w
  <2>5. a = [i \in 1..n |-> Len(written) + i]
    <3> HIDE DEF a
    <3> QED
      BY <2>2, <2>3, <2>4, NumberedRest DEF a
  <2>6. n \in 1..(accepted - Lost - Len(written)) /\ Len(written) + Lost < accepted
    BY <1>1
  <2>7. written' = written \o [i \in 1..n |-> Len(written) + i]
    BY <2>2, <2>5
  <2> QED
    BY <2>1, <2>6, <2>7 DEF Pipe!Next, Pipe!Deliver, Lost
<1>6. CASE Cuts
  <2>1. Len(Line') = Len(written') + Len(chunk') /\ Len(Line') <= Len(Line) /\ UNCHANGED <<accepted, written>>
    BY <1>3, <1>6, DropCuts DEF Cuts
  <2>2. Lost' \in Lost..(accepted - Len(written))
    BY <1>1, <1>2, <2>1
  <2>3. (closed \/ failure)' = TRUE
    BY <1>6 DEF Cuts, IInv, TypeOK, FlagsOK
  <2> QED
    BY <2>1, <2>2, <2>3 DEF Pipe!Next, Pipe!Break, Lost
<1>7. CASE Enqueue /\ call # 0 /\ Allowed(call)
  <2>1. /\ accepted' = accepted + call /\ call \in Nat /\ UNCHANGED <<written, chunk, closed, failure>>
        /\ ~closed /\ ~failure
    BY <1>3, <1>7 DEF Enqueue, writerVars, ttyVars, Allowed, TypeOK, BytesOK
  <2>2. Len(Queued') = Len(Queued) + call
    BY <1>3, <1>7, EnqueueExtends
  <2>3. accepted' \in Nat /\ accepted' > accepted /\ Lost' = Lost
    BY <1>1, <1>2, <1>7, <2>1, <2>2 DEF Lost
  <2>4. (closed \/ failure)' = (closed \/ failure)
    BY <2>1
  <2> QED
    BY <2>1, <2>3, <2>4 DEF Pipe!Next, Pipe!Accept, Lost
<1> QED
  BY <1>3, <1>4, <1>5, <1>6, <1>7, LineSteps DEF Moves

(* What a caller sees of the queue, of its writer and of the terminal is a *)
(* BytePipe: whatever a step does, it accepts bytes, delivers the next     *)
(* ones, or breaks.                                                        *)
THEOREM PipeImplemented == Spec => ImplementsBytePipe
BY Inductive, PipeInit, PipeStep, PTL DEF Spec, ImplementsBytePipe, Pipe!Spec
=============================================================================
