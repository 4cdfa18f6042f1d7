------------------------- MODULE OutputFlow_proofs -------------------------
(***************************************************************************)
(* What holds of the output path for every batch size, read size, window   *)
(* and stream: types, the integrity of the stream, the exactness and the   *)
(* bound of the in-flight counter, the size of batches, the bound of what  *)
(* waits for the listener, the bytes of the external peers, and that the   *)
(* listener's view implements OutputStream.                                *)
(*                                                                         *)
(* The invariant is IInv of OutputFlow.  Each of its parts is preserved by *)
(* a step lemma that names only the parts it rests on:                     *)
(*   InboxInv needs PortInv; StreamIntact needs both, ListenerInv and      *)
(*   DataInv; AckInv needs the stream; the counter needs the acks; the     *)
(*   window needs BatchInv and CreditInv; the backlog needs the window,    *)
(*   the stream and the acks; a new peer ends beyond the others because    *)
(*   the stream only grows; the end needs the stream and DataInv.          *)
(* A step lemma treats the steps that leave its variables alone together,  *)
(* and each of the others by itself.                                       *)
(***************************************************************************)
EXTENDS OutputFlow, DataInduction, TLAPS

(* A message is a chunk.                                                   *)
LEMMA MessageFields ==
  ASSUME NEW m \in Message
  PROVE  m.lo \in Nat /\ m.hi \in Nat /\ m.lo <= m.hi
BY DEF Message

(* What the reader posts and the isolate adds are messages.                *)
LEMMA MessageMade ==
  /\ \A c \in Chunk, ext \in BOOLEAN : OutputMessage(c, ext) \in Message
  /\ \A k \in {"closed", "error"}, n \in Nat : ControlMessage(k, n) \in Message
BY DEF Chunk, Message, OutputMessage, ControlMessage

(* Queues of messages keep their type.                                     *)
LEMMA QueueTypes ==
  ASSUME NEW s \in Seq(Message)
  PROVE  /\ \A m \in Message : Append(s, m) \in Seq(Message)
         /\ s # <<>> => Head(s) \in Message /\ Tail(s) \in Seq(Message)
                          /\ s[Len(s)] \in Message
OBVIOUS

(* A round of append() takes at least one byte and no more than there are. *)
LEMMA TakeBounds ==
  ASSUME TypeOK, Size(data) > 0
  PROVE  Take \in Nat /\ 0 < Take /\ Take <= Size(data)
BY SizeAssumption DEF TypeOK, BytesOK, Chunk, Size, Take

(* The place up to which the controller has been fed is a natural number.  *)
LEMMA BufferEndType ==
  ASSUME TypeOK
  PROVE  BufferEnd \in Nat
BY QueueTypes, MessageFields DEF TypeOK, BytesOK, BufferEnd

(* An acknowledgement leaves both counters natural numbers.                *)
LEMMA AckTypes ==
  ASSUME NEW n \in Nat, acked \in Nat, inflight \in Nat, Ack(n)
  PROVE  acked' \in Nat /\ inflight' \in Nat
<1>1. inflight' = inflight \/ (inflight > n /\ inflight' = inflight - n) \/ inflight' = 0
  BY DEF Ack, AckOutput
<1>2. acked' = acked + n
  BY Zenon DEF Ack
<1>. QED BY ONLY <1>1, <1>2, n \in Nat, acked \in Nat, inflight \in Nat

(* A chain grows at its end by a chunk that starts where it ends.          *)
LEMMA ChainedAppend ==
  ASSUME NEW a \in Nat, NEW s \in Seq(Message), NEW m \in Message,
         Chained(a, s, m.lo), m.lo <= m.hi
  PROVE  Chained(a, Append(s, m), m.hi)
<1> DEFINE t == Append(s, m)
<1>1. t \in Seq(Message) /\ Len(t) = Len(s) + 1 /\ t # <<>> /\ DOMAIN t = 1..(Len(s) + 1)
  OBVIOUS
<1>2. \A i \in 1..Len(s) : t[i] = s[i] /\ s[i] \in Message
  OBVIOUS
<1>3. t[Len(s) + 1] = m
  OBVIOUS
<1>4. m.lo \in Nat /\ m.hi \in Nat
  BY MessageFields
<1>5. \A i \in 1..Len(s) : s[i].lo \in Nat /\ s[i].hi \in Nat
  BY <1>2, MessageFields
<1>10. a <= m.lo
  <2>1. CASE s = <<>>
    BY <2>1 DEF Chained
  <2>2. CASE s # <<>>
    <3>1. 1 \in DOMAIN s /\ Len(s) \in DOMAIN s
      BY <2>2
    <3>. QED BY <3>1, <2>2, <1>4, <1>5 DEF Chained
  <2>. QED BY <2>1, <2>2
<1>6. t[1].lo = a
  BY <1>2, <1>3 DEF Chained
<1>7. \A i \in DOMAIN t : a <= t[i].lo /\ t[i].lo <= t[i].hi /\ t[i].hi <= m.hi
  BY <1>10, <1>1, <1>2, <1>3, <1>4, <1>5 DEF Chained
<1>8. \A i, j \in DOMAIN t : i < j => t[i].hi <= t[j].lo
  <2>1. SUFFICES ASSUME NEW i \in 1..Len(t), NEW j \in 1..Len(t), i < j
                 PROVE t[i].hi <= t[j].lo
    BY <1>1
  <2>2. i \in 1..Len(s) /\ t[i] = s[i]
    BY <2>1, <1>1, <1>2
  <2>3. CASE j = Len(s) + 1
    <3>1. t[j] = m /\ s[i].hi <= m.lo
      BY <2>2, <2>3, <1>3, <1>5 DEF Chained
    <3>. QED BY <2>2, <3>1
  <2>4. CASE j # Len(s) + 1
    <3>1. j \in 1..Len(s) /\ t[j] = s[j]
      BY <2>1, <2>4, <1>1, <1>2
    <3>2. s[i].hi <= s[j].lo
      BY <2>1, <2>2, <3>1 DEF Chained
    <3>. QED BY <2>2, <3>1, <3>2
  <2>. QED BY <2>3, <2>4
<1>9. \A i \in DOMAIN t : i < Len(t) => t[i].hi = t[i + 1].lo
  <2>1. SUFFICES ASSUME NEW i \in 1..Len(t), i < Len(t)
                 PROVE t[i].hi = t[i + 1].lo
    BY <1>1
  <2>2. i \in 1..Len(s) /\ t[i] = s[i]
    BY <2>1, <1>1, <1>2
  <2>3. CASE i = Len(s)
    <3>1. t[i + 1] = m /\ s[i].hi = m.lo
      BY <2>2, <2>3, <1>3 DEF Chained
    <3>. QED BY <2>2, <3>1
  <2>4. CASE i # Len(s)
    <3>1. i + 1 \in 1..Len(s) /\ t[i + 1] = s[i + 1]
      BY <2>2, <2>4, <1>2
    <3>2. s[i].hi = s[i + 1].lo
      BY <2>2, <2>4, <3>1 DEF Chained
    <3>. QED BY <2>2, <3>1, <3>2
  <2>. QED BY <2>3, <2>4
<1>. QED BY <1>1, <1>3, <1>6, <1>7, <1>8, <1>9 DEF Chained

(* A chain loses its first chunk and starts where that one ended.          *)
LEMMA ChainedTail ==
  ASSUME NEW a \in Nat, NEW s \in Seq(Message), NEW b \in Nat,
         Chained(a, s, b), s # <<>>
  PROVE  /\ Head(s).lo = a /\ a <= Head(s).hi /\ Head(s).hi <= b
         /\ Chained(Head(s).hi, Tail(s), b)
<1> DEFINE t == Tail(s)
<1>1. /\ Head(s) = s[1] /\ s[1] \in Message /\ t \in Seq(Message)
      /\ Len(s) >= 1 /\ Len(t) = Len(s) - 1 /\ DOMAIN t = 1..(Len(s) - 1) /\ DOMAIN s = 1..Len(s)
  OBVIOUS
<1>2. \A i \in DOMAIN t : t[i] = s[i + 1] /\ i + 1 \in DOMAIN s
  OBVIOUS
<1>3. \A i \in DOMAIN s : s[i] \in Message /\ s[i].lo \in Nat /\ s[i].hi \in Nat
  BY MessageFields
<1>4. Head(s).lo = a /\ a <= Head(s).hi /\ Head(s).hi <= b
  BY <1>1, <1>3 DEF Chained
<1>5. CASE t = <<>>
  BY <1>1, <1>4, <1>5 DEF Chained
<1>6. CASE t # <<>>
  <2>1. Len(s) >= 2 /\ t[1] = s[2] /\ t[Len(t)] = s[Len(s)]
    BY <1>1, <1>2, <1>6
  <2>2. t[1].lo = s[1].hi /\ t[Len(t)].hi = b
    BY <2>1, <1>1, <1>3 DEF Chained
  <2>3. \A i \in DOMAIN t : s[1].hi <= t[i].lo /\ t[i].lo <= t[i].hi /\ t[i].hi <= b
    BY <1>1, <1>2, <1>3 DEF Chained
  <2>4. \A i, j \in DOMAIN t : i < j => t[i].hi <= t[j].lo
    BY <1>1, <1>2, <1>3 DEF Chained
  <2>5. \A i \in DOMAIN t : i < Len(t) => t[i].hi = t[i + 1].lo
    BY <1>1, <1>2, <1>3 DEF Chained
  <2>. QED BY <1>1, <1>4, <1>6, <2>2, <2>3, <2>4, <2>5 DEF Chained
<1>. QED BY <1>4, <1>5, <1>6

(* The flags stay flags.                                                   *)
LEMMA FlagsStep ==
  ASSUME TypeOK, [Next]_vars
  PROVE  FlagsOK'
<1> USE DEF TypeOK, FlagsOK, dartVars, ptyVars, bufferVars, sharedVars, portVars
<1>1. CASE (FlushBegins \/ CheckCapacity \/ EnterWait \/ WaitTimesOut \/
         ReserveInflight \/ PostBatch \/ PostFails \/ ReleaseInflight \/
         AppendRound \/ AppendReturns \/ ReaderStarts \/ LoopTop \/
         ReadData \/ ReadWouldBlock \/ ReadEof \/ PollReady \/
         PollTimesOut \/ PostError \/ ClosePorts \/ ChildWrites \/
         SlaveCloses \/ ReadFails \/ DelayElapses) /\ UNCHANGED dartVars
  BY <1>1, Zenon DEF FlushBegins, ReturnFromFlush, CheckCapacity, EnterWait, WaitTimesOut,
     ReserveInflight, PostBatch, Post, PostFails, ReleaseInflight,
     AppendRound, EnterFlush, AppendReturns, ReaderStarts, LoopTop, ReadData,
     ReadWouldBlock, ReadEof, PollReady, PollTimesOut, PostError, ClosePorts,
     ChildWrites, SlaveCloses, ReadFails, DelayElapses
<1>2. CASE HandleOutput \/ HandleClosed \/ HandleError \/ FlushAck \/
         FlushEnds \/ Deliver \/ StopRuntime \/ NotifyReader \/
         CloseReturns \/ Listen \/ Pause \/ Resume \/ Cancel \/ Close \/
         IsolateExits
  BY <1>2, Zenon DEF HandleOutput, TakeMessage, Ack, AckOutput, Notify, HandleClosed,
     HandleError, FlushAck, Untouched, FlushEnds, NativeUnchanged,
     readerVars, Deliver, Alive, DeliveryScheduled, StartFlush, StopRuntime,
     NotifyReader, CloseReturns, Listen, Pause, Resume, Cancel, Close,
     IsolateExits
<1>3. CASE Finalize
  BY <1>3, Zenon DEF Finalize
<1>4. CASE UNCHANGED vars
  BY <1>4, Zenon DEF vars, readerVars
<1>. QED
  BY <1>1, <1>2, <1>3, <1>4
     DEF Next, PtyStep, NativeStep, IsolateStep, UserStep

(* Each thread stays at one of its stages.                                 *)
LEMMA StagesStep ==
  ASSUME TypeOK, [Next]_vars
  PROVE  StagesOK'
<1> USE DEF TypeOK, FlagsOK, StagesOK, dartVars, ptyVars, bufferVars,
        sharedVars, portVars
<1>1. CASE (FlushBegins \/ CheckCapacity \/ EnterWait \/ WaitTimesOut \/
         ReserveInflight \/ PostBatch \/ PostFails \/ ReleaseInflight \/
         AppendRound \/ AppendReturns \/ ReaderStarts \/ LoopTop \/
         ReadData \/ ReadWouldBlock \/ ReadEof \/ PollReady \/
         PollTimesOut \/ PostError \/ ClosePorts \/ ChildWrites \/
         SlaveCloses \/ ReadFails \/ DelayElapses) /\ UNCHANGED dartVars
  BY <1>1 DEF FlushBegins, ReturnFromFlush, CheckCapacity, EnterWait, WaitTimesOut,
     ReserveInflight, PostBatch, Post, PostFails, ReleaseInflight,
     AppendRound, EnterFlush, AppendReturns, ReaderStarts, LoopTop, ReadData,
     ReadWouldBlock, ReadEof, PollReady, PollTimesOut, PostError, ClosePorts,
     ChildWrites, SlaveCloses, ReadFails, DelayElapses
<1>2. CASE HandleOutput \/ HandleClosed \/ HandleError \/ FlushAck \/
         FlushEnds \/ Deliver \/ StopRuntime \/ NotifyReader \/
         CloseReturns \/ Listen \/ Pause \/ Resume \/ Cancel \/ Close \/
         IsolateExits
  BY <1>2 DEF HandleOutput, TakeMessage, Ack, AckOutput, Notify, HandleClosed,
     HandleError, FlushAck, Untouched, FlushEnds, NativeUnchanged,
     readerVars, Deliver, Alive, DeliveryScheduled, StartFlush, StopRuntime,
     NotifyReader, CloseReturns, Listen, Pause, Resume, Cancel, Close,
     IsolateExits
<1>3. CASE Finalize
  BY <1>3 DEF Finalize
<1>4. CASE UNCHANGED vars
  BY <1>4 DEF vars, readerVars
<1>. QED
  BY <1>1, <1>2, <1>3, <1>4
     DEF Next, PtyStep, NativeStep, IsolateStep, UserStep

(* Chunks stay chunks and counters natural numbers.                        *)
LEMMA BytesStep ==
  ASSUME TypeOK, [Next]_vars
  PROVE  BytesOK'
<1> USE SizeAssumption DEF TypeOK, FlagsOK, StagesOK, BytesOK, Chunk, EmptyAt,
        Size, Extend, dartVars, ptyVars, bufferVars, sharedVars, portVars
<1>1. CASE (FlushBegins \/ CheckCapacity \/ EnterWait \/ WaitTimesOut \/
         PostFails \/ AppendReturns \/ ReaderStarts \/ LoopTop \/
         ReadWouldBlock \/ ReadEof \/ PollReady \/ PollTimesOut \/
         SlaveCloses \/ ReadFails \/ DelayElapses) /\ UNCHANGED dartVars
  BY <1>1 DEF FlushBegins, ReturnFromFlush, CheckCapacity, EnterWait, WaitTimesOut,
     PostFails, AppendReturns, EnterFlush, ReaderStarts, LoopTop,
     ReadWouldBlock, ReadEof, PollReady, PollTimesOut, SlaveCloses,
     ReadFails, DelayElapses
<1>2. CASE ReserveInflight /\ UNCHANGED dartVars
  BY <1>2 DEF ReserveInflight
<1>3. CASE PostBatch /\ UNCHANGED dartVars
  <2> DEFINE m == OutputMessage(batch, ExternalFits(Size(batch)))
  <2>1. ExternalFits(Size(batch)) \in BOOLEAN
    BY DEF ExternalFits
  <2>2. m \in Message
    BY <2>1, MessageMade, Zenon
  <2>3. m.lo \in Nat /\ m.hi \in Nat /\ Append(inbox, m) \in Seq(Message)
    BY <2>2, MessageFields, QueueTypes
  <2>4. inbox' \in Seq(Message) /\ peers' \subseteq Message /\ externalBytes' \in Int
    BY <1>3, <2>2, <2>3 DEF PostBatch, Post
  <2>. QED BY <1>3, <2>4 DEF PostBatch
<1>4. CASE ReleaseInflight /\ UNCHANGED dartVars
  BY <1>4 DEF ReleaseInflight
<1>5. CASE AppendRound /\ UNCHANGED dartVars
  <2>1. Size(data) > 0
    BY <1>5 DEF AppendRound
  <2>2. PICK t \in Nat : t = Take /\ 0 < t /\ t <= Size(data)
    BY <2>1, TakeBounds
  <2>3. batch' = [batch EXCEPT !.hi = @ + t] /\ data' = [data EXCEPT !.lo = @ + t]
    BY <1>5, <2>2 DEF AppendRound
  <2>4. /\ batch' = [lo |-> batch.lo, hi |-> batch.hi + t]
        /\ data' = [lo |-> data.lo + t, hi |-> data.hi]
    BY <2>3
  <2>5. batch' \in Chunk /\ data' \in Chunk
    <3>1. batch.lo \in Nat /\ batch.hi \in Nat /\ batch.lo <= batch.hi
            /\ data.lo \in Nat /\ data.hi \in Nat /\ t <= data.hi - data.lo
      BY <2>2
    <3>. QED BY <2>4, <3>1
  <2>. QED BY <1>5, <2>5 DEF AppendRound
<1>6. CASE ReadData /\ UNCHANGED dartVars
  BY <1>6 DEF ReadData
<1>7. CASE PostError /\ UNCHANGED dartVars
  <2>1. ControlMessage("error", batch.lo) \in Message
    BY MessageMade
  <2>. QED BY <1>7, <2>1, QueueTypes DEF PostError, Post
<1>8. CASE ClosePorts /\ UNCHANGED dartVars
  <2>1. ControlMessage("closed", batch.lo) \in Message
    BY MessageMade
  <2>. QED BY <1>8, <2>1, QueueTypes DEF ClosePorts, Post
<1>9. CASE ChildWrites /\ UNCHANGED dartVars
  BY <1>9 DEF ChildWrites
<1>10. CASE FlushEnds \/ StopRuntime \/ NotifyReader \/ Listen \/ Pause \/
         Resume \/ Close
  BY <1>10 DEF FlushEnds, NativeUnchanged, readerVars, StopRuntime, NotifyReader,
     Notify, Untouched, Listen, Alive, StartFlush, Pause, Resume, Close
<1>11. CASE HandleOutput
  <2>1. inbox # <<>> /\ inbox' = Tail(inbox)
    BY <1>11 DEF HandleOutput, TakeMessage
  <2>2. Head(inbox) \in Message /\ Head(inbox).lo \in Nat /\ Head(inbox).hi \in Nat
          /\ Head(inbox).lo <= Head(inbox).hi /\ inbox' \in Seq(Message)
    BY <2>1, QueueTypes, MessageFields
  <2>3. buffer' \in Seq(Message) /\ pendingAcks' \in Seq(Message)
    BY <1>11, <2>2, QueueTypes DEF HandleOutput
  <2>4. received' \in Nat /\ acked' \in Nat /\ inflight' \in Nat
    <3>1. Size(Head(inbox)) \in Nat /\ received \in Nat /\ acked \in Nat /\ inflight \in Nat
      BY <2>2
    <3>2. received' = received \/ received' = received + Size(Head(inbox))
      BY <1>11, Zenon DEF HandleOutput
    <3>3. \/ acked' = acked /\ inflight' = inflight
          \/ Ack(Size(Head(inbox)))
      BY <1>11, Zenon DEF HandleOutput
    <3>4. CASE acked' = acked /\ inflight' = inflight
      BY ONLY <3>1, <3>2, <3>4
    <3>5. CASE Ack(Size(Head(inbox)))
      <4>1. acked' \in Nat /\ inflight' \in Nat
        BY ONLY <3>1, <3>5, AckTypes
      <4>. QED BY ONLY <3>1, <3>2, <4>1
    <3>. QED BY ONLY <3>3, <3>4, <3>5
  <2>. QED BY <1>11, <2>2, <2>3, <2>4 DEF HandleOutput, TakeMessage
<1>12. CASE HandleClosed
  <2>1. inbox # <<>> /\ inbox' = Tail(inbox)
    BY <1>12 DEF HandleClosed, TakeMessage
  <2>2. Head(inbox) \in Message /\ Head(inbox).lo \in Nat /\ inbox' \in Seq(Message)
    BY <2>1, QueueTypes, MessageFields
  <2>3. ControlMessage("closed", Head(inbox).lo) \in Message
    BY <2>2, MessageMade
  <2>. QED BY <1>12, <2>2, <2>3, QueueTypes DEF HandleClosed, TakeMessage
<1>13. CASE HandleError
  <2>1. inbox # <<>> /\ inbox' = Tail(inbox)
    BY <1>13 DEF HandleError, TakeMessage
  <2>2. Head(inbox) \in Message /\ inbox' \in Seq(Message)
    BY <2>1, QueueTypes
  <2>. QED BY <1>13, <2>2, QueueTypes DEF HandleError, TakeMessage
<1>14. CASE FlushAck
  <2>1. Head(pendingAcks) \in Message /\ pendingAcks' \in Seq(Message)
    BY <1>14, QueueTypes DEF FlushAck
  <2>2. Size(Head(pendingAcks)) \in Nat
    BY <2>1, MessageFields
  <2>. QED BY <1>14, <2>1, <2>2 DEF FlushAck, Ack, AckOutput, Untouched
<1>15. CASE Deliver
  <2>1. Head(buffer) \in Message /\ buffer' \in Seq(Message)
    BY <1>15, QueueTypes DEF Deliver, DeliveryScheduled
  <2>2. Size(Head(buffer)) \in Nat
    BY <2>1, MessageFields
  <2>. QED BY <1>15, <2>1, <2>2 DEF Deliver, NativeUnchanged, readerVars
<1>16. CASE CloseReturns
  <2>1. ControlMessage("closed", BufferEnd) \in Message
    BY BufferEndType, MessageMade
  <2>. QED BY <1>16, <2>1, QueueTypes DEF CloseReturns
<1>17. CASE Cancel
  BY <1>17, BufferEndType DEF Cancel, NativeUnchanged, readerVars
<1>18. CASE IsolateExits
  BY <1>18 DEF IsolateExits
<1>19. CASE Finalize
  BY MessageFields, <1>19 DEF Finalize
<1>20. CASE UNCHANGED vars
  BY <1>20 DEF vars, readerVars
<1>. QED
  BY <1>1, <1>2, <1>3, <1>4, <1>5, <1>6, <1>7, <1>8, <1>9, <1>10, <1>11,
     <1>12, <1>13, <1>14, <1>15, <1>16, <1>17, <1>18, <1>19, <1>20
     DEF Next, PtyStep, NativeStep, IsolateStep, UserStep

(* The initial state is typed.                                             *)
LEMMA InitTypes == Init => TypeOK
<1> SUFFICES ASSUME Init PROVE TypeOK
  OBVIOUS
<1>1. FlagsOK
  BY Zenon DEF Init, ReaderInit, FlagsOK
<1>2. StagesOK
  BY DEF Init, ReaderInit, StagesOK
<1>3. BytesOK
  BY DEF Init, ReaderInit, BytesOK, Chunk, EmptyAt
<1>. QED BY <1>1, <1>2, <1>3 DEF TypeOK

(* Every variable keeps its type.                                          *)
THEOREM TypeCorrect == Spec => []TypeOK
<1>1. TypeOK /\ [Next]_vars => TypeOK'
  BY FlagsStep, StagesStep, BytesStep DEF TypeOK
<1>. QED BY <1>1, InitTypes, PTL DEF Spec

(* Only the end of close() and of the isolate close the ports.             *)
LEMMA PortStep ==
  ASSUME TypeOK, PortInv, [Next]_vars
  PROVE  PortInv'
<1> USE DEF TypeOK, StagesOK, FlagsOK, PortInv, dartVars, ptyVars, bufferVars,
        sharedVars, portVars
<1>1. CASE (FlushBegins \/ CheckCapacity \/ EnterWait \/ WaitTimesOut \/
         ReserveInflight \/ PostBatch \/ PostFails \/ ReleaseInflight \/
         AppendRound \/ AppendReturns \/ ReaderStarts \/ LoopTop \/
         ReadData \/ ReadWouldBlock \/ ReadEof \/ PollReady \/
         PollTimesOut \/ PostError \/ ClosePorts \/ ChildWrites \/
         SlaveCloses \/ ReadFails \/ DelayElapses) /\ UNCHANGED dartVars
  BY <1>1 DEF FlushBegins, ReturnFromFlush, CheckCapacity, EnterWait, WaitTimesOut,
     ReserveInflight, PostBatch, Post, PostFails, ReleaseInflight,
     AppendRound, EnterFlush, AppendReturns, ReaderStarts, LoopTop, ReadData,
     ReadWouldBlock, ReadEof, PollReady, PollTimesOut, PostError, ClosePorts,
     ChildWrites, SlaveCloses, ReadFails, DelayElapses
<1>2. CASE HandleOutput \/ HandleClosed \/ HandleError \/ FlushAck \/
         FlushEnds \/ Deliver \/ StopRuntime \/ NotifyReader \/
         CloseReturns \/ Listen \/ Pause \/ Resume \/ Cancel \/ Close \/
         IsolateExits
  BY <1>2 DEF HandleOutput, TakeMessage, Ack, AckOutput, Notify, HandleClosed,
     HandleError, FlushAck, Untouched, FlushEnds, NativeUnchanged,
     readerVars, Deliver, Alive, DeliveryScheduled, StartFlush, StopRuntime,
     NotifyReader, CloseReturns, Listen, Pause, Resume, Cancel, Close,
     IsolateExits
<1>3. CASE Finalize
  BY <1>3 DEF Finalize
<1>4. CASE UNCHANGED vars
  BY <1>4 DEF vars, readerVars
<1>. QED
  BY <1>1, <1>2, <1>3, <1>4
     DEF Next, PtyStep, NativeStep, IsolateStep, UserStep

(* The batch is within its limit wherever it may be posted.                *)
LEMMA BatchStep ==
  ASSUME TypeOK, BatchInv, [Next]_vars
  PROVE  BatchInv'
<1> USE SizeAssumption DEF BatchInv, FlushStages, Size, Extend, EmptyAt,
        dartVars, ptyVars, bufferVars, sharedVars, portVars
<1>1. CASE (EnterWait \/ WaitTimesOut \/ ReserveInflight \/ PostFails \/
         ReleaseInflight \/ AppendReturns \/ ReaderStarts \/ LoopTop \/
         ReadData \/ ReadWouldBlock \/ ReadEof \/ PollReady \/
         PollTimesOut \/ PostError \/ ClosePorts \/ ChildWrites \/
         SlaveCloses \/ ReadFails \/ DelayElapses) /\ UNCHANGED dartVars
  BY <1>1 DEF EnterWait, WaitTimesOut, ReserveInflight, PostFails, ReleaseInflight,
     AppendReturns, EnterFlush, ReaderStarts, LoopTop, ReadData,
     ReadWouldBlock, ReadEof, PollReady, PollTimesOut, PostError, Post,
     ClosePorts, ChildWrites, SlaveCloses, ReadFails, DelayElapses
<1>2. CASE FlushBegins /\ UNCHANGED dartVars
  <2>1. CASE Size(batch) = 0
    <3>1. rpc' \in {"append", "loop", "exit", "postError"}
      BY <1>2, <2>1 DEF FlushBegins, ReturnFromFlush, TypeOK, StagesOK
    <3>. QED BY <1>2, <2>1, <3>1 DEF FlushBegins
  <2>2. CASE Size(batch) > 0
    <3>1. /\ rpc = "flush" /\ batch' = batch /\ stop' = stop
          /\ RequireAcks => rpc' = "capacity"
          /\ ~RequireAcks => rpc' = "post"
      BY <1>2, <2>2 DEF FlushBegins
    <3>2. batch.lo \in Nat /\ batch.hi \in Nat
      BY DEF TypeOK, BytesOK, Chunk
    <3>3. Size(batch) < BatchMax \/ Size(batch) <= BatchMax \/ (RequireAcks /\ stop)
      BY <3>1
    <3>4. CASE RequireAcks
      BY <2>2, <3>1, <3>2, <3>3, <3>4
    <3>5. CASE ~RequireAcks
      BY <2>2, <3>1, <3>2, <3>3, <3>5
    <3>. QED BY <3>4, <3>5
  <2>. QED BY <1>2, <2>1, <2>2 DEF FlushBegins
<1>3. CASE CheckCapacity /\ UNCHANGED dartVars
  <2>1. rpc = "capacity" /\ RequireAcks /\ Size(batch) > 0
    BY <1>3 DEF CheckCapacity
  <2>2. CASE rpc' \in {"entering", "reserve"} /\ ~stop
    <3>1. batch' = batch /\ stop' = stop /\ batch.lo \in Nat /\ batch.hi \in Nat
      BY <1>3 DEF CheckCapacity, TypeOK, BytesOK, Chunk
    <3>2. Size(batch) <= BatchMax
      BY <2>1, <2>2, <3>1
    <3>. QED BY <2>1, <2>2, <3>1, <3>2
  <2>3. CASE ReturnFromFlush /\ stop
    <3>1. rpc' \in {"append", "loop", "exit", "postError"}
      BY <2>3 DEF ReturnFromFlush, TypeOK, StagesOK
    <3>. QED BY <1>3, <2>1, <2>3, <3>1 DEF CheckCapacity
  <2>. QED BY <1>3, <2>2, <2>3 DEF CheckCapacity
<1>4. CASE PostBatch /\ UNCHANGED dartVars
  <2>1. rpc' \in {"append", "loop", "exit", "postError"}
    BY <1>4 DEF PostBatch, ReturnFromFlush, TypeOK, StagesOK
  <2>2. batch' = [lo |-> batch.hi, hi |-> batch.hi] /\ batch.hi \in Nat
    BY <1>4 DEF PostBatch, TypeOK, BytesOK, Chunk
  <2>. QED BY <2>1, <2>2
<1>5. CASE AppendRound /\ UNCHANGED dartVars
  <2>1. rpc = "append" /\ Size(data) > 0 /\ stop' = stop
    BY <1>5 DEF AppendRound
  <2>2. batch.lo \in Nat /\ batch.hi \in Nat /\ batch.lo <= batch.hi
    BY DEF TypeOK, BytesOK, Chunk
  <2>3. PICK t \in Nat : /\ t = Take /\ 0 < t
                         /\ Size(batch) < BatchMax => t <= BatchMax - Size(batch)
    BY <2>1, <2>2, TakeBounds DEF Take
  <2>4. batch' = [lo |-> batch.lo, hi |-> batch.hi + t]
    BY <1>5, <2>3 DEF AppendRound, TypeOK, BytesOK, Chunk
  <2>5. Size(batch') = Size(batch) + t /\ Size(batch) \in Nat
    BY <2>2, <2>4
  <2>6. Size(batch) < BatchMax \/ (RequireAcks /\ stop)
    BY <2>1
  <2>7. \/ rpc' = "flush"
        \/ rpc' = "append" /\ Size(batch) + t < BatchMax
    BY <1>5, <2>3, <2>5 DEF AppendRound, EnterFlush
  <2>. QED BY <2>1, <2>3, <2>5, <2>6, <2>7
<1>6. CASE HandleOutput \/ HandleClosed \/ HandleError \/ FlushAck \/
         FlushEnds \/ Deliver \/ StopRuntime \/ NotifyReader \/
         CloseReturns \/ Listen \/ Pause \/ Resume \/ Cancel \/ Close \/
         IsolateExits
  BY <1>6 DEF HandleOutput, TakeMessage, Ack, AckOutput, Notify, HandleClosed,
     HandleError, FlushAck, Untouched, FlushEnds, NativeUnchanged,
     readerVars, Deliver, Alive, DeliveryScheduled, StartFlush, StopRuntime,
     NotifyReader, CloseReturns, Listen, Pause, Resume, Cancel, Close,
     IsolateExits
<1>7. CASE Finalize
  BY <1>7 DEF Finalize
<1>8. CASE UNCHANGED vars
  BY <1>8 DEF vars, readerVars
<1>. QED
  BY <1>1, <1>2, <1>3, <1>4, <1>5, <1>6, <1>7, <1>8
     DEF Next, PtyStep, NativeStep, IsolateStep, UserStep

(* Nothing follows the last message, and only output carries bytes.        *)
LEMMA InboxStep ==
  ASSUME TypeOK, PortInv, InboxInv, [Next]_vars
  PROVE  InboxInv'
<1> USE DEF TypeOK, StagesOK, FlagsOK, BytesOK, PortInv, InboxInv, dartVars,
        ptyVars, bufferVars, sharedVars, portVars
<1>1. CASE (FlushBegins \/ CheckCapacity \/ EnterWait \/ WaitTimesOut \/
         ReserveInflight \/ PostFails \/ ReleaseInflight \/ AppendRound \/
         AppendReturns \/ ReaderStarts \/ LoopTop \/ ReadData \/
         ReadWouldBlock \/ ReadEof \/ PollReady \/ PollTimesOut \/
         ChildWrites \/ SlaveCloses \/ ReadFails \/ DelayElapses) /\ UNCHANGED dartVars
  BY <1>1 DEF FlushBegins, ReturnFromFlush, CheckCapacity, EnterWait, WaitTimesOut,
     ReserveInflight, PostFails, ReleaseInflight, AppendRound, EnterFlush,
     AppendReturns, ReaderStarts, LoopTop, ReadData, ReadWouldBlock, ReadEof,
     PollReady, PollTimesOut, ChildWrites, SlaveCloses, ReadFails,
     DelayElapses
<1>2. CASE PostBatch /\ UNCHANGED dartVars
  <2>1. rpc = "post" /\ portOpen /\ inbox' = Append(inbox, OutputMessage(batch, ExternalFits(Size(batch))))
    BY <1>2 DEF PostBatch, Post
  <2>2. PICK m : m = OutputMessage(batch, ExternalFits(Size(batch)))
    OBVIOUS
  <2>3. m.kind = "output"
    BY <2>2 DEF OutputMessage
  <2>4. \A i \in DOMAIN inbox : inbox[i].kind # "closed"
    BY <2>1
  <2>5. /\ inbox' = Append(inbox, m) /\ Len(inbox') = Len(inbox) + 1
        /\ DOMAIN inbox' = DOMAIN inbox \union {Len(inbox')} /\ inbox'[Len(inbox')] = m
        /\ \A i \in DOMAIN inbox : inbox'[i] = inbox[i]
    BY <2>1, <2>2
  <2>6. ~outputDone' \/ ~portOpen'
    BY <1>2, <2>1 DEF PostBatch
  <2>. QED BY <2>3, <2>4, <2>5, <2>6
<1>3. CASE PostError /\ UNCHANGED dartVars
  <2>1. rpc = "postError" /\ inbox' = IF portOpen THEN Append(inbox, ControlMessage("error", batch.lo)) ELSE inbox
    BY <1>3 DEF PostError, Post
  <2>2. PICK m : m = ControlMessage("error", batch.lo)
    OBVIOUS
  <2>3. m.kind = "error" /\ m.lo = m.hi
    BY <2>2 DEF ControlMessage
  <2>4. \A i \in DOMAIN inbox : inbox[i].kind # "closed"
    BY <2>1
  <2>5. CASE portOpen
    <3>1. /\ inbox' = Append(inbox, m) /\ Len(inbox') = Len(inbox) + 1
          /\ DOMAIN inbox' = DOMAIN inbox \union {Len(inbox')} /\ inbox'[Len(inbox')] = m
          /\ \A i \in DOMAIN inbox : inbox'[i] = inbox[i]
      BY <2>1, <2>2, <2>5
    <3>2. rpc' = "exit"
      BY <1>3 DEF PostError
    <3>3. ~outputDone' \/ ~portOpen'
      BY <1>3, <2>1 DEF PostError
    <3>. QED BY <2>3, <2>4, <3>1, <3>2, <3>3
  <2>6. CASE ~portOpen
    BY <1>3, <2>1, <2>4, <2>6 DEF PostError
  <2>. QED BY <2>5, <2>6
<1>4. CASE ClosePorts /\ UNCHANGED dartVars
  <2>1. rpc = "exit" /\ inbox' = IF portOpen THEN Append(inbox, ControlMessage("closed", batch.lo)) ELSE inbox
    BY <1>4 DEF ClosePorts, Post
  <2>2. PICK m : m = ControlMessage("closed", batch.lo)
    OBVIOUS
  <2>3. m.kind = "closed" /\ m.lo = m.hi
    BY <2>2 DEF ControlMessage
  <2>4. \A i \in DOMAIN inbox : inbox[i].kind # "closed"
    BY <2>1
  <2>5. CASE portOpen
    <3>1. /\ inbox' = Append(inbox, m) /\ Len(inbox') = Len(inbox) + 1
          /\ DOMAIN inbox' = DOMAIN inbox \union {Len(inbox')} /\ inbox'[Len(inbox')] = m
          /\ \A i \in DOMAIN inbox : inbox'[i] = inbox[i]
      BY <2>1, <2>2, <2>5
    <3>2. rpc' = "done"
      BY <1>4 DEF ClosePorts
    <3>3. ~outputDone' \/ ~portOpen'
      BY <1>4, <2>1 DEF ClosePorts
    <3>. QED BY <2>3, <2>4, <3>1, <3>2, <3>3
  <2>6. CASE ~portOpen
    BY <1>4, <2>1, <2>4, <2>6 DEF ClosePorts
  <2>. QED BY <2>5, <2>6
<1>5. CASE FlushEnds \/ Deliver \/ NotifyReader \/ Listen \/ Pause \/ Resume \/
         Cancel \/ Close
  BY <1>5 DEF FlushEnds, NativeUnchanged, readerVars, Deliver, Alive,
     DeliveryScheduled, StartFlush, NotifyReader, Notify, Untouched, Listen,
     Pause, Resume, Cancel, Close
<1>6. CASE HandleOutput
  <2>1. inbox # <<>> /\ inbox' = Tail(inbox) /\ Head(inbox).kind = "output" /\ dpc = "idle"
    BY <1>6 DEF HandleOutput, TakeMessage
  <2>2. rpc = "done" => rpc' = "done"
    BY <1>6 DEF HandleOutput, Ack, AckOutput, Notify
  <2>3. portOpen' = portOpen /\ outputDone' = outputDone
    BY <1>6 DEF HandleOutput, TakeMessage
  <2>. QED BY <2>1, <2>2, <2>3
<1>7. CASE HandleClosed
  <2>1. inbox # <<>> /\ inbox' = Tail(inbox) /\ Head(inbox).kind = "closed" /\ rpc' = rpc
    BY <1>7 DEF HandleClosed, TakeMessage
  <2>2. Len(inbox) = 1 /\ rpc = "done"
    <3>1. 1 \in DOMAIN inbox /\ inbox[1].kind = "closed"
      BY <2>1
    <3>. QED BY <3>1
  <2>3. inbox' = <<>>
    BY <2>1, <2>2
  <2>. QED BY <2>1, <2>2, <2>3
<1>8. CASE HandleError
  <2>1. inbox # <<>> /\ inbox' = Tail(inbox) /\ rpc' = rpc
    BY <1>8 DEF HandleError, TakeMessage
  <2>2. portOpen' = portOpen /\ outputDone' = outputDone
    BY <1>8 DEF HandleError, TakeMessage
  <2>. QED BY <2>1, <2>2
<1>9. CASE FlushAck
  <2>1. rpc = "done" => rpc' = "done"
    BY <1>9 DEF FlushAck, Ack, AckOutput, Notify
  <2>. QED BY <1>9, <2>1 DEF FlushAck, Untouched
<1>10. CASE StopRuntime
  BY <1>10 DEF StopRuntime
<1>11. CASE CloseReturns
  BY <1>11 DEF CloseReturns
<1>12. CASE IsolateExits
  BY <1>12 DEF IsolateExits
<1>13. CASE Finalize
  BY <1>13 DEF Finalize
<1>14. CASE UNCHANGED vars
  BY <1>14 DEF vars, readerVars
<1>. QED
  BY <1>1, <1>2, <1>3, <1>4, <1>5, <1>6, <1>7, <1>8, <1>9, <1>10, <1>11,
     <1>12, <1>13, <1>14
     DEF Next, PtyStep, NativeStep, IsolateStep, UserStep

(* _flushAcks runs whenever the controller begins to take acks again.      *)
LEMMA ListenerStep ==
  ASSUME TypeOK, PortInv, ListenerInv, [Next]_vars
  PROVE  ListenerInv'
<1> USE DEF TypeOK, StagesOK, FlagsOK, BytesOK, PortInv, ListenerInv,
        CanAckOutput, dartVars, ptyVars, bufferVars, sharedVars, portVars
<1>1. CASE (FlushBegins \/ CheckCapacity \/ EnterWait \/ WaitTimesOut \/
         ReserveInflight \/ PostBatch \/ PostFails \/ ReleaseInflight \/
         AppendRound \/ AppendReturns \/ ReaderStarts \/ LoopTop \/
         ReadData \/ ReadWouldBlock \/ ReadEof \/ PollReady \/
         PollTimesOut \/ PostError \/ ClosePorts \/ ChildWrites \/
         SlaveCloses \/ ReadFails \/ DelayElapses) /\ UNCHANGED dartVars
  BY <1>1 DEF FlushBegins, ReturnFromFlush, CheckCapacity, EnterWait, WaitTimesOut,
     ReserveInflight, PostBatch, Post, PostFails, ReleaseInflight,
     AppendRound, EnterFlush, AppendReturns, ReaderStarts, LoopTop, ReadData,
     ReadWouldBlock, ReadEof, PollReady, PollTimesOut, PostError, ClosePorts,
     ChildWrites, SlaveCloses, ReadFails, DelayElapses
<1>2. CASE HandleClosed \/ HandleError \/ FlushAck \/ FlushEnds \/ Deliver \/
         StopRuntime \/ NotifyReader \/ CloseReturns \/ Listen \/ Pause \/
         Resume \/ Cancel \/ Close \/ IsolateExits
  BY <1>2 DEF HandleClosed, TakeMessage, HandleError, FlushAck, Ack, AckOutput,
     Notify, Untouched, FlushEnds, NativeUnchanged, readerVars, Deliver,
     Alive, DeliveryScheduled, StartFlush, StopRuntime, NotifyReader,
     CloseReturns, Listen, Pause, Resume, Cancel, Close, IsolateExits
<1>3. CASE HandleOutput
  <2>1. dpc' = dpc /\ sub' = sub /\ inputPaused' = inputPaused
    BY <1>3 DEF HandleOutput
  <2>2. sub = "cancelled" => buffer' = buffer
    BY <1>3 DEF HandleOutput
  <2>3. CanAckOutput => pendingAcks' = pendingAcks
    BY <1>3 DEF HandleOutput
  <2>4. dpc = "idle"
    BY <1>3 DEF HandleOutput, TakeMessage
  <2>. QED BY <2>1, <2>2, <2>3, <2>4
<1>4. CASE Finalize
  BY <1>4 DEF Finalize
<1>5. CASE UNCHANGED vars
  BY <1>5 DEF vars, readerVars
<1>. QED
  BY <1>1, <1>2, <1>3, <1>4, <1>5
     DEF Next, PtyStep, NativeStep, IsolateStep, UserStep

(* The reader reads only into an empty read buffer.                        *)
LEMMA DataStep ==
  ASSUME TypeOK, DataInv, [Next]_vars
  PROVE  DataInv'
<1> USE DEF TypeOK, StagesOK, FlagsOK, BytesOK, DataInv, FlushStages, Size,
        dartVars, ptyVars, bufferVars, sharedVars, portVars
<1>1. CASE (EnterWait \/ WaitTimesOut \/ ReserveInflight \/ PostFails \/
         ReleaseInflight \/ ReaderStarts \/ LoopTop \/ ReadWouldBlock \/
         ReadEof \/ PollReady \/ PollTimesOut \/ PostError \/ ClosePorts \/
         ChildWrites \/ SlaveCloses \/ ReadFails \/ DelayElapses) /\ UNCHANGED dartVars
  BY <1>1 DEF EnterWait, WaitTimesOut, ReserveInflight, PostFails, ReleaseInflight,
     ReaderStarts, LoopTop, EnterFlush, ReadWouldBlock, ReadEof, PollReady,
     PollTimesOut, PostError, Post, ClosePorts, ChildWrites, SlaveCloses,
     ReadFails, DelayElapses
<1>2. CASE FlushBegins /\ UNCHANGED dartVars
  BY <1>2, FlagAssumption DEF FlushBegins, ReturnFromFlush
<1>3. CASE CheckCapacity /\ UNCHANGED dartVars
  BY <1>3 DEF CheckCapacity, ReturnFromFlush
<1>4. CASE PostBatch /\ UNCHANGED dartVars
  BY <1>4 DEF PostBatch, ReturnFromFlush
<1>5. CASE AppendRound /\ UNCHANGED dartVars
  BY <1>5 DEF AppendRound, EnterFlush
<1>6. CASE AppendReturns /\ UNCHANGED dartVars
  BY <1>6 DEF AppendReturns, EnterFlush
<1>7. CASE ReadData /\ UNCHANGED dartVars
  BY <1>7 DEF ReadData
<1>8. CASE HandleOutput \/ HandleClosed \/ HandleError \/ FlushAck \/
         FlushEnds \/ Deliver \/ StopRuntime \/ NotifyReader \/
         CloseReturns \/ Listen \/ Pause \/ Resume \/ Cancel \/ Close \/
         IsolateExits
  BY <1>8 DEF HandleOutput, TakeMessage, Ack, AckOutput, Notify, HandleClosed,
     HandleError, FlushAck, Untouched, FlushEnds, NativeUnchanged,
     readerVars, Deliver, Alive, DeliveryScheduled, StartFlush, StopRuntime,
     NotifyReader, CloseReturns, Listen, Pause, Resume, Cancel, Close,
     IsolateExits
<1>9. CASE Finalize
  BY <1>9 DEF Finalize
<1>10. CASE UNCHANGED vars
  BY <1>10 DEF vars, readerVars
<1>. QED
  BY <1>1, <1>2, <1>3, <1>4, <1>5, <1>6, <1>7, <1>8, <1>9, <1>10
     DEF Next, PtyStep, NativeStep, IsolateStep, UserStep

(* What the controller holds reaches as far as what it was fed last.       *)
LEMMA ControllerFed ==
  ASSUME TypeOK, Chained(received, buffer, BufferEnd),
         NEW m \in Message, m.lo = BufferEnd,
         buffer' = Append(buffer, m), received' = received
  PROVE  BufferEnd' = m.hi /\ Chained(received', buffer', BufferEnd')
<1>1. received \in Nat /\ buffer \in Seq(Message)
  BY DEF TypeOK, BytesOK
<1>2. m.lo <= m.hi
  BY MessageFields
<1>3. BufferEnd' = m.hi
  BY <1>1 DEF BufferEnd
<1>. QED BY <1>1, <1>2, <1>3, ChainedAppend

(* An event that carries no bytes leaves the place the controller reached. *)
LEMMA ControllerTold ==
  ASSUME TypeOK, Chained(received, buffer, BufferEnd),
         NEW m \in Message, m.lo = BufferEnd, m.hi = BufferEnd,
         buffer' \in {buffer, Append(buffer, m)}, received' = received
  PROVE  BufferEnd' = BufferEnd /\ Chained(received', buffer', BufferEnd')
<1>1. CASE buffer' = buffer
  BY <1>1 DEF BufferEnd
<1>2. CASE buffer' = Append(buffer, m)
  BY <1>2, ControllerFed
<1>. QED BY <1>1, <1>2

(* Delivering or discarding what the controller holds leaves it as well.   *)
LEMMA ControllerDrained ==
  ASSUME TypeOK, Chained(received, buffer, BufferEnd),
         \/ buffer # <<>> /\ buffer' = Tail(buffer) /\ received' = received + Size(Head(buffer))
         \/ buffer' = <<>> /\ received' = BufferEnd
  PROVE  BufferEnd' = BufferEnd /\ Chained(received', buffer', BufferEnd')
<1>1. received \in Nat /\ buffer \in Seq(Message) /\ BufferEnd \in Nat
  BY BufferEndType DEF TypeOK, BytesOK
<1>2. CASE buffer # <<>> /\ buffer' = Tail(buffer) /\ received' = received + Size(Head(buffer))
  <2>1. /\ Head(buffer).lo = received /\ Head(buffer) \in Message
        /\ Chained(Head(buffer).hi, Tail(buffer), BufferEnd)
    BY <1>1, <1>2, ChainedTail, QueueTypes
  <2>2. received' = Head(buffer).hi
    BY <1>1, <1>2, <2>1, MessageFields DEF Size
  <2>3. BufferEnd' = BufferEnd
    <3>1. CASE Tail(buffer) = <<>>
      BY <1>2, <2>1, <2>2, <3>1 DEF BufferEnd, Chained
    <3>2. CASE Tail(buffer) # <<>>
      <4>1. Tail(buffer)[Len(Tail(buffer))] = buffer[Len(buffer)]
        BY <1>1, <1>2, <3>2
      <4>. QED BY <1>2, <3>2, <4>1 DEF BufferEnd
    <3>. QED BY <3>1, <3>2
  <2>. QED BY <1>2, <2>1, <2>2, <2>3
<1>3. CASE buffer' = <<>> /\ received' = BufferEnd
  BY <1>1, <1>3 DEF BufferEnd, Chained
<1>. QED BY <1>2, <1>3

(* What a message taken from the inbox says of the stream.                 *)
LEMMA TakenMessage ==
  ASSUME TypeOK, PortInv, InboxInv, StreamIntact, TakeMessage
  PROVE  LET m == Head(inbox) IN
           /\ portOpen /\ ~outputDone
           /\ m \in Message /\ m.lo \in Nat /\ m.hi \in Nat
           /\ m.lo = BufferEnd /\ m.lo <= m.hi /\ m.hi <= batch.lo
           /\ m.kind # "output" => m.hi = BufferEnd
           /\ Chained(m.hi, inbox', batch.lo)
<1>1. dpc = "idle" /\ inbox # <<>> /\ inbox' = Tail(inbox)
  BY DEF TakeMessage
<1>2. portOpen /\ ~outputDone
  BY <1>1, Zenon DEF PortInv, InboxInv
<1>3. inbox \in Seq(Message) /\ BufferEnd \in Nat /\ batch.lo \in Nat
  BY BufferEndType DEF TypeOK, BytesOK, Chunk
<1>4. Head(inbox) \in Message /\ Head(inbox).lo \in Nat /\ Head(inbox).hi \in Nat
        /\ Head(inbox).lo <= Head(inbox).hi
  BY <1>1, <1>3, QueueTypes, MessageFields
<1>5. /\ Head(inbox).lo = BufferEnd /\ Head(inbox).hi <= batch.lo
      /\ Chained(Head(inbox).hi, inbox', batch.lo)
  BY <1>1, <1>2, <1>3, ChainedTail DEF StreamIntact
<1>6. Head(inbox).kind # "output" => Head(inbox).hi = BufferEnd
  <2>1. 1 \in DOMAIN inbox /\ Head(inbox) = inbox[1]
    BY <1>1, <1>3
  <2>. QED BY <1>5, <2>1 DEF InboxInv
<1>. QED BY <1>2, <1>4, <1>5, <1>6

(* No step loses, repeats or overtakes a byte.                             *)
LEMMA StreamStep ==
  ASSUME TypeOK, PortInv, InboxInv, ListenerInv, DataInv, StreamIntact, [Next]_vars
  PROVE  StreamIntact'
<1> USE DEF StreamIntact, dartVars, ptyVars, bufferVars, sharedVars, portVars
<1>1. CASE (FlushBegins \/ CheckCapacity \/ EnterWait \/ WaitTimesOut \/
         ReserveInflight \/ PostFails \/ ReleaseInflight \/ AppendReturns \/
         ReaderStarts \/ LoopTop \/ ReadWouldBlock \/ ReadEof \/ PollReady \/
         PollTimesOut \/ ChildWrites \/ SlaveCloses \/ ReadFails \/
         DelayElapses) /\ UNCHANGED dartVars
  BY <1>1 DEF FlushBegins, ReturnFromFlush, CheckCapacity, EnterWait, WaitTimesOut,
     ReserveInflight, PostFails, ReleaseInflight, AppendReturns, EnterFlush,
     ReaderStarts, LoopTop, ReadWouldBlock, ReadEof, PollReady, PollTimesOut,
     ChildWrites, SlaveCloses, ReadFails, DelayElapses, BufferEnd
<1>2. CASE PostBatch /\ UNCHANGED dartVars
  <2>1. PICK m : m = OutputMessage(batch, ExternalFits(Size(batch)))
    OBVIOUS
  <2>2. m \in Message /\ m.lo = batch.lo /\ m.hi = batch.hi
    <3>1. ExternalFits(Size(batch)) \in BOOLEAN
      BY FlagAssumption DEF ExternalFits
    <3>2. m \in Message
      BY <2>1, <3>1, MessageMade, Zenon DEF TypeOK, BytesOK
    <3>. QED BY <2>1, <3>2 DEF OutputMessage
  <2>3. portOpen /\ portOpen' /\ inbox' = Append(inbox, m) /\ batch' = EmptyAt(batch.hi)
    BY <1>2, <2>1 DEF PostBatch, Post
  <2>4. Chained(BufferEnd, inbox', batch.hi)
    BY <2>2, <2>3, BufferEndType, ChainedAppend, MessageFields DEF TypeOK, BytesOK
  <2>5. batch'.lo = batch.hi /\ batch'.hi = batch.hi
    BY <2>3 DEF EmptyAt
  <2>6. BufferEnd' = BufferEnd
    BY <1>2 DEF BufferEnd
  <2>. QED BY <1>2, <2>4, <2>5, <2>6 DEF PostBatch, TypeOK, BytesOK, Chunk
<1>3. CASE AppendRound /\ UNCHANGED dartVars
  <2>1. PICK t \in Nat : t = Take /\ 0 < t /\ t <= Size(data)
    BY <1>3, TakeBounds DEF AppendRound
  <2>2. /\ batch' = [batch EXCEPT !.hi = @ + t] /\ data' = [data EXCEPT !.lo = @ + t]
        /\ BufferEnd' = BufferEnd
    BY <1>3, <2>1 DEF AppendRound, Extend, BufferEnd
  <2>3. /\ batch'.lo = batch.lo /\ batch'.hi = batch.hi + t
        /\ data'.lo = data.lo + t /\ data'.hi = data.hi
        /\ batch.lo \in Nat /\ batch.hi \in Nat /\ data.lo \in Nat /\ data.hi \in Nat
    BY <2>2 DEF TypeOK, BytesOK, Chunk
  <2>4. data'.lo <= data'.hi /\ batch'.lo <= batch'.hi /\ batch'.hi = data'.lo
    BY <2>1, <2>3 DEF Size
  <2>. QED BY <1>3, <2>2, <2>3, <2>4 DEF AppendRound
<1>4. CASE ReadData /\ UNCHANGED dartVars
  <2>1. PICK n \in Nat : data' = [lo |-> consumed, hi |-> consumed + n] /\ consumed' = consumed + n
    BY <1>4, SizeAssumption DEF ReadData
  <2>2. data'.lo = consumed /\ data'.hi = consumed' /\ data'.lo <= data'.hi
    BY <2>1 DEF TypeOK, BytesOK
  <2>3. data.lo = consumed
    BY <1>4 DEF ReadData, DataInv, Size, TypeOK, BytesOK, Chunk
  <2>. QED BY <1>4, <2>2, <2>3 DEF ReadData, BufferEnd
<1>5. CASE PostError /\ UNCHANGED dartVars
  <2> DEFINE m == ControlMessage("error", batch.lo)
  <2>1. batch.lo \in Nat /\ inbox \in Seq(Message) /\ m \in Message /\ m.lo = batch.lo /\ m.hi = batch.lo
    BY MessageMade DEF TypeOK, BytesOK, Chunk, ControlMessage
  <2>2. portOpen => Chained(BufferEnd, Append(inbox, m), batch.lo)
    BY <2>1, BufferEndType, ChainedAppend
  <2>. QED BY <1>5, <2>2 DEF PostError, Post, BufferEnd
<1>6. CASE ClosePorts /\ UNCHANGED dartVars
  <2> DEFINE m == ControlMessage("closed", batch.lo)
  <2>1. batch.lo \in Nat /\ inbox \in Seq(Message) /\ m \in Message /\ m.lo = batch.lo /\ m.hi = batch.lo
    BY MessageMade DEF TypeOK, BytesOK, Chunk, ControlMessage
  <2>2. portOpen => Chained(BufferEnd, Append(inbox, m), batch.lo)
    BY <2>1, BufferEndType, ChainedAppend
  <2>. QED BY <1>6, <2>2 DEF ClosePorts, Post, BufferEnd
<1>7. CASE FlushAck \/ FlushEnds \/ StopRuntime \/ NotifyReader \/ Listen \/
         Pause \/ Resume \/ Close
  BY <1>7 DEF FlushAck, Ack, AckOutput, Notify, Untouched, FlushEnds, NativeUnchanged,
     readerVars, StopRuntime, NotifyReader, Listen, Alive, StartFlush, Pause,
     Resume, Close, BufferEnd
<1>8. CASE HandleOutput
  <2>1. PICK m : m = Head(inbox)
    OBVIOUS
  <2>2. /\ portOpen' = portOpen /\ ~outputDone /\ TakeMessage
        /\ m \in Message /\ m.lo = BufferEnd /\ m.lo \in Nat /\ m.hi \in Nat
        /\ Chained(m.hi, inbox', batch.lo)
    BY <1>8, <2>1, TakenMessage DEF HandleOutput, TakeMessage
  <2>3. BufferEnd' = m.hi /\ Chained(received', buffer', BufferEnd')
    <3>1. CASE sub = "cancelled"
      <4>1. buffer = <<>> /\ buffer' = <<>> /\ received' = received + Size(m) /\ BufferEnd = received
        BY <1>8, <2>1, <2>2, <3>1 DEF HandleOutput, ListenerInv, BufferEnd
      <4>2. received' = m.hi
        BY <2>2, <4>1 DEF Size
      <4>. QED BY <4>1, <4>2 DEF BufferEnd, Chained
    <3>2. CASE sub # "cancelled"
      <4>1. buffer' = Append(buffer, m) /\ received' = received
        BY <1>8, <2>1, <2>2, <3>2 DEF HandleOutput
      <4>. QED BY <2>2, <4>1, ControllerFed
    <3>. QED BY <3>1, <3>2
  <2>4. UNCHANGED <<batch, data, consumed>>
    BY <2>2 DEF TakeMessage
  <2>. QED BY <2>2, <2>3, <2>4
<1>9. CASE HandleClosed
  <2>1. PICK m : m = Head(inbox)
    OBVIOUS
  <2>2. /\ portOpen' = portOpen /\ m \in Message /\ m.lo = BufferEnd /\ m.hi = BufferEnd
        /\ Chained(BufferEnd, inbox', batch.lo)
    BY <1>9, <2>1, TakenMessage DEF HandleClosed, TakeMessage
  <2>3. PICK e \in Message : e.lo = BufferEnd /\ e.hi = BufferEnd /\ buffer' \in {buffer, Append(buffer, e)}
    BY <1>9, <2>1, <2>2, MessageMade, BufferEndType DEF HandleClosed, ControlMessage
  <2>4. BufferEnd' = BufferEnd /\ Chained(received', buffer', BufferEnd')
    BY <1>9, <2>3, ControllerTold DEF HandleClosed
  <2>. QED BY <1>9, <2>2, <2>4 DEF HandleClosed, TakeMessage
<1>10. CASE HandleError
  <2>1. PICK m : m = Head(inbox)
    OBVIOUS
  <2>2. /\ portOpen' = portOpen /\ m \in Message /\ m.lo = BufferEnd /\ m.hi = BufferEnd
        /\ Chained(BufferEnd, inbox', batch.lo)
    BY <1>10, <2>1, TakenMessage DEF HandleError, TakeMessage
  <2>3. PICK e \in Message : e.lo = BufferEnd /\ e.hi = BufferEnd /\ buffer' \in {buffer, Append(buffer, e)}
    BY <1>10, <2>1, <2>2 DEF HandleError
  <2>4. BufferEnd' = BufferEnd /\ Chained(received', buffer', BufferEnd')
    BY <1>10, <2>3, ControllerTold DEF HandleError
  <2>. QED BY <1>10, <2>2, <2>4 DEF HandleError, TakeMessage
<1>11. CASE Deliver
  <2>1. BufferEnd' = BufferEnd /\ Chained(received', buffer', BufferEnd')
    BY <1>11, ControllerDrained DEF Deliver, DeliveryScheduled
  <2>. QED BY <1>11, <2>1 DEF Deliver, NativeUnchanged, readerVars
<1>12. CASE CloseReturns
  <2>1. ControlMessage("closed", BufferEnd) \in Message
    BY MessageMade, BufferEndType
  <2>2. Chained(received', buffer', BufferEnd')
    BY <1>12, <2>1, ControllerTold DEF CloseReturns, ControlMessage
  <2>. QED BY <1>12, <2>2 DEF CloseReturns
<1>13. CASE Cancel
  <2>1. BufferEnd' = BufferEnd /\ Chained(received', buffer', BufferEnd')
    BY <1>13, ControllerDrained DEF Cancel
  <2>. QED BY <1>13, <2>1 DEF Cancel, NativeUnchanged, readerVars
<1>14. CASE IsolateExits
  BY <1>14 DEF IsolateExits, BufferEnd
<1>15. CASE Finalize
  BY <1>15 DEF Finalize, BufferEnd
<1>16. CASE UNCHANGED vars
  BY <1>16 DEF vars, readerVars, BufferEnd
<1>. QED
  BY <1>1, <1>2, <1>3, <1>4, <1>5, <1>6, <1>7, <1>8, <1>9, <1>10, <1>11,
     <1>12, <1>13, <1>14, <1>15, <1>16
     DEF Next, PtyStep, NativeStep, IsolateStep, UserStep

(* The controller is never ahead of what was posted.                       *)
LEMMA StreamOrder ==
  ASSUME TypeOK, StreamIntact, portOpen
  PROVE  BufferEnd <= batch.lo
<1>1. inbox \in Seq(Message) /\ BufferEnd \in Nat /\ batch.lo \in Nat
  BY BufferEndType DEF TypeOK, BytesOK, Chunk
<1>2. Chained(BufferEnd, inbox, batch.lo)
  BY DEF StreamIntact
<1>3. CASE inbox = <<>>
  BY <1>1, <1>2, <1>3 DEF Chained
<1>4. CASE inbox # <<>>
  BY <1>1, <1>2, <1>4, ChainedTail, QueueTypes, MessageFields
<1>. QED BY <1>3, <1>4

(* Acks are given once for each chunk, in order, and only for output the   *)
(* controller was fed.                                                     *)
LEMMA AckStep ==
  ASSUME TypeOK, PortInv, InboxInv, ListenerInv, StreamIntact, AckInv, [Next]_vars
  PROVE  AckInv'
<1> USE DEF AckInv, dartVars, ptyVars, bufferVars, sharedVars, portVars
<1>1. CASE (FlushBegins \/ CheckCapacity \/ EnterWait \/ WaitTimesOut \/
         ReserveInflight \/ PostFails \/ ReleaseInflight \/ AppendReturns \/
         ReaderStarts \/ LoopTop \/ ReadData \/ ReadWouldBlock \/ ReadEof \/
         PollReady \/ PollTimesOut \/ PostError \/ ClosePorts \/
         ChildWrites \/ SlaveCloses \/ ReadFails \/ DelayElapses) /\ UNCHANGED dartVars
  BY <1>1 DEF FlushBegins, ReturnFromFlush, CheckCapacity, EnterWait, WaitTimesOut,
     ReserveInflight, PostFails, ReleaseInflight, AppendReturns, EnterFlush,
     ReaderStarts, LoopTop, ReadData, ReadWouldBlock, ReadEof, PollReady,
     PollTimesOut, PostError, Post, ClosePorts, ChildWrites, SlaveCloses,
     ReadFails, DelayElapses, BufferEnd
<1>2. CASE PostBatch /\ UNCHANGED dartVars
  <2>1. batch'.lo = batch.hi /\ BufferEnd' = BufferEnd
    BY <1>2 DEF PostBatch, EmptyAt, BufferEnd
  <2>2. acked <= batch.hi
    BY DEF StreamIntact, TypeOK, BytesOK, Chunk
  <2>. QED BY <1>2, <2>1, <2>2 DEF PostBatch
<1>3. CASE AppendRound /\ UNCHANGED dartVars
  <2>1. batch'.lo = batch.lo /\ BufferEnd' = BufferEnd
    BY <1>3 DEF AppendRound, Extend, BufferEnd, TypeOK, BytesOK, Chunk
  <2>. QED BY <1>3, <2>1 DEF AppendRound
<1>4. CASE FlushEnds \/ StopRuntime \/ NotifyReader \/ Listen \/ Pause \/
         Resume \/ Close
  BY <1>4 DEF FlushEnds, NativeUnchanged, readerVars, StopRuntime, NotifyReader,
     Notify, Untouched, Listen, Alive, StartFlush, Pause, Resume, Close,
     BufferEnd
<1>5. CASE HandleOutput
  <2>1. PICK m : m = Head(inbox)
    OBVIOUS
  <2>2. /\ portOpen /\ ~outputDone /\ TakeMessage /\ dpc = "idle"
        /\ m \in Message /\ m.lo = BufferEnd /\ m.lo \in Nat /\ m.hi \in Nat
        /\ m.lo <= m.hi /\ m.hi <= batch.lo
    BY <1>5, <2>1, TakenMessage DEF HandleOutput, TakeMessage
  <2>3. BufferEnd' = m.hi
    <3>1. CASE sub = "cancelled"
      BY <1>5, <2>1, <2>2, <3>1 DEF HandleOutput, ListenerInv, BufferEnd, Size
    <3>2. CASE sub # "cancelled"
      <4>1. buffer' = Append(buffer, m) /\ received' = received
        BY <1>5, <2>1, <2>2, <3>2 DEF HandleOutput
      <4>. QED BY <2>2, <4>1, ControllerFed DEF StreamIntact
    <3>. QED BY <3>1, <3>2
  <2>4. batch' = batch
    BY <2>2 DEF TakeMessage
  <2>5. Chained(acked, pendingAcks, m.lo) /\ acked \in Nat /\ pendingAcks \in Seq(Message)
    BY <2>2 DEF TypeOK, BytesOK
  <2>6. CASE CanAckOutput
    <3>1. pendingAcks = <<>> /\ pendingAcks' = <<>> /\ acked' = acked + Size(m)
      BY <1>5, <2>1, <2>2, <2>6 DEF HandleOutput, Ack, ListenerInv
    <3>2. acked' = m.hi
      BY <2>2, <2>5, <3>1 DEF Chained, Size
    <3>. QED BY <2>2, <2>3, <2>4, <3>1, <3>2 DEF Chained
  <2>7. CASE ~CanAckOutput
    <3>1. pendingAcks' = Append(pendingAcks, m) /\ acked' = acked
      BY <1>5, <2>1, <2>2, <2>7 DEF HandleOutput
    <3>. QED BY <2>2, <2>3, <2>4, <2>5, <3>1, ChainedAppend
  <2>. QED BY <2>6, <2>7
<1>6. CASE HandleClosed
  <2>1. PICK e \in Message : e.lo = BufferEnd /\ e.hi = BufferEnd /\ buffer' \in {buffer, Append(buffer, e)}
    BY <1>6, TakenMessage, MessageMade, BufferEndType DEF HandleClosed, ControlMessage
  <2>2. BufferEnd' = BufferEnd
    BY <1>6, <2>1, ControllerTold DEF HandleClosed, StreamIntact
  <2>. QED BY <1>6, <2>2 DEF HandleClosed, TakeMessage
<1>7. CASE HandleError
  <2>1. PICK e \in Message : e.lo = BufferEnd /\ e.hi = BufferEnd /\ buffer' \in {buffer, Append(buffer, e)}
    BY <1>7, TakenMessage DEF HandleError
  <2>2. BufferEnd' = BufferEnd
    BY <1>7, <2>1, ControllerTold DEF HandleError, StreamIntact
  <2>. QED BY <1>7, <2>2 DEF HandleError, TakeMessage
<1>8. CASE FlushAck
  <2>1. portOpen /\ pendingAcks # <<>>
    BY <1>8 DEF FlushAck, PortInv
  <2>2. acked \in Nat /\ pendingAcks \in Seq(Message) /\ BufferEnd \in Nat
    BY BufferEndType DEF TypeOK, BytesOK
  <2>3. PICK h \in Message : h = Head(pendingAcks)
    BY <2>1, <2>2, QueueTypes
  <2>4. h.lo = acked /\ h.hi <= BufferEnd /\ Chained(h.hi, Tail(pendingAcks), BufferEnd)
    BY <2>1, <2>2, <2>3, ChainedTail
  <2>5. acked' = h.hi /\ pendingAcks' = Tail(pendingAcks)
    BY <1>8, <2>2, <2>3, <2>4, MessageFields DEF FlushAck, Ack, Size
  <2>6. BufferEnd <= batch.lo
    BY <2>1, <2>2, StreamOrder
  <2>7. BufferEnd' = BufferEnd /\ portOpen' = portOpen /\ batch' = batch
    BY <1>8 DEF FlushAck, Untouched, BufferEnd
  <2>. QED BY <2>2, <2>3, <2>4, <2>5, <2>6, <2>7, MessageFields DEF TypeOK, BytesOK, Chunk
<1>9. CASE Deliver
  <2>1. BufferEnd' = BufferEnd
    BY <1>9, ControllerDrained DEF Deliver, DeliveryScheduled, StreamIntact
  <2>. QED BY <1>9, <2>1 DEF Deliver, NativeUnchanged, readerVars
<1>10. CASE CloseReturns
  BY <1>10 DEF CloseReturns
<1>11. CASE Cancel
  <2>1. BufferEnd' = BufferEnd
    BY <1>11, ControllerDrained DEF Cancel, StreamIntact
  <2>. QED BY <1>11, <2>1 DEF Cancel, NativeUnchanged, readerVars
<1>12. CASE IsolateExits
  BY <1>12 DEF IsolateExits
<1>13. CASE Finalize
  BY <1>13 DEF Finalize, BufferEnd
<1>14. CASE UNCHANGED vars
  BY <1>14 DEF vars, readerVars, BufferEnd
<1>. QED
  BY <1>1, <1>2, <1>3, <1>4, <1>5, <1>6, <1>7, <1>8, <1>9, <1>10, <1>11,
     <1>12, <1>13, <1>14
     DEF Next, PtyStep, NativeStep, IsolateStep, UserStep

(* An ack never adds to the bytes in flight, nor starts a post.            *)
LEMMA AckLowers ==
  ASSUME TypeOK, NEW n \in Nat, Ack(n)
  PROVE  inflight' \in Nat /\ inflight' <= inflight /\ (rpc' = "reserve" => rpc = "reserve")
BY DEF TypeOK, StagesOK, BytesOK, Ack, AckOutput, Notify

(* Credit once seen is not taken back before it is used.                   *)
LEMMA CreditStep ==
  ASSUME TypeOK, CreditInv, [Next]_vars
  PROVE  CreditInv'
<1> USE DEF CreditInv, dartVars, ptyVars, bufferVars, sharedVars, portVars
<1>1. CASE (FlushBegins \/ EnterWait \/ WaitTimesOut \/ PostBatch \/
         PostFails \/ AppendRound \/ AppendReturns \/ ReaderStarts \/
         LoopTop \/ ReadData \/ ReadWouldBlock \/ ReadEof \/ PollReady \/
         PollTimesOut \/ PostError \/ ClosePorts \/ ChildWrites \/
         SlaveCloses \/ ReadFails \/ DelayElapses) /\ UNCHANGED dartVars
  BY <1>1 DEF FlushBegins, ReturnFromFlush, EnterWait, WaitTimesOut, PostBatch, Post,
     PostFails, AppendRound, EnterFlush, AppendReturns, ReaderStarts,
     LoopTop, ReadData, ReadWouldBlock, ReadEof, PollReady, PollTimesOut,
     PostError, ClosePorts, ChildWrites, SlaveCloses, ReadFails,
     DelayElapses, TypeOK, StagesOK, BytesOK
<1>2. CASE CheckCapacity /\ UNCHANGED dartVars
  BY <1>2 DEF CheckCapacity, ReturnFromFlush, TypeOK, StagesOK
<1>3. CASE ReserveInflight /\ UNCHANGED dartVars
  BY <1>3 DEF ReserveInflight
<1>4. CASE ReleaseInflight /\ UNCHANGED dartVars
  BY <1>4 DEF ReleaseInflight
<1>5. CASE HandleClosed \/ HandleError \/ FlushEnds \/ Deliver \/
         StopRuntime \/ NotifyReader \/ CloseReturns \/ Listen \/ Pause \/
         Resume \/ Cancel \/ Close \/ IsolateExits
  BY <1>5 DEF HandleClosed, TakeMessage, HandleError, FlushEnds, NativeUnchanged,
     readerVars, Deliver, Alive, DeliveryScheduled, StartFlush, StopRuntime,
     NotifyReader, Notify, Untouched, CloseReturns, Listen, Pause, Resume,
     Cancel, Close, IsolateExits, TypeOK, StagesOK, BytesOK
<1>6. CASE HandleOutput
  <2>1. (inflight' = inflight /\ rpc' = rpc) \/ Ack(Size(Head(inbox)))
    BY <1>6, Zenon DEF HandleOutput
  <2>2. PICK n \in Nat : n = Size(Head(inbox))
    BY <1>6, QueueTypes, MessageFields DEF HandleOutput, TakeMessage, TypeOK, BytesOK, Size
  <2>3. Ack(n) => inflight' \in Nat /\ inflight' <= inflight /\ (rpc' = "reserve" => rpc = "reserve")
    BY AckLowers
  <2>. QED BY <2>1, <2>2, <2>3, SizeAssumption DEF TypeOK, BytesOK
<1>7. CASE FlushAck
  <2>1. PICK n \in Nat : n = Size(Head(pendingAcks)) /\ Ack(n)
    BY <1>7, QueueTypes, MessageFields DEF FlushAck, TypeOK, BytesOK, Size
  <2>2. inflight' \in Nat /\ inflight' <= inflight /\ (rpc' = "reserve" => rpc = "reserve")
    BY <2>1, AckLowers
  <2>. QED BY <2>2, SizeAssumption DEF TypeOK, BytesOK
<1>8. CASE Finalize
  BY <1>8 DEF Finalize, TypeOK, StagesOK, BytesOK
<1>9. CASE UNCHANGED vars
  BY <1>9 DEF vars, readerVars, TypeOK, StagesOK, BytesOK
<1>. QED
  BY <1>1, <1>2, <1>3, <1>4, <1>5, <1>6, <1>7, <1>8, <1>9
     DEF Next, PtyStep, NativeStep, IsolateStep, UserStep

(* The isolate acknowledges nothing that was not posted.                   *)
LEMMA AckedInOrder ==
  ASSUME TypeOK, PortInv, InboxInv, ListenerInv, StreamIntact, AckInv,
         HandleOutput \/ FlushAck, batch' = batch
  PROVE  acked' <= batch.lo
<1>1. [Next]_vars
  BY DEF Next, IsolateStep
<1>. QED BY <1>1, AckStep DEF AckInv

(* An ack takes exactly its bytes off the counter: it never saturates.     *)
LEMMA AckExact ==
  ASSUME TypeOK, InflightExact, NEW m \in Message, Ack(Size(m)),
         acked' <= batch.lo, batch' = batch
  PROVE  InflightExact'
<1>1. /\ batch.lo \in Nat /\ batch.hi \in Nat /\ batch.lo <= batch.hi
      /\ inflight \in Nat /\ acked \in Nat /\ RequireAcks \in BOOLEAN
      /\ Size(m) \in Nat /\ acked' = acked + Size(m)
  BY FlagAssumption, MessageFields DEF TypeOK, BytesOK, Chunk, Ack, Size
<1>2. rpc' \in {"post", "release"} <=> rpc \in {"post", "release"}
  BY DEF Ack, AckOutput, Notify
<1>3. Reserved' = Reserved /\ Reserved \in Nat
  BY <1>1, <1>2 DEF Reserved, Size
<1>4. CASE RequireAcks
  <2>1. inflight = batch.lo + Reserved - acked /\ inflight >= Size(m)
    BY <1>1, <1>3, <1>4 DEF InflightExact
  <2>2. inflight' = inflight - Size(m)
    BY <1>1, <1>4, <2>1 DEF Ack, AckOutput
  <2>. QED BY <1>1, <1>3, <2>1, <2>2 DEF InflightExact
<1>5. CASE ~RequireAcks
  BY <1>5 DEF InflightExact
<1>. QED BY <1>4, <1>5

(* The counter stays exact.                                                *)
LEMMA ExactStep ==
  ASSUME TypeOK, PortInv, InboxInv, ListenerInv, StreamIntact, AckInv, InflightExact, [Next]_vars
  PROVE  InflightExact'
<1> USE FlagAssumption DEF TypeOK, StagesOK, BytesOK, InflightExact, Reserved,
        Size, dartVars, ptyVars, bufferVars, sharedVars, portVars
<1>1. CASE (EnterWait \/ WaitTimesOut \/ AppendReturns \/ ReaderStarts \/
         LoopTop \/ ReadData \/ ReadWouldBlock \/ ReadEof \/ PollReady \/
         PollTimesOut \/ PostError \/ ClosePorts \/ ChildWrites \/
         SlaveCloses \/ ReadFails \/ DelayElapses) /\ UNCHANGED dartVars
  BY <1>1 DEF EnterWait, WaitTimesOut, AppendReturns, EnterFlush, ReaderStarts,
     LoopTop, ReadData, ReadWouldBlock, ReadEof, PollReady, PollTimesOut,
     PostError, Post, ClosePorts, ChildWrites, SlaveCloses, ReadFails,
     DelayElapses
<1>2. CASE FlushBegins /\ UNCHANGED dartVars
  BY <1>2 DEF FlushBegins, ReturnFromFlush
<1>3. CASE CheckCapacity /\ UNCHANGED dartVars
  BY <1>3 DEF CheckCapacity, ReturnFromFlush
<1>4. CASE ReserveInflight /\ UNCHANGED dartVars
  BY <1>4 DEF ReserveInflight, Chunk
<1>5. CASE PostBatch /\ UNCHANGED dartVars
  <2>1. rpc = "post" /\ rpc' \notin {"post", "release"}
    BY <1>5 DEF PostBatch, ReturnFromFlush
  <2>2. batch'.lo = batch.hi /\ inflight' = inflight /\ acked' = acked
    BY <1>5 DEF PostBatch, EmptyAt
  <2>. QED BY <2>1, <2>2 DEF Chunk
<1>6. CASE PostFails /\ UNCHANGED dartVars
  BY <1>6 DEF PostFails
<1>7. CASE ReleaseInflight /\ UNCHANGED dartVars
  <2>1. RequireAcks => inflight = batch.lo - acked + Size(batch) /\ acked <= batch.lo
    BY <1>7 DEF ReleaseInflight, AckInv, Chunk
  <2>2. /\ inflight' = IF inflight > Size(batch) THEN inflight - Size(batch) ELSE 0
        /\ rpc' = "exit" /\ batch' = batch /\ acked' = acked
    BY <1>7 DEF ReleaseInflight
  <2>. QED BY <2>1, <2>2 DEF Chunk
<1>8. CASE AppendRound /\ UNCHANGED dartVars
  <2>1. rpc = "append" /\ rpc' \in {"append", "flush"}
    BY <1>8 DEF AppendRound, EnterFlush
  <2>2. batch'.lo = batch.lo /\ inflight' = inflight /\ acked' = acked
    BY <1>8 DEF AppendRound, Extend, Chunk
  <2>. QED BY <2>1, <2>2
<1>9. CASE HandleClosed \/ HandleError \/ FlushEnds \/ Deliver \/
         StopRuntime \/ NotifyReader \/ CloseReturns \/ Listen \/ Pause \/
         Resume \/ Cancel \/ Close \/ IsolateExits
  BY <1>9 DEF HandleClosed, TakeMessage, HandleError, FlushEnds, NativeUnchanged,
     readerVars, Deliver, Alive, DeliveryScheduled, StartFlush, StopRuntime,
     NotifyReader, Notify, Untouched, CloseReturns, Listen, Pause, Resume,
     Cancel, Close, IsolateExits
<1>10. CASE HandleOutput
  <2>1. PICK m : m = Head(inbox)
    OBVIOUS
  <2>2. TakeMessage /\ m \in Message /\ batch' = batch
    BY <1>10, <2>1, TakenMessage DEF HandleOutput, TakeMessage
  <2>3. CASE Ack(Size(m))
    <3>1. acked' <= batch.lo
      BY <1>10, <2>2, AckedInOrder
    <3>. QED BY <2>2, <2>3, <3>1, AckExact
  <2>4. CASE rpc' = rpc /\ inflight' = inflight /\ acked' = acked
    BY <2>2, <2>4
  <2>. QED BY <1>10, <2>1, <2>3, <2>4, Zenon DEF HandleOutput
<1>11. CASE FlushAck
  <2>1. Head(pendingAcks) \in Message /\ batch' = batch /\ Ack(Size(Head(pendingAcks)))
    BY <1>11, QueueTypes DEF FlushAck, Untouched
  <2>2. acked' <= batch.lo
    BY <1>11, <2>1, AckedInOrder
  <2>. QED BY <2>1, <2>2, AckExact
<1>12. CASE Finalize
  BY <1>12 DEF Finalize
<1>13. CASE UNCHANGED vars
  BY <1>13 DEF vars, readerVars
<1>. QED
  BY <1>1, <1>2, <1>3, <1>4, <1>5, <1>6, <1>7, <1>8, <1>9, <1>10, <1>11,
     <1>12, <1>13
     DEF Next, PtyStep, NativeStep, IsolateStep, UserStep

(* A reservation starts from credit and adds one batch.                    *)
LEMMA BoundStep ==
  ASSUME TypeOK, BatchInv, CreditInv, InflightBound, [Next]_vars
  PROVE  InflightBound'
<1> USE SizeAssumption DEF InflightBound, Window, dartVars, ptyVars,
        bufferVars, sharedVars, portVars
<1>1. CASE (FlushBegins \/ CheckCapacity \/ EnterWait \/ WaitTimesOut \/
         PostBatch \/ PostFails \/ AppendRound \/ AppendReturns \/
         ReaderStarts \/ LoopTop \/ ReadData \/ ReadWouldBlock \/ ReadEof \/
         PollReady \/ PollTimesOut \/ PostError \/ ClosePorts \/
         ChildWrites \/ SlaveCloses \/ ReadFails \/ DelayElapses) /\ UNCHANGED dartVars
  BY <1>1 DEF FlushBegins, ReturnFromFlush, CheckCapacity, EnterWait, WaitTimesOut,
     PostBatch, Post, PostFails, AppendRound, EnterFlush, AppendReturns,
     ReaderStarts, LoopTop, ReadData, ReadWouldBlock, ReadEof, PollReady,
     PollTimesOut, PostError, ClosePorts, ChildWrites, SlaveCloses,
     ReadFails, DelayElapses, TypeOK, BytesOK
<1>2. CASE ReserveInflight /\ UNCHANGED dartVars
  <2>1. inflight < MaxInflight /\ Size(batch) <= BatchMax
    BY <1>2 DEF ReserveInflight, CreditInv, BatchInv
  <2>. QED BY <1>2, <2>1 DEF ReserveInflight, Chunk, Size, TypeOK, BytesOK
<1>3. CASE ReleaseInflight /\ UNCHANGED dartVars
  BY <1>3 DEF ReleaseInflight, Chunk, Size, TypeOK, BytesOK
<1>4. CASE HandleClosed \/ HandleError \/ FlushEnds \/ Deliver \/
         StopRuntime \/ NotifyReader \/ CloseReturns \/ Listen \/ Pause \/
         Resume \/ Cancel \/ Close \/ IsolateExits
  BY <1>4 DEF HandleClosed, TakeMessage, HandleError, FlushEnds, NativeUnchanged,
     readerVars, Deliver, Alive, DeliveryScheduled, StartFlush, StopRuntime,
     NotifyReader, Notify, Untouched, CloseReturns, Listen, Pause, Resume,
     Cancel, Close, IsolateExits, TypeOK, BytesOK
<1>5. CASE HandleOutput
  <2>1. inflight' = inflight \/ Ack(Size(Head(inbox)))
    BY <1>5, Zenon DEF HandleOutput
  <2>2. PICK n \in Nat : n = Size(Head(inbox))
    BY <1>5, QueueTypes, MessageFields DEF HandleOutput, TakeMessage, TypeOK, BytesOK, Size
  <2>3. Ack(n) => inflight' \in Nat /\ inflight' <= inflight
    BY AckLowers
  <2>. QED BY <2>1, <2>2, <2>3 DEF TypeOK, BytesOK
<1>6. CASE FlushAck
  <2>1. PICK n \in Nat : n = Size(Head(pendingAcks)) /\ Ack(n)
    BY <1>6, QueueTypes, MessageFields DEF FlushAck, TypeOK, BytesOK, Size
  <2>2. inflight' \in Nat /\ inflight' <= inflight
    BY <2>1, AckLowers
  <2>. QED BY <2>2 DEF TypeOK, BytesOK
<1>7. CASE Finalize
  BY <1>7 DEF Finalize, TypeOK, BytesOK
<1>8. CASE UNCHANGED vars
  BY <1>8 DEF vars, readerVars, TypeOK, BytesOK
<1>. QED
  BY <1>1, <1>2, <1>3, <1>4, <1>5, <1>6, <1>7, <1>8
     DEF Next, PtyStep, NativeStep, IsolateStep, UserStep

(* Every batch posted is within its limit.                                 *)
LEMMA FitStep ==
  ASSUME TypeOK, BatchInv, BatchesFit, [Next]_vars
  PROVE  BatchesFit'
<1> USE DEF TypeOK, BytesOK, BatchesFit, dartVars, ptyVars, bufferVars,
        sharedVars, portVars
<1>1. CASE (FlushBegins \/ CheckCapacity \/ EnterWait \/ WaitTimesOut \/
         ReserveInflight \/ PostFails \/ ReleaseInflight \/ AppendRound \/
         AppendReturns \/ ReaderStarts \/ LoopTop \/ ReadData \/
         ReadWouldBlock \/ ReadEof \/ PollReady \/ PollTimesOut \/
         ChildWrites \/ SlaveCloses \/ ReadFails \/ DelayElapses) /\ UNCHANGED dartVars
  BY <1>1 DEF FlushBegins, ReturnFromFlush, CheckCapacity, EnterWait, WaitTimesOut,
     ReserveInflight, PostFails, ReleaseInflight, AppendRound, EnterFlush,
     AppendReturns, ReaderStarts, LoopTop, ReadData, ReadWouldBlock, ReadEof,
     PollReady, PollTimesOut, ChildWrites, SlaveCloses, ReadFails,
     DelayElapses
<1>2. CASE PostBatch /\ UNCHANGED dartVars
  <2>1. PICK m : m = OutputMessage(batch, ExternalFits(Size(batch)))
    OBVIOUS
  <2>2. Size(m) = Size(batch)
    BY <2>1 DEF OutputMessage, Size
  <2>3. Size(m) \in 1..BatchMax
    BY <1>2, <2>2, SizeAssumption DEF PostBatch, BatchInv, FlushStages, Chunk, Size
  <2>4. inbox' = Append(inbox, m)
    BY <1>2, <2>1 DEF PostBatch, Post
  <2>. QED BY <2>3, <2>4
<1>3. CASE PostError /\ UNCHANGED dartVars
  <2>1. PICK m : m = ControlMessage("error", batch.lo)
    OBVIOUS
  <2>2. inbox' \in {inbox, Append(inbox, m)} /\ m.kind # "output"
    BY <1>3, <2>1 DEF PostError, Post, ControlMessage
  <2>3. CASE inbox' = Append(inbox, m)
    <3>1. \A i \in DOMAIN inbox' : inbox'[i] = m \/ (i \in DOMAIN inbox /\ inbox'[i] = inbox[i])
      BY <2>3
    <3>. QED BY <2>2, <3>1
  <2>. QED BY <2>2, <2>3
<1>4. CASE ClosePorts /\ UNCHANGED dartVars
  <2>1. PICK m : m = ControlMessage("closed", batch.lo)
    OBVIOUS
  <2>2. inbox' \in {inbox, Append(inbox, m)} /\ m.kind # "output"
    BY <1>4, <2>1 DEF ClosePorts, Post, ControlMessage
  <2>3. CASE inbox' = Append(inbox, m)
    <3>1. \A i \in DOMAIN inbox' : inbox'[i] = m \/ (i \in DOMAIN inbox /\ inbox'[i] = inbox[i])
      BY <2>3
    <3>. QED BY <2>2, <3>1
  <2>. QED BY <2>2, <2>3
<1>5. CASE FlushAck \/ FlushEnds \/ Deliver \/ StopRuntime \/ NotifyReader \/
         Listen \/ Pause \/ Resume \/ Cancel \/ Close
  BY <1>5 DEF FlushAck, Ack, AckOutput, Notify, Untouched, FlushEnds, NativeUnchanged,
     readerVars, Deliver, Alive, DeliveryScheduled, StartFlush, StopRuntime,
     NotifyReader, Listen, Pause, Resume, Cancel, Close
<1>6. CASE HandleOutput
  <2>1. inbox # <<>> /\ inbox' = Tail(inbox)
    BY <1>6 DEF HandleOutput, TakeMessage
  <2>. QED BY <2>1
<1>7. CASE HandleClosed
  <2>1. inbox # <<>> /\ inbox' = Tail(inbox)
    BY <1>7 DEF HandleClosed, TakeMessage
  <2>. QED BY <2>1
<1>8. CASE HandleError
  <2>1. inbox # <<>> /\ inbox' = Tail(inbox)
    BY <1>8 DEF HandleError, TakeMessage
  <2>. QED BY <2>1
<1>9. CASE CloseReturns
  BY <1>9 DEF CloseReturns
<1>10. CASE IsolateExits
  BY <1>10 DEF IsolateExits
<1>11. CASE Finalize
  BY <1>11 DEF Finalize
<1>12. CASE UNCHANGED vars
  BY <1>12 DEF vars, readerVars
<1>. QED
  BY <1>1, <1>2, <1>3, <1>4, <1>5, <1>6, <1>7, <1>8, <1>9, <1>10, <1>11,
     <1>12
     DEF Next, PtyStep, NativeStep, IsolateStep, UserStep

(***************************************************************************)
(* The backlog, the external bytes and the end of the stream               *)
(***************************************************************************)

(* What a step of the reader or of the terminal leaves alone.              *)
LEMMA NativeFrame ==
  ASSUME PtyStep \/ NativeStep
  PROVE  UNCHANGED dartVars /\ UNCHANGED <<stop, portOpen>>
BY Zenon DEF PtyStep, NativeStep, ptyVars, bufferVars, sharedVars, portVars, FlushBegins, CheckCapacity,
   EnterWait, WaitTimesOut, ReserveInflight, PostBatch, PostFails, ReleaseInflight, AppendRound,
   AppendReturns, ReaderStarts, LoopTop, ReadData, ReadWouldBlock, ReadEof, PollReady,
   PollTimesOut, PostError, ClosePorts, ChildWrites, SlaveCloses, ReadFails, DelayElapses

(* What a step of the isolate leaves alone: it moves the reader only from  *)
(* its wait back to the check.                                             *)
LEMMA DartFrame ==
  ASSUME IsolateStep \/ UserStep \/ Finalize
  PROVE  /\ UNCHANGED <<cont, produced, consumed, slaveOpen, data, batch, timer>>
         /\ rpc' = rpc \/ (rpc = "waiting" /\ rpc' = "capacity")
<1>1. UNCHANGED <<cont, produced, consumed, slaveOpen, data, batch, timer>>
  BY Zenon DEF IsolateStep, UserStep, ptyVars, bufferVars, HandleOutput, TakeMessage, HandleClosed,
     HandleError, FlushAck, Untouched, FlushEnds, NativeUnchanged, readerVars, Deliver, StopRuntime,
     NotifyReader, CloseReturns, Listen, Pause, Resume, Cancel, Close, IsolateExits, Finalize
<1>2. CASE HandleOutput \/ FlushAck \/ NotifyReader
  BY <1>1, <1>2 DEF HandleOutput, FlushAck, NotifyReader, Ack, AckOutput, Notify
<1>3. CASE HandleClosed \/ HandleError \/ FlushEnds \/ Deliver \/ StopRuntime \/ CloseReturns
             \/ UserStep \/ Finalize
  BY <1>1, <1>3 DEF UserStep, TakeMessage, HandleClosed, HandleError, FlushEnds, NativeUnchanged,
     readerVars, Deliver, StopRuntime, CloseReturns, Listen, Pause, Resume, Cancel, Close,
     IsolateExits, Finalize
<1>. QED BY <1>1, <1>2, <1>3 DEF IsolateStep

(* A chain does not lead backwards.                                        *)
LEMMA ChainOrder ==
  ASSUME NEW a \in Nat, NEW s \in Seq(Message), NEW b \in Nat, Chained(a, s, b)
  PROVE  a <= b
<1>1. CASE s = <<>>
  BY <1>1 DEF Chained
<1>2. CASE s # <<>>
  <2>1. Head(s).hi \in Nat
    BY <1>2, QueueTypes, MessageFields
  <2>. QED BY <1>2, <2>1, ChainedTail
<1>. QED BY <1>1, <1>2

(* The numbers a step compares.                                            *)
LEMMA Numbers ==
  ASSUME TypeOK
  PROVE  /\ received \in Nat /\ acked \in Nat /\ BufferEnd \in Nat /\ Window \in Nat
         /\ batch.lo \in Nat /\ batch.hi \in Nat /\ produced \in Nat /\ consumed \in Nat
         /\ StreamIntact => received <= BufferEnd /\ batch.lo <= consumed
<1>1. /\ received \in Nat /\ acked \in Nat /\ BufferEnd \in Nat /\ Window \in Nat
      /\ batch.lo \in Nat /\ batch.hi \in Nat /\ produced \in Nat /\ consumed \in Nat
      /\ buffer \in Seq(Message)
  BY BufferEndType, SizeAssumption DEF TypeOK, BytesOK, Chunk, Window
<1>2. StreamIntact => received <= BufferEnd
  BY <1>1, ChainOrder DEF StreamIntact
<1>3. StreamIntact => batch.lo <= consumed
  BY <1>1 DEF StreamIntact, TypeOK, BytesOK, Chunk
<1>. QED BY <1>1, <1>2, <1>3

(* What has been posted and not acknowledged is within the window.         *)
LEMMA UnackedBound ==
  ASSUME TypeOK, AckInv, InflightExact, InflightBound, RequireAcks
  PROVE  batch.lo <= acked + Window
<1>1. Reserved \in Nat
  BY DEF Reserved, Size, TypeOK, BytesOK, Chunk
<1>. QED BY <1>1, Numbers DEF InflightExact, InflightBound, TypeOK, BytesOK

(* When output may be acknowledged at once, the listener has all of it.    *)
LEMMA AckedWhenTaken ==
  ASSUME TypeOK, PortInv, InboxInv, ListenerInv, StreamIntact, AckInv, HandleOutput, CanAckOutput
  PROVE  /\ acked = BufferEnd /\ received = BufferEnd
         /\ acked' = acked + Size(Head(inbox)) /\ Head(inbox).lo = BufferEnd
         /\ Head(inbox).hi \in Nat /\ Head(inbox).hi <= batch.lo
         /\ received' \in {received, received + Size(Head(inbox))}
<1>1. TakeMessage /\ dpc = "idle" /\ ~DeliveryScheduled
  BY DEF HandleOutput, TakeMessage
<1>2. /\ portOpen /\ ~outputDone /\ Head(inbox).lo = BufferEnd
      /\ Head(inbox).hi \in Nat /\ Head(inbox).hi <= batch.lo
  BY <1>1, TakenMessage
<1>3. pendingAcks = <<>> /\ buffer = <<>>
  BY <1>1 DEF ListenerInv, CanAckOutput, DeliveryScheduled
<1>4. acked = BufferEnd /\ received = BufferEnd
  BY <1>2, <1>3 DEF AckInv, Chained, BufferEnd
<1>5. acked' = acked + Size(Head(inbox)) /\ received' \in {received, received + Size(Head(inbox))}
  BY <1>2, Zenon DEF HandleOutput, Ack
<1>. QED BY <1>2, <1>4, <1>5

(* Acks run ahead of the listener by no more than a window.                *)
LEMMA BacklogStep ==
  ASSUME TypeOK, PortInv, InboxInv, ListenerInv, StreamIntact, AckInv, InflightExact,
         InflightBound, BacklogInv, TypeOK', AckInv', [Next]_vars
  PROVE  BacklogInv'
<1> SUFFICES ASSUME RequireAcks, portOpen'
             PROVE  /\ sub' = "none" => acked' = 0 /\ received' = 0
                    /\ acked' <= received' + Window
                    /\ dpc' = "flushing" => sub' # "none" /\ BufferEnd' <= received' + Window
  BY DEF BacklogInv, Window
<1> USE DEF dartVars, ptyVars, bufferVars, sharedVars, portVars
<1>1. received \in Nat /\ acked \in Nat /\ BufferEnd \in Nat /\ Window \in Nat
        /\ batch.lo \in Nat /\ received <= BufferEnd /\ batch.lo <= acked + Window
  BY Numbers, UnackedBound
<1>2. portOpen => /\ sub = "none" => acked = 0 /\ received = 0
                  /\ acked <= received + Window
                  /\ dpc = "flushing" => sub # "none" /\ BufferEnd <= received + Window
                  /\ BufferEnd <= batch.lo
  BY StreamOrder DEF BacklogInv
<1>3. CASE PtyStep \/ NativeStep
  BY <1>2, <1>3, NativeFrame DEF BufferEnd
<1>4. CASE HandleOutput
  <2>1. portOpen /\ dpc' # "flushing" /\ sub' = sub
    BY <1>4, TakenMessage DEF HandleOutput, TakeMessage
  <2>2. CASE CanAckOutput
    <3>1. /\ acked = BufferEnd /\ received = BufferEnd /\ acked' = acked + Size(Head(inbox))
          /\ Head(inbox).lo = BufferEnd /\ Head(inbox).hi \in Nat /\ Head(inbox).hi <= batch.lo
          /\ received' \in {received, received + Size(Head(inbox))}
      BY <1>4, <2>2, AckedWhenTaken
    <3>2. sub # "none" /\ Size(Head(inbox)) \in Nat
      BY <1>4, <2>2, TakenMessage DEF CanAckOutput, HandleOutput, Size
    <3>. QED BY <1>1, <2>1, <3>1, <3>2 DEF Size
  <2>3. CASE ~CanAckOutput
    <3>1. acked' = acked /\ received' = received
      BY <1>4, <2>3 DEF HandleOutput, CanAckOutput
    <3>. QED BY <1>2, <2>1, <3>1
  <2>. QED BY <2>2, <2>3
<1>5. CASE HandleClosed \/ HandleError \/ FlushEnds \/ StopRuntime \/ NotifyReader \/ Pause \/ Close
  <2>1. acked' = acked /\ received' = received /\ dpc' # "flushing" /\ portOpen
    BY <1>5, Zenon DEF HandleClosed, HandleError, TakeMessage, FlushEnds, StopRuntime, NotifyReader,
       Untouched, Pause, Close, NativeUnchanged, readerVars, Alive
  <2>2. sub' = sub \/ sub' = "paused"
    BY <1>5, Zenon DEF HandleClosed, HandleError, FlushEnds, StopRuntime, NotifyReader, Pause, Close
  <2>. QED BY <1>2, <2>1, <2>2
<1>6. CASE FlushAck
  <2>1. portOpen /\ received' = received /\ sub' = sub /\ dpc = "flushing" /\ BufferEnd' = BufferEnd
    BY <1>6 DEF FlushAck, Untouched, BufferEnd
  <2>2. acked' \in Nat /\ pendingAcks' \in Seq(Message) /\ Chained(acked', pendingAcks', BufferEnd)
    BY <2>1 DEF TypeOK, BytesOK, AckInv
  <2>3. acked' <= BufferEnd
    BY <1>1, <2>2, ChainOrder
  <2>. QED BY <1>1, <1>2, <2>1, <2>2, <2>3
<1>7. CASE Listen
  <2>1. /\ portOpen /\ acked' = acked /\ received' = received /\ sub = "none" /\ sub' = "active"
        /\ BufferEnd' = BufferEnd
    BY <1>7 DEF Listen, NativeUnchanged, readerVars, BufferEnd
  <2>. QED BY <1>1, <1>2, <2>1
<1>8. CASE Deliver \/ Resume \/ Cancel
  <2>1. portOpen /\ acked' = acked /\ sub \in {"active", "paused"} /\ sub' # "none"
    BY <1>8 DEF Deliver, DeliveryScheduled, Resume, Cancel, NativeUnchanged, readerVars
  <2>2. received <= received' /\ received' \in Nat
    <3>1. CASE Deliver
      <4>1. Head(buffer) \in Message /\ received' = received + Size(Head(buffer))
        BY <3>1, QueueTypes DEF Deliver, DeliveryScheduled, TypeOK, BytesOK
      <4>. QED BY <1>1, <4>1, MessageFields DEF Size
    <3>2. CASE Resume \/ Cancel
      BY <1>1, <3>2 DEF Resume, Cancel
    <3>. QED BY <1>8, <3>1, <3>2
  <2>3. dpc' = "flushing" => dpc = "flushing" \/ BufferEnd' = received'
    BY <1>8 DEF Deliver, Resume, Cancel, StartFlush, BufferEnd
  <2>4. dpc # "flushing"
    BY <1>8 DEF Deliver, Resume, Cancel, Alive
  <2>5. acked' <= received' + Window
    <3>1. acked <= received + Window
      BY <1>2, <2>1
    <3>2. \A a, b, c, w \in Nat : a <= b + w /\ b <= c => a <= c + w
      OBVIOUS
    <3>. QED BY <1>1, <2>1, <2>2, <3>1, <3>2
  <2>6. dpc' = "flushing" => BufferEnd' <= received' + Window
    BY <1>1, <2>2, <2>3, <2>4
  <2>. QED BY <2>1, <2>5, <2>6
<1>9. CASE CloseReturns \/ IsolateExits
  BY <1>9 DEF CloseReturns, IsolateExits
<1>10. CASE Finalize \/ UNCHANGED vars
  BY <1>2, <1>10 DEF Finalize, vars, readerVars, BufferEnd
<1>. QED BY <1>3, <1>4, <1>5, <1>6, <1>7, <1>8, <1>9, <1>10 DEF Next, IsolateStep, UserStep

(* The listener has what it was handed, and the controller what was posted *)
(* and read.                                                               *)
LEMMA ReachStep ==
  ASSUME TypeOK, PortInv, StreamIntact, ReachInv, TypeOK', StreamIntact', [Next]_vars
  PROVE  ReachInv'
<1> USE DEF dartVars, ptyVars, bufferVars, sharedVars, portVars
<1>1. BufferEnd' \in Nat /\ batch'.lo \in Nat /\ inbox' \in Seq(Message)
  <2>1. received' \in Nat /\ buffer' \in Seq(Message) /\ batch'.lo \in Nat /\ inbox' \in Seq(Message)
    BY DEF TypeOK, BytesOK, Chunk
  <2>2. buffer' # <<>> => buffer'[Len(buffer')] \in Message
    BY <2>1, QueueTypes
  <2>. QED BY <2>1, <2>2, MessageFields DEF BufferEnd
<1>2. portOpen' => BufferEnd' <= batch'.lo
  <2> SUFFICES ASSUME portOpen' PROVE BufferEnd' <= batch'.lo
    OBVIOUS
  <2>1. PICK a \in Nat, s \in Seq(Message), b \in Nat : a = BufferEnd' /\ s = inbox' /\ b = batch'.lo
    BY <1>1
  <2>2. Chained(a, s, b)
    BY <2>1 DEF StreamIntact
  <2>. QED BY <2>1, <2>2, ChainOrder
<1>3. ~portOpen' => BufferEnd' = BufferEnd /\ batch'.lo = batch.lo
  <2> SUFFICES ASSUME ~portOpen' PROVE BufferEnd' = BufferEnd /\ batch'.lo = batch.lo
    OBVIOUS
  <2>1. CASE PtyStep \/ NativeStep
    <3>1. BufferEnd' = BufferEnd /\ ~portOpen
      BY <2>1, NativeFrame DEF BufferEnd
    <3>2. batch' = batch \/ AppendRound
      BY <2>1, <3>1 DEF PtyStep, NativeStep, FlushBegins, CheckCapacity,
         EnterWait, WaitTimesOut, ReserveInflight, PostBatch, PostFails, ReleaseInflight,
         AppendReturns, ReaderStarts, LoopTop, ReadData, ReadWouldBlock, ReadEof, PollReady,
         PollTimesOut, PostError, ClosePorts, ChildWrites, SlaveCloses, ReadFails, DelayElapses
    <3>3. AppendRound => batch'.lo = batch.lo
      BY DEF AppendRound, Extend, TypeOK, BytesOK, Chunk
    <3>. QED BY <3>1, <3>2, <3>3
  <2>2. CASE IsolateStep \/ UserStep \/ Finalize
    <3>1. batch' = batch
      BY <2>2, DartFrame
    <3>2. CASE Deliver \/ Cancel
      BY <3>1, <3>2, ControllerDrained DEF StreamIntact, Deliver, DeliveryScheduled, Cancel
    <3>3. CASE CloseReturns
      <4>1. ControlMessage("closed", BufferEnd) \in Message
        BY MessageMade, BufferEndType
      <4>. QED BY <3>1, <3>3, <4>1, ControllerTold DEF StreamIntact, CloseReturns, ControlMessage
    <3>4. CASE HandleOutput \/ HandleClosed \/ HandleError \/ FlushAck
      BY <3>4 DEF HandleOutput, HandleClosed, HandleError, TakeMessage, FlushAck, Untouched, PortInv
    <3>5. CASE FlushEnds \/ StopRuntime \/ NotifyReader \/ Listen \/ Pause \/ Resume \/ Close
                 \/ IsolateExits \/ Finalize
      BY <3>1, <3>5, Zenon DEF FlushEnds, StopRuntime, NotifyReader, Listen, Pause, Resume, Close,
         IsolateExits, Finalize, BufferEnd
    <3>. QED BY <2>2, <3>2, <3>3, <3>4, <3>5 DEF IsolateStep, UserStep
  <2>3. CASE UNCHANGED vars
    BY <2>3 DEF vars, readerVars, BufferEnd
  <2>. QED BY <2>1, <2>2, <2>3 DEF Next
<1>4. consumed' <= produced'
  <2>1. consumed \in Nat /\ produced \in Nat /\ consumed <= produced
    BY Numbers DEF ReachInv
  <2>2. CASE PtyStep \/ NativeStep
    <3>1. CASE ReadData
      BY <2>1, <3>1, SizeAssumption DEF ReadData, Unread
    <3>2. CASE ChildWrites
      BY <2>1, <3>2 DEF ChildWrites
    <3>3. CASE UNCHANGED <<produced, consumed>>
      BY <2>1, <3>3
    <3>. QED BY <2>2, <3>1, <3>2, <3>3, Zenon DEF PtyStep, NativeStep, FlushBegins, CheckCapacity,
         EnterWait, WaitTimesOut, ReserveInflight, PostBatch, PostFails, ReleaseInflight, AppendRound,
         AppendReturns, ReaderStarts, LoopTop, ReadWouldBlock, ReadEof, PollReady,
         PollTimesOut, PostError, ClosePorts, SlaveCloses, ReadFails, DelayElapses
  <2>3. CASE IsolateStep \/ UserStep \/ Finalize
    BY <2>1, <2>3, DartFrame
  <2>4. CASE UNCHANGED vars
    BY <2>1, <2>4 DEF vars, readerVars
  <2>. QED BY <2>2, <2>3, <2>4 DEF Next
<1>. QED BY <1>2, <1>3, <1>4, Zenon DEF ReachInv

(* MapThenSumSet, as a sum of DataInduction.                               *)
SizeOf == [m \in Message |-> Size(m)]
PeerSums(S) ==
  CHOOSE g : g = [s \in SUBSET S |->
    IF s = {} THEN 0 ELSE Size(CHOOSE x \in s : TRUE) + g[s \ {CHOOSE x \in s : TRUE}]]

(* The bytes of a set of peers, as ExternalBytesExact counts them.         *)
PeerBytes(S) == MapThenSumSet(Size, S)

LEMMA PeerSumsAre == \A S : PeerBytes(S) = PeerSums(S)[S]
BY DEF PeerBytes, MapThenSumSet, MapThenFoldSet, PeerSums

LEMMA ExternalIsPeers ==
  /\ ExternalBytesExact <=> externalBytes = PeerBytes(peers) /\ externalBytes <= MaxExternal
  /\ ExternalBytesExact' <=> externalBytes' = PeerBytes(peers') /\ externalBytes' <= MaxExternal
BY Zenon DEF ExternalBytesExact, PeerBytes

LEMMA SumOfPeers ==
  ASSUME NEW S \in SUBSET Message, IsFiniteSet(S)
  PROVE  PeerBytes(S) = SumOf(SizeOf, S)[S]
<1>1. \A x \in Message : SizeOf[x] = Size(x) /\ SizeOf[x] \in Int
  BY MessageFields DEF SizeOf, Size
<1> DEFINE g == SumOf(SizeOf, S)
           h == PeerSums(S)
           StepOf(f, s) == IF s = {} THEN 0
                           ELSE Size(CHOOSE x \in s : TRUE) + f[s \ {CHOOSE x \in s : TRUE}]
<1>2. \A x \in S : SizeOf[x] \in Int
  BY <1>1
<1>3. g \in [SUBSET S -> Int] /\ Sums(g, SizeOf, S)
  <2> HIDE DEF g
  <2>1. SumOf(SizeOf, S) \in [SUBSET S -> Int] /\ Sums(SumOf(SizeOf, S), SizeOf, S)
    BY <1>2, SumIsDefined
  <2>. QED BY <2>1 DEF g
<1> HIDE DEF g
<1>4. ASSUME NEW f, NEW s \in SUBSET S PROVE SumStep(f, SizeOf, s) = StepOf(f, s)
  <2>1. CASE s = {}
    BY <2>1 DEF SumStep
  <2>2. CASE s # {}
    <3>1. Some(s) = (CHOOSE x \in s : TRUE)
      BY DEF Some
    <3>2. Some(s) \in Message
      BY <2>2, <3>1
    <3>3. SizeOf[Some(s)] = Size(CHOOSE x \in s : TRUE)
      BY <1>1, <3>1, <3>2
    <3>. QED BY <2>2, <3>1, <3>3 DEF SumStep
  <2>. QED BY <2>1, <2>2
<1>5. g = [s \in SUBSET S |-> StepOf(g, s)]
  BY <1>3, <1>4 DEF Sums
<1>6. h = [s \in SUBSET S |-> StepOf(h, s)]
  BY <1>5 DEF PeerSums
<1> HIDE DEF h
<1>7. Sums(h, SizeOf, S)
  <2>1. \A s \in SUBSET S : h[s] = StepOf(h, s)
    BY <1>6
  <2> HIDE DEF StepOf
  <2>. QED BY <1>4, <2>1 DEF Sums
<1>8. \A s \in SUBSET S : g[s] = h[s]
  BY <1>3, <1>7, SumsAgree
<1>. QED BY <1>8, PeerSumsAre DEF g, h

LEMMA NoPeers == PeerBytes({}) = 0
<1>1. IsFiniteSet({}) /\ {} \in SUBSET Message
  BY FS_EmptySet
<1>2. \A x \in {} : SizeOf[x] \in Int
  OBVIOUS
<1>3. Sums(SumOf(SizeOf, {}), SizeOf, {})
  BY <1>1, <1>2, SumIsDefined
<1>4. SumOf(SizeOf, {})[{}] = 0
  BY <1>3 DEF Sums, SumStep
<1>. QED BY <1>1, <1>4, SumOfPeers

(* What is allocated grows by a peer that is new, and shrinks by one that  *)
(* is finalized.                                                           *)
LEMMA PeerAdded ==
  ASSUME NEW S \in SUBSET Message, IsFiniteSet(S), NEW m \in Message, m \notin S
  PROVE  /\ PeerBytes(S) \in Int
         /\ PeerBytes(S \union {m}) = PeerBytes(S) + Size(m)
         /\ IsFiniteSet(S \union {m})
<1>1. \A x \in Message : SizeOf[x] = Size(x) /\ SizeOf[x] \in Int
  BY MessageFields DEF SizeOf, Size
<1>2. IsFiniteSet(S \union {m}) /\ S \union {m} \in SUBSET Message
  BY FS_AddElement
<1>3. \A x \in S \union {m} : SizeOf[x] \in Int
  BY <1>1
<1>4. /\ SumOf(SizeOf, S)[S] \in Int
      /\ SumOf(SizeOf, S \union {m})[S \union {m}] = SizeOf[m] + SumOf(SizeOf, S)[S]
  BY <1>3, SumAdds
<1>5. PeerBytes(S) = SumOf(SizeOf, S)[S]
  BY SumOfPeers
<1>6. PeerBytes(S \union {m}) = SumOf(SizeOf, S \union {m})[S \union {m}]
  <2>1. PICK T \in SUBSET Message : T = S \union {m} /\ IsFiniteSet(T)
    BY <1>2
  <2>2. PeerBytes(T) = SumOf(SizeOf, T)[T]
    BY <2>1, SumOfPeers
  <2>. QED BY <2>1, <2>2
<1>. QED BY <1>1, <1>2, <1>4, <1>5, <1>6

LEMMA PeerRemoved ==
  ASSUME NEW S \in SUBSET Message, IsFiniteSet(S), NEW m \in S
  PROVE  /\ PeerBytes(S) \in Int /\ IsFiniteSet(S \ {m})
         /\ PeerBytes(S \ {m}) = PeerBytes(S) - Size(m)
<1>1. PICK T \in SUBSET Message : T = S \ {m}
  OBVIOUS
<1>2. IsFiniteSet(T) /\ m \notin T /\ T \union {m} = S /\ m \in Message
  BY <1>1, FS_RemoveElement
<1>3. /\ PeerBytes(T) \in Int
      /\ PeerBytes(S) = PeerBytes(T) + Size(m)
  BY <1>2, PeerAdded
<1>4. Size(m) \in Int
  BY <1>2, MessageFields DEF Size
<1>5. PICK a \in Int, b \in Int : a = PeerBytes(T) /\ b = Size(m)
  BY <1>3, <1>4
<1>6. PeerBytes(S) = a + b
  BY <1>3, <1>5
<1>. QED BY <1>1, <1>2, <1>5, <1>6

(* The bytes the counter has are those of the peers alive.                 *)
LEMMA PeersStep ==
  ASSUME TypeOK, BatchInv, StreamIntact, PeersInv, ExternalBytesExact, [Next]_vars
  PROVE  PeersInv' /\ ExternalBytesExact'
<1> USE DEF dartVars, ptyVars, bufferVars, sharedVars, portVars
<1>1. /\ peers \in SUBSET Message /\ IsFiniteSet(peers) /\ externalBytes = PeerBytes(peers)
      /\ externalBytes <= MaxExternal /\ externalBytes \in Int /\ MaxExternal \in Nat
      /\ \A m \in peers : m.lo \in Nat /\ m.hi \in Nat /\ m.lo <= m.hi /\ m.hi <= batch.lo
      /\ batch.lo \in Nat /\ batch.hi \in Nat /\ batch.lo <= batch.hi
  BY SizeAssumption, MessageFields, ExternalIsPeers DEF TypeOK, BytesOK, Chunk, PeersInv
<1>2. ASSUME UNCHANGED <<externalBytes, peers>>, batch'.lo >= batch.lo, batch'.lo \in Nat
      PROVE  PeersInv' /\ ExternalBytesExact'
  <2>1. \A m \in peers' : m.hi <= batch'.lo
    BY <1>1, <1>2
  <2>. QED BY <1>1, <1>2, <2>1, ExternalIsPeers DEF PeersInv
<1>3. CASE PostBatch
  <2>1. PICK m : m = OutputMessage(batch, ExternalFits(Size(batch)))
    OBVIOUS
  <2>2. batch'.lo = batch.hi /\ Size(batch) > 0
    BY <1>3 DEF PostBatch, EmptyAt, BatchInv, FlushStages
  <2>3. CASE m.external
    <3>1. externalBytes' = externalBytes + Size(m) /\ peers' = peers \union {m}
      BY <1>3, <2>1, <2>3 DEF PostBatch
    <3>2. m \in Message /\ m.lo = batch.lo /\ m.hi = batch.hi
      <4>1. ExternalFits(Size(batch)) \in BOOLEAN
        BY FlagAssumption DEF ExternalFits
      <4>2. m \in Message
        BY <2>1, <4>1, MessageMade, Zenon DEF TypeOK, BytesOK
      <4>. QED BY <2>1, <4>2 DEF OutputMessage
    <3>3. m \notin peers
      <4>1. batch.hi > batch.lo
        BY <1>1, <2>2 DEF Size
      <4>. QED BY <1>1, <3>2, <4>1
    <3>4. externalBytes + Size(m) <= MaxExternal
      BY <2>1, <2>3, <3>2 DEF OutputMessage, ExternalFits, Size
    <3>5. IsFiniteSet(peers') /\ externalBytes' = PeerBytes(peers')
      BY <1>1, <3>1, <3>2, <3>3, PeerAdded
    <3>6. \A p \in peers' : p.hi <= batch'.lo
      BY <1>1, <2>2, <3>1, <3>2
    <3>. QED BY <3>1, <3>4, <3>5, <3>6, ExternalIsPeers DEF PeersInv
  <2>4. CASE ~m.external
    BY <1>1, <1>2, <1>3, <2>1, <2>2, <2>4 DEF PostBatch
  <2>. QED BY <2>3, <2>4
<1>4. CASE Finalize
  <2>1. PICK m \in peers : peers' = peers \ {m} /\ externalBytes' = externalBytes - Size(m)
                           /\ batch' = batch
    BY <1>4 DEF Finalize
  <2>2. IsFiniteSet(peers') /\ externalBytes' = PeerBytes(peers')
    BY <1>1, <2>1, PeerRemoved
  <2>3. externalBytes' <= MaxExternal
    <3>1. Size(m) \in Nat
      BY <1>1, <2>1 DEF Size
    <3>. QED BY <1>1, <2>1, <3>1
  <2>4. \A p \in peers' : p.hi <= batch'.lo
    BY <1>1, <2>1
  <2>. QED BY <2>2, <2>3, <2>4, ExternalIsPeers DEF PeersInv
<1>5. CASE PtyStep \/ NativeStep
  <2>1. CASE AppendRound
    <3>1. batch'.lo = batch.lo /\ UNCHANGED <<externalBytes, peers>>
      BY <2>1 DEF AppendRound, Extend, TypeOK, BytesOK, Chunk
    <3>. QED BY <1>1, <1>2, <3>1
  <2>2. CASE UNCHANGED <<externalBytes, peers, batch>>
    BY <1>1, <1>2, <2>2
  <2>. QED BY <1>3, <1>5, <2>1, <2>2, Zenon DEF PtyStep, NativeStep, FlushBegins, CheckCapacity,
         EnterWait, WaitTimesOut, ReserveInflight, PostFails, ReleaseInflight,
         AppendReturns, ReaderStarts, LoopTop, ReadData, ReadWouldBlock, ReadEof, PollReady,
         PollTimesOut, PostError, ClosePorts, ChildWrites, SlaveCloses, ReadFails, DelayElapses
<1>6. CASE IsolateStep \/ UserStep
  <2>1. UNCHANGED <<externalBytes, peers>>
    BY <1>6, Zenon DEF IsolateStep, UserStep, HandleOutput, TakeMessage, HandleClosed,
     HandleError, FlushAck, Untouched, FlushEnds, NativeUnchanged, readerVars, Deliver, StopRuntime,
     NotifyReader, CloseReturns, Listen, Pause, Resume, Cancel, Close, IsolateExits
  <2>2. batch' = batch
    BY <1>6, DartFrame
  <2>. QED BY <1>1, <1>2, <2>1, <2>2
<1>7. CASE UNCHANGED vars
  BY <1>1, <1>2, <1>7 DEF vars, readerVars
<1>. QED BY <1>4, <1>5, <1>6, <1>7 DEF Next

(* What cuts the stream short does so for good.                            *)
LEMMA CutStays ==
  ASSUME TypeOK, EndInv, [Next]_vars
  PROVE  /\ CutShort => CutShort'
         /\ stop' => Closed'
<1> USE DEF dartVars, ptyVars, bufferVars, sharedVars, portVars
<1>1. (Closed => Closed') /\ (~portOpen => ~portOpen') /\ (stop' => stop \/ StopRuntime)
  <2>1. CASE PtyStep \/ NativeStep
    BY <2>1, NativeFrame DEF Closed
  <2>2. CASE IsolateStep \/ UserStep
    BY <2>2 DEF Closed, IsolateStep, UserStep, HandleOutput, TakeMessage, HandleClosed,
     HandleError, FlushAck, Untouched, FlushEnds, NativeUnchanged, readerVars, Deliver, Alive,
     StartFlush, StopRuntime, NotifyReader, CloseReturns, Listen, Pause, Resume, Cancel, Close,
     IsolateExits
  <2>3. CASE Finalize \/ UNCHANGED vars
    BY <2>3 DEF Closed, Finalize, vars, readerVars
  <2>. QED BY <2>1, <2>2, <2>3 DEF Next
<1>2. cont = "error" => cont' = "error"
  <2>1. CASE PtyStep \/ NativeStep
    BY <2>1 DEF EndInv, FlushStages, PtyStep, NativeStep, FlushBegins, CheckCapacity,
         EnterWait, WaitTimesOut, ReserveInflight, PostBatch, PostFails, ReleaseInflight, AppendRound,
         AppendReturns, ReaderStarts, LoopTop, ReadData, ReadWouldBlock, ReadEof, PollReady,
         PollTimesOut, PostError, ClosePorts, ChildWrites, SlaveCloses, ReadFails, DelayElapses,
         EnterFlush
  <2>2. CASE IsolateStep \/ UserStep \/ Finalize
    BY <2>2, DartFrame
  <2>3. CASE UNCHANGED vars
    BY <2>3 DEF vars, readerVars
  <2>. QED BY <2>1, <2>2, <2>3 DEF Next
<1>3. StopRuntime => Closed'
  BY DEF StopRuntime, Closed
<1>. QED BY <1>1, <1>2, <1>3, Zenon DEF CutShort, EndInv

(* A reader that leaves has posted all there was, unless it was cut short. *)
LEMMA EndStep ==
  ASSUME TypeOK, StreamIntact, DataInv, EndInv, [Next]_vars
  PROVE  EndInv'
<1> DEFINE All == ~slaveOpen /\ batch.lo = produced
           Leaving == CutShort \/ (~slaveOpen /\ Unread = 0)
<1> USE DEF dartVars, ptyVars, bufferVars, sharedVars, portVars
<1>1. (CutShort => CutShort') /\ (stop' => Closed')
  BY CutStays
<1>2. SUFFICES
        /\ cont' = "error" => rpc' \in FlushStages \union {"postError", "exit", "done"}
        /\ rpc' = "postError" => cont' = "error"
        /\ rpc' = "release" => ~portOpen'
        /\ rpc' \in FlushStages /\ cont' = "exit" => Leaving'
        /\ rpc' \in {"exit", "done"} => CutShort' \/ All'
  BY <1>1 DEF EndInv
<1>3. /\ cont = "error" => rpc \in FlushStages \union {"postError", "exit", "done"}
      /\ rpc = "postError" => cont = "error"
      /\ rpc = "release" => ~portOpen
      /\ rpc \in FlushStages /\ cont = "exit" => Leaving
      /\ rpc \in {"exit", "done"} => CutShort \/ All
      /\ stop => Closed
  BY DEF EndInv
<1>4. /\ batch.lo \in Nat /\ batch.hi \in Nat /\ produced \in Nat /\ consumed \in Nat
      /\ batch.lo <= batch.hi /\ batch.hi <= consumed
      /\ rpc \in FlushStages /\ cont = "exit" => batch.hi = consumed
  BY DEF StreamIntact, TypeOK, BytesOK, Chunk, DataInv, Size
<1>5. (stop => CutShort) /\ (cont = "error" => CutShort) /\ (~portOpen => CutShort)
  BY <1>3 DEF CutShort
<1>6. CASE FlushBegins /\ UNCHANGED dartVars
  <2>1. CASE Size(batch) = 0
    <3>1. /\ rpc = "flush" /\ cont' = cont /\ ReturnFromFlush
          /\ UNCHANGED <<produced, slaveOpen, batch>>
      BY <1>6, <2>1 DEF FlushBegins
    <3>2. cont = "exit" => CutShort \/ All
      BY <1>3, <1>4, <2>1, <3>1 DEF FlushStages, Size, Unread
    <3>. QED BY <1>1, <1>3, <3>1, <3>2 DEF ReturnFromFlush, TypeOK, StagesOK, FlushStages
  <2>2. CASE Size(batch) > 0
    <3>1. /\ rpc = "flush" /\ cont' = cont /\ rpc' \in {"capacity", "post"}
          /\ UNCHANGED <<produced, consumed, slaveOpen>>
      BY <1>6, <2>2 DEF FlushBegins
    <3>. QED BY <1>1, <1>3, <3>1 DEF FlushStages, Unread
  <2>. QED BY <1>6, <2>1, <2>2 DEF FlushBegins
<1>7. CASE CheckCapacity /\ UNCHANGED dartVars
  <2>1. rpc = "capacity" /\ cont' = cont /\ UNCHANGED <<produced, consumed, slaveOpen>>
    BY <1>7 DEF CheckCapacity
  <2>2. CASE rpc' \in {"entering", "reserve"}
    BY <1>1, <1>3, <2>1, <2>2 DEF FlushStages, Unread
  <2>3. CASE stop /\ ReturnFromFlush
    BY <1>1, <1>3, <1>5, <2>1, <2>3 DEF ReturnFromFlush, TypeOK, StagesOK, FlushStages
  <2>. QED BY <1>7, <2>2, <2>3 DEF CheckCapacity
<1>8. CASE (EnterWait \/ WaitTimesOut \/ ReserveInflight) /\ UNCHANGED dartVars
  <2>1. /\ rpc \in FlushStages /\ rpc' \in FlushStages \ {"release"} /\ cont' = cont
        /\ UNCHANGED <<produced, consumed, slaveOpen>>
    BY <1>8 DEF EnterWait, WaitTimesOut, ReserveInflight, FlushStages
  <2>. QED BY <1>1, <1>3, <2>1 DEF FlushStages, Unread
<1>9. CASE PostBatch /\ UNCHANGED dartVars
  <2>1. /\ rpc = "post" /\ cont' = cont /\ ReturnFromFlush /\ UNCHANGED <<produced, slaveOpen>>
        /\ batch'.lo = batch.hi
    BY <1>9 DEF PostBatch, EmptyAt
  <2>2. cont = "exit" => CutShort \/ (~slaveOpen /\ batch.hi = produced)
    BY <1>3, <1>4, <2>1 DEF FlushStages, Unread
  <2>. QED BY <1>1, <1>3, <2>1, <2>2 DEF ReturnFromFlush, TypeOK, StagesOK, FlushStages
<1>10. CASE (PostFails \/ ReleaseInflight) /\ UNCHANGED dartVars
  <2>1. /\ rpc \in {"post", "release"} /\ ~portOpen /\ ~portOpen' /\ cont' = cont
        /\ rpc' \in {"release", "exit"}
    BY <1>3, <1>10 DEF PostFails, ReleaseInflight
  <2>. QED BY <1>1, <1>5, <2>1 DEF FlushStages
<1>11. CASE (AppendRound \/ AppendReturns \/ ReaderStarts \/ LoopTop \/ ReadData \/ ReadWouldBlock
               \/ PollReady \/ PollTimesOut \/ ReadEof \/ ReadFails) /\ UNCHANGED dartVars
  <2>1. rpc \in {"append", "start", "loop", "read", "poll"} /\ cont # "error"
    BY <1>3, <1>11 DEF AppendRound, AppendReturns, ReaderStarts, LoopTop, ReadData, ReadWouldBlock,
       PollReady, PollTimesOut, ReadEof, ReadFails, FlushStages
  <2>2. \/ rpc' \in {"append", "loop", "read", "poll"} /\ cont' = cont
        \/ rpc' = "postError" /\ cont' = "error"
        \/ rpc' = "flush" /\ cont' \in {"append", "loop", "error"}
        \/ rpc' = "flush" /\ cont' = "exit" /\ stop
        \/ rpc' = "flush" /\ cont' = "exit" /\ Unread = 0 /\ ~slaveOpen
             /\ UNCHANGED <<produced, consumed, slaveOpen>>
    BY <1>11, <2>1 DEF AppendRound, AppendReturns, ReaderStarts, LoopTop, ReadData, ReadWouldBlock,
       PollReady, PollTimesOut, ReadEof, ReadFails, EnterFlush
  <2>. QED BY <1>1, <1>5, <2>1, <2>2 DEF FlushStages, Unread
<1>12. CASE (PostError \/ ClosePorts) /\ UNCHANGED dartVars
  <2>1. /\ rpc \in {"postError", "exit"} /\ rpc' \in {"exit", "done"} /\ cont' = cont
        /\ UNCHANGED <<produced, slaveOpen, batch>>
    BY <1>12 DEF PostError, ClosePorts
  <2>. QED BY <1>1, <1>3, <1>5, <2>1 DEF FlushStages
<1>13. CASE (ChildWrites \/ SlaveCloses \/ DelayElapses) /\ UNCHANGED dartVars
  <2>1. UNCHANGED <<rpc, cont, batch, portOpen, consumed>>
    BY <1>13 DEF ChildWrites, SlaveCloses, DelayElapses
  <2>2. slaveOpen \/ UNCHANGED <<produced, slaveOpen>>
    BY <1>13 DEF ChildWrites, SlaveCloses, DelayElapses
  <2>. QED BY <1>1, <1>3, <2>1, <2>2 DEF FlushStages, Unread
<1>14. CASE IsolateStep \/ UserStep \/ Finalize
  <2>1. /\ UNCHANGED <<cont, produced, consumed, slaveOpen, batch>>
        /\ rpc' = rpc \/ (rpc = "waiting" /\ rpc' = "capacity")
    BY <1>14, DartFrame
  <2>2. ~portOpen => ~portOpen'
    BY <1>14 DEF IsolateStep, UserStep, HandleOutput, TakeMessage, HandleClosed,
     HandleError, FlushAck, Untouched, FlushEnds, NativeUnchanged, readerVars, Deliver,
     StopRuntime, NotifyReader, CloseReturns, Listen, Pause, Resume, Cancel, Close,
     IsolateExits, Finalize
  <2>. QED BY <1>1, <1>3, <2>1, <2>2 DEF FlushStages, Unread
<1>15. CASE UNCHANGED vars
  <2>1. UNCHANGED <<cont, produced, consumed, slaveOpen, batch, rpc, portOpen>>
    BY <1>15 DEF vars, readerVars
  <2>. QED BY <1>1, <1>3, <2>1 DEF FlushStages, Unread
<1>. QED BY <1>6, <1>7, <1>8, <1>9, <1>10, <1>11, <1>12, <1>13, <1>14, <1>15
         DEF Next, PtyStep, NativeStep

(* The done event comes last and says that the output is done.             *)
LEMMA DoneStep ==
  ASSUME TypeOK, PortInv, InboxInv, StreamIntact, DoneInv, [Next]_vars
  PROVE  DoneInv'
<1> USE DEF dartVars, ptyVars, bufferVars, sharedVars, portVars
<1>1. buffer \in Seq(Message) /\ inbox \in Seq(Message)
  BY DEF TypeOK, BytesOK
<1>2. ASSUME NEW m \in Message, ~outputDone, buffer' = Append(buffer, m), sub' = sub,
             m.kind # "output" => m.lo = m.hi, m.kind = "closed" => outputDone'
      PROVE  DoneInv'
  <2>1. sub # "done" /\ \A i \in DOMAIN buffer : buffer[i].kind # "closed"
    BY <1>2 DEF DoneInv
  <2>2. /\ DOMAIN buffer' = DOMAIN buffer \union {Len(buffer')} /\ buffer'[Len(buffer')] = m
        /\ \A i \in DOMAIN buffer : buffer'[i] = buffer[i]
    BY <1>1, <1>2
  <2>. QED BY <1>2, <2>1, <2>2 DEF DoneInv
<1>3. ASSUME buffer' = buffer \/ buffer' = <<>>, sub' # "done" \/ sub' = sub, outputDone => outputDone'
      PROVE  DoneInv'
  <2>1. sub' = "done" => outputDone'
    BY <1>3 DEF DoneInv
  <2>2. CASE buffer' = <<>>
    BY <2>1, <2>2 DEF DoneInv
  <2>3. CASE buffer' = buffer
    BY <1>3, <2>1, <2>3 DEF DoneInv
  <2>. QED BY <1>3, <2>2, <2>3
<1>4. CASE PtyStep \/ NativeStep
  BY <1>3, <1>4, NativeFrame
<1>5. CASE HandleOutput \/ HandleClosed \/ HandleError
  <2>1. PICK m : m = Head(inbox)
    OBVIOUS
  <2>2. /\ TakeMessage /\ ~outputDone /\ m \in Message /\ m.lo \in Nat /\ sub' = sub
        /\ m.kind # "output" => m.lo = m.hi
    BY <1>5, <2>1, TakenMessage DEF HandleOutput, HandleClosed, HandleError
  <2>3. CASE HandleOutput
    <3>1. (buffer' = buffer \/ buffer' = Append(buffer, m)) /\ outputDone' = outputDone /\ m.kind = "output"
      BY <2>1, <2>2, <2>3 DEF HandleOutput
    <3>. QED BY <1>2, <1>3, <2>2, <3>1
  <2>4. CASE HandleClosed
    <3>1. PICK e \in Message : e = ControlMessage("closed", m.lo)
      BY <2>2, MessageMade
    <3>2. (buffer' = buffer \/ buffer' = Append(buffer, e)) /\ outputDone' = TRUE
      BY <2>1, <2>4, <3>1 DEF HandleClosed
    <3>3. e.lo = e.hi
      BY <3>1 DEF ControlMessage
    <3>. QED BY <1>2, <1>3, <2>2, <3>2, <3>3
  <2>5. CASE HandleError
    <3>1. (buffer' = buffer \/ buffer' = Append(buffer, m)) /\ outputDone' = outputDone /\ m.kind = "error"
      BY <2>1, <2>5 DEF HandleError
    <3>. QED BY <1>2, <1>3, <2>2, <3>1
  <2>. QED BY <1>5, <2>3, <2>4, <2>5
<1>6. CASE CloseReturns
  <2>1. PICK e \in Message : e = ControlMessage("closed", BufferEnd)
    BY BufferEndType, MessageMade
  <2>2. /\ outputDone' = TRUE /\ sub' = sub
        /\ buffer' = buffer \/ (buffer' = Append(buffer, e) /\ ~outputDone)
    BY <1>6, <2>1 DEF CloseReturns
  <2>3. e.lo = e.hi
    BY <2>1 DEF ControlMessage
  <2>. QED BY <1>2, <1>3, <2>2, <2>3
<1>7. CASE Deliver
  <2>1. /\ buffer # <<>> /\ buffer' = Tail(buffer) /\ outputDone' = outputDone
        /\ sub' = "done" => Head(buffer).kind = "closed" \/ sub = "done"
    BY <1>7 DEF Deliver, DeliveryScheduled
  <2>2. /\ 1 \in DOMAIN buffer /\ Head(buffer) = buffer[1] /\ Len(buffer') = Len(buffer) - 1
        /\ \A i \in DOMAIN buffer' : i + 1 \in DOMAIN buffer /\ buffer'[i] = buffer[i + 1]
    BY <1>1, <2>1
  <2>3. sub' = "done" => outputDone'
    BY <2>1, <2>2 DEF DoneInv
  <2>4. \A i \in DOMAIN buffer' : buffer'[i].kind = "closed" => i = Len(buffer') /\ outputDone'
    <3>1. SUFFICES ASSUME NEW i \in DOMAIN buffer', buffer'[i].kind = "closed"
                   PROVE  i = Len(buffer') /\ outputDone'
      OBVIOUS
    <3>2. i + 1 = Len(buffer) /\ outputDone
      BY <2>2, <3>1 DEF DoneInv
    <3>. QED BY <1>1, <2>1, <2>2, <3>2
  <2>5. \A i \in DOMAIN buffer' : buffer'[i].kind # "output" => buffer'[i].lo = buffer'[i].hi
    BY <2>2 DEF DoneInv
  <2>. QED BY <2>3, <2>4, <2>5 DEF DoneInv
<1>8. CASE FlushAck \/ FlushEnds \/ StopRuntime \/ NotifyReader \/ Listen \/ Pause \/ Resume \/ Cancel
             \/ Close \/ IsolateExits \/ Finalize \/ UNCHANGED vars
  <2>1. /\ buffer' = buffer \/ buffer' = <<>>
        /\ sub' # "done" \/ sub' = sub
        /\ outputDone' = outputDone
    BY <1>8 DEF FlushAck, FlushEnds, StopRuntime, NotifyReader, Listen, Pause, Resume, Cancel, Close,
       IsolateExits, Finalize, vars
  <2>. QED BY <1>3, <2>1
<1>. QED BY <1>4, <1>5, <1>6, <1>7, <1>8 DEF Next, IsolateStep, UserStep

(* IInv is inductive.                                                      *)
LEMMA InitInv == Init => IInv
<1> SUFFICES ASSUME Init PROVE IInv
  OBVIOUS
<1>1. TypeOK
  BY InitTypes
<1>2. PortInv /\ InboxInv /\ ListenerInv /\ DataInv
  BY DEF Init, ReaderInit, PortInv, InboxInv, ListenerInv, DataInv, EmptyAt, Size
<1>3. StreamIntact /\ AckInv
  BY DEF Init, ReaderInit, StreamIntact, AckInv, Chained, BufferEnd, EmptyAt
<1>4. BatchInv /\ CreditInv
  BY SizeAssumption DEF Init, ReaderInit, BatchInv, FlushStages, CreditInv, EmptyAt, Size
<1>5. InflightExact /\ InflightBound /\ BatchesFit
  BY SizeAssumption DEF Init, ReaderInit, InflightExact, Reserved, InflightBound, Window, BatchesFit, EmptyAt
<1>6. BacklogInv /\ ReachInv /\ EndInv /\ DoneInv
  BY SizeAssumption DEF Init, ReaderInit, BacklogInv, Window, ReachInv, BufferEnd, EndInv, DoneInv,
     FlushStages, EmptyAt
<1>7. PeersInv /\ ExternalBytesExact
  BY NoPeers, ExternalIsPeers, FS_EmptySet, SizeAssumption DEF Init, ReaderInit, PeersInv
<1>. QED BY <1>1, <1>2, <1>3, <1>4, <1>5, <1>6, <1>7 DEF IInv

LEMMA StepInv == IInv /\ [Next]_vars => IInv'
<1> SUFFICES ASSUME IInv, [Next]_vars PROVE IInv'
  OBVIOUS
<1>1. TypeOK'
  BY FlagsStep, StagesStep, BytesStep DEF IInv, TypeOK
<1>2. PortInv' /\ InboxInv' /\ ListenerInv' /\ DataInv'
  BY PortStep, InboxStep, ListenerStep, DataStep DEF IInv
<1>3. StreamIntact' /\ AckInv'
  BY StreamStep, AckStep DEF IInv
<1>4. BatchInv' /\ CreditInv'
  BY BatchStep, CreditStep DEF IInv
<1>5. InflightExact' /\ InflightBound' /\ BatchesFit'
  BY ExactStep, BoundStep, FitStep DEF IInv
<1>6. BacklogInv' /\ ReachInv'
  BY <1>1, <1>3, BacklogStep, ReachStep DEF IInv
<1>7. PeersInv' /\ ExternalBytesExact'
  BY PeersStep DEF IInv
<1>8. EndInv' /\ DoneInv'
  BY EndStep, DoneStep DEF IInv
<1>. QED BY <1>1, <1>2, <1>3, <1>4, <1>5, <1>6, <1>7, <1>8 DEF IInv

THEOREM Inductive == Spec => []IInv
BY InitInv, StepInv, PTL DEF Spec

(* Output is never lost, repeated or reordered between the PTY and the     *)
(* listener, whatever the sizes and whichever way the reader waits.        *)
THEOREM StreamIsIntact == Spec => []StreamIntact
<1>1. IInv => StreamIntact
  BY DEF IInv
<1>. QED BY <1>1, Inductive, PTL

(* The in-flight counter is exact in every run.                            *)
THEOREM InflightIsExact == Spec => []InflightExact
<1>1. IInv => InflightExact
  BY DEF IInv
<1>. QED BY <1>1, Inductive, PTL

(* The window is overrun by no more than the batch it let through.         *)
THEOREM InflightIsBounded == Spec => []InflightBound
<1>1. IInv => InflightBound
  BY DEF IInv
<1>. QED BY <1>1, Inductive, PTL

(* No message is empty or larger than a batch may be.                      *)
THEOREM BatchesAreBounded == Spec => []BatchesFit
<1>1. IInv => BatchesFit
  BY DEF IInv
<1>. QED BY <1>1, Inductive, PTL
(* What waits for the listener is at most two windows.                     *)
THEOREM BacklogIsBounded == Spec => []IsolateBacklogBound
<1>1. IInv => IsolateBacklogBound
  <2> SUFFICES ASSUME IInv, RequireAcks, portOpen
               PROVE  batch.lo - received <= 2 * Window
    BY DEF IsolateBacklogBound
  <2>1. /\ received \in Nat /\ acked \in Nat /\ Window \in Nat /\ batch.lo \in Nat
        /\ batch.lo <= acked + Window
    BY Numbers, UnackedBound DEF IInv
  <2>2. acked <= received + Window
    BY DEF IInv, BacklogInv
  <2>3. \A a, b, c, w \in Nat : a <= b + w /\ b <= c + w => a - c <= 2 * w
    OBVIOUS
  <2>. QED BY <2>1, <2>2, <2>3
<1>. QED BY <1>1, Inductive, PTL

(* The counter of external bytes is the sum of the peers alive.            *)
THEOREM ExternalBytesAreExact == Spec => []ExternalBytesExact
<1>1. IInv => ExternalBytesExact
  BY DEF IInv
<1>. QED BY <1>1, Inductive, PTL

(***************************************************************************)
(* The listener's view is the stream the API promises                      *)
(***************************************************************************)
LEMMA PromiseInit == Init => Promise!Init
BY DEF Init, ReaderInit, Promise!Init, CutShort, Closed

(* The listener never has more than the child has written.                 *)
LEMMA ReceivedWritten == IInv => received \in Nat /\ produced \in Nat /\ received <= produced
BY Numbers DEF IInv, ReachInv

LEMMA ReceivedWrittenNext == IInv' => (received \in Nat /\ produced \in Nat /\ received <= produced)'
BY ReceivedWritten, PTL

(* A step that touches neither stream nor end is none, or a cut.           *)
LEMMA PromiseCut ==
  ASSUME UNCHANGED <<produced, received>>, (sub = "done")' <=> sub = "done", CutShort => CutShort'
  PROVE  [Promise!Next]_(Promise!vars)
<1>1. CASE CutShort' <=> CutShort
  <2>1. (sub = "done")' = (sub = "done") /\ CutShort' = CutShort
    BY <1>1, Zenon DEF CutShort
  <2>. QED BY <2>1, Zenon DEF Promise!vars
<1>2. CASE CutShort' /\ ~CutShort
  <2>1. (sub = "done")' = (sub = "done") /\ CutShort' = TRUE
    BY <1>2, Zenon DEF CutShort
  <2>. QED BY <2>1, Zenon DEF Promise!Next, Promise!Cut
<1>. QED BY <1>1, <1>2

(* A step that hands the listener more of what was written delivers it.    *)
LEMMA PromiseDelivers ==
  ASSUME IInv, IInv', produced' = produced, received <= received', sub # "done", sub' # "done",
         CutShort' <=> CutShort
  PROVE  [Promise!Next]_(Promise!vars)
<1>1. CASE received' = received
  BY <1>1, PromiseCut
<1>2. CASE received' # received
  <2>1. received' \in Nat /\ received' <= produced'
    BY ReceivedWrittenNext
  <2>2. received' \in (received + 1)..produced
    BY <1>2, <2>1, ReceivedWritten
  <2>3. CutShort' = CutShort /\ (sub = "done")' = (sub = "done")
    BY Zenon DEF CutShort
  <2>. QED BY <2>2, <2>3, Zenon DEF Promise!Next, Promise!Deliver
<1>. QED BY <1>1, <1>2

LEMMA PromiseStep == IInv /\ IInv' /\ [Next]_vars => [Promise!Next]_(Promise!vars)
<1> SUFFICES ASSUME IInv, IInv', [Next]_vars PROVE [Promise!Next]_(Promise!vars)
  OBVIOUS
<1> USE DEF dartVars, ptyVars, bufferVars, sharedVars, portVars
<1>1. CutShort => CutShort'
  BY CutStays DEF IInv
<1>2. CASE ChildWrites /\ UNCHANGED dartVars
  <2>1. slaveOpen /\ produced' = produced + 1 /\ UNCHANGED <<received, sub, dpc, portOpen, cont>>
    BY <1>2 DEF ChildWrites
  <2>2. sub = "done" => CutShort
    <3>1. sub = "done" /\ portOpen => rpc = "done"
      BY Zenon DEF IInv, DoneInv, InboxInv
    <3>2. rpc = "done" => CutShort
      BY <2>1 DEF IInv, EndInv
    <3>. QED BY <3>1, <3>2, Zenon DEF CutShort
  <2>3. CutShort' = CutShort
    BY <2>1 DEF CutShort, Closed
  <2>. QED BY <2>1, <2>2, <2>3, Zenon DEF Promise!Next, Promise!Write
<1>3. CASE (PtyStep \/ NativeStep) /\ ~(ChildWrites /\ UNCHANGED dartVars)
  <2>1. UNCHANGED <<received, sub>>
    BY <1>3, NativeFrame
  <2>2. produced' = produced
    BY <1>3, Zenon DEF PtyStep, NativeStep, FlushBegins, CheckCapacity,
       EnterWait, WaitTimesOut, ReserveInflight, PostBatch, PostFails, ReleaseInflight, AppendRound,
       AppendReturns, ReaderStarts, LoopTop, ReadData, ReadWouldBlock, ReadEof, PollReady,
       PollTimesOut, PostError, ClosePorts, SlaveCloses, ReadFails, DelayElapses
  <2>. QED BY <1>1, <2>1, <2>2, PromiseCut
<1>4. CASE HandleOutput
  <2>1. /\ TakeMessage /\ UNCHANGED <<produced, cont, dpc, portOpen, sub>>
        /\ received' \in {received, received + Size(Head(inbox))} /\ (sub # "cancelled" => received' = received)
    BY <1>4 DEF HandleOutput, TakeMessage
  <2>2. received' >= received
    <3>1. Size(Head(inbox)) \in Nat
      BY <2>1, TakenMessage DEF IInv, Size
    <3>. QED BY <2>1, <3>1, ReceivedWritten
  <2>3. CASE sub = "done"
    BY <1>1, <2>1, <2>3, PromiseCut
  <2>4. CASE sub # "done"
    <3>1. CutShort' <=> CutShort
      BY <2>1, Zenon DEF CutShort, Closed
    <3>. QED BY <2>1, <2>2, <2>4, <3>1, PromiseDelivers
  <2>. QED BY <2>3, <2>4
<1>5. CASE Deliver
  <2>1. PICK event : event = Head(buffer)
    OBVIOUS
  <2>2. /\ dpc \in {"idle", "closed"} /\ dpc' \in {dpc, "flushing"} /\ (dpc = "closed" => dpc' = "closed")
        /\ UNCHANGED <<produced, cont, portOpen>> /\ sub = "active" /\ buffer # <<>>
        /\ received' = received + Size(event) /\ sub' = IF event.kind = "closed" THEN "done" ELSE sub
    BY <1>5, <2>1 DEF Deliver, DeliveryScheduled, Alive, StartFlush, NativeUnchanged, readerVars
  <2>3. CutShort' <=> CutShort
    BY <2>2 DEF CutShort, Closed
  <2>4. /\ buffer \in Seq(Message) /\ 1 \in DOMAIN buffer /\ buffer[1] = event /\ event \in Message
        /\ event.lo \in Nat /\ event.hi \in Nat /\ event.lo <= event.hi
        /\ received \in Nat /\ produced \in Nat
    <3>1. buffer \in Seq(Message)
      BY DEF IInv, TypeOK, BytesOK
    <3>2. event \in Message /\ 1 \in DOMAIN buffer /\ buffer[1] = event
      BY <2>1, <2>2, <3>1
    <3>. QED BY <3>1, <3>2, MessageFields, ReceivedWritten
  <2>5. CASE event.kind # "closed"
    BY <2>2, <2>3, <2>4, <2>5, PromiseDelivers DEF Size
  <2>6. CASE event.kind = "closed"
    <3>1. received' = received /\ (sub = "done") = FALSE /\ (sub = "done")' = TRUE
      BY <2>2, <2>4, <2>6 DEF IInv, DoneInv, Size
    <3>2. Len(buffer) = 1 /\ outputDone
      BY <2>4, <2>6 DEF IInv, DoneInv
    <3>3. CutShort \/ received = produced
      <4> SUFFICES ASSUME ~CutShort PROVE received = produced
        OBVIOUS
      <4>1. portOpen /\ inbox = <<>> /\ rpc = "done"
        BY <3>2, Zenon DEF CutShort, IInv, InboxInv
      <4>2. batch.lo = produced
        BY <4>1 DEF IInv, EndInv
      <4>3. BufferEnd = batch.lo
        BY <4>1 DEF IInv, StreamIntact, Chained
      <4>4. BufferEnd = event.hi /\ event.lo = received
        BY <2>2, <2>4, <3>2 DEF IInv, StreamIntact, Chained, BufferEnd
      <4>5. event.lo = event.hi
        BY <2>4, <2>6 DEF IInv, DoneInv
      <4>. QED BY <4>2, <4>3, <4>4, <4>5
    <3>4. CutShort' = CutShort
      BY <2>3, Zenon DEF CutShort
    <3>. QED BY <2>2, <3>1, <3>3, <3>4, Zenon DEF Promise!Next, Promise!End
  <2>. QED BY <2>5, <2>6
<1>6. CASE Cancel
  <2>1. /\ dpc \in {"idle", "closed"} /\ dpc' \in {dpc, "flushing"} /\ (dpc = "closed" => dpc' = "closed")
        /\ UNCHANGED <<produced, cont, portOpen>> /\ sub # "done" /\ sub' # "done"
        /\ received' = BufferEnd
    BY <1>6 DEF Cancel, Alive, StartFlush, NativeUnchanged, readerVars
  <2>2. CutShort' <=> CutShort
    BY <2>1 DEF CutShort, Closed
  <2>3. received <= received'
    BY <2>1, Numbers DEF IInv
  <2>. QED BY <2>1, <2>2, <2>3, PromiseDelivers
<1>7. CASE \/ HandleClosed \/ HandleError \/ FlushAck \/ FlushEnds \/ StopRuntime \/ NotifyReader
           \/ CloseReturns \/ Listen \/ Pause \/ Resume \/ Close \/ IsolateExits \/ Finalize
           \/ UNCHANGED vars
  <2>1. UNCHANGED <<produced, received>>
    BY <1>7, Zenon DEF HandleClosed, HandleError, TakeMessage, FlushAck, Untouched, FlushEnds, StopRuntime,
       NotifyReader, CloseReturns, Listen, Pause, Resume, Close, IsolateExits, Finalize,
       NativeUnchanged, readerVars, vars
  <2>2. sub' = sub \/ (sub # "done" /\ sub' # "done")
    BY <1>7 DEF HandleClosed, HandleError, FlushAck, FlushEnds, StopRuntime,
       NotifyReader, CloseReturns, Listen, Pause, Resume, Close, IsolateExits, Finalize, vars
  <2>3. (sub = "done")' <=> sub = "done"
    BY <2>2
  <2>. QED BY <1>1, <2>1, <2>3, PromiseCut
<1>. QED BY <1>2, <1>3, <1>4, <1>5, <1>6, <1>7 DEF Next, IsolateStep, UserStep

(* The listener receives what the child wrote, in order, and is told that  *)
(* the stream is done when there is nothing left, unless it was cut short. *)
THEOREM PromiseKept == Spec => ImplementsOutputStream
BY Inductive, PromiseInit, PromiseStep, PTL DEF Spec, ImplementsOutputStream, Promise!Spec
============================================================================
