---------------------------- MODULE OutputFlow ----------------------------
(***************************************************************************)
(* The whole output path: the native reader of OutputReader composed with  *)
(* the Dart session that receives its messages, acknowledges them and      *)
(* hands them to the one subscription of PtySession.output                 *)
(* (lib/src/impl/session.dart), and with the close that stops both.        *)
(*                                                                         *)
(* The Dart isolate is one thread.  dpc says what it is doing between two  *)
(* steps of the reader: "idle" in its event loop, "flushing" in            *)
(* _flushAcks, or in ptyx_session_close ("stopping", "notifying",          *)
(* "joining").  StreamController, subscription and ReceivePort are         *)
(* dart:async and dart:isolate, modelled from how the session uses them.   *)
(***************************************************************************)
EXTENDS OutputReader, FiniteSetsExt, SequencesExt

VARIABLES
  dpc,          \* what the isolate's thread is doing
  sub,          \* the subscription of _outputController
  inputPaused,  \* _outputController.isPaused, once listened to
  buffer,       \* events added to the controller and not yet delivered
  pendingAcks,  \* _pendingAcks, each ack as the chunk it is for
  outputDone,   \* _outputDone
  received,     \* bytes handed to the listener, or discarded by its cancel
  acked         \* history: bytes acknowledged to the native side

dartVars == <<dpc, sub, inputPaused, buffer, pendingAcks, outputDone, received, acked>>
vars == <<readerVars, dartVars>>

Init ==
  /\ ReaderInit
  /\ dpc = "idle" /\ sub = "none" /\ inputPaused = FALSE
  /\ buffer = <<>> /\ pendingAcks = <<>> /\ outputDone = FALSE
  /\ received = 0 /\ acked = 0

NativeUnchanged == UNCHANGED readerVars
Untouched == UNCHANGED <<cont, ptyVars, bufferVars, stop, portVars>>

(* _closed is set before ptyx_session_close is entered.                    *)
Closed == dpc \in {"stopping", "notifying", "joining", "closed"}
Alive  == dpc \in {"idle", "closed"}

(* Mutant of CanAckOutput: a pause does not hold acks back.                *)
CanAckWhilePaused == sub \in {"active", "paused", "cancelled"}

(* _canAckOutput                                                           *)
CanAckOutput == sub = "cancelled" \/ (sub = "active" /\ ~inputPaused)

(* How far the output handed to the controller reaches.                    *)
BufferEnd == IF buffer = <<>> THEN received ELSE buffer[Len(buffer)].hi

(* The microtask that delivers buffered events is scheduled: it runs       *)
(* before the isolate takes its next message.                              *)
DeliveryScheduled == sub = "active" /\ buffer # <<>>

(* _ack, of one chunk                                                      *)
Ack(n) == AckOutput(n) /\ acked' = acked + n

(***************************************************************************)
(* Messages from the native side: _handleOutput, and _handleEvent for an   *)
(* output error (both ports feed one queue of the isolate).                *)
(***************************************************************************)
TakeMessage ==
  /\ dpc = "idle" /\ inbox # <<>> /\ ~DeliveryScheduled
  /\ inbox' = Tail(inbox)
  /\ UNCHANGED <<cont, ptyVars, bufferVars, stop, externalBytes, peers, portOpen>>

HandleOutput ==
  /\ TakeMessage
  /\ LET m == Head(inbox) IN
       /\ m.kind = "output"
       /\ IF outputDone
            THEN UNCHANGED <<rpc, inflight, buffer, pendingAcks, received, acked>>
            ELSE /\ IF sub = "cancelled"
                      THEN received' = received + Size(m) /\ UNCHANGED buffer
                      ELSE buffer' = Append(buffer, m) /\ UNCHANGED received
                 /\ IF CanAckOutput
                      THEN Ack(Size(m)) /\ UNCHANGED pendingAcks
                      ELSE /\ pendingAcks' = Append(pendingAcks, m)
                           /\ UNCHANGED <<rpc, inflight, acked>>
  /\ UNCHANGED <<dpc, sub, inputPaused, outputDone>>

(* _closeOutput closes the controller: its done event follows the buffer.  *)
HandleClosed ==
  /\ TakeMessage
  /\ Head(inbox).kind = "closed"
  /\ outputDone' = TRUE
  /\ buffer' = IF outputDone \/ sub = "cancelled" THEN buffer
                 ELSE Append(buffer, ControlMessage("closed", Head(inbox).lo))
  /\ UNCHANGED <<rpc, inflight, dpc, sub, inputPaused, pendingAcks, received, acked>>

HandleError ==
  /\ TakeMessage
  /\ Head(inbox).kind = "error"
  /\ buffer' = IF outputDone \/ sub = "cancelled" THEN buffer
                 ELSE Append(buffer, Head(inbox))
  /\ UNCHANGED <<rpc, inflight, dpc, sub, inputPaused, pendingAcks, outputDone, received, acked>>

(***************************************************************************)
(* _flushAcks: one ack a step, the reader runs between two of them.  After *)
(* close _ack does nothing.                                                *)
(***************************************************************************)
StartFlush == dpc' = IF dpc = "closed" THEN "closed" ELSE "flushing"

FlushAck ==
  /\ dpc = "flushing" /\ pendingAcks # <<>>
  /\ Ack(Size(Head(pendingAcks)))
  /\ pendingAcks' = Tail(pendingAcks)
  /\ Untouched
  /\ UNCHANGED <<dpc, sub, inputPaused, buffer, outputDone, received>>

FlushEnds ==
  /\ dpc = "flushing" /\ pendingAcks = <<>>
  /\ dpc' = "idle"
  /\ NativeUnchanged
  /\ UNCHANGED <<sub, inputPaused, buffer, pendingAcks, outputDone, received, acked>>

(***************************************************************************)
(* The subscription.  Input stays paused after resume() until the buffer   *)
(* has been delivered, and only then does onResume run.                    *)
(***************************************************************************)
Listen ==
  /\ Alive /\ sub = "none"
  /\ sub' = "active"
  /\ StartFlush
  /\ NativeUnchanged
  /\ UNCHANGED <<inputPaused, buffer, pendingAcks, outputDone, received, acked>>

(* Mutant of Deliver: onResume is not wired to _flushAcks.                 *)
DeliverWithoutFlush ==
  /\ Alive /\ DeliveryScheduled
  /\ LET event == Head(buffer) IN
       /\ received' = received + Size(event)
       /\ sub' = IF event.kind = "closed" THEN "done" ELSE sub
  /\ buffer' = Tail(buffer)
  /\ inputPaused' = (inputPaused /\ buffer' # <<>>)
  /\ NativeUnchanged
  /\ UNCHANGED <<dpc, pendingAcks, outputDone, acked>>

Deliver ==
  /\ Alive /\ DeliveryScheduled
  /\ LET event == Head(buffer) IN
       /\ received' = received + Size(event)
       /\ sub' = IF event.kind = "closed" THEN "done" ELSE sub
  /\ buffer' = Tail(buffer)
  /\ IF inputPaused /\ buffer' = <<>>
       THEN inputPaused' = FALSE /\ StartFlush
       ELSE UNCHANGED <<inputPaused, dpc>>
  /\ NativeUnchanged
  /\ UNCHANGED <<pendingAcks, outputDone, acked>>

Pause ==
  /\ Alive /\ sub = "active"
  /\ sub' = "paused" /\ inputPaused' = TRUE
  /\ NativeUnchanged
  /\ UNCHANGED <<dpc, buffer, pendingAcks, outputDone, received, acked>>

Resume ==
  /\ Alive /\ sub = "paused"
  /\ sub' = "active"
  /\ IF buffer = <<>>
       THEN inputPaused' = FALSE /\ StartFlush
       ELSE UNCHANGED <<inputPaused, dpc>>
  /\ NativeUnchanged
  /\ UNCHANGED <<buffer, pendingAcks, outputDone, received, acked>>

(* onCancel; what the controller still held is never delivered.            *)
Cancel ==
  /\ Alive /\ sub \in {"active", "paused"}
  /\ sub' = "cancelled"
  /\ buffer' = <<>>
  /\ received' = BufferEnd
  /\ StartFlush
  /\ NativeUnchanged
  /\ UNCHANGED <<inputPaused, pendingAcks, outputDone, acked>>

(***************************************************************************)
(* close(): session.rs close / runtime.rs close_runtime, called with the   *)
(* isolate's thread, which handles no message until it returns.            *)
(***************************************************************************)
Close ==
  /\ dpc = "idle"
  /\ dpc' = "stopping"
  /\ NativeUnchanged
  /\ UNCHANGED <<sub, inputPaused, buffer, pendingAcks, outputDone, received, acked>>

StopRuntime ==
  /\ dpc = "stopping"
  /\ stop' = TRUE
  /\ dpc' = "notifying"
  /\ UNCHANGED <<rpc, cont, ptyVars, bufferVars, inflight, portVars>>
  /\ UNCHANGED <<sub, inputPaused, buffer, pendingAcks, outputDone, received, acked>>

(* notify_all without the inflight lock: a reader between its check and    *)
(* its wait ("entering") is not woken.                                     *)
NotifyReader ==
  /\ dpc = "notifying"
  /\ Notify
  /\ dpc' = "joining"
  /\ Untouched /\ UNCHANGED inflight
  /\ UNCHANGED <<sub, inputPaused, buffer, pendingAcks, outputDone, received, acked>>

(* The reader has been joined; the ports and the controller are closed.    *)
CloseReturns ==
  /\ dpc = "joining" /\ rpc = "done"
  /\ dpc' = "closed"
  /\ portOpen' = FALSE /\ inbox' = <<>>
  /\ outputDone' = TRUE
  /\ buffer' = IF outputDone \/ sub = "cancelled" THEN buffer
                 ELSE Append(buffer, ControlMessage("closed", BufferEnd))
  /\ UNCHANGED <<rpc, cont, ptyVars, bufferVars, sharedVars, externalBytes, peers>>
  /\ UNCHANGED <<sub, inputPaused, pendingAcks, received, acked>>

(* The isolate ends without close(): its ports are gone, the native        *)
(* session lives on.                                                       *)
IsolateExits ==
  /\ dpc = "idle"
  /\ dpc' = "exited"
  /\ portOpen' = FALSE /\ inbox' = <<>>
  /\ UNCHANGED <<rpc, cont, ptyVars, bufferVars, sharedVars, externalBytes, peers>>
  /\ UNCHANGED <<sub, inputPaused, buffer, pendingAcks, outputDone, received, acked>>

(* external_output_finalizer: the isolate no longer reaches the bytes.     *)
Finalize ==
  \E m \in peers :
    /\ dpc = "exited" \/ (\A i \in DOMAIN inbox : inbox[i] # m)
    /\ dpc = "exited" \/ (\A i \in DOMAIN buffer : buffer[i] # m)
    /\ peers' = peers \ {m}
    /\ externalBytes' = externalBytes - Size(m)
    /\ UNCHANGED <<rpc, cont, ptyVars, bufferVars, sharedVars, inbox, portOpen, dartVars>>

NativeStep ==
  \/ FlushBegins /\ UNCHANGED dartVars
  \/ CheckCapacity /\ UNCHANGED dartVars
  \/ EnterWait /\ UNCHANGED dartVars
  \/ WaitTimesOut /\ UNCHANGED dartVars
  \/ ReserveInflight /\ UNCHANGED dartVars
  \/ PostBatch /\ UNCHANGED dartVars
  \/ PostFails /\ UNCHANGED dartVars
  \/ ReleaseInflight /\ UNCHANGED dartVars
  \/ AppendRound /\ UNCHANGED dartVars
  \/ AppendReturns /\ UNCHANGED dartVars
  \/ ReaderStarts /\ UNCHANGED dartVars
  \/ LoopTop /\ UNCHANGED dartVars
  \/ ReadData /\ UNCHANGED dartVars
  \/ ReadWouldBlock /\ UNCHANGED dartVars
  \/ ReadEof /\ UNCHANGED dartVars
  \/ PollReady /\ UNCHANGED dartVars
  \/ PollTimesOut /\ UNCHANGED dartVars
  \/ PostError /\ UNCHANGED dartVars
  \/ ClosePorts /\ UNCHANGED dartVars

PtyStep ==
  \/ ChildWrites /\ UNCHANGED dartVars
  \/ SlaveCloses /\ UNCHANGED dartVars
  \/ ReadFails /\ UNCHANGED dartVars
  \/ DelayElapses /\ UNCHANGED dartVars

IsolateStep ==
  \/ HandleOutput \/ HandleClosed \/ HandleError
  \/ FlushAck \/ FlushEnds \/ Deliver
  \/ StopRuntime \/ NotifyReader \/ CloseReturns

UserStep == Listen \/ Pause \/ Resume \/ Cancel \/ Close \/ IsolateExits

Next == PtyStep \/ NativeStep \/ IsolateStep \/ UserStep \/ Finalize

(* A thread that can run does, and the delay of a batch passes.  The       *)
(* isolate contends with the reader for the inflight lock, which the       *)
(* reader lets go of for 10 ms after every look at it: strong fairness.    *)
(* Nothing obliges the child to write, a read to fail, the user to listen  *)
(* or close, or the collector to run.                                      *)
Fairness == WF_vars(NativeStep) /\ SF_vars(IsolateStep) /\ WF_vars(DelayElapses /\ UNCHANGED dartVars)

Spec == Init /\ [][Next]_vars /\ Fairness

(***************************************************************************)
(* Properties                                                              *)
(***************************************************************************)

(* Every variable holds a value of its type.                               *)
FlagsOK ==
  /\ slaveOpen \in BOOLEAN /\ stop \in BOOLEAN /\ portOpen \in BOOLEAN
  /\ inputPaused \in BOOLEAN /\ outputDone \in BOOLEAN

StagesOK ==
  /\ rpc \in {"start", "loop", "read", "append", "flush", "capacity", "entering", "waiting",
              "reserve", "post", "release", "poll", "postError", "exit", "done"}
  /\ cont \in {"append", "loop", "exit", "error"}
  /\ timer \in {"none", "running", "expired"}
  /\ dpc \in {"idle", "flushing", "stopping", "notifying", "joining", "closed", "exited"}
  /\ sub \in {"none", "active", "paused", "cancelled", "done"}

BytesOK ==
  /\ produced \in Nat /\ consumed \in Nat /\ data \in Chunk /\ batch \in Chunk
  /\ inflight \in Nat /\ externalBytes \in Int /\ peers \subseteq Message
  /\ inbox \in Seq(Message) /\ buffer \in Seq(Message) /\ pendingAcks \in Seq(Message)
  /\ received \in Nat /\ acked \in Nat

TypeOK == FlagsOK /\ StagesOK /\ BytesOK

(* The counter of output.rs is exact: it is what has been posted, or is    *)
(* reserved for the post in hand, less what has been acknowledged.  Early  *)
(* acks, failed posts, paused and cancelled subscriptions and close leave  *)
(* it so, and saturating_sub never has anything to hide.                   *)
Reserved == IF rpc \in {"post", "release"} THEN Size(batch) ELSE 0
InflightExact == RequireAcks => inflight + acked = batch.lo + Reserved

(* wait_for_inflight_capacity bounds the unacknowledged bytes: the window  *)
(* may be overrun by the batch it let through, and by nothing else.        *)
Window == MaxInflight - 1 + BatchMax
InflightBound == inflight <= Window

(* The chunks of s, in order, lead from a to b without gap or overlap.     *)
Chained(a, s, b) ==
  /\ s = <<>> => a = b
  /\ s # <<>> => s[1].lo = a /\ s[Len(s)].hi = b
  /\ \A i \in DOMAIN s : a <= s[i].lo /\ s[i].lo <= s[i].hi /\ s[i].hi <= b
  /\ \A i, j \in DOMAIN s : i < j => s[i].hi <= s[j].lo
  /\ \A i \in DOMAIN s : i < Len(s) => s[i].hi = s[i + 1].lo

(* Output is never lost, repeated or reordered between the PTY and the     *)
(* listener: what each stage holds starts where the stage after it ends.   *)
StreamIntact ==
  /\ Chained(received, buffer, BufferEnd)
  /\ portOpen => Chained(BufferEnd, inbox, batch.lo)
  /\ batch.lo <= batch.hi /\ batch.hi = data.lo /\ data.lo <= data.hi /\ data.hi = consumed

(* No message is empty or larger than output_batch_max_bytes, also while   *)
(* a stopped reader keeps appending to a batch it no longer posts.         *)
BatchesFit ==
  \A i \in DOMAIN inbox : inbox[i].kind = "output" => Size(inbox[i]) \in 1..BatchMax

(* A listener that pauses, or has not listened yet, holds back the child:  *)
(* what waits for it in the isolate is at most two windows, one that was   *)
(* acknowledged when it listened or resumed and one since.                 *)
IsolateBacklogBound == RequireAcks /\ portOpen => batch.lo - received <= 2 * Window

(* external_bytes counts the bytes of the peers alive, each of them once,  *)
(* and stays within max_external_output_bytes.                             *)
ExternalBytesExact ==
  externalBytes = MapThenSumSet(Size, peers) /\ externalBytes <= MaxExternal

(* close() returns: wherever the reader is, also waiting for credit that   *)
(* the isolate inside close can no longer give.                            *)
CloseTerminates == dpc = "stopping" ~> dpc = "closed"

(* While somebody listens and nobody closes, all the child writes reaches  *)
(* the listener (or is discarded for one that cancelled), unless reading   *)
(* fails: a credit is never lost and a batch is never forgotten.           *)
Following == sub \in {"active", "cancelled", "done"} /\ dpc \in {"idle", "flushing"}
OutputArrives ==
  <>[]Following =>
    \A k \in 1..MaxOutput : produced >= k ~> (received >= k \/ cont = "error")

(* "Maximum batching delay" (include/ptyx.h:210): while somebody listens,  *)
(* a batch whose delay has passed is posted without waiting for the child  *)
(* to write again.                                                         *)
OverdueBatchIsPosted ==
  <>[]Following => (timer = "expired" ~> timer # "expired")

(* What may cut the stream short: a close, a read that failed, the end of  *)
(* the isolate.                                                            *)
CutShort == Closed \/ ~portOpen \/ cont = "error"

(* The listener's view implements the stream the API promises.             *)
Promise == INSTANCE OutputStream WITH
  written <- produced, delivered <- received, ended <- (sub = "done"),
  cut <- CutShort
ImplementsOutputStream == Promise!Spec

(***************************************************************************)
(* The inductive invariant.  Each part is a fact the next ones rest on.    *)
(***************************************************************************)

(* The isolate's ports are open until close() or the isolate has ended.    *)
PortInv == portOpen <=> dpc \notin {"closed", "exited"}

(* Control messages hold no bytes, "closed" is the last message there is,  *)
(* and with it the reader has ended.                                       *)
InboxInv ==
  /\ \A i \in DOMAIN inbox : inbox[i].kind # "output" => inbox[i].lo = inbox[i].hi
  /\ \A i \in DOMAIN inbox : inbox[i].kind = "closed" => i = Len(inbox) /\ rpc = "done"
  /\ outputDone /\ portOpen => inbox = <<>> /\ rpc = "done"

(* A paused subscription pauses the input, a cancelled one holds nothing,  *)
(* and when the isolate may acknowledge at once nothing waits for its ack. *)
ListenerInv ==
  /\ sub = "paused" => inputPaused
  /\ sub = "cancelled" => buffer = <<>>
  /\ CanAckOutput /\ dpc = "idle" => pendingAcks = <<>>

(* The pending acks are what lies between the bytes acknowledged and the   *)
(* bytes handed to the controller.                                         *)
AckInv ==
  /\ acked <= batch.lo
  /\ portOpen => Chained(acked, pendingAcks, BufferEnd)

FlushStages == {"flush", "capacity", "entering", "waiting", "reserve", "post", "release"}

(* append() has taken all of the last read before the next one begins.     *)
DataInv ==
  rpc \in {"start", "loop", "read", "poll"} \/ (rpc \in FlushStages /\ cont # "append")
    => Size(data) = 0

(* Only a reader that was stopped while it waited for credit holds a batch *)
(* beyond the limit, and it posts nothing any more.                        *)
BatchInv ==
  /\ rpc \in FlushStages \ {"flush"} => Size(batch) > 0
  /\ rpc \in {"capacity", "entering", "waiting", "reserve", "release"} => RequireAcks
  /\ rpc \in {"reserve", "post", "release"} => Size(batch) <= BatchMax
  /\ \/ Size(batch) < BatchMax
     \/ RequireAcks /\ stop
     \/ rpc \in FlushStages \union {"exit", "done"} /\ Size(batch) <= BatchMax

(* Credit seen is credit left: acks only add to it.                        *)
CreditInv == rpc = "reserve" => inflight < MaxInflight

(* What the listener lacks of the acknowledged bytes is within a window:   *)
(* acks are made with an empty buffer, except by the flush of the first    *)
(* listen, before which none was made.                                     *)
BacklogInv ==
  RequireAcks /\ portOpen =>
    /\ sub = "none" => acked = 0 /\ received = 0
    /\ acked <= received + Window
    /\ dpc = "flushing" => sub # "none" /\ BufferEnd <= received + Window

(* The peers alive were posted, each as a message of its own.              *)
PeersInv == IsFiniteSet(peers) /\ \A m \in peers : m.hi <= batch.lo

(* The parts the refinement of OutputStream rests on.  The controller is   *)
(* ahead of the listener by what was read, and read is what was written.   *)
ReachInv == BufferEnd <= batch.lo /\ consumed <= produced

(* A reader that leaves was stopped, failed, or has posted everything.     *)
EndInv ==
  /\ stop => Closed
  /\ cont = "error" => rpc \in FlushStages \union {"postError", "exit", "done"}
  /\ rpc = "postError" => cont = "error"
  /\ rpc = "release" => ~portOpen
  /\ rpc \in FlushStages /\ cont = "exit" => CutShort \/ (~slaveOpen /\ Unread = 0)
  /\ rpc \in {"exit", "done"} => CutShort \/ (~slaveOpen /\ batch.lo = produced)

(* The done event is the last, and nothing else ends the subscription.     *)
DoneInv ==
  /\ \A i \in DOMAIN buffer : buffer[i].kind # "output" => buffer[i].lo = buffer[i].hi
  /\ \A i \in DOMAIN buffer : buffer[i].kind = "closed" => i = Len(buffer) /\ outputDone
  /\ sub = "done" => outputDone

IInv ==
  /\ TypeOK /\ PortInv /\ InboxInv /\ ListenerInv /\ DataInv /\ StreamIntact /\ AckInv
  /\ BatchInv /\ CreditInv /\ InflightExact /\ InflightBound /\ BatchesFit
  /\ BacklogInv /\ PeersInv /\ ExternalBytesExact /\ ReachInv /\ EndInv /\ DoneInv
===========================================================================
