------------------------ MODULE PtyDescriptors_proofs ------------------------
(***************************************************************************)
(* Who holds which descriptor, for any number of sessions that are spawned *)
(* and closed at once.                                                     *)
(***************************************************************************)
EXTENDS PtyDescriptors, TLAPS

(* A waiter runs, or has run, only for a session that spawn has returned.  *)
WaiterInv ==
  \A s \in Sessions :
    /\ waiter[s] = "waiting" => call[s] \in {"open", "closing"}
    /\ waiter[s] = "done" => call[s] \in {"open", "closing", "closed"}

(* What the process may hold of a session, by the step its call is at.     *)
Spawning == {"fork", "forked", "await", "started", "reap"}
MayHold(d) ==
  \/ d.kind = "master" /\ call[d.of] \in Spawning \union {"pipe", "open", "closing"}
  \/ d.kind = "slave" /\ call[d.of] \in Spawning \union {"pipe"}
  \/ d.kind = "eventRead" /\ call[d.of] \in Spawning
  \/ d.kind = "eventRead" /\ call[d.of] \in {"open", "closing"} /\ waiter[d.of] = "waiting"
  \/ d.kind = "eventWrite" /\ call[d.of] \in {"fork", "forked"}

HostInv == \A d \in fds[Host] : MayHold(d)

(* A process that is not there holds nothing.                              *)
DeadInv ==
  \A s \in Sessions :
    /\ monitor[s] \in {"none", "exited"} => fds[Monitor(s)] = {}
    /\ child[s] \in {"none", "ended"} => fds[Child(s)] = {}

IInv == TypeOK /\ WaiterInv /\ HostInv /\ ProgramHoldsItsTerminal /\ DeadInv

(***************************************************************************)
(* Descriptors and processes                                               *)
(***************************************************************************)
(* Descriptors of two sessions, and processes, are told apart.             *)
LEMMA DescriptorFacts ==
  /\ \A s \in Sessions, k \in Kinds : Fd(k, s) \in Descriptors /\ Fd(k, s).kind = k /\ Fd(k, s).of = s
  /\ \A d \in Descriptors : d.kind \in Kinds /\ d.of \in Sessions /\ d = Fd(d.kind, d.of)
  /\ \A s \in Sessions, d \in Descriptors : d \in Of(s) <=> d.of = s
BY DEF Descriptors, Of, Fd

LEMMA ProcessFacts ==
  /\ Host \in Processes
  /\ \A s \in Sessions : Monitor(s) \in Processes /\ Child(s) \in Processes
  /\ \A s, t \in Sessions : /\ Host # Monitor(s) /\ Host # Child(t) /\ Monitor(s) # Child(t)
                            /\ (Monitor(s) = Monitor(t) => s = t) /\ (Child(s) = Child(t) => s = t)
BY DEF Host, Monitor, Child, Processes

(***************************************************************************)
(* Every variable keeps its type                                           *)
(***************************************************************************)
FdsOK == fds \in [Processes -> SUBSET Descriptors]

LEMMA FdsStep == FdsOK /\ [Next]_vars => FdsOK'
<1> SUFFICES ASSUME FdsOK, [Next]_vars PROVE FdsOK'
  OBVIOUS
<1> USE DEF FdsOK
<1>0. ASSUME NEW s \in Sessions
      PROVE  /\ Host \in Processes /\ Monitor(s) \in Processes /\ Child(s) \in Processes
             /\ \A k \in {"master", "slave", "eventRead", "eventWrite", "execRead", "execWrite"} :
                  Fd(k, s) \in Descriptors
  BY DescriptorFacts, ProcessFacts DEF Kinds
<1>f. ASSUME NEW s \in Sessions, Fails(s) PROVE FdsOK'
  BY <1>0, <1>f DEF Fails
<1>1. CASE UNCHANGED fds
  BY <1>1
<1>2. ASSUME NEW s \in Sessions, OpenPty(s) PROVE FdsOK'
  BY <1>0, <1>f, <1>2 DEF OpenPty
<1>3. ASSUME NEW s \in Sessions, OpenEvents(s) PROVE FdsOK'
  BY <1>0, <1>f, <1>3 DEF OpenEvents
<1>4. ASSUME NEW s \in Sessions, ForkMonitor(s) PROVE FdsOK'
  BY <1>0, <1>f, <1>4 DEF ForkMonitor
<1>5. ASSUME NEW s \in Sessions, CloseWriteEnd(s) \/ SpawnReturns(s) \/ WaiterEnds(s) \/ CloseReturns(s)
      PROVE  FdsOK'
  BY <1>0, <1>5 DEF CloseWriteEnd, SpawnReturns, WaiterEnds, CloseReturns
<1>6. ASSUME NEW s \in Sessions, ReapMonitor(s) PROVE FdsOK'
  BY <1>f, <1>6 DEF ReapMonitor
<1>7. ASSUME NEW s \in Sessions, ForkChild(s) PROVE FdsOK'
  BY <1>0, <1>7 DEF ForkChild, Exits
<1>8. ASSUME NEW s \in Sessions, MonitorLearns(s) \/ MonitorReports(s) \/ MonitorDies(s) PROVE FdsOK'
  BY <1>0, <1>8 DEF MonitorLearns, MonitorReports, MonitorDies, Exits
<1>9. ASSUME NEW s \in Sessions, Execs(s) PROVE FdsOK'
  BY <1>0, <1>9 DEF Execs
<1>10. ASSUME NEW s \in Sessions, ExecFails(s) \/ ChildEnds(s) PROVE FdsOK'
  BY <1>0, <1>10 DEF ExecFails, ChildEnds
<1> QED
  BY <1>1, <1>2, <1>3, <1>4, <1>5, <1>6, <1>7, <1>8, <1>9, <1>10
  DEF Next, Thread, MonitorStep, Announced, Close, vars

MessagesOK == messages \in [Sessions -> Seq({"pid", "exit", "execError"})]

(* What a monitor says is a message.                                       *)
LEMMA Said ==
  ASSUME MessagesOK, NEW s \in Sessions, NEW m \in {"pid", "exit", "execError"}, Says(s, m)
  PROVE  MessagesOK'
BY DEF MessagesOK, Says

LEMMA TypeStep == TypeOK /\ [Next]_vars => TypeOK'
<1> SUFFICES ASSUME TypeOK, [Next]_vars PROVE TypeOK'
  OBVIOUS
<1>f. FdsOK /\ FdsOK'
  BY FdsStep DEF TypeOK, FdsOK
<1> USE <1>f DEF TypeOK, FdsOK, Goes
<1>1. CASE UNCHANGED vars
  BY <1>1 DEF vars
<1>2. ASSUME NEW s \in Sessions, OpenPty(s) \/ OpenEvents(s) PROVE TypeOK'
  BY <1>2 DEF OpenPty, OpenEvents, Fails, OthersUnchanged
<1>3. ASSUME NEW s \in Sessions, ForkMonitor(s) \/ CloseWriteEnd(s) PROVE TypeOK'
  BY <1>3 DEF ForkMonitor, CloseWriteEnd, Fails, OthersUnchanged
<1>4. ASSUME NEW s \in Sessions, Announced(s) PROVE TypeOK'
  <2>1. \E to \in {"started", "reap"} : call' = [call EXCEPT ![s] = to]
    BY <1>4 DEF Announced
  <2>2. messages' \in [Sessions -> Seq({"pid", "exit", "execError"})]
    <3>1. CASE UNCHANGED messages
      BY <3>1
    <3>2. CASE messages[s] # <<>> /\ messages' = [messages EXCEPT ![s] = Tail(@)]
      <4>1. Tail(messages[s]) \in Seq({"pid", "exit", "execError"})
        BY <3>2
      <4> QED
        BY <3>2, <4>1
    <3> QED
      BY <1>4, <3>1, <3>2 DEF Announced
  <2>3. UNCHANGED <<waiter, monitor, child, execError>>
    BY <1>4 DEF Announced
  <2>4. call' \in [Sessions -> {"idle", "pipe", "fork", "forked", "await", "started", "reap", "open",
                                "closing", "closed", "failed"}]
    BY <2>1
  <2> QED
    BY <2>2, <2>3, <2>4
<1>5. ASSUME NEW s \in Sessions, ReapMonitor(s) \/ SpawnReturns(s) PROVE TypeOK'
  BY <1>5 DEF ReapMonitor, SpawnReturns, Fails, OthersUnchanged
<1>6. ASSUME NEW s \in Sessions, Close(s) \/ CloseReturns(s) PROVE TypeOK'
  BY <1>6 DEF Close, CloseReturns, OthersUnchanged
<1>7. ASSUME NEW s \in Sessions, WaiterEnds(s) PROVE TypeOK'
  BY <1>7 DEF WaiterEnds
<1>8. ASSUME NEW s \in Sessions, ForkChild(s) PROVE TypeOK'
  <2>1. MessagesOK'
    BY <1>8, Said DEF ForkChild, MessagesOK
  <2> QED
    BY <1>8, <2>1 DEF ForkChild, Exits, CallsUnchanged, MessagesOK
<1>9. ASSUME NEW s \in Sessions, MonitorLearns(s) PROVE TypeOK'
  BY <1>9 DEF MonitorLearns, Says, CallsUnchanged
<1>10. ASSUME NEW s \in Sessions, MonitorReports(s) \/ MonitorDies(s) PROVE TypeOK'
  <2>1. MessagesOK'
    BY <1>10, Said DEF MonitorReports, MonitorDies, MessagesOK
  <2> QED
    BY <1>10, <2>1 DEF MonitorReports, MonitorDies, Exits, CallsUnchanged, MessagesOK
<1>11. ASSUME NEW s \in Sessions, Execs(s) \/ ExecFails(s) \/ ChildEnds(s) PROVE TypeOK'
  BY <1>11 DEF Execs, ExecFails, ChildEnds, CallsUnchanged
<1> QED
  BY <1>1, <1>2, <1>3, <1>4, <1>5, <1>6, <1>7, <1>8, <1>9, <1>10, <1>11 DEF Next, Thread, MonitorStep

(***************************************************************************)
(* The waiter and the process                                              *)
(***************************************************************************)
LEMMA WaiterStep == TypeOK /\ WaiterInv /\ [Next]_vars => WaiterInv'
<1> SUFFICES ASSUME TypeOK, WaiterInv, [Next]_vars PROVE WaiterInv'
  OBVIOUS
<1> USE DEF WaiterInv, TypeOK, Goes
<1>1. CASE UNCHANGED vars
  BY <1>1 DEF vars
<1>2. ASSUME NEW s \in Sessions, Thread(s) PROVE WaiterInv'
  BY <1>2 DEF Thread, OpenPty, OpenEvents, ForkMonitor, CloseWriteEnd, Announced, ReapMonitor, SpawnReturns,
       CloseReturns, Fails, OthersUnchanged
<1>3. ASSUME NEW s \in Sessions, WaiterEnds(s) \/ Close(s) PROVE WaiterInv'
  BY <1>3 DEF WaiterEnds, Close
<1>4. ASSUME NEW s \in Sessions, MonitorStep(s) \/ MonitorDies(s) \/ Execs(s) \/ ExecFails(s) \/ ChildEnds(s)
      PROVE  WaiterInv'
  BY <1>4 DEF MonitorStep, ForkChild, MonitorLearns, MonitorReports, MonitorDies, Execs, ExecFails,
       ChildEnds, CallsUnchanged
<1> QED
  BY <1>1, <1>2, <1>3, <1>4 DEF Next

(* A step that leaves the process and the calls alone.                     *)
LEMMA HostUntouched ==
  ASSUME HostInv, fds'[Host] = fds[Host], UNCHANGED <<call, waiter>>
  PROVE  HostInv'
BY DEF HostInv, MayHold, Spawning

LEMMA HostStep == TypeOK /\ WaiterInv /\ HostInv /\ [Next]_vars => HostInv'
<1> SUFFICES ASSUME TypeOK, WaiterInv, HostInv, [Next]_vars PROVE HostInv'
  OBVIOUS
<1> USE DescriptorFacts, ProcessFacts
<1>h. fds \in [Processes -> SUBSET Descriptors]
  BY DEF TypeOK
<1>f. ASSUME NEW s \in Sessions, Fails(s), UNCHANGED waiter PROVE HostInv'
  BY <1>f, <1>h DEF HostInv, MayHold, Spawning, Fails, Goes, TypeOK, WaiterInv
<1>1. CASE UNCHANGED vars
  BY <1>1, HostUntouched DEF vars
<1>2. ASSUME NEW s \in Sessions, OpenPty(s) PROVE HostInv'
  <2>1. CASE Fails(s)
    BY <1>2, <1>f, <2>1 DEF OpenPty, OthersUnchanged
  <2>2. CASE ~Fails(s)
    <3> SUFFICES ASSUME NEW d \in fds'[Host] PROVE MayHold(d)'
      BY DEF HostInv
    <3>1. CASE d \in fds[Host]
      BY <1>2, <1>h, <2>2, <3>1 DEF OpenPty, HostInv, MayHold, Spawning, Goes, TypeOK, OthersUnchanged
    <3>2. CASE d \notin fds[Host]
      BY <1>2, <1>h, <2>2, <3>2 DEF Kinds, OpenPty, MayHold, Spawning, Goes, TypeOK, OthersUnchanged
    <3> QED
      BY <3>1, <3>2
  <2> QED
    BY <2>1, <2>2
<1>3. ASSUME NEW s \in Sessions, OpenEvents(s) PROVE HostInv'
  <2>1. CASE Fails(s)
    BY <1>3, <1>f, <2>1 DEF OpenEvents, OthersUnchanged
  <2>2. CASE ~Fails(s)
    <3> SUFFICES ASSUME NEW d \in fds'[Host] PROVE MayHold(d)'
      BY DEF HostInv
    <3>1. CASE d \in fds[Host]
      BY <1>3, <1>h, <2>2, <3>1 DEF OpenEvents, HostInv, MayHold, Spawning, Goes, TypeOK, OthersUnchanged
    <3>2. CASE d \notin fds[Host]
      BY <1>3, <1>h, <2>2, <3>2 DEF Kinds, OpenEvents, MayHold, Spawning, Goes, TypeOK, OthersUnchanged
    <3> QED
      BY <3>1, <3>2
  <2> QED
    BY <2>1, <2>2
<1>4. ASSUME NEW s \in Sessions, ForkMonitor(s) PROVE HostInv'
  <2>1. CASE Fails(s)
    BY <1>4, <1>f, <2>1 DEF ForkMonitor
  <2>2. CASE ~Fails(s)
    <3>1. /\ call[s] = "fork" /\ call' = [call EXCEPT ![s] = "forked"]
          /\ fds' = [fds EXCEPT ![Monitor(s)] = fds[Host] \ {Fd("eventRead", s)}]
          /\ UNCHANGED waiter
      BY <1>4, <2>2 DEF ForkMonitor, Goes
    <3>2. fds'[Host] = fds[Host]
      BY <1>h, <3>1
    <3>3. \A t \in Sessions : call'[t] = IF t = s THEN "forked" ELSE call[t]
      BY <3>1 DEF TypeOK
    <3> QED
      BY <1>h, <3>1, <3>2, <3>3 DEF HostInv, MayHold, Spawning
  <2> QED
    BY <2>1, <2>2
<1>5. ASSUME NEW s \in Sessions, CloseWriteEnd(s) PROVE HostInv'
  BY <1>5, <1>h DEF CloseWriteEnd, HostInv, MayHold, Spawning, Goes, TypeOK, OthersUnchanged
<1>6. ASSUME NEW s \in Sessions, Announced(s) PROVE HostInv'
  <2>1. /\ call[s] = "await" /\ UNCHANGED <<fds, waiter>>
        /\ \E to \in {"started", "reap"} : call' = [call EXCEPT ![s] = to]
    BY <1>6 DEF Announced, Goes
  <2> QED
    BY <1>h, <2>1 DEF HostInv, MayHold, Spawning, TypeOK
<1>7. ASSUME NEW s \in Sessions, ReapMonitor(s) PROVE HostInv'
  BY <1>7, <1>f DEF ReapMonitor, OthersUnchanged
<1>8. ASSUME NEW s \in Sessions, SpawnReturns(s) PROVE HostInv'
  BY <1>8, <1>h DEF SpawnReturns, HostInv, MayHold, Spawning, Goes, TypeOK
<1>9. ASSUME NEW s \in Sessions, WaiterEnds(s) PROVE HostInv'
  BY <1>9, <1>h DEF WaiterEnds, HostInv, MayHold, Spawning, TypeOK, WaiterInv
<1>10. ASSUME NEW s \in Sessions, Close(s) PROVE HostInv'
  BY <1>10, <1>h DEF Close, HostInv, MayHold, Spawning, Goes, TypeOK
<1>11. ASSUME NEW s \in Sessions, CloseReturns(s) PROVE HostInv'
  BY <1>11, <1>h DEF CloseReturns, HostInv, MayHold, Spawning, Goes, TypeOK, OthersUnchanged
<1>12. ASSUME NEW s \in Sessions, MonitorStep(s) \/ MonitorDies(s) \/ Execs(s) \/ ExecFails(s) \/ ChildEnds(s)
       PROVE  HostInv'
  <2>1. fds'[Host] = fds[Host] /\ UNCHANGED <<call, waiter>>
    BY <1>12, <1>h DEF MonitorStep, ForkChild, MonitorLearns, MonitorReports, MonitorDies, Execs, ExecFails,
         ChildEnds, CallsUnchanged, Exits
  <2> QED
    BY <2>1, HostUntouched
<1> QED
  BY <1>1, <1>2, <1>3, <1>4, <1>5, <1>6, <1>7, <1>8, <1>9, <1>10, <1>11, <1>12 DEF Next, Thread

(***************************************************************************)
(* Programs, and processes that have gone                                  *)
(***************************************************************************)
LEMMA ProgramStep == TypeOK /\ ProgramHoldsItsTerminal /\ [Next]_vars => ProgramHoldsItsTerminal'
<1> SUFFICES ASSUME TypeOK, ProgramHoldsItsTerminal, [Next]_vars PROVE ProgramHoldsItsTerminal'
  OBVIOUS
<1> USE ProcessFacts DEF ProgramHoldsItsTerminal, TypeOK
<1>1. CASE UNCHANGED vars
  BY <1>1 DEF vars
<1>2. ASSUME NEW s \in Sessions, Thread(s) \/ WaiterEnds(s) PROVE ProgramHoldsItsTerminal'
  BY <1>2 DEF Thread, OpenPty, OpenEvents, ForkMonitor, CloseWriteEnd, Announced, ReapMonitor, SpawnReturns,
       CloseReturns, Fails, OthersUnchanged, WaiterEnds
<1>3. ASSUME NEW s \in Sessions, Close(s) PROVE ProgramHoldsItsTerminal'
  BY <1>3 DEF Close
<1>4. ASSUME NEW s \in Sessions, MonitorStep(s) \/ MonitorDies(s) PROVE ProgramHoldsItsTerminal'
  BY <1>4 DEF MonitorStep, ForkChild, MonitorLearns, MonitorReports, MonitorDies, Exits
<1>5. ASSUME NEW s \in Sessions, Execs(s) PROVE ProgramHoldsItsTerminal'
  <2>1. fds'[Child(s)] = {Fd("slave", s)}
    BY <1>5, DescriptorFacts DEF Execs, CloseOnExec
  <2> QED
    BY <1>5, <2>1 DEF Execs
<1>6. ASSUME NEW s \in Sessions, ExecFails(s) \/ ChildEnds(s) PROVE ProgramHoldsItsTerminal'
  <2>1. child' = [child EXCEPT ![s] = "ended"] /\ fds' = [fds EXCEPT ![Child(s)] = {}]
    BY <1>6 DEF ExecFails, ChildEnds
  <2>2. ASSUME NEW t \in Sessions, t # s PROVE child'[t] = child[t] /\ fds'[Child(t)] = fds[Child(t)]
    BY <2>1, <2>2
  <2> QED
    BY <2>1, <2>2
<1> QED
  BY <1>1, <1>2, <1>3, <1>4, <1>5, <1>6 DEF Next

LEMMA DeadStep == TypeOK /\ DeadInv /\ [Next]_vars => DeadInv'
<1> SUFFICES ASSUME TypeOK, DeadInv, [Next]_vars PROVE DeadInv'
  OBVIOUS
<1> USE ProcessFacts DEF DeadInv, TypeOK
<1>1. CASE UNCHANGED vars
  BY <1>1 DEF vars
<1>2. ASSUME NEW s \in Sessions, Thread(s) PROVE DeadInv'
  BY <1>2 DEF Thread, OpenPty, OpenEvents, ForkMonitor, CloseWriteEnd, Announced, ReapMonitor, SpawnReturns,
       CloseReturns, Fails, OthersUnchanged
<1>3. ASSUME NEW s \in Sessions, WaiterEnds(s) \/ Close(s) PROVE DeadInv'
  BY <1>3 DEF WaiterEnds, Close
<1>4. ASSUME NEW s \in Sessions, MonitorStep(s) \/ MonitorDies(s) PROVE DeadInv'
  <2>1. CASE ForkChild(s)
    <3>1. CASE monitor' = [monitor EXCEPT ![s] = "checking"]
      BY <2>1, <3>1 DEF ForkChild, Exits
    <3>2. CASE Exits(s) /\ UNCHANGED child
      BY <3>2 DEF Exits
    <3> QED
      BY <2>1, <3>1, <3>2 DEF ForkChild
  <2>2. CASE MonitorLearns(s)
    BY <2>2 DEF MonitorLearns
  <2>3. CASE MonitorReports(s) \/ MonitorDies(s)
    BY <2>3 DEF MonitorReports, MonitorDies, Exits
  <2> QED
    BY <1>4, <2>1, <2>2, <2>3 DEF MonitorStep
<1>5. ASSUME NEW s \in Sessions, Execs(s) \/ ExecFails(s) \/ ChildEnds(s) PROVE DeadInv'
  <2>1. CASE Execs(s)
    BY <2>1 DEF Execs
  <2>2. CASE ExecFails(s) \/ ChildEnds(s)
    <3>1. /\ child' = [child EXCEPT ![s] = "ended"] /\ fds' = [fds EXCEPT ![Child(s)] = {}]
          /\ UNCHANGED monitor
      BY <2>2 DEF ExecFails, ChildEnds
    <3>2. ASSUME NEW t \in Sessions
          PROVE  /\ fds'[Monitor(t)] = fds[Monitor(t)] /\ fds'[Child(s)] = {}
                 /\ t # s => child'[t] = child[t] /\ fds'[Child(t)] = fds[Child(t)]
      BY <3>1
    <3> QED
      BY <3>1, <3>2
  <2> QED
    BY <1>5, <2>1, <2>2
<1> QED
  BY <1>1, <1>2, <1>3, <1>4, <1>5 DEF Next

(***************************************************************************)
(* Theorems                                                                *)
(***************************************************************************)
LEMMA InitInv == Init => IInv
BY ProcessFacts DEF Init, IInv, TypeOK, WaiterInv, HostInv, ProgramHoldsItsTerminal, DeadInv

LEMMA Step == IInv /\ [Next]_vars => IInv'
BY TypeStep, WaiterStep, HostStep, ProgramStep, DeadStep DEF IInv

(* Who holds what is, in every behaviour, as the invariant says.           *)
THEOREM Inductive == Spec => []IInv
BY InitInv, Step, PTL DEF Spec

(* Every variable keeps its type, for any number of sessions.              *)
THEOREM TypeCorrect == Spec => []TypeOK
BY Inductive, PTL DEF IInv

(* A program holds its own terminal and nothing else of any session        *)
(* (process_linux.rs 24, 342, 382-438).                                    *)
THEOREM ProgramsHoldTheirTerminal == Spec => []ProgramHoldsItsTerminal
BY Inductive, PTL DEF IInv

(* A spawn that failed and a close that returned leave the process no      *)
(* descriptor of that session (process_linux.rs 31-79, session.rs 125-182). *)
THEOREM NothingLeaks == Spec => []HostLeaksNothing
<1>1. IInv => HostLeaksNothing
  <2> SUFFICES ASSUME IInv, NEW s \in Sessions, call[s] \in {"failed", "closed"}, NEW d \in fds[Host]
               PROVE  d \notin Of(s)
    BY DEF HostLeaksNothing
  <2>1. d \in Descriptors /\ (d \in Of(s) <=> d.of = s)
    BY DescriptorFacts, ProcessFacts DEF IInv, TypeOK
  <2>2. MayHold(d)
    BY DEF IInv, HostInv
  <2> QED
    BY <2>1, <2>2 DEF MayHold, Spawning
<1> QED
  BY <1>1, Inductive, PTL

(* When every session has failed or been closed and the children and their *)
(* monitors have gone, nobody holds anything of any session: what a        *)
(* session keeps of another ends with it (process_linux.rs 31-50,          *)
(* 338-380).                                                               *)
NobodyHoldsWhatIsOver ==
  (\A s \in Sessions : /\ call[s] \in {"idle", "failed", "closed"}
                       /\ monitor[s] \in {"none", "exited"} /\ child[s] \in {"none", "ended"})
  => \A p \in Processes : fds[p] = {}

THEOREM OverIsOver == Spec => []NobodyHoldsWhatIsOver
<1>1. IInv => NobodyHoldsWhatIsOver
  <2> SUFFICES ASSUME IInv, NEW p \in Processes,
                      \A s \in Sessions : /\ call[s] \in {"idle", "failed", "closed"}
                                          /\ monitor[s] \in {"none", "exited"} /\ child[s] \in {"none", "ended"}
               PROVE  fds[p] = {}
    BY DEF NobodyHoldsWhatIsOver
  <2>1. ASSUME NEW d \in fds[Host] PROVE FALSE
    <3>1. d.of \in Sessions
      BY <2>1, DescriptorFacts, ProcessFacts DEF IInv, TypeOK
    <3>2. MayHold(d)
      BY <2>1 DEF IInv, HostInv
    <3> QED
      BY <3>1, <3>2 DEF MayHold, Spawning
  <2>2. ASSUME NEW s \in Sessions PROVE fds[Monitor(s)] = {} /\ fds[Child(s)] = {}
    BY DEF IInv, DeadInv
  <2> QED
    BY <2>1, <2>2 DEF Processes
<1> QED
  BY <1>1, Inductive, PTL
=============================================================================
