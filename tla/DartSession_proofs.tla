------------------------- MODULE DartSession_proofs -------------------------
(***************************************************************************)
(* The invariants of DartSession, for every set of reporters, exit codes   *)
(* of 8 bits, faults and closers: the codes told are the child's, and when *)
(* ptyx_close or a spawn that failed returns, no thread of the session     *)
(* runs and no process is left.                                            *)
(*                                                                         *)
(* IInv is inductive.  Of its parts, MonitorInv and WaiterInv say who has  *)
(* reaped whom and what the child waiter holds, ThreadInv and CallInv what *)
(* the call in progress has started and is still to join, HandleInv when   *)
(* the isolate may use the handle.  A step of the system is one of twelve  *)
(* groups (AnyStep); each part has a lemma that goes through the groups.   *)
(***************************************************************************)
EXTENDS DartSession, TLAPS

(* How the child ended: what is left of an exit code, or a signal that     *)
(* this session sent.                                                      *)
StatusInv ==
  /\ status.by = "exit" => status.n \in 0..255
  /\ status.by = "signal" => status.n \in {SIGTERM, SIGKILL}

(* The child is as far as the monitor, its parent, has brought it; a       *)
(* monitor that ends without having been killed has reaped it.  A session  *)
(* with a monitor does not wait for the child by its number.               *)
MonitorInv ==
  /\ reporter = "monitor" =>
       /\ monitor \in {"none", "forking"} => child = "none"
       /\ monitor = "checking" => child \in {"execing", "failed", "running", "zombie"}
       /\ monitor \in {"announcing", "waiting"} => child \in {"running", "zombie"}
       /\ monitor = "reaping" => child = "failed"
       /\ monitor = "reporting" => child = "reaped"
       /\ monitor \in {"exited", "reaped"} => lost \/ child \in {"none", "reaped"}
  /\ reporter # "monitor" => monitor = "none" /\ ~lost /\ pipe = <<>> /\ child \notin {"execing", "failed"}
  /\ monitorPid # "monitor" => monitor = "reaped"
  /\ reporter # "wait" => ~mistaken

(* Nothing runs before ptyx_spawn has started it.                          *)
BeforeInv ==
  /\ npc \in {"none", "spawn"} => child = "none" /\ monitor = "none"
  /\ npc \in {"none", "spawn", "await", "reapMonitor", "startWaiter"} => waiter = "none"

(* What the child waiter is about to cache, and what it then has cached;   *)
(* with a code in its hands it has reaped the child, or the monitor that   *)
(* had.                                                                    *)
WaiterInv ==
  /\ result = IF waiter = "done" THEN found ELSE NoResult
  /\ waiter = "reaping" => reporter = "monitor" /\ found.kind # "none"
  /\ waiter \in {"completing", "done"} =>
       /\ found.kind # "none"
       /\ found.kind = "ok" => IF reporter = "monitor" THEN monitor = "reaped" ELSE child = "reaped"

(* Every code on its way to the future is the child's, unless wait() was   *)
(* told of another.                                                        *)
TrueMessages(s, kind) == \A i \in DOMAIN s : s[i].kind = kind => ResultIsTrue(Exited(s[i].code))
TrueInv ==
  ~mistaken =>
    /\ ResultIsTrue(found) /\ ResultIsTrue(result) /\ ResultIsTrue(exitFuture)
    /\ TrueMessages(pipe, "exit") /\ TrueMessages(events, "exit")

(* The threads that run, by the step of the call; those that close is      *)
(* still to join are in joins.                                             *)
Starting == {"none", "spawn", "await", "reapMonitor", "startWaiter", "startReader"}
AllJoinable == \A t \in Threads : Joinable(t)
ThreadInv ==
  /\ npc \in Starting => \A t \in Threads : thread[t] = "none"
  /\ npc = "startWait" => \A t \in Threads \ {"reader"} : thread[t] = "none"
  /\ npc = "startMode" => thread["mode"] = "none" /\ thread["writer"] = "none"
  /\ npc \in {"close", "closeKill"} => runtime \/ AllJoinable
  /\ npc = "joining" => \A t \in Threads : Joinable(t) \/ \E i \in DOMAIN joins : joins[i] = t
  /\ npc \in {"joinWaiter", "closed", "failed"} => AllJoinable

(* Why the call in progress joins, and what it finds started.              *)
CallInv ==
  /\ npc \in Starting \union {"startWait", "startMode"} => ~runtime /\ then = "none"
  /\ npc \in {"startReader", "startWait", "startMode", "open"} => waiter # "none"
  /\ npc = "open" => runtime /\ then = "none"
  /\ npc \in {"close", "closeKill"} => IF runtime THEN then = "none" /\ waiter # "none" ELSE then = "fail"
  /\ npc \in {"joining", "joinWaiter"} => then = "fail" \/ (then = "close" /\ waiter # "none")
  /\ npc \in {"closed", "failed"} => waiter \in {"none", "done"}

(* The isolate has its session, and uses it, between spawn and close.      *)
HandleInv ==
  /\ closed <=> frees # 0
  /\ ~closed => turn = "user" \/ npc = "open"

IInv ==
  /\ TypeOK /\ StatusInv /\ MonitorInv /\ BeforeInv /\ WaiterInv /\ TrueInv
  /\ ThreadInv /\ CallInv /\ HandleInv /\ NoProcessLeft

(***************************************************************************)
(* The steps, by whose they are.                                           *)
(***************************************************************************)
Apart == UNCHANGED <<runtimeVars, sessionVars>>
ChildMoves   == ChildStep /\ Apart
KernelMoves  == KernelStep /\ Apart
MonitorMoves == MonitorStep /\ Apart
WaiterMoves  == (WaiterStep \/ WatcherFails) /\ Apart
KillMoves    == KillStep /\ Apart

SpawnCall ==
  /\ SpawnChild \/ SpawnChildFails \/ ForkMonitor \/ Announced \/ NeverAnnounced \/ ReapMonitor \/ StartWaiter
  /\ UNCHANGED sessionVars
StartCall == (StartReader \/ StartWait \/ StartMode) /\ UNCHANGED sessionVars
CloseCall ==
  (CloseKills \/ CloseRuntime \/ JoinThread \/ ThreadsJoined \/ JoinWaiter) /\ UNCHANGED sessionVars
ThreadMoves ==
  (ReaderThread \/ WaitThread \/ ModeThread \/ WriterThread) /\ UNCHANGED sessionVars

SessionStep == Spawn \/ Spawned \/ SpawnThrows \/ Kill \/ Write \/ HandleEvent
CloserStep  == \E c \in Closers : CloseStep(c)

AnyStep ==
  \/ ChildMoves \/ KernelMoves \/ MonitorMoves \/ WaiterMoves \/ KillMoves
  \/ SpawnCall \/ StartCall \/ CloseCall \/ ThreadMoves
  \/ SessionStep \/ CloserStep \/ UNCHANGED vars

(* The steps of the groups are the steps of the system.                    *)
LEMMA Steps == [Next]_vars => AnyStep
BY DEF Next, AnyStep, CallStep, Apart, ChildMoves, KernelMoves, MonitorMoves, WaiterMoves,
   KillMoves, SpawnCall, StartCall, CloseCall, ThreadMoves, SessionStep, CloserStep

(***************************************************************************)
(* Every variable keeps its type                                           *)
(***************************************************************************)
(* The Booleans: Zenon finds these.                                        *)
LEMMA FlagsStep == TypeOK /\ [Next]_vars => FlagsOK'
<1> SUFFICES ASSUME TypeOK, [Next]_vars PROVE FlagsOK'
  OBVIOUS
<1> USE DEF TypeOK, FlagsOK, Apart, childVars, fateVars, osVars, waitVars, killVars, runtimeVars,
   callVars, sessionVars, WaiterUnchanged, OthersUnchanged, SpawnGoes, threadUnchanged
<1>1. CASE ChildMoves \/ KernelMoves
  BY <1>1, Zenon DEF ChildMoves, ChildStep, ChildExecs, RunsAs, ChildExits, ChildDies,
     ChildIgnoresTerm, KernelMoves, KernelStep, HostReaps, InitReaps, PidReused, MonitorDies,
     HostReapsMonitor, SiblingEnds, NamesakeEnds, Reaped
<1>2. CASE MonitorMoves
  BY <1>2, Zenon DEF MonitorMoves, MonitorStep, MonitorForks, MonitorCannotFork, MonitorLearns,
     MonitorReapsFailed, MonitorAnnounces, MonitorReaps, MonitorReports, Says, Reaped
<1>3. CASE WaiterMoves
  BY <1>3, Zenon DEF WaiterMoves, WaiterStep, ReadReport, WaiterReaps, ReadReportFails, WaitReturns,
     WatcherFires, CacheResult, WatcherFails, Finds, Reaped, ReapMonitorPid
<1>4. CASE KillMoves
  BY <1>4, Zenon DEF KillMoves, KillStep, KillChecks, KillSignals, KillReturns
<1>5. CASE SpawnCall
  BY <1>5, Zenon DEF SpawnCall, SpawnChild, RunsAs, SpawnChildFails, ForkMonitor, Announced,
     NeverAnnounced, ReapMonitor, ReapMonitorPid, StartWaiter
<1>6. CASE StartCall
  BY <1>6, Zenon DEF StartCall, StartReader, StartWait, StartMode, SetThread
<1>7. CASE CloseCall
  BY <1>7, Zenon DEF CloseCall, CloseKills, KillStarts, CloseRuntime, JoinThread, ThreadsJoined,
     JoinWaiter
<1>8. CASE ThreadMoves
  BY <1>8, Zenon DEF ThreadMoves, ReaderThread, ReaderEnds, WaitThread, WaitObserves, WaitPosts,
     ModeThread, ModeLooks, ModeSame, ModeChanges, ModeFails, WriterThread, WriterEnds, SetThread,
     PostEvent
<1>9. CASE SessionStep
  BY <1>9, Zenon DEF SessionStep, Spawn, Spawned, SpawnThrows, Kill, KillStarts, Write, SetThread,
     HandleEvent, Complete
<1>10. CASE CloserStep
  BY <1>10, Zenon DEF CloserStep, CloseStep, CloseCalled, SignalSent, Wait1Ends, Wait2Ends,
     FreeHandle, CloseReturns, KillStarts, Complete, Goes
<1>11. CASE UNCHANGED vars
  BY <1>11, Zenon DEF vars
<1> QED
  BY <1>1, <1>2, <1>3, <1>4, <1>5, <1>6, <1>7, <1>8, <1>9, <1>10, <1>11, Steps DEF AnyStep

(* The stages of the child, its monitor, its waiter and kill.              *)
LEMMA ChildStagesStep == TypeOK /\ [Next]_vars => ChildStagesOK'
<1> SUFFICES ASSUME TypeOK, [Next]_vars PROVE ChildStagesOK'
  OBVIOUS
<1> USE DEF TypeOK, ChildStagesOK, Apart, childVars, fateVars, osVars, waitVars, killVars,
   runtimeVars, callVars, sessionVars, WaiterUnchanged, OthersUnchanged, SpawnGoes, threadUnchanged
<1>1. CASE ChildMoves \/ KernelMoves
  BY <1>1 DEF ChildMoves, ChildStep, ChildExecs, RunsAs, ChildExits, ChildDies, ChildIgnoresTerm,
     KernelMoves, KernelStep, HostReaps, InitReaps, PidReused, MonitorDies, HostReapsMonitor,
     SiblingEnds, NamesakeEnds, Reaped
<1>2. CASE MonitorMoves
  BY <1>2 DEF MonitorMoves, MonitorStep, MonitorForks, MonitorCannotFork, MonitorLearns,
     MonitorReapsFailed, MonitorAnnounces, MonitorReaps, MonitorReports, Says, Reaped
<1>3. CASE WaiterMoves
  BY <1>3 DEF WaiterMoves, WaiterStep, ReadReport, WaiterReaps, ReadReportFails, WaitReturns,
     WatcherFires, CacheResult, WatcherFails, Finds, Reaped, ReapMonitorPid
<1>4. CASE KillMoves
  BY <1>4 DEF KillMoves, KillStep, KillChecks, KillSignals, KillReturns
<1>5. CASE SpawnCall
  BY <1>5 DEF SpawnCall, SpawnChild, RunsAs, SpawnChildFails, ForkMonitor, Announced,
     NeverAnnounced, ReapMonitor, ReapMonitorPid, StartWaiter
<1>6. CASE StartCall \/ CloseCall
  BY <1>6 DEF StartCall, StartReader, StartWait, StartMode, SetThread, CloseCall, CloseKills,
     KillStarts, CloseRuntime, JoinThread, ThreadsJoined, JoinWaiter
<1>7. CASE ThreadMoves
  BY <1>7 DEF ThreadMoves, ReaderThread, ReaderEnds, WaitThread, WaitObserves, WaitPosts,
     ModeThread, ModeLooks, ModeSame, ModeChanges, ModeFails, WriterThread, WriterEnds, SetThread,
     PostEvent
<1>8. CASE SessionStep
  BY <1>8 DEF SessionStep, Spawn, Spawned, SpawnThrows, Kill, KillStarts, Write, SetThread,
     HandleEvent, Complete
<1>9. CASE CloserStep
  BY <1>9 DEF CloserStep, CloseStep, CloseCalled, SignalSent, Wait1Ends, Wait2Ends, FreeHandle,
     CloseReturns, KillStarts, Complete, Goes
<1>10. CASE UNCHANGED vars
  BY <1>10 DEF vars
<1> QED
  BY <1>1, <1>2, <1>3, <1>4, <1>5, <1>6, <1>7, <1>8, <1>9, <1>10, Steps DEF AnyStep

(* The stages of the calls and the threads.                                *)
LEMMA CallStagesStep == TypeOK /\ [Next]_vars => CallStagesOK'
<1> SUFFICES ASSUME TypeOK, [Next]_vars PROVE CallStagesOK'
  OBVIOUS
<1> USE DEF TypeOK, CallStagesOK, Apart, childVars, fateVars, osVars, waitVars, killVars,
   runtimeVars, callVars, sessionVars, WaiterUnchanged, OthersUnchanged, SpawnGoes, threadUnchanged
<1>j. /\ <<"reader", "writer">> \in Seq(Threads) /\ <<"reader", "wait", "writer">> \in Seq(Threads)
      /\ <<"reader", "wait", "mode", "writer">> \in Seq(Threads)
      /\ joins # <<>> => Tail(joins) \in Seq(Threads)
      /\ {"reader", "wait", "mode", "writer"} = Threads
  BY DEF Threads
<1>1. CASE ChildMoves \/ KernelMoves \/ MonitorMoves \/ WaiterMoves \/ KillMoves
  BY <1>1 DEF ChildMoves, KernelMoves, MonitorMoves, WaiterMoves, KillMoves
<1>2. CASE SpawnCall
  BY <1>2, <1>j DEF SpawnCall, SpawnChild, RunsAs, SpawnChildFails, ForkMonitor, Announced,
     NeverAnnounced, ReapMonitor, ReapMonitorPid, StartWaiter
<1>3. CASE StartCall
  BY <1>3, <1>j DEF StartCall, StartReader, StartWait, StartMode, SetThread
<1>4. CASE CloseCall
  BY <1>4, <1>j DEF CloseCall, CloseKills, KillStarts, CloseRuntime, JoinThread, ThreadsJoined,
     JoinWaiter
<1>5. CASE ThreadMoves
  <2>1. thread' \in [Threads -> {"none", "running", "looking", "posting", "done"}]
    BY <1>5, <1>j DEF ReaderThread, ReaderEnds, WaitThread, WaitObserves, WaitPosts, ModeThread,
       ModeLooks, ModeSame, ModeChanges, ModeFails, WriterThread, WriterEnds, ThreadMoves, SetThread
  <2>2. modes' \in 0..MaxModes
    BY <1>5, ModeAssumption DEF ReaderThread, ReaderEnds, WaitThread, WaitObserves, WaitPosts,
       ModeThread, ModeLooks, ModeSame, ModeChanges, ModeFails, WriterThread, WriterEnds,
       ThreadMoves
  <2> QED
    BY <1>5, <2>1, <2>2, Zenon DEF ReaderThread, ReaderEnds, WaitThread, WaitObserves, WaitPosts,
       ModeThread, ModeLooks, ModeSame, ModeChanges, ModeFails, WriterThread, WriterEnds,
       ThreadMoves
<1>6. CASE SessionStep
  BY <1>6, <1>j DEF SessionStep, Spawn, Spawned, SpawnThrows, Kill, KillStarts, Write, SetThread,
     HandleEvent, Complete
<1>7. CASE CloserStep
  BY <1>7, ModeAssumption DEF CloserStep, CloseStep, CloseCalled, SignalSent, Wait1Ends, Wait2Ends,
     FreeHandle, CloseReturns, KillStarts, Complete, Goes
<1>8. CASE UNCHANGED vars
  BY <1>8 DEF vars
<1> QED
  BY <1>1, <1>2, <1>3, <1>4, <1>5, <1>6, <1>7, <1>8, Steps DEF AnyStep

(* The codes the reporters make are numbers.                               *)
LEMMA CodesType ==
  ASSUME status \in [by : {"exit", "signal"}, n : Nat]
  PROVE  MonitorCode(status) \in Nat /\ WatcherCode(status) \in Nat /\ WaitCode(status) \in Nat
<1>1. status.n \in Nat
  OBVIOUS
<1>2. WaitStatus(status) \in Nat
  BY <1>1 DEF WaitStatus
<1>3. \A s \in Nat : s % 128 \in Nat /\ (s \div 256) % 256 \in Nat
  OBVIOUS
<1>4. WatcherCode(status) \in Nat
  BY <1>2, <1>3 DEF WatcherCode
<1> QED
  BY <1>1, <1>4 DEF MonitorCode, WaitCode

(* What the actions build has the type it is to have.                      *)
LEMMA ResultsType ==
  /\ NoResult \in Results /\ Failed \in Results /\ \A c \in Nat : Exited(c) \in Results
  /\ Message("execError", 0) \in Messages /\ Message("pid", 0) \in Messages
  /\ \A c \in Nat : Message("exit", c) \in Messages
  /\ Event("mode", 0) \in Events /\ Event("modeError", 0) \in Events /\ Event("waitError", 0) \in Events
  /\ \A c \in Nat : Event("exit", c) \in Events
BY DEF Results, NoResult, Failed, Exited, Message, Messages, Event, Events

(* The monitor reports the exit once, or says something else, or nothing.  *)
LEMMA MonitorSays ==
  ASSUME TypeOK, MonitorMoves
  PROVE  \/ UNCHANGED pipe
         \/ \E m \in Messages : m.kind # "exit" /\ pipe' = Append(pipe, m)
         \/ /\ monitor = "reporting" /\ UNCHANGED child
            /\ MonitorCode(status) \in Nat /\ pipe' = Append(pipe, Message("exit", MonitorCode(status)))
<1>1. MonitorCode(status) \in Nat
  BY CodesType DEF TypeOK, ReportsOK
<1>2. \A k \in {"pid", "execError"} : Message(k, 0) \in Messages /\ Message(k, 0).kind # "exit"
  BY DEF Message, Messages
<1>3. \/ UNCHANGED pipe \/ pipe' = Append(pipe, Message("execError", 0)) \/ pipe' = Append(pipe, Message("pid", 0))
      \/ monitor = "reporting" /\ UNCHANGED child /\ pipe' = Append(pipe, Message("exit", MonitorCode(status)))
  BY Zenon DEF MonitorMoves, MonitorStep, MonitorForks, MonitorCannotFork, MonitorLearns,
     MonitorReapsFailed, MonitorAnnounces, MonitorReaps, MonitorReports, Says, Reaped, waitVars,
     osVars
<1> QED
  BY <1>1, <1>2, <1>3

(* The threads post the exit, with the code that is cached, or another     *)
(* event, or nothing.                                                      *)
LEMMA ThreadsPost ==
  ASSUME TypeOK, ThreadMoves
  PROVE  \/ UNCHANGED events
         \/ \E e \in Events : e.kind # "exit" /\ events' = Append(events, e)
         \/ result.kind = "ok" /\ result.code \in Nat /\ events' = Append(events, Event("exit", result.code))
<1>1. result.code \in Nat
  BY DEF TypeOK, ReportsOK, Results
<1>2. \A k \in {"mode", "modeError", "waitError"} : Event(k, 0) \in Events /\ Event(k, 0).kind # "exit"
  BY DEF Event, Events
<1>3. \/ UNCHANGED events \/ \E k \in {"mode", "modeError", "waitError"} : events' = Append(events, Event(k, 0))
      \/ result.kind = "ok" /\ events' = Append(events, Event("exit", result.code))
  <2>1. CASE WaitPosts
    BY <2>1 DEF WaitPosts, PostEvent
  <2>2. CASE ModeChanges \/ ModeFails
    BY <2>2 DEF ModeChanges, ModeFails, PostEvent
  <2>3. CASE ReaderEnds \/ WaitObserves \/ ModeLooks \/ ModeSame \/ WriterEnds
    BY <2>3 DEF ReaderEnds, WaitObserves, ModeLooks, ModeSame, WriterEnds
  <2> QED
    BY <2>1, <2>2, <2>3 DEF ThreadMoves, ReaderThread, WaitThread, ModeThread, WriterThread
<1> QED
  BY <1>1, <1>2, <1>3

(* Results, messages and events.                                           *)
LEMMA ReportsStep == TypeOK /\ [Next]_vars => ReportsOK'
<1> SUFFICES ASSUME TypeOK, [Next]_vars PROVE ReportsOK'
  OBVIOUS
<1> USE DEF TypeOK, ReportsOK, Apart, childVars, fateVars, osVars, waitVars, killVars, runtimeVars,
   callVars, sessionVars, WaiterUnchanged, OthersUnchanged, SpawnGoes, threadUnchanged
<1>1. MonitorCode(status) \in Nat /\ WatcherCode(status) \in Nat /\ WaitCode(status) \in Nat
  BY CodesType
<1>2. pipe # <<>> => Head(pipe) \in Messages /\ Tail(pipe) \in Seq(Messages)
  OBVIOUS
<1>3. events # <<>> => Head(events) \in Events /\ Tail(events) \in Seq(Events)
  OBVIOUS
<1>4. /\ pipe # <<>> => Head(pipe).code \in Nat
      /\ events # <<>> => Head(events).code \in Nat
      /\ result.code \in Nat
  BY <1>2, <1>3 DEF Messages, Events, Results
<1>5. <<>> \in Seq(Events)
  OBVIOUS
<1>6. CASE ChildMoves \/ KernelMoves
  <2>1. UNCHANGED <<found, result, exitFuture, pipe, events>>
    BY <1>6 DEF ChildMoves, ChildStep, ChildExecs, RunsAs, ChildExits, ChildDies, ChildIgnoresTerm,
       KernelMoves, KernelStep, HostReaps, InitReaps, PidReused, MonitorDies, HostReapsMonitor,
       SiblingEnds, NamesakeEnds, Reaped
  <2>2. status' = status \/ (\E c \in Codes : status' = Ended("exit", c)) \/ (\E s \in pending : status' = Ended("signal", s))
    BY <1>6, Zenon DEF ChildMoves, ChildStep, ChildExecs, RunsAs, ChildExits, ChildDies,
       ChildIgnoresTerm, KernelMoves, KernelStep, HostReaps, InitReaps, PidReused, MonitorDies,
       HostReapsMonitor, SiblingEnds, NamesakeEnds, Reaped, Apart
  <2>3. status' = status \/ \E b \in {"exit", "signal"}, n \in Nat : status' = Ended(b, n)
    BY <2>2, FaultAssumption DEF ChildStagesOK, SIGTERM, SIGKILL
  <2> QED
    BY <2>1, <2>3 DEF Ended
<1>7. CASE MonitorMoves
  <2>1. UNCHANGED <<status, found, result, exitFuture, events>>
    BY <1>7 DEF MonitorMoves, MonitorStep, MonitorForks, MonitorCannotFork, MonitorLearns,
       MonitorReapsFailed, MonitorAnnounces, MonitorReaps, MonitorReports, Says, Reaped
  <2>2. pipe' = pipe \/ \E m \in Messages : pipe' = Append(pipe, m)
    BY <1>7, MonitorSays, ResultsType
  <2> QED
    BY <2>1, <2>2
<1>8. CASE WaiterMoves
  <2>1. CASE WaitReturns
    <3>1. \A c \in Codes \union {1} : c \in Nat
      BY FaultAssumption
    <3>2. found' \in Results
      BY <1>1, <2>1, <3>1, ResultsType DEF WaitReturns, Finds
    <3>3. UNCHANGED <<status, result, pipe, exitFuture, events>>
      BY <1>8, <2>1 DEF WaiterMoves, WaitReturns
    <3> QED
      BY <3>2, <3>3
  <2>2. CASE ~WaitReturns
    BY <1>8, <2>2, <1>1, <1>2, <1>3, <1>4, <1>5, ResultsType DEF WaiterMoves, WaiterStep,
       ReadReport, WaiterReaps, ReadReportFails, WatcherFires, CacheResult, WatcherFails, Finds,
       Reaped, ReapMonitorPid
  <2> QED
    BY <2>1, <2>2
<1>9. CASE KillMoves \/ SpawnCall \/ StartCall
  BY <1>9, <1>2 DEF KillMoves, KillStep, KillChecks, KillSignals, KillReturns, SpawnCall,
     SpawnChild, RunsAs, SpawnChildFails, ForkMonitor, Announced, NeverAnnounced, ReapMonitor,
     ReapMonitorPid, StartWaiter, StartCall, StartReader, StartWait, StartMode, SetThread
<1>10. CASE CloseCall
  BY <1>10 DEF CloseCall, CloseKills, KillStarts, CloseRuntime, JoinThread, ThreadsJoined,
     JoinWaiter
<1>11. CASE ThreadMoves
  <2>1. UNCHANGED <<status, found, result, exitFuture, pipe>>
    BY <1>11 DEF ThreadMoves, ReaderThread, ReaderEnds, WaitThread, WaitObserves, WaitPosts,
       ModeThread, ModeLooks, ModeSame, ModeChanges, ModeFails, WriterThread, WriterEnds
  <2>2. events' = events \/ \E e \in Events : events' = Append(events, e)
    BY <1>11, ThreadsPost, ResultsType
  <2> QED
    BY <2>1, <2>2
<1>12. CASE SessionStep
  BY <1>12, <1>1, <1>2, <1>3, <1>4, <1>5, ResultsType DEF SessionStep, Spawn, Spawned, SpawnThrows,
     Kill, KillStarts, Write, SetThread, HandleEvent, Complete
<1>13. CASE CloserStep
  BY <1>13, <1>1, <1>2, <1>3, <1>4, <1>5, ResultsType DEF CloserStep, CloseStep, CloseCalled,
     SignalSent, Wait1Ends, Wait2Ends, FreeHandle, CloseReturns, KillStarts, Complete, Goes
<1>14. CASE UNCHANGED vars
  BY <1>14 DEF vars
<1> QED
  BY <1>1, <1>2, <1>3, <1>4, <1>5, <1>6, <1>7, <1>8, <1>9, <1>10, <1>11, <1>12, <1>13, <1>14, Steps
     DEF AnyStep

(* The four parts together.                                                *)
LEMMA TypeStep == TypeOK /\ [Next]_vars => TypeOK'
BY FlagsStep, ChildStagesStep, CallStagesStep, ReportsStep DEF TypeOK

(***************************************************************************)
(* The child and its monitor                                               *)
(***************************************************************************)
(* A child ends by an exit code, or by a signal this session sent.         *)
LEMMA StatusStep == TypeOK /\ StatusInv /\ [Next]_vars => StatusInv'
<1> SUFFICES ASSUME TypeOK, StatusInv, [Next]_vars PROVE StatusInv'
  OBVIOUS
<1> USE DEF StatusInv, childVars, fateVars, osVars, waitVars, killVars, runtimeVars, callVars,
   sessionVars, WaiterUnchanged, OthersUnchanged, SpawnGoes, threadUnchanged, Apart
<1>1. CASE ChildMoves
  <2>1. status' = status \/ (\E c \in Codes : status' = Ended("exit", c)) \/ (\E s \in pending : status' = Ended("signal", s))
    BY <1>1, Zenon DEF ChildMoves, ChildStep, ChildExecs, RunsAs, ChildExits, ChildDies,
       ChildIgnoresTerm
  <2> QED
    BY <2>1, FaultAssumption DEF Ended, TypeOK, ChildStagesOK
<1>2. CASE KernelMoves \/ MonitorMoves
  BY <1>2 DEF KernelMoves, KernelStep, HostReaps, InitReaps, PidReused, MonitorDies,
     HostReapsMonitor, SiblingEnds, NamesakeEnds, Reaped, MonitorMoves, MonitorStep, MonitorForks,
     MonitorCannotFork, MonitorLearns, MonitorReapsFailed, MonitorAnnounces, MonitorReaps,
     MonitorReports, Says
<1>3. CASE WaiterMoves \/ KillMoves
  BY <1>3 DEF WaiterMoves, WaiterStep, ReadReport, WaiterReaps, ReadReportFails, WaitReturns,
     WatcherFires, CacheResult, WatcherFails, Finds, Reaped, ReapMonitorPid, KillMoves, KillStep,
     KillChecks, KillSignals, KillReturns
<1>4. CASE SpawnCall \/ StartCall \/ CloseCall
  BY <1>4 DEF SpawnCall, SpawnChild, RunsAs, SpawnChildFails, ForkMonitor, Announced,
     NeverAnnounced, ReapMonitor, ReapMonitorPid, StartWaiter, StartCall, StartReader, StartWait,
     StartMode, SetThread, CloseCall, CloseKills, KillStarts, CloseRuntime, JoinThread,
     ThreadsJoined, JoinWaiter
<1>5. CASE ThreadMoves
  BY <1>5 DEF ThreadMoves, ReaderThread, ReaderEnds, WaitThread, WaitObserves, WaitPosts,
     ModeThread, ModeLooks, ModeSame, ModeChanges, ModeFails, WriterThread, WriterEnds
<1>6. CASE SessionStep \/ CloserStep \/ UNCHANGED vars
  BY <1>6 DEF SessionStep, Spawn, Spawned, SpawnThrows, Kill, KillStarts, Write, SetThread,
     HandleEvent, Complete, CloserStep, CloseStep, CloseCalled, SignalSent, Wait1Ends, Wait2Ends,
     FreeHandle, CloseReturns, Goes, vars
<1> QED
  BY <1>1, <1>2, <1>3, <1>4, <1>5, <1>6, Steps DEF AnyStep

(* The child and the monitor keep pace.                                    *)
LEMMA MonitorStepInv == TypeOK /\ MonitorInv /\ BeforeInv /\ [Next]_vars => MonitorInv'
<1> SUFFICES ASSUME TypeOK, MonitorInv, BeforeInv, [Next]_vars PROVE MonitorInv'
  OBVIOUS
<1> USE DEF TypeOK, ChildStagesOK, MonitorInv, BeforeInv, childVars, fateVars, osVars, waitVars,
   killVars, runtimeVars, callVars, sessionVars, WaiterUnchanged, OthersUnchanged, SpawnGoes,
   threadUnchanged, Apart
<1>1. CASE ChildMoves
  <2>1. CASE ChildExecs
    BY <1>1, <2>1 DEF ChildMoves, ChildExecs
  <2>2. CASE ChildExits \/ ChildDies \/ ChildIgnoresTerm
    BY <1>1, <2>2 DEF ChildMoves, ChildExits, ChildDies, ChildIgnoresTerm
  <2> QED
    BY <1>1, <2>1, <2>2 DEF ChildMoves, ChildStep
<1>2. CASE KernelMoves
  BY <1>2 DEF KernelMoves, KernelStep, HostReaps, InitReaps, PidReused, MonitorDies,
     HostReapsMonitor, SiblingEnds, NamesakeEnds, Reaped
<1>3. CASE MonitorMoves
  BY <1>3 DEF MonitorMoves, MonitorStep, MonitorForks, MonitorCannotFork, MonitorLearns,
     MonitorReapsFailed, MonitorAnnounces, MonitorReaps, MonitorReports, Says, Reaped
<1>4. CASE WaiterMoves
  BY <1>4 DEF WaiterMoves, WaiterStep, ReadReport, WaiterReaps, ReadReportFails, WaitReturns,
     WatcherFires, CacheResult, WatcherFails, Finds, Reaped, ReapMonitorPid
<1>5. CASE KillMoves
  BY <1>5 DEF KillMoves, KillStep, KillChecks, KillSignals, KillReturns
<1>6. CASE SpawnCall
  <2>1. CASE SpawnChild \/ SpawnChildFails \/ ForkMonitor
    BY <1>6, <2>1 DEF SpawnCall, SpawnChild, SpawnChildFails, ForkMonitor
  <2>2. CASE Announced \/ NeverAnnounced
    BY <1>6, <2>2 DEF SpawnCall, Announced, NeverAnnounced
  <2>3. CASE ReapMonitor
    BY <1>6, <2>3 DEF SpawnCall, ReapMonitor, ReapMonitorPid
  <2>4. CASE StartWaiter
    BY <1>6, <2>4 DEF SpawnCall, StartWaiter
  <2> QED
    BY <1>6, <2>1, <2>2, <2>3, <2>4 DEF SpawnCall
<1>7. CASE StartCall \/ CloseCall
  BY <1>7 DEF StartCall, StartReader, StartWait, StartMode, SetThread, CloseCall, CloseKills,
     KillStarts, CloseRuntime, JoinThread, ThreadsJoined, JoinWaiter
<1>8. CASE ThreadMoves
  BY <1>8 DEF ThreadMoves, ReaderThread, ReaderEnds, WaitThread, WaitObserves, WaitPosts,
     ModeThread, ModeLooks, ModeSame, ModeChanges, ModeFails, WriterThread, WriterEnds
<1>9. CASE SessionStep \/ CloserStep \/ UNCHANGED vars
  BY <1>9 DEF SessionStep, Spawn, Spawned, SpawnThrows, Kill, KillStarts, Write, SetThread,
     HandleEvent, Complete, CloserStep, CloseStep, CloseCalled, SignalSent, Wait1Ends, Wait2Ends,
     FreeHandle, CloseReturns, Goes, vars
<1> QED
  BY <1>1, <1>2, <1>3, <1>4, <1>5, <1>6, <1>7, <1>8, <1>9, Steps DEF AnyStep

(* Nothing runs before it has been started.                                *)
LEMMA BeforeStep == TypeOK /\ MonitorInv /\ BeforeInv /\ [Next]_vars => BeforeInv'
<1> SUFFICES ASSUME TypeOK, MonitorInv, BeforeInv, [Next]_vars PROVE BeforeInv'
  OBVIOUS
<1> USE DEF TypeOK, CallStagesOK, MonitorInv, BeforeInv, childVars, fateVars, osVars, waitVars,
   killVars, runtimeVars, callVars, sessionVars, WaiterUnchanged, OthersUnchanged, SpawnGoes,
   threadUnchanged, Apart
<1>1. CASE ChildMoves
  BY <1>1 DEF ChildMoves, ChildStep, ChildExecs, RunsAs, ChildExits, ChildDies, ChildIgnoresTerm
<1>2. CASE KernelMoves
  BY <1>2 DEF KernelMoves, KernelStep, HostReaps, InitReaps, PidReused, MonitorDies,
     HostReapsMonitor, SiblingEnds, NamesakeEnds, Reaped
<1>3. CASE MonitorMoves
  BY <1>3 DEF MonitorMoves, MonitorStep, MonitorForks, MonitorCannotFork, MonitorLearns,
     MonitorReapsFailed, MonitorAnnounces, MonitorReaps, MonitorReports, Says, Reaped
<1>4. CASE WaiterMoves
  BY <1>4 DEF WaiterMoves, WaiterStep, ReadReport, WaiterReaps, ReadReportFails, WaitReturns,
     WatcherFires, CacheResult, WatcherFails, Finds, Reaped, ReapMonitorPid
<1>5. CASE KillMoves
  BY <1>5 DEF KillMoves, KillStep, KillChecks, KillSignals, KillReturns
<1>6. CASE SpawnCall
  BY <1>6 DEF SpawnCall, SpawnChild, RunsAs, SpawnChildFails, ForkMonitor, Announced,
     NeverAnnounced, ReapMonitor, ReapMonitorPid, StartWaiter
<1>7. CASE StartCall \/ CloseCall
  BY <1>7 DEF StartCall, StartReader, StartWait, StartMode, SetThread, CloseCall, CloseKills,
     KillStarts, CloseRuntime, JoinThread, ThreadsJoined, JoinWaiter
<1>8. CASE ThreadMoves
  BY <1>8 DEF ThreadMoves, ReaderThread, ReaderEnds, WaitThread, WaitObserves, WaitPosts,
     ModeThread, ModeLooks, ModeSame, ModeChanges, ModeFails, WriterThread, WriterEnds
<1>9. CASE SessionStep \/ CloserStep \/ UNCHANGED vars
  BY <1>9 DEF SessionStep, Spawn, Spawned, SpawnThrows, Kill, KillStarts, Write, SetThread,
     HandleEvent, Complete, CloserStep, CloseStep, CloseCalled, SignalSent, Wait1Ends, Wait2Ends,
     FreeHandle, CloseReturns, Goes, vars
<1> QED
  BY <1>1, <1>2, <1>3, <1>4, <1>5, <1>6, <1>7, <1>8, <1>9, Steps DEF AnyStep

(* What the child waiter has found is what is cached, and was reaped.      *)
LEMMA WaiterStepInv == TypeOK /\ MonitorInv /\ BeforeInv /\ WaiterInv /\ [Next]_vars => WaiterInv'
<1> SUFFICES ASSUME TypeOK, MonitorInv, BeforeInv, WaiterInv, [Next]_vars PROVE WaiterInv'
  OBVIOUS
<1> USE DEF TypeOK, ChildStagesOK, MonitorInv, BeforeInv, WaiterInv, childVars, fateVars, osVars,
   waitVars, killVars, runtimeVars, callVars, sessionVars, WaiterUnchanged, OthersUnchanged,
   SpawnGoes, threadUnchanged, Apart
<1>1. CASE ChildMoves
  BY <1>1 DEF ChildMoves, ChildStep, ChildExecs, RunsAs, ChildExits, ChildDies, ChildIgnoresTerm
<1>2. CASE KernelMoves
  BY <1>2 DEF KernelMoves, KernelStep, HostReaps, InitReaps, PidReused, MonitorDies,
     HostReapsMonitor, SiblingEnds, NamesakeEnds, Reaped
<1>3. CASE MonitorMoves
  BY <1>3 DEF MonitorMoves, MonitorStep, MonitorForks, MonitorCannotFork, MonitorLearns,
     MonitorReapsFailed, MonitorAnnounces, MonitorReaps, MonitorReports, Says, Reaped
<1>4. CASE WaiterMoves
  <2>1. CASE ReadReport
    BY <1>4, <2>1 DEF WaiterMoves, ReadReport, Exited
  <2>2. CASE WaiterReaps
    BY <1>4, <2>2 DEF WaiterMoves, WaiterReaps, ReapMonitorPid
  <2>3. CASE ReadReportFails \/ WatcherFails
    BY <1>4, <2>3 DEF WaiterMoves, ReadReportFails, WatcherFails, Finds, Failed
  <2>4. CASE WaitReturns
    BY <1>4, <2>4 DEF WaiterMoves, WaitReturns, Finds, Reaped, Failed, Exited
  <2>5. CASE WatcherFires
    BY <1>4, <2>5 DEF WaiterMoves, WatcherFires, Finds, Reaped, Exited
  <2>6. CASE CacheResult
    BY <1>4, <2>6 DEF WaiterMoves, CacheResult
  <2> QED
    BY <1>4, <2>1, <2>2, <2>3, <2>4, <2>5, <2>6 DEF WaiterMoves, WaiterStep
<1>5. CASE KillMoves
  BY <1>5 DEF KillMoves, KillStep, KillChecks, KillSignals, KillReturns
<1>6. CASE SpawnCall
  BY <1>6 DEF NoResult, SpawnCall, SpawnChild, RunsAs, SpawnChildFails, ForkMonitor, Announced,
     NeverAnnounced, ReapMonitor, ReapMonitorPid, StartWaiter
<1>7. CASE StartCall \/ CloseCall
  BY <1>7 DEF StartCall, StartReader, StartWait, StartMode, SetThread, CloseCall, CloseKills,
     KillStarts, CloseRuntime, JoinThread, ThreadsJoined, JoinWaiter
<1>8. CASE ThreadMoves
  BY <1>8 DEF ThreadMoves, ReaderThread, ReaderEnds, WaitThread, WaitObserves, WaitPosts,
     ModeThread, ModeLooks, ModeSame, ModeChanges, ModeFails, WriterThread, WriterEnds
<1>9. CASE SessionStep \/ CloserStep \/ UNCHANGED vars
  BY <1>9 DEF SessionStep, Spawn, Spawned, SpawnThrows, Kill, KillStarts, Write, SetThread,
     HandleEvent, Complete, CloserStep, CloseStep, CloseCalled, SignalSent, Wait1Ends, Wait2Ends,
     FreeHandle, CloseReturns, Goes, vars
<1> QED
  BY <1>1, <1>2, <1>3, <1>4, <1>5, <1>6, <1>7, <1>8, <1>9, Steps DEF AnyStep

(***************************************************************************)
(* The exit code                                                           *)
(***************************************************************************)
(* ResultIsTrue, of any child and any end.                                 *)
TrueOf(r, c, s) ==
  r.kind = "ok" =>
    /\ c \in {"zombie", "reaped"}
    /\ s.by = "exit" => r.code = s.n
    /\ s.by = "signal" => r.code # 0

(* ResultIsTrue speaks of the present child and status.                    *)
LEMMA TrueIsTrueOf ==
  /\ \A r : ResultIsTrue(r) <=> TrueOf(r, child, status)
  /\ ResultIsTrue(found)' <=> TrueOf(found', child', status')
  /\ ResultIsTrue(result)' <=> TrueOf(result', child', status')
  /\ ResultIsTrue(exitFuture)' <=> TrueOf(exitFuture', child', status')
BY DEF ResultIsTrue, TrueOf

(* What each reporter makes of an end is true of it.                       *)
LEMMA CodesAreTrue ==
  ASSUME TypeOK, StatusInv, child \in {"zombie", "reaped"}
  PROVE  \A c \in {"zombie", "reaped"} :
           /\ TrueOf(Exited(MonitorCode(status)), c, status)
           /\ TrueOf(Exited(WatcherCode(status)), c, status)
           /\ TrueOf(Exited(WaitCode(status)), c, status)
<1>1. status.by \in {"exit", "signal"} /\ status.n \in Nat
  BY DEF TypeOK, ReportsOK
<1>2. CASE status.by = "exit"
  <2>1. status.n \in 0..255
    BY <1>2 DEF StatusInv
  <2>2. \A n \in 0..255 : LET s == 256 * n IN IF s <= 255 THEN s = n ELSE s % 128 = 0 /\ (s \div 256) % 256 = n
    OBVIOUS
  <2>3. WatcherCode(status) = status.n
    BY <1>2, <2>1, <2>2 DEF WatcherCode, WaitStatus
  <2> QED
    BY <1>2, <2>3 DEF TrueOf, Exited, MonitorCode, WaitCode
<1>3. CASE status.by = "signal"
  <2>1. status.n \in {9, 15}
    BY <1>3 DEF StatusInv, SIGTERM, SIGKILL
  <2>2. WatcherCode(status) = status.n
    BY <1>3, <2>1 DEF WatcherCode, WaitStatus
  <2> QED
    BY <1>3, <2>1, <2>2 DEF TrueOf, Exited, MonitorCode, WaitCode
<1> QED
  BY <1>1, <1>2, <1>3

(* A child ends once.                                                      *)
LEMMA EndIsFinal ==
  ASSUME TypeOK, MonitorInv, BeforeInv, [Next]_vars, child \in {"zombie", "reaped"}
  PROVE  child' \in {"zombie", "reaped"} /\ UNCHANGED status
<1> USE DEF TypeOK, ChildStagesOK, MonitorInv, BeforeInv, childVars, fateVars, osVars, waitVars,
   killVars, runtimeVars, callVars, sessionVars, WaiterUnchanged, OthersUnchanged, SpawnGoes,
   threadUnchanged, Apart
<1>1. CASE ChildMoves \/ KernelMoves
  BY <1>1 DEF ChildMoves, ChildStep, ChildExecs, RunsAs, ChildExits, ChildDies, ChildIgnoresTerm,
     KernelMoves, KernelStep, HostReaps, InitReaps, PidReused, MonitorDies, HostReapsMonitor,
     SiblingEnds, NamesakeEnds, Reaped
<1>2. CASE MonitorMoves
  BY <1>2 DEF MonitorMoves, MonitorStep, MonitorForks, MonitorCannotFork, MonitorLearns,
     MonitorReapsFailed, MonitorAnnounces, MonitorReaps, MonitorReports, Says, Reaped
<1>3. CASE WaiterMoves \/ KillMoves
  BY <1>3 DEF WaiterMoves, WaiterStep, ReadReport, WaiterReaps, ReadReportFails, WaitReturns,
     WatcherFires, CacheResult, WatcherFails, Finds, Reaped, ReapMonitorPid, KillMoves, KillStep,
     KillChecks, KillSignals, KillReturns
<1>4. CASE SpawnCall \/ StartCall \/ CloseCall
  BY <1>4 DEF SpawnCall, SpawnChild, RunsAs, SpawnChildFails, ForkMonitor, Announced,
     NeverAnnounced, ReapMonitor, ReapMonitorPid, StartWaiter, StartCall, StartReader, StartWait,
     StartMode, SetThread, CloseCall, CloseKills, KillStarts, CloseRuntime, JoinThread,
     ThreadsJoined, JoinWaiter
<1>5. CASE ThreadMoves
  BY <1>5 DEF ThreadMoves, ReaderThread, ReaderEnds, WaitThread, WaitObserves, WaitPosts,
     ModeThread, ModeLooks, ModeSame, ModeChanges, ModeFails, WriterThread, WriterEnds
<1>6. CASE SessionStep \/ CloserStep \/ UNCHANGED vars
  BY <1>6 DEF SessionStep, Spawn, Spawned, SpawnThrows, Kill, KillStarts, Write, SetThread,
     HandleEvent, Complete, CloserStep, CloseStep, CloseCalled, SignalSent, Wait1Ends, Wait2Ends,
     FreeHandle, CloseReturns, Goes, vars
<1> QED
  BY <1>1, <1>2, <1>3, <1>4, <1>5, <1>6, Steps DEF AnyStep

(* ... so that what is true of its end stays true.                         *)
LEMMA TruthStays ==
  ASSUME TypeOK, MonitorInv, BeforeInv, [Next]_vars
  PROVE  \A r : TrueOf(r, child, status) => TrueOf(r, child', status')
BY EndIsFinal DEF TrueOf

(* Every message of the kind is true.                                      *)
TrueFor(s, kind, c, e) == \A i \in DOMAIN s : s[i].kind = kind => TrueOf(Exited(s[i].code), c, e)

(* Taking the first message leaves true ones.                              *)
LEMMA TrueTail ==
  ASSUME NEW S, NEW s \in Seq(S), s # <<>>, NEW k, NEW c, NEW e, TrueFor(s, k, c, e)
  PROVE  /\ TrueFor(Tail(s), k, c, e)
         /\ Head(s).kind = k => TrueOf(Exited(Head(s).code), c, e)
<1>1. Len(Tail(s)) = Len(s) - 1 /\ Len(s) \in Nat /\ Len(s) # 0 /\ DOMAIN Tail(s) = 1..Len(Tail(s)) /\ DOMAIN s = 1..Len(s)
  OBVIOUS
<1>2. \A i \in DOMAIN Tail(s) : i + 1 \in DOMAIN s /\ Tail(s)[i] = s[i + 1]
  BY <1>1
<1>3. 1 \in DOMAIN s /\ Head(s) = s[1]
  BY <1>1
<1> QED
  BY <1>2, <1>3 DEF TrueFor

(* A message that is true, or of another kind, may be added.               *)
LEMMA TrueAppend ==
  ASSUME NEW S, NEW s \in Seq(S), NEW m \in S, NEW k, NEW c, NEW e, TrueFor(s, k, c, e),
         m.kind = k => TrueOf(Exited(m.code), c, e)
  PROVE  TrueFor(Append(s, m), k, c, e)
<1>1. /\ DOMAIN Append(s, m) = 1..Len(s) + 1 /\ DOMAIN s = 1..Len(s) /\ Len(s) \in Nat
      /\ Append(s, m)[Len(s) + 1] = m
      /\ \A i \in 1..Len(s) : Append(s, m)[i] = s[i]
  OBVIOUS
<1>2. \A i \in DOMAIN Append(s, m) : i \in DOMAIN s \/ i = Len(s) + 1
  BY <1>1
<1> QED
  BY <1>1, <1>2 DEF TrueFor

(* wait() is told of another child once and for all.                       *)
LEMMA MistakeStays == [Next]_vars /\ mistaken => mistaken'
<1> SUFFICES ASSUME [Next]_vars, mistaken PROVE mistaken'
  OBVIOUS
<1> USE DEF Apart, childVars, fateVars, osVars, waitVars, killVars, runtimeVars, callVars,
   sessionVars, WaiterUnchanged, OthersUnchanged, SpawnGoes, threadUnchanged
<1>1. CASE ChildMoves \/ KernelMoves
  BY <1>1, Zenon DEF ChildMoves, ChildStep, ChildExecs, RunsAs, ChildExits, ChildDies,
     ChildIgnoresTerm, KernelMoves, KernelStep, HostReaps, InitReaps, PidReused, MonitorDies,
     HostReapsMonitor, SiblingEnds, NamesakeEnds, Reaped
<1>2. CASE MonitorMoves
  BY <1>2, Zenon DEF MonitorMoves, MonitorStep, MonitorForks, MonitorCannotFork, MonitorLearns,
     MonitorReapsFailed, MonitorAnnounces, MonitorReaps, MonitorReports, Says, Reaped
<1>3. CASE WaiterMoves
  BY <1>3, Zenon DEF WaiterMoves, WaiterStep, ReadReport, WaiterReaps, ReadReportFails, WaitReturns,
     WatcherFires, CacheResult, WatcherFails, Finds, Reaped, ReapMonitorPid
<1>4. CASE KillMoves \/ SpawnCall
  BY <1>4, Zenon DEF KillMoves, KillStep, KillChecks, KillSignals, KillReturns, SpawnCall,
     SpawnChild, RunsAs, SpawnChildFails, ForkMonitor, Announced, NeverAnnounced, ReapMonitor,
     ReapMonitorPid, StartWaiter
<1>5. CASE StartCall \/ CloseCall
  BY <1>5, Zenon DEF StartCall, StartReader, StartWait, StartMode, SetThread, CloseCall, CloseKills,
     KillStarts, CloseRuntime, JoinThread, ThreadsJoined, JoinWaiter
<1>6. CASE ThreadMoves
  BY <1>6, Zenon DEF ThreadMoves, ReaderThread, ReaderEnds, WaitThread, WaitObserves, WaitPosts,
     ModeThread, ModeLooks, ModeSame, ModeChanges, ModeFails, WriterThread, WriterEnds
<1>7. CASE SessionStep \/ CloserStep \/ UNCHANGED vars
  BY <1>7, Zenon DEF SessionStep, Spawn, Spawned, SpawnThrows, Kill, KillStarts, Write, SetThread,
     HandleEvent, Complete, CloserStep, CloseStep, CloseCalled, SignalSent, Wait1Ends, Wait2Ends,
     FreeHandle, CloseReturns, Goes, vars
<1> QED
  BY <1>1, <1>2, <1>3, <1>4, <1>5, <1>6, <1>7, Steps DEF AnyStep

(* Every code stays the child's on its way from the reporter to the future.*)
LEMMA TrueStep == TypeOK /\ StatusInv /\ MonitorInv /\ BeforeInv /\ TrueInv /\ [Next]_vars => TrueInv'
<1> SUFFICES ASSUME TypeOK, StatusInv, MonitorInv, BeforeInv, TrueInv, [Next]_vars, ~mistaken'
             PROVE  TrueInv'
  BY DEF TrueInv
<1>0. ~mistaken
  BY MistakeStays
<1> DEFINE Now(r) == TrueOf(r, child, status)
           Then(r) == TrueOf(r, child', status')
           Said(s) == TrueFor(s, "exit", child', status')
<1>1. \A r : Now(r) => Then(r)
  BY TruthStays
<1>2. Now(found) /\ Now(result) /\ Now(exitFuture)
  BY <1>0, TrueIsTrueOf DEF TrueInv
<1>3. Then(found) /\ Then(result) /\ Then(exitFuture) /\ Then(Failed)
  BY <1>1, <1>2 DEF TrueOf, Failed
<1>4. Said(pipe) /\ Said(events)
  <2>1. TrueFor(pipe, "exit", child, status) /\ TrueFor(events, "exit", child, status)
    BY <1>0, TrueIsTrueOf DEF TrueInv, TrueMessages, TrueFor
  <2> QED
    BY <1>1, <2>1 DEF TrueFor
<1>5. pipe \in Seq(Messages) /\ events \in Seq(Events)
  BY DEF TypeOK, ReportsOK
<1>6. pipe # <<>> => Said(Tail(pipe)) /\ (Head(pipe).kind = "exit" => Then(Exited(Head(pipe).code)))
  BY <1>4, <1>5, TrueTail
<1>7. events # <<>> => Said(Tail(events)) /\ (Head(events).kind = "exit" => Then(Exited(Head(events).code)))
  BY <1>4, <1>5, TrueTail
<1>8. Said(<<>>)
  BY DEF TrueFor
<1>9. \A m \in Messages : m.kind # "exit" => Said(Append(pipe, m))
  BY <1>4, <1>5, TrueAppend
<1>10. \A e \in Events : e.kind # "exit" => Said(Append(events, e))
  BY <1>4, <1>5, TrueAppend
<1> SUFFICES Then(found') /\ Then(result') /\ Then(exitFuture') /\ Said(pipe') /\ Said(events')
  BY TrueIsTrueOf DEF TrueInv, TrueMessages, TrueFor, ResultIsTrue, TrueOf
<1> HIDE DEF Now, Then, Said
<1> USE DEF childVars, fateVars, osVars, waitVars, killVars, runtimeVars, callVars, sessionVars,
   WaiterUnchanged, OthersUnchanged, SpawnGoes, threadUnchanged, Apart
<1>11. CASE ChildMoves \/ KernelMoves \/ KillMoves
  BY <1>3, <1>4, <1>11 DEF ChildMoves, ChildStep, ChildExecs, RunsAs, ChildExits, ChildDies,
     ChildIgnoresTerm, KernelMoves, KernelStep, HostReaps, InitReaps, PidReused, MonitorDies,
     HostReapsMonitor, SiblingEnds, NamesakeEnds, Reaped, KillMoves, KillStep, KillChecks, KillSignals,
     KillReturns
<1>12. CASE MonitorMoves
  <2>1. UNCHANGED <<found, result, exitFuture, events>>
    BY <1>12 DEF MonitorMoves, MonitorStep, MonitorForks, MonitorCannotFork, MonitorLearns,
       MonitorReapsFailed, MonitorAnnounces, MonitorReaps, MonitorReports, Says, Reaped
  <2>2. CASE monitor = "reporting" /\ UNCHANGED child /\ pipe' = Append(pipe, Message("exit", MonitorCode(status)))
    <3>1. child \in {"zombie", "reaped"}
      BY <2>2 DEF MonitorInv, TypeOK, ChildStagesOK
    <3>2. Now(Exited(MonitorCode(status)))
      BY <3>1, CodesAreTrue DEF Now
    <3>3. MonitorCode(status) \in Nat
      BY CodesType DEF TypeOK, ReportsOK
    <3>4. Message("exit", MonitorCode(status)) \in Messages /\ Message("exit", MonitorCode(status)).code = MonitorCode(status)
      BY <3>3, ResultsType DEF Message
    <3>5. Said(pipe')
      BY <1>1, <1>4, <1>5, <2>2, <3>2, <3>4, TrueAppend DEF Said, Then
    <3> QED
      BY <1>3, <1>4, <2>1, <3>5
  <2>3. CASE UNCHANGED pipe \/ \E m \in Messages : m.kind # "exit" /\ pipe' = Append(pipe, m)
    BY <1>3, <1>4, <1>9, <2>1, <2>3
  <2> QED
    BY <1>12, <2>2, <2>3, MonitorSays
<1>13. CASE WaiterMoves
  <2>1. UNCHANGED <<exitFuture, events>>
    BY <1>13 DEF WaiterMoves, WaiterStep, ReadReport, WaiterReaps, ReadReportFails, WaitReturns,
       WatcherFires, CacheResult, WatcherFails, Finds, Reaped, ReapMonitorPid
  <2>2. Said(pipe')
    BY <1>4, <1>6, <1>13 DEF WaiterMoves, WaiterStep, ReadReport, WaiterReaps, ReadReportFails,
       WaitReturns, WatcherFires, CacheResult, WatcherFails, Finds, Reaped, ReapMonitorPid
  <2>3. Then(result')
    BY <1>3, <1>13 DEF WaiterMoves, WaiterStep, ReadReport, WaiterReaps, ReadReportFails,
       WaitReturns, WatcherFires, CacheResult, WatcherFails, Finds, Reaped, ReapMonitorPid
  <2>4. CASE WaitReturns
    <3>1. child \in {"zombie", "reaped"} /\ (found' = Failed \/ found' = Exited(WaitCode(status)))
      BY <2>4, ~mistaken' DEF WaitReturns, Finds
    <3> QED
      BY <1>1, <1>3, <1>4, <2>1, <2>2, <2>3, <3>1, CodesAreTrue DEF Now
  <2>5. CASE WatcherFires
    <3>1. child \in {"zombie", "reaped"} /\ found' = Exited(WatcherCode(status))
      BY <2>5 DEF WatcherFires, Finds
    <3> QED
      BY <1>1, <1>3, <1>4, <2>1, <2>2, <2>3, <3>1, CodesAreTrue DEF Now
  <2>6. CASE ReadReport \/ WaiterReaps \/ ReadReportFails \/ WatcherFails \/ CacheResult
    <3>1. Then(found')
      BY <1>3, <1>6, <2>6 DEF ReadReport, WaiterReaps, ReadReportFails, WatcherFails, CacheResult,
         Finds
    <3> QED
      BY <1>3, <1>4, <2>1, <2>2, <2>3, <3>1
  <2> QED
    BY <1>13, <2>4, <2>5, <2>6 DEF WaiterMoves, WaiterStep
<1>14. CASE SpawnCall
  BY <1>3, <1>4, <1>6, <1>14 DEF SpawnCall, SpawnChild, RunsAs, SpawnChildFails, ForkMonitor,
     Announced, NeverAnnounced, ReapMonitor, ReapMonitorPid, StartWaiter
<1>15. CASE StartCall \/ CloseCall
  BY <1>3, <1>4, <1>15 DEF StartCall, StartReader, StartWait, StartMode, SetThread, CloseCall,
     CloseKills, KillStarts, CloseRuntime, JoinThread, ThreadsJoined, JoinWaiter
<1>16. CASE ThreadMoves
  <2>1. UNCHANGED <<found, result, exitFuture, pipe>>
    BY <1>16 DEF ThreadMoves, ReaderThread, ReaderEnds, WaitThread, WaitObserves, WaitPosts,
       ModeThread, ModeLooks, ModeSame, ModeChanges, ModeFails, WriterThread, WriterEnds
  <2>2. CASE result.kind = "ok" /\ result.code \in Nat /\ events' = Append(events, Event("exit", result.code))
    <3>1. Exited(result.code) = result
      BY <2>2 DEF TypeOK, ReportsOK, Results, Exited
    <3>2. Event("exit", result.code) \in Events /\ Event("exit", result.code).code = result.code
      BY <2>2, ResultsType DEF Event
    <3>3. Said(events')
      BY <1>3, <1>4, <1>5, <2>2, <3>1, <3>2, TrueAppend DEF Said, Then
    <3> QED
      BY <1>3, <1>4, <2>1, <3>3
  <2>3. CASE UNCHANGED events \/ \E e \in Events : e.kind # "exit" /\ events' = Append(events, e)
    BY <1>3, <1>4, <1>10, <2>1, <2>3
  <2> QED
    BY <1>16, <2>2, <2>3, ThreadsPost
<1>17. CASE SessionStep
  BY <1>3, <1>4, <1>7, <1>8, <1>17 DEF SessionStep, Spawn, Spawned, SpawnThrows, Kill, KillStarts,
     Write, SetThread, HandleEvent, Complete
<1>18. CASE CloserStep
  BY <1>3, <1>4, <1>8, <1>18 DEF CloserStep, CloseStep, CloseCalled, SignalSent, Wait1Ends,
     Wait2Ends, FreeHandle, CloseReturns, KillStarts, Complete, Goes
<1>19. CASE UNCHANGED vars
  BY <1>3, <1>4, <1>19 DEF vars
<1> QED
  BY <1>11, <1>12, <1>13, <1>14, <1>15, <1>16, <1>17, <1>18, <1>19, Steps DEF AnyStep

(***************************************************************************)
(* The threads and the calls                                               *)
(***************************************************************************)
(* A thread that has ended stays so, and none starts by itself.            *)
LEMMA ThreadsSettle ==
  ASSUME TypeOK, ThreadMoves
  PROVE  /\ UNCHANGED <<npc, runtime, joins>>
         /\ \A t \in Threads : (thread[t] = "none" => thread'[t] = "none") /\ (Joinable(t) => Joinable(t)')
<1>1. UNCHANGED <<npc, runtime, joins>>
  BY DEF ThreadMoves, ReaderThread, ReaderEnds, WaitThread, WaitObserves, WaitPosts, ModeThread,
     ModeLooks, ModeSame, ModeChanges, ModeFails, WriterThread, WriterEnds, threadUnchanged,
     callVars
<1>2. \E u \in Threads, s \in {"running", "looking", "posting", "done"} : ~Joinable(u) /\ SetThread(u, s)
  BY DEF ThreadMoves, ReaderThread, ReaderEnds, WaitThread, WaitObserves, WaitPosts, ModeThread,
     ModeLooks, ModeSame, ModeChanges, ModeFails, WriterThread, WriterEnds, Threads, Joinable
<1>3. \A t \in Threads : thread'[t] = thread[t] \/ ~Joinable(t)
  BY <1>2 DEF SetThread, TypeOK, CallStagesOK
<1> QED
  BY <1>1, <1>3 DEF Joinable

(* Who is joined, and when nobody runs.                                    *)
LEMMA ThreadStepInv == TypeOK /\ ThreadInv /\ CallInv /\ HandleInv /\ [Next]_vars => ThreadInv'
<1> SUFFICES ASSUME TypeOK, ThreadInv, CallInv, HandleInv, [Next]_vars PROVE ThreadInv'
  OBVIOUS
<1> USE DEF ThreadInv, childVars, fateVars, osVars, waitVars, killVars, runtimeVars, callVars,
   sessionVars, WaiterUnchanged, OthersUnchanged, SpawnGoes, threadUnchanged, Apart
<1>k. npc \in {"none", "spawn", "await", "reapMonitor", "startWaiter", "startReader", "startWait", "startMode", "open",
              "close", "closeKill", "joining", "joinWaiter", "closed", "failed"}
  BY DEF TypeOK, CallStagesOK
<1>n. ASSUME \A t \in Threads : thread[t] = "none" PROVE AllJoinable
  BY <1>n DEF AllJoinable, Joinable
<1>u. ASSUME UNCHANGED thread PROVE AllJoinable' = AllJoinable /\ \A t \in Threads : Joinable(t)' = Joinable(t)
  BY <1>u DEF AllJoinable, Joinable
<1>1. CASE UNCHANGED <<npc, runtime, joins, thread>>
  BY <1>1, <1>u DEF Starting
<1>2. CASE SpawnCall
  <2>1. UNCHANGED <<thread, runtime, joins>> /\ npc \in Starting
    BY <1>2 DEF SpawnCall, SpawnChild, RunsAs, SpawnChildFails, ForkMonitor, Announced,
       NeverAnnounced, ReapMonitor, ReapMonitorPid, StartWaiter, Starting
  <2>2. npc' \in Starting \union {"close", "failed"}
    BY <1>2 DEF SpawnCall, SpawnChild, RunsAs, SpawnChildFails, ForkMonitor, Announced,
       NeverAnnounced, ReapMonitor, ReapMonitorPid, StartWaiter, Starting
  <2>3. AllJoinable'
    BY <2>1, <1>n, <1>u
  <2> QED
    BY <2>1, <2>2, <2>3 DEF Starting
<1>3. CASE StartCall
  <2>1. CASE StartReader
    <3>1. CASE SetThread("reader", "running") /\ npc' = "startWait"
      BY <2>1, <3>1 DEF StartReader, SetThread, Starting, TypeOK, CallStagesOK, Threads
    <3>2. CASE npc' = "close" /\ UNCHANGED thread
      BY <2>1, <3>2, <1>n, <1>u DEF StartReader, Starting
    <3> QED
      BY <2>1, <3>1, <3>2 DEF StartReader
  <2>2. CASE StartWait
    <3>1. CASE SetThread("wait", "running") /\ npc' = "startMode"
      BY <2>2, <3>1 DEF StartWait, SetThread, Starting, TypeOK, CallStagesOK, Threads
    <3>2. CASE npc' = "joining" /\ UNCHANGED thread /\ joins' = <<"reader", "writer">>
      <4>1. \A t \in Threads : Joinable(t)' \/ t = "reader"
        BY <2>2, <3>2 DEF StartWait, Joinable
      <4>2. 1 \in DOMAIN joins' /\ joins'[1] = "reader"
        BY <3>2
      <4> QED
        BY <3>2, <4>1, <4>2 DEF Starting
    <3> QED
      BY <2>2, <3>1, <3>2 DEF StartWait
  <2>3. CASE StartMode
    <3>1. CASE npc' = "open"
      BY <3>1 DEF Starting
    <3>2. CASE npc' = "joining" /\ UNCHANGED thread /\ joins' = <<"reader", "wait", "writer">>
      <4>1. \A t \in Threads : Joinable(t)' \/ t = "reader" \/ t = "wait"
        BY <2>3, <3>2 DEF StartMode, Joinable, Threads
      <4>2. 1 \in DOMAIN joins' /\ joins'[1] = "reader" /\ 2 \in DOMAIN joins' /\ joins'[2] = "wait"
        BY <3>2
      <4> QED
        BY <3>2, <4>1, <4>2 DEF Starting
    <3> QED
      BY <2>3, <3>1, <3>2 DEF StartMode
  <2> QED
    BY <1>3, <2>1, <2>2, <2>3 DEF StartCall
<1>4. CASE CloseCall
  <2>1. CASE CloseKills
    BY <2>1, <1>u DEF CloseKills, Starting
  <2>2. CASE CloseRuntime
    <3>1. UNCHANGED thread /\ npc = "closeKill"
      BY <2>2 DEF CloseRuntime
    <3>2. CASE runtime
      <4>1. npc' = "joining" /\ joins' = <<"reader", "wait", "mode", "writer">>
        BY <2>2, <3>2 DEF CloseRuntime
      <4>2. \A t \in Threads : \E i \in DOMAIN joins' : joins'[i] = t
        <5>1. /\ 1 \in DOMAIN joins' /\ joins'[1] = "reader" /\ 2 \in DOMAIN joins' /\ joins'[2] = "wait"
              /\ 3 \in DOMAIN joins' /\ joins'[3] = "mode" /\ 4 \in DOMAIN joins' /\ joins'[4] = "writer"
          BY <4>1
        <5> QED
          BY <5>1 DEF Threads
      <4> QED
        BY <4>1, <4>2 DEF Starting
    <3>3. CASE ~runtime
      BY <2>2, <3>1, <3>3, <1>u DEF CloseRuntime, Starting
    <3> QED
      BY <3>2, <3>3
  <2>3. CASE JoinThread
    <3>1. /\ npc = "joining" /\ npc' = "joining" /\ UNCHANGED thread
          /\ joins # <<>> /\ Joinable(Head(joins)) /\ joins' = Tail(joins)
      BY <2>3 DEF JoinThread
    <3>2. joins \in Seq(Threads)
      BY DEF TypeOK, CallStagesOK
    <3>3. \A i \in DOMAIN joins : joins[i] = Head(joins) \/ \E j \in DOMAIN joins' : joins'[j] = joins[i]
      <4>1. \A i \in DOMAIN joins : i # 1 => i - 1 \in DOMAIN joins' /\ joins'[i - 1] = joins[i]
        BY <3>1, <3>2
      <4>2. Head(joins) = joins[1]
        BY <3>1, <3>2
      <4> QED
        BY <4>1, <4>2
    <3> QED
      BY <3>1, <3>3, <1>u DEF Starting
  <2>4. CASE ThreadsJoined
    <3>1. npc = "joining" /\ joins = <<>> /\ UNCHANGED thread /\ npc' \in {"close", "joinWaiter"}
      BY <2>4 DEF ThreadsJoined
    <3>2. AllJoinable
      BY <3>1 DEF AllJoinable
    <3> QED
      BY <3>1, <3>2, <1>u DEF Starting
  <2>5. CASE JoinWaiter
    BY <2>5, <1>u DEF JoinWaiter, Starting
  <2> QED
    BY <1>4, <2>1, <2>2, <2>3, <2>4, <2>5 DEF CloseCall
<1>5. CASE ThreadMoves
  <2>1. /\ UNCHANGED <<npc, runtime, joins>>
        /\ \A t \in Threads : (thread[t] = "none" => thread'[t] = "none") /\ (Joinable(t) => Joinable(t)')
    BY <1>5, ThreadsSettle
  <2>2. AllJoinable => AllJoinable'
    BY <2>1 DEF AllJoinable
  <2> QED
    BY <2>1, <2>2 DEF Starting, Threads
<1>6. CASE SessionStep
  <2>1. CASE Spawn
    BY <2>1 DEF Spawn, Starting
  <2>2. CASE Write
    <3>1. npc = "open" /\ UNCHANGED npc
      BY <2>2 DEF Write, HandleInv
    <3> QED
      BY <3>1 DEF Starting
  <2>3. CASE Spawned \/ SpawnThrows \/ Kill \/ HandleEvent
    BY <1>1, <2>3 DEF Spawned, SpawnThrows, Kill, HandleEvent
  <2> QED
    BY <1>6, <2>1, <2>2, <2>3 DEF SessionStep
<1>7. CASE CloserStep
  <2>1. PICK c \in Closers : CloseStep(c)
    BY <1>7 DEF CloserStep
  <2>2. CASE FreeHandle(c)
    <3>1. turn = c /\ UNCHANGED <<thread, runtime, joins>> /\ npc' = IF frees = 0 THEN "close" ELSE npc
      BY <2>2 DEF FreeHandle
    <3>2. frees = 0 => npc = "open" /\ runtime
      BY <3>1, CloserAssumption DEF HandleInv, CallInv
    <3>3. CASE frees = 0
      BY <3>1, <3>2, <3>3 DEF Starting
    <3>4. CASE frees # 0
      BY <1>1, <3>1, <3>4
    <3> QED
      BY <3>3, <3>4
  <2>3. CASE ~FreeHandle(c)
    BY <1>1, <2>1, <2>3 DEF CloseStep, CloseCalled, SignalSent, Wait1Ends, Wait2Ends, CloseReturns
  <2> QED
    BY <2>2, <2>3
<1>8. CASE ChildMoves \/ KernelMoves \/ MonitorMoves \/ WaiterMoves \/ KillMoves \/ UNCHANGED vars
  BY <1>1, <1>8 DEF ChildMoves, KernelMoves, MonitorMoves, WaiterMoves, KillMoves, vars
<1> QED
  BY <1>2, <1>3, <1>4, <1>5, <1>6, <1>7, <1>8, Steps DEF AnyStep

(* What a call finds started, and leaves.                                  *)
LEMMA CallStepInv == TypeOK /\ BeforeInv /\ CallInv /\ HandleInv /\ [Next]_vars => CallInv'
<1> SUFFICES ASSUME TypeOK, BeforeInv, CallInv, HandleInv, [Next]_vars PROVE CallInv'
  OBVIOUS
<1> USE DEF TypeOK, CallStagesOK, ChildStagesOK, FlagsOK, BeforeInv, CallInv, HandleInv, Starting,
   childVars, fateVars, osVars, waitVars, killVars, runtimeVars, callVars, sessionVars,
   WaiterUnchanged, OthersUnchanged, SpawnGoes, threadUnchanged, Apart
<1>0. CASE UNCHANGED <<npc, runtime, then, waiter>>
  BY <1>0
<1>1. CASE ChildMoves \/ KernelMoves \/ MonitorMoves \/ KillMoves
  <2>1. CASE ChildMoves
    BY <1>0, <2>1 DEF ChildMoves, ChildStep, ChildExecs, RunsAs, ChildExits, ChildDies,
       ChildIgnoresTerm
  <2>2. CASE KernelMoves
    BY <1>0, <2>2 DEF KernelMoves, KernelStep, HostReaps, InitReaps, PidReused, MonitorDies,
       HostReapsMonitor, SiblingEnds, NamesakeEnds, Reaped
  <2>3. CASE MonitorMoves
    BY <1>0, <2>3 DEF MonitorMoves, MonitorStep, MonitorForks, MonitorCannotFork, MonitorLearns,
       MonitorReapsFailed, MonitorAnnounces, MonitorReaps, MonitorReports, Says, Reaped
  <2>4. CASE KillMoves
    BY <1>0, <2>4 DEF KillMoves, KillStep, KillChecks, KillSignals, KillReturns
  <2> QED
    BY <1>1, <2>1, <2>2, <2>3, <2>4
<1>2. CASE WaiterMoves
  BY <1>2 DEF WaiterMoves, WaiterStep, ReadReport, WaiterReaps, ReadReportFails, WaitReturns,
     WatcherFires, CacheResult, WatcherFails, Finds, Reaped, ReapMonitorPid
<1>3. CASE SpawnCall
  <2>1. npc \in Starting /\ UNCHANGED runtime
    BY <1>3 DEF SpawnCall, SpawnChild, RunsAs, SpawnChildFails, ForkMonitor, Announced,
       NeverAnnounced, ReapMonitor, ReapMonitorPid, StartWaiter
  <2>2. CASE StartWaiter
    BY <2>1, <2>2 DEF StartWaiter
  <2>3. CASE ~StartWaiter
    <3>1. UNCHANGED <<then, waiter>> /\ waiter = "none"
      BY <1>3, <2>3 DEF SpawnCall, SpawnChild, RunsAs, SpawnChildFails, ForkMonitor, Announced,
         NeverAnnounced, ReapMonitor, ReapMonitorPid, StartWaiter
    <3>2. npc' \in (Starting \ {"startReader"}) \union {"failed"}
      BY <1>3, <2>3 DEF SpawnCall, SpawnChild, RunsAs, SpawnChildFails, ForkMonitor, Announced,
         NeverAnnounced, ReapMonitor, ReapMonitorPid, StartWaiter
    <3> QED
      BY <2>1, <3>1, <3>2
  <2> QED
    BY <2>2, <2>3
<1>4. CASE StartCall
  <2>1. UNCHANGED waiter
    BY <1>4 DEF StartCall, StartReader, StartWait, StartMode, SetThread
  <2>2. CASE StartReader
    BY <2>1, <2>2 DEF StartReader
  <2>3. CASE StartWait
    BY <2>1, <2>3 DEF StartWait
  <2>4. CASE StartMode
    BY <2>1, <2>4 DEF StartMode
  <2> QED
    BY <1>4, <2>2, <2>3, <2>4 DEF StartCall
<1>5. CASE CloseCall
  BY <1>5 DEF CloseCall, CloseKills, KillStarts, CloseRuntime, JoinThread, ThreadsJoined, JoinWaiter
<1>6. CASE ThreadMoves
  BY <1>6 DEF ThreadMoves, ReaderThread, ReaderEnds, WaitThread, WaitObserves, WaitPosts,
     ModeThread, ModeLooks, ModeSame, ModeChanges, ModeFails, WriterThread, WriterEnds
<1>7. CASE SessionStep
  BY <1>7 DEF SessionStep, Spawn, Spawned, SpawnThrows, Kill, KillStarts, Write, SetThread,
     HandleEvent, Complete
<1>8. CASE CloserStep
  BY <1>8, CloserAssumption DEF CloserStep, CloseStep, CloseCalled, SignalSent, Wait1Ends,
     Wait2Ends, FreeHandle, CloseReturns, KillStarts, Complete, Goes
<1>9. CASE UNCHANGED vars
  BY <1>9 DEF vars
<1> QED
  BY <1>1, <1>2, <1>3, <1>4, <1>5, <1>6, <1>7, <1>8, <1>9, Steps DEF AnyStep

(* A session that is not closed is being made, or is open.                 *)
LEMMA HandleStepInv == TypeOK /\ HandleInv /\ [Next]_vars => HandleInv'
<1> SUFFICES ASSUME TypeOK, HandleInv, [Next]_vars PROVE HandleInv'
  OBVIOUS
<1> USE DEF TypeOK, CallStagesOK, FlagsOK, HandleInv, childVars, fateVars, osVars, waitVars,
   killVars, runtimeVars, callVars, sessionVars, WaiterUnchanged, OthersUnchanged, SpawnGoes,
   threadUnchanged, Apart
<1>1. CASE ChildMoves \/ KernelMoves \/ MonitorMoves \/ WaiterMoves \/ KillMoves
  BY <1>1 DEF ChildMoves, KernelMoves, MonitorMoves, WaiterMoves, KillMoves
<1>2. CASE SpawnCall
  BY <1>2 DEF SpawnCall, SpawnChild, RunsAs, SpawnChildFails, ForkMonitor, Announced,
     NeverAnnounced, ReapMonitor, ReapMonitorPid, StartWaiter
<1>3. CASE StartCall
  BY <1>3 DEF StartCall, StartReader, StartWait, StartMode, SetThread
<1>4. CASE CloseCall
  BY <1>4 DEF CloseCall, CloseKills, KillStarts, CloseRuntime, JoinThread, ThreadsJoined, JoinWaiter
<1>5. CASE ThreadMoves
  BY <1>5 DEF ThreadMoves, ReaderThread, ReaderEnds, WaitThread, WaitObserves, WaitPosts,
     ModeThread, ModeLooks, ModeSame, ModeChanges, ModeFails, WriterThread, WriterEnds
<1>6. CASE SessionStep
  BY <1>6 DEF SessionStep, Spawn, Spawned, SpawnThrows, Kill, KillStarts, Write, SetThread,
     HandleEvent, Complete
<1>7. CASE CloserStep
  BY <1>7, CloserAssumption DEF CloserStep, CloseStep, CloseCalled, SignalSent, Wait1Ends,
     Wait2Ends, FreeHandle, CloseReturns, KillStarts, Complete, Goes
<1>8. CASE UNCHANGED vars
  BY <1>8 DEF vars
<1> QED
  BY <1>1, <1>2, <1>3, <1>4, <1>5, <1>6, <1>7, <1>8, Steps DEF AnyStep

(* What is left behind when a call has returned.                           *)
LEMMA LeftStep ==
  /\ TypeOK /\ MonitorInv /\ BeforeInv /\ WaiterInv /\ TrueInv /\ CallInv
  /\ NoProcessLeft /\ [Next]_vars
  => NoProcessLeft'
<1> SUFFICES ASSUME TypeOK, MonitorInv, BeforeInv, WaiterInv, TrueInv, CallInv, NoProcessLeft, [Next]_vars
             PROVE  NoProcessLeft'
  OBVIOUS
<1> USE DEF TypeOK, ChildStagesOK, MonitorInv, BeforeInv, WaiterInv, NoProcessLeft, CallInv,
   childVars, fateVars, osVars, waitVars, killVars, runtimeVars, callVars, sessionVars,
   WaiterUnchanged, OthersUnchanged, SpawnGoes, threadUnchanged, Apart
<1>1. CASE ChildMoves \/ KernelMoves
  BY <1>1 DEF ChildMoves, ChildStep, ChildExecs, RunsAs, ChildExits, ChildDies, ChildIgnoresTerm,
     KernelMoves, KernelStep, HostReaps, InitReaps, PidReused, MonitorDies, HostReapsMonitor,
     SiblingEnds, NamesakeEnds, Reaped
<1>2. CASE MonitorMoves
  BY <1>2 DEF MonitorMoves, MonitorStep, MonitorForks, MonitorCannotFork, MonitorLearns,
     MonitorReapsFailed, MonitorAnnounces, MonitorReaps, MonitorReports, Says, Reaped
<1>3. CASE WaiterMoves
  BY <1>3 DEF WaiterMoves, WaiterStep, ReadReport, WaiterReaps, ReadReportFails, WaitReturns,
     WatcherFires, CacheResult, WatcherFails, Finds, Reaped, ReapMonitorPid
<1>4. CASE KillMoves
  BY <1>4 DEF KillMoves, KillStep, KillChecks, KillSignals, KillReturns
<1>5. CASE SpawnCall
  BY <1>5 DEF SpawnCall, SpawnChild, RunsAs, SpawnChildFails, ForkMonitor, Announced,
     NeverAnnounced, ReapMonitor, ReapMonitorPid, StartWaiter
<1>6. CASE StartCall
  BY <1>6 DEF StartCall, StartReader, StartWait, StartMode, SetThread
<1>7. CASE CloseCall
  <2>1. CASE JoinWaiter
    <3>1. /\ npc = "joinWaiter" /\ waiter \in {"none", "done"} /\ npc' = IF then = "fail" THEN "failed" ELSE "closed"
          /\ UNCHANGED <<reporter, child, monitor, lost, waiter, then, found, result>>
      BY <2>1 DEF JoinWaiter
    <3>2. CASE waiter = "none"
      BY <3>1, <3>2
    <3>3. CASE waiter = "done" /\ found.kind = "ok"
      <4>1. reporter = "monitor" => child \in {"zombie", "reaped"}
        BY <3>3 DEF TrueInv, ResultIsTrue
      <4> QED
        BY <3>1, <3>3, <4>1
    <3>4. CASE waiter = "done" /\ found.kind # "ok"
      BY <3>1, <3>4 DEF ReportsOK, Results
    <3> QED
      BY <3>1, <3>2, <3>3, <3>4
  <2>2. CASE ~JoinWaiter
    <3>1. npc' \notin {"closed", "failed"}
      BY <1>7, <2>2 DEF CloseCall, CloseKills, CloseRuntime, JoinThread, ThreadsJoined
    <3> QED
      BY <3>1
  <2> QED
    BY <2>1, <2>2
<1>8. CASE ThreadMoves
  BY <1>8 DEF ThreadMoves, ReaderThread, ReaderEnds, WaitThread, WaitObserves, WaitPosts,
     ModeThread, ModeLooks, ModeSame, ModeChanges, ModeFails, WriterThread, WriterEnds
<1>9. CASE SessionStep
  BY <1>9 DEF SessionStep, Spawn, Spawned, SpawnThrows, Kill, KillStarts, Write, SetThread,
     HandleEvent, Complete
<1>10. CASE CloserStep
  BY <1>10 DEF CloserStep, CloseStep, CloseCalled, SignalSent, Wait1Ends, Wait2Ends, FreeHandle,
     CloseReturns, KillStarts, Complete, Goes
<1>11. CASE UNCHANGED vars
  BY <1>11 DEF vars
<1> QED
  BY <1>1, <1>2, <1>3, <1>4, <1>5, <1>6, <1>7, <1>8, <1>9, <1>10, <1>11, Steps DEF AnyStep

(***************************************************************************)
(* The inductive invariant, and what it implies.                           *)
(***************************************************************************)
(* It holds before the session is spawned.                                 *)
LEMMA InitInv == Init => IInv
<1> SUFFICES ASSUME Init PROVE IInv
  OBVIOUS
<1> USE DEF Init, NativeInit, ChildInit
<1>1. FlagsOK
  BY DEF FlagsOK
<1>2. ChildStagesOK
  BY DEF ChildStagesOK
<1>3. CallStagesOK
  <2>1. <<>> \in Seq(Threads)
    OBVIOUS
  <2> QED
    BY <2>1, ModeAssumption DEF CallStagesOK
<1>4. ReportsOK
  <2>1. pipe \in Seq(Messages) /\ events \in Seq(Events)
    OBVIOUS
  <2>2. NoResult \in Results
    BY ResultsType
  <2> QED
    BY <2>1, <2>2 DEF ReportsOK, Ended
<1>5. StatusInv /\ MonitorInv /\ BeforeInv /\ WaiterInv
  BY DEF StatusInv, MonitorInv, BeforeInv, WaiterInv, NoResult, Ended
<1>6. TrueInv
  BY DEF TrueInv, ResultIsTrue, TrueMessages, NoResult
<1>7. ThreadInv
  BY DEF ThreadInv, Starting
<1>8. CallInv /\ HandleInv /\ NoProcessLeft
  BY DEF CallInv, HandleInv, NoProcessLeft, Starting
<1> QED
  BY <1>1, <1>2, <1>3, <1>4, <1>5, <1>6, <1>7, <1>8 DEF IInv, TypeOK

(* Every step keeps it.                                                    *)
LEMMA StepInv == IInv /\ [Next]_vars => IInv'
BY TypeStep, StatusStep, MonitorStepInv, BeforeStep, WaiterStepInv, TrueStep, ThreadStepInv,
   CallStepInv, HandleStepInv, LeftStep DEF IInv

(* The inductive invariant always holds.                                   *)
THEOREM Inductive == Spec => []IInv
BY InitInv, StepInv, PTL DEF Spec

(* Every variable always holds a value of its type.                        *)
THEOREM TypeCorrect == Spec => []TypeOK
<1>1. IInv => TypeOK
  BY DEF IInv
<1> QED
  BY <1>1, Inductive, PTL

(* Whoever reaps the child and however its end is observed, the code in    *)
(* the cache, on its way to the isolate or in the future is the code the   *)
(* child ended with (process.rs 327-345, process_linux.rs 249-260).        *)
THEOREM CodesAreTheChilds == Spec => []ExitCodeIsTrue
<1>1. IInv => ExitCodeIsTrue
  BY DEF IInv, TrueInv, TrueMessages, ExitCodeIsTrue
<1> QED
  BY <1>1, Inductive, PTL

(* Every thread that a session started has ended when ptyx_close, or the   *)
(* spawn that failed, returns: session.rs 39-76, runtime.rs.               *)
THEOREM ThreadsHaveEnded == Spec => []NothingRunsAfterClose
<1>1. IInv => NothingRunsAfterClose
  BY DEF IInv, ThreadInv, CallInv, AllJoinable, Joinable, NothingRunsAfterClose
<1> QED
  BY <1>1, Inductive, PTL

(* Neither the child nor its monitor outlives the call, but for the        *)
(* failures that NoProcessLeft names.                                      *)
THEOREM NothingIsLeftBehind == Spec => []NoProcessLeft
<1>1. IInv => NoProcessLeft
  BY DEF IInv
<1> QED
  BY <1>1, Inductive, PTL
=============================================================================
