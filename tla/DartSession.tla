---------------------------- MODULE DartSession ----------------------------
(***************************************************************************)
(* PtySession as the isolate runs it (lib/src/impl/session.dart): spawn,   *)
(* kill, write, the events of the native session, the exit code future,    *)
(* and close(), which asks the child to terminate, waits, kills, waits,    *)
(* and frees the handle.                                                   *)
(*                                                                         *)
(* The isolate is one thread: turn says whose code it is in the middle of, *)
(* "loop" when it is free to take an event, a timer or a call.  An await   *)
(* gives the turn back, so that several close() calls interleave; a native *)
(* call keeps it until it returns.                                         *)
(***************************************************************************)
EXTENDS NativeSession

CONSTANT Closers  \* the calls to close() that are made

ASSUME CloserAssumption == "loop" \notin Closers /\ "user" \notin Closers

VARIABLES
  turn,       \* whose code the isolate runs
  closed,     \* _closed
  exitFuture, \* _exitCode
  cpc,        \* where each call to close() is
  frees       \* history: calls of ptyx_close on the handle

sessionVars == <<turn, closed, exitFuture, cpc, frees>>
vars == <<childVars, runtimeVars, sessionVars>>

Init ==
  /\ NativeInit
  /\ turn = "user" /\ closed = FALSE /\ exitFuture = NoResult
  /\ cpc = [c \in Closers |-> "idle"] /\ frees = 0

Goes(c, s) == cpc' = [cpc EXCEPT ![c] = s]
Waiting == turn = "loop" /\ turn' = "loop"

(***************************************************************************)
(* NativeSession.spawn.                                                    *)
(***************************************************************************)
Spawn ==
  /\ turn = "user" /\ npc = "none"
  /\ npc' = "spawn"
  /\ UNCHANGED <<childVars, callVars, stop, thread, joins, then, sessionVars>>

Spawned ==
  /\ turn = "user" /\ npc = "open" /\ kpc = "idle"
  /\ turn' = "loop"
  /\ UNCHANGED <<childVars, runtimeVars, closed, exitFuture, cpc, frees>>

(* The ports are closed and the exception leaves the factory.              *)
SpawnThrows ==
  /\ turn = "user" /\ npc = "failed" /\ portOpen
  /\ portOpen' = FALSE /\ events' = <<>>
  /\ UNCHANGED <<childVars, npc, runtime, stop, thread, joins, then, modes, sessionVars>>

(***************************************************************************)
(* kill() and write().                                                     *)
(***************************************************************************)
Kill ==
  /\ turn = "loop" /\ ~closed
  /\ \E s \in {SIGTERM, SIGKILL} : KillStarts(s)
  /\ turn' = "user"
  /\ UNCHANGED <<reporter, osVars, waitVars, strangers, runtimeVars, closed, exitFuture, cpc, frees>>

(* The first write starts the writer thread.                               *)
Write ==
  /\ turn = "loop" /\ ~closed /\ thread["writer"] = "none"
  /\ SetThread("writer", "running")
  /\ UNCHANGED <<childVars, callVars, npc, stop, joins, then, sessionVars>>

(***************************************************************************)
(* _handleEvent.  Output and write errors concern the output stream only.  *)
(***************************************************************************)
Complete(r) == exitFuture' = IF exitFuture = NoResult THEN r ELSE exitFuture

HandleEvent ==
  /\ turn = "loop" /\ events # <<>>
  /\ LET e == Head(events) IN
       \/ ~closed /\ e.kind = "exit" /\ Complete(Exited(e.code))
       \/ ~closed /\ e.kind = "waitError" /\ Complete(Failed)
       \/ (closed \/ e.kind \in {"mode", "modeError"}) /\ UNCHANGED exitFuture
  /\ events' = Tail(events)
  /\ UNCHANGED <<childVars, npc, runtime, stop, thread, joins, then, portOpen, modes>>
  /\ UNCHANGED <<turn, closed, cpc, frees>>

(***************************************************************************)
(* close(), called by c.                                                   *)
(***************************************************************************)
CloseCalled(c) ==
  /\ turn = "loop" /\ cpc[c] = "idle"
  /\ \/ closed /\ Goes(c, "done") /\ UNCHANGED <<turn, kpc, ksig>>
     \/ /\ ~closed /\ exitFuture # NoResult
        /\ Goes(c, "free") /\ turn' = c
        /\ UNCHANGED <<kpc, ksig>>
     \/ /\ ~closed /\ exitFuture = NoResult
        /\ KillStarts(SIGTERM)
        /\ Goes(c, "term") /\ turn' = c
  /\ UNCHANGED <<reporter, osVars, waitVars, strangers, runtimeVars, closed, exitFuture, frees>>

(* The native call has returned; the await lets the loop run.              *)
SignalSent(c) ==
  /\ turn = c /\ kpc = "idle" /\ cpc[c] \in {"term", "kill"}
  /\ Goes(c, IF cpc[c] = "term" THEN "wait1" ELSE "wait2")
  /\ turn' = "loop"
  /\ UNCHANGED <<childVars, runtimeVars, closed, exitFuture, frees>>

(* _ignoreExitCodeFor ends with the future or after 50 ms.  The handle the *)
(* second kill is given may be one another close() has freed.              *)
Wait1Ends(c) ==
  /\ turn = "loop" /\ cpc[c] = "wait1"
  /\ turn' = c
  /\ IF exitFuture = NoResult THEN KillStarts(SIGKILL) /\ Goes(c, "kill")
                              ELSE Goes(c, "free") /\ UNCHANGED <<kpc, ksig>>
  /\ UNCHANGED <<reporter, osVars, waitVars, strangers, runtimeVars, closed, exitFuture, frees>>

Wait2Ends(c) ==
  /\ turn = "loop" /\ cpc[c] = "wait2"
  /\ turn' = c /\ Goes(c, "free")
  /\ UNCHANGED <<childVars, runtimeVars, closed, exitFuture, frees>>

(* _closed is set and ptyx_close called without looking at it again.  What *)
(* a second call does to a freed handle is undefined: the model stops it   *)
(* there.                                                                  *)
FreeHandle(c) ==
  /\ turn = c /\ cpc[c] = "free"
  /\ closed' = TRUE
  /\ frees' = frees + 1
  /\ Goes(c, "freeing")
  /\ npc' = IF frees = 0 THEN "close" ELSE npc
  /\ UNCHANGED <<childVars, callVars, stop, thread, joins, then, turn, exitFuture>>

(* Mutant of CloseReturns: the future is left pending.                     *)
CloseReturnsPending(c) ==
  /\ turn = c /\ cpc[c] = "freeing" /\ npc = "closed"
  /\ portOpen' = FALSE /\ events' = <<>>
  /\ turn' = "loop" /\ Goes(c, "done")
  /\ UNCHANGED <<childVars, npc, runtime, stop, thread, joins, then, modes, closed, frees, exitFuture>>

CloseReturns(c) ==
  /\ turn = c /\ cpc[c] = "freeing" /\ npc = "closed"
  /\ portOpen' = FALSE /\ events' = <<>>
  /\ Complete(Failed)
  /\ turn' = "loop" /\ Goes(c, "done")
  /\ UNCHANGED <<childVars, npc, runtime, stop, thread, joins, then, modes, closed, frees>>

CloseStep(c) ==
  CloseCalled(c) \/ SignalSent(c) \/ Wait1Ends(c) \/ Wait2Ends(c) \/ FreeHandle(c) \/ CloseReturns(c)

Next ==
  \/ ChildStep /\ UNCHANGED <<runtimeVars, sessionVars>>
  \/ KernelStep /\ UNCHANGED <<runtimeVars, sessionVars>>
  \/ MonitorStep /\ UNCHANGED <<runtimeVars, sessionVars>>
  \/ WaiterStep /\ UNCHANGED <<runtimeVars, sessionVars>>
  \/ WatcherFails /\ UNCHANGED <<runtimeVars, sessionVars>>
  \/ KillStep /\ UNCHANGED <<runtimeVars, sessionVars>>
  \/ CallStep /\ UNCHANGED sessionVars
  \/ ReaderThread /\ UNCHANGED sessionVars
  \/ WaitThread /\ UNCHANGED sessionVars
  \/ ModeThread /\ UNCHANGED sessionVars
  \/ WriterThread /\ UNCHANGED sessionVars
  \/ Spawn \/ Spawned \/ SpawnThrows \/ Kill \/ Write \/ HandleEvent
  \/ \E c \in Closers : CloseStep(c)

(* A process or thread that can run does, a signal that kills is acted on, *)
(* and timers fire.  Nothing obliges a child to exit or to heed SIGTERM,   *)
(* the kernel to reuse a number, nor anybody to call.                      *)
Fairness ==
  /\ WF_vars(child = "running" /\ SIGKILL \in pending /\ ChildDies /\ UNCHANGED <<runtimeVars, sessionVars>>)
  /\ WF_vars(ChildExecs /\ UNCHANGED <<runtimeVars, sessionVars>>)
  /\ WF_vars(MonitorStep /\ UNCHANGED <<runtimeVars, sessionVars>>)
  /\ WF_vars(WaiterStep /\ UNCHANGED <<runtimeVars, sessionVars>>)
  /\ WF_vars(KillStep /\ UNCHANGED <<runtimeVars, sessionVars>>)
  /\ WF_vars(CallStep /\ UNCHANGED sessionVars)
  /\ WF_vars(ReaderThread /\ stop /\ UNCHANGED sessionVars)
  /\ WF_vars(WaitThread /\ UNCHANGED sessionVars)
  /\ WF_vars(ModeThread /\ UNCHANGED sessionVars)
  /\ WF_vars(WriterThread /\ UNCHANGED sessionVars)
  /\ SF_vars(HandleEvent)
  /\ WF_vars(Spawned)
  /\ \A c \in Closers :
       SF_vars((SignalSent(c) \/ Wait1Ends(c) \/ Wait2Ends(c) \/ FreeHandle(c) \/ CloseReturns(c)))

Spec == Init /\ [][Next]_vars /\ Fairness

(***************************************************************************)
(* Properties                                                              *)
(***************************************************************************)

(* Every variable holds a value of its type.                               *)
Results  == [kind : {"none", "ok", "error"}, code : Nat]
Messages == [kind : {"pid", "exit", "execError"}, code : Nat]
Events   == [kind : {"exit", "waitError", "mode", "modeError"}, code : Nat]

FlagsOK ==
  /\ foreign \in BOOLEAN /\ mistaken \in BOOLEAN /\ lost \in BOOLEAN /\ strangers \in BOOLEAN
  /\ runtime \in BOOLEAN /\ stop \in BOOLEAN /\ portOpen \in BOOLEAN /\ closed \in BOOLEAN

ChildStagesOK ==
  /\ reporter \in Reporters
  /\ child \in {"none", "execing", "failed", "running", "zombie", "reaped"}
  /\ pidOwner \in {"child", "nobody", "stranger", "sibling", "deadSibling", "spent"}
  /\ monitorPid \in {"monitor", "nobody", "sibling"}
  /\ monitor \in {"none", "forking", "checking", "announcing", "reaping", "waiting", "reporting",
                  "exited", "reaped"}
  /\ waiter \in {"none", "waiting", "reaping", "completing", "done"}
  /\ kpc \in {"idle", "check", "signal"} /\ ksig \in {SIGTERM, SIGKILL} /\ pending \subseteq {SIGTERM, SIGKILL}

CallStagesOK ==
  /\ npc \in {"none", "spawn", "await", "reapMonitor", "startWaiter", "startReader", "startWait", "startMode", "open",
              "close", "closeKill", "joining", "joinWaiter", "closed", "failed"}
  /\ then \in {"none", "fail", "close"} /\ joins \in Seq(Threads)
  /\ thread \in [Threads -> {"none", "running", "looking", "posting", "done"}]
  /\ turn \in {"loop", "user"} \union Closers
  /\ cpc \in [Closers -> {"idle", "term", "wait1", "kill", "wait2", "free", "freeing", "done"}]
  /\ modes \in 0..MaxModes /\ frees \in Nat

ReportsOK ==
  /\ status \in [by : {"exit", "signal"}, n : Nat]
  /\ found \in Results /\ result \in Results /\ exitFuture \in Results
  /\ pipe \in Seq(Messages) /\ events \in Seq(Events)

TypeOK == FlagsOK /\ ChildStagesOK /\ CallStagesOK /\ ReportsOK

(* An exit code that the future, an event or the cache holds is the code   *)
(* the child ended with: no code is made up, or known before the child has *)
(* ended, however it is observed and whoever reaps it, unless the host     *)
(* reaped it, has another child of the same number and wait() was told of  *)
(* that one (process.rs 327-345, process_linux.rs 249-260, 377).           *)
ExitCodeIsTrue ==
  ~mistaken =>
    /\ ResultIsTrue(result) /\ ResultIsTrue(exitFuture)
    /\ \A i \in DOMAIN events : events[i].kind = "exit" => ResultIsTrue(Exited(events[i].code))

(* When ptyx_close or a spawn that failed returns, every thread of the     *)
(* session has ended: nothing uses the ports or the PTY afterwards.        *)
NothingRunsAfterClose ==
  npc \in {"closed", "failed"} =>
    /\ \A t \in Threads : thread[t] \in {"none", "done"}
    /\ waiter \in {"none", "done"}

(* ... and neither the child nor its monitor is left behind, also when     *)
(* exec failed, unless the monitor died at work, or the thread that would  *)
(* have seen the end of a child could not be started or could not see it.  *)
NoProcessLeft ==
  npc \in {"closed", "failed"} =>
    \/ child \in {"none", "reaped"} /\ monitor \in {"none", "reaped"}
    \/ lost \/ (waiter = "none" /\ then = "fail") \/ result.kind = "error"

(* "so the session never signals a stale PID after the child has been      *)
(* reaped" (process.rs:3-4).                                               *)
NoStrangerSignalled == ~strangers

(* "Calling [close] more than once is allowed" (lib/src/api/session.dart   *)
(* 95): the handle is given to ptyx_close once.                            *)
HandleFreedOnce == frees <= 1

(* What the code cannot do anything about: a child that may not be         *)
(* signalled and does not end, and another process of the host that does   *)
(* not end and has the number of the monitor, or of the child for wait().  *)
Obstructed ==
  \/ <>[](foreign /\ child = "running")
  \/ <>[](monitorPid = "sibling")
  \/ <>[](reporter = "wait" /\ pidOwner = "sibling")

(* close() completes, whatever the child does with SIGTERM, unless it is   *)
(* held up for good by a process out of its reach (session.rs 71-76,       *)
(* process_linux.rs 287-302).                                              *)
CloseCompletes == Obstructed \/ \A c \in Closers : cpc[c] # "idle" ~> cpc[c] = "done"

(* The future settles once the child has ended or the session is closed,   *)
(* unless a process out of reach holds up who is to see it.                *)
ExitIsReported ==
  \/ Obstructed
  \/ /\ (npc = "open" /\ child \in {"zombie", "reaped"}) ~> exitFuture # NoResult
     /\ closed ~> exitFuture # NoResult

(* ptyx_spawn returns, with a session or with an error, unless a process   *)
(* out of reach keeps a failed one from cleaning up.                       *)
SpawnReturns == Obstructed \/ (npc = "spawn" ~> npc \in {"open", "failed"})
===========================================================================
