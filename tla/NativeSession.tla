--------------------------- MODULE NativeSession ---------------------------
(***************************************************************************)
(* A native session: the calls that start and end it (native/src/session.rs*)
(* and runtime.rs) and the threads between the two.  ptyx_spawn and        *)
(* ptyx_close run in the caller's thread; npc is the step that thread is   *)
(* at.  The reader and the writer are only what close sees of them: they   *)
(* end when they are told to (OutputFlow and WriteQueue model the rest).   *)
(***************************************************************************)
EXTENDS ChildProcess

CONSTANTS
  ModeEvents,   \* the reporters with which enable_mode_events is set (the code
                \* lets every session choose: a bound of the model)
  MaxModes      \* bound of the model: mode changes the watcher sees

ASSUME ModeAssumption == ModeEvents \subseteq Reporters /\ MaxModes \in Nat

Threads == {"reader", "wait", "mode", "writer"}

VARIABLES
  npc,            \* the step of ptyx_spawn or ptyx_close
  runtime,        \* Session.runtime is Some
  stop,           \* SessionRuntime.stop
  thread,         \* the runtime's threads
  joins, then,    \* the threads still to join, and what follows
  events, portOpen, \* the event port of the isolate
  modes           \* mode changes seen so far

runtimeVars == <<npc, runtime, stop, thread, joins, then, events, portOpen, modes>>
callVars    == <<runtime, events, portOpen, modes>>

NativeInit ==
  /\ ChildInit
  /\ npc = "none" /\ runtime = FALSE /\ stop = FALSE
  /\ thread = [t \in Threads |-> "none"]
  /\ joins = <<>> /\ then = "none"
  /\ events = <<>> /\ portOpen = TRUE /\ modes = 0

Event(k, c) == [kind |-> k, code |-> c]
PostEvent(e) == events' = IF portOpen THEN Append(events, e) ELSE events

SetThread(t, s) == thread' = [thread EXCEPT ![t] = s]
Joinable(t) == thread[t] \in {"none", "done"}

(***************************************************************************)
(* ptyx_spawn: session::spawn, then start_runtime.                         *)
(***************************************************************************)
OthersUnchanged ==
  UNCHANGED <<reporter, status, mistaken, pending, monitorPid, lost, waiter, found, result, killVars>>
SpawnGoes(step) == npc' = step /\ UNCHANGED <<callVars, stop, thread, joins, then>>

(* spawn_command of portable_pty                                           *)
SpawnChild ==
  /\ npc = "spawn" /\ reporter # "monitor"
  /\ child' = "running" /\ pidOwner' = "child" /\ RunsAs
  /\ SpawnGoes("startWaiter")
  /\ OthersUnchanged /\ UNCHANGED <<monitor, pipe>>

(* openpty, pipe, fork or, where there is no monitor, exec failed, or the  *)
(* options do not hold strings that a process can be given.                *)
SpawnChildFails ==
  /\ npc = "spawn" /\ "exec" \in Faults
  /\ SpawnGoes("failed")
  /\ UNCHANGED childVars

(* process_linux::spawn, which waits for the monitor's first message.      *)
ForkMonitor ==
  /\ npc = "spawn" /\ reporter = "monitor"
  /\ monitor' = "forking"
  /\ SpawnGoes("await")
  /\ OthersUnchanged /\ UNCHANGED <<child, foreign, pidOwner, pipe>>

Announced ==
  /\ npc = "await" /\ pipe # <<>>
  /\ pipe' = Tail(pipe)
  /\ SpawnGoes(IF Head(pipe).kind = "pid" THEN "startWaiter" ELSE "reapMonitor")
  /\ OthersUnchanged /\ UNCHANGED <<child, foreign, pidOwner, monitor>>

NeverAnnounced ==
  /\ npc = "await" /\ pipe = <<>> /\ monitor \in {"exited", "reaped"}
  /\ SpawnGoes("reapMonitor")
  /\ UNCHANGED childVars

ReapMonitor ==
  /\ npc = "reapMonitor" /\ ReapMonitorPid
  /\ SpawnGoes("failed")
  /\ UNCHANGED <<reporter, child, fateVars, pending, pidOwner, monitorPid, lost, waitVars, killVars>>

(* start_exit_waiter; when the thread cannot be made the session closes.   *)
StartWaiter ==
  /\ npc = "startWaiter"
  /\ \/ waiter' = "waiting" /\ npc' = "startReader" /\ UNCHANGED then
     \/ "childWaiter" \in Faults /\ npc' = "close" /\ then' = "fail" /\ UNCHANGED waiter
  /\ UNCHANGED <<reporter, osVars, pipe, found, result, killVars>>
  /\ UNCHANGED <<callVars, stop, thread, joins>>

StartReader ==
  /\ npc = "startReader"
  /\ \/ SetThread("reader", "running") /\ npc' = "startWait" /\ UNCHANGED then
     \/ "reader" \in Faults /\ npc' = "close" /\ then' = "fail" /\ UNCHANGED thread
  /\ UNCHANGED <<childVars, callVars, stop, joins>>

(* Mutant of StartWait: the error path does not join the reader.           *)
StartWaitUnjoined ==
  /\ npc = "startWait"
  /\ \/ /\ SetThread("wait", "running")
        /\ npc' = "startMode"
        /\ UNCHANGED <<stop, joins, then>>
     \/ /\ "wait" \in Faults
        /\ stop' = TRUE /\ joins' = <<"writer">> /\ then' = "fail"
        /\ npc' = "joining"
        /\ UNCHANGED thread
  /\ UNCHANGED <<childVars, callVars>>

StartWait ==
  /\ npc = "startWait"
  /\ \/ /\ SetThread("wait", "running")
        /\ npc' = "startMode"
        /\ UNCHANGED <<stop, joins, then>>
     \/ /\ "wait" \in Faults
        /\ stop' = TRUE /\ joins' = <<"reader", "writer">> /\ then' = "fail"
        /\ npc' = "joining"
        /\ UNCHANGED thread
  /\ UNCHANGED <<childVars, callVars>>

(* The error path joins the wait thread, which waits for the child.        *)
StartMode ==
  /\ npc = "startMode"
  /\ \/ /\ IF reporter \in ModeEvents THEN SetThread("mode", "running") ELSE UNCHANGED thread
        /\ runtime' = TRUE /\ npc' = "open"
        /\ UNCHANGED <<stop, joins, then>>
     \/ /\ reporter \in ModeEvents /\ "mode" \in Faults
        /\ stop' = TRUE /\ joins' = <<"reader", "wait", "writer">> /\ then' = "fail"
        /\ npc' = "joining"
        /\ UNCHANGED <<thread, runtime>>
  /\ UNCHANGED <<childVars, events, portOpen, modes>>

(***************************************************************************)
(* session::close, also the end of a spawn that failed, and close_runtime. *)
(***************************************************************************)
(* Mutant of CloseKills: the child is left to end by itself.               *)
CloseKillsNothing ==
  /\ npc = "close"
  /\ npc' = "closeKill"
  /\ UNCHANGED <<childVars, callVars, stop, thread, joins, then>>

CloseKills ==
  /\ npc = "close"
  /\ KillStarts(SIGKILL)
  /\ npc' = "closeKill"
  /\ UNCHANGED <<reporter, osVars, waitVars, strangers, callVars, stop, thread, joins, then>>

(* Mutant of CloseRuntime: stop is not set before the threads are joined.  *)
CloseRuntimeUnstopped ==
  /\ npc = "closeKill" /\ kpc = "idle"
  /\ IF runtime
       THEN /\ joins' = <<"reader", "wait", "mode", "writer">>
            /\ then' = "close" /\ npc' = "joining"
       ELSE npc' = "joinWaiter" /\ UNCHANGED <<joins, then>>
  /\ UNCHANGED <<childVars, callVars, thread, stop>>

CloseRuntime ==
  /\ npc = "closeKill" /\ kpc = "idle"
  /\ IF runtime
       THEN /\ stop' = TRUE
            /\ joins' = <<"reader", "wait", "mode", "writer">>
            /\ then' = "close" /\ npc' = "joining"
       ELSE npc' = "joinWaiter" /\ UNCHANGED <<stop, joins, then>>
  /\ UNCHANGED <<childVars, callVars, thread>>

JoinThread ==
  /\ npc = "joining" /\ joins # <<>> /\ Joinable(Head(joins))
  /\ joins' = Tail(joins)
  /\ UNCHANGED <<childVars, callVars, npc, stop, thread, then>>

ThreadsJoined ==
  /\ npc = "joining" /\ joins = <<>>
  /\ runtime' = FALSE
  /\ npc' = IF then = "fail" THEN "close" ELSE "joinWaiter"
  /\ UNCHANGED <<childVars, events, portOpen, modes, stop, thread, joins, then>>

(* Mutant of JoinWaiter: close returns without joining the child waiter.   *)
JoinNothing ==
  /\ npc = "joinWaiter"
  /\ npc' = IF then = "fail" THEN "failed" ELSE "closed"
  /\ UNCHANGED <<childVars, callVars, stop, thread, joins, then>>

JoinWaiter ==
  /\ npc = "joinWaiter" /\ waiter \in {"none", "done"}
  /\ npc' = IF then = "fail" THEN "failed" ELSE "closed"
  /\ UNCHANGED <<childVars, callVars, stop, thread, joins, then>>

(***************************************************************************)
(* The threads.                                                            *)
(***************************************************************************)
threadUnchanged == UNCHANGED <<childVars, npc, runtime, stop, joins, then, portOpen>>

(* The reader ends when it is stopped, at the end of the output and on an  *)
(* error: a child may close its terminal long before it ends.              *)
ReaderEnds ==
  /\ thread["reader"] = "running"
  /\ SetThread("reader", "done")
  /\ threadUnchanged /\ UNCHANGED <<events, modes>>

(* wait_loop: stop is read once the exit is known, and the post follows.   *)
WaitObserves ==
  /\ thread["wait"] = "running" /\ result # NoResult
  /\ SetThread("wait", IF stop THEN "done" ELSE "posting")
  /\ threadUnchanged /\ UNCHANGED <<events, modes>>

(* Mutant of WaitPosts: the exit event carries no exit code.               *)
WaitPostsZero ==
  /\ thread["wait"] = "posting"
  /\ PostEvent(IF result.kind = "ok" THEN Event("exit", 0) ELSE Event("waitError", 0))
  /\ SetThread("wait", "done")
  /\ threadUnchanged /\ UNCHANGED modes

(* Mutant of WaitPosts: the event has the kind of the result.              *)
WaitPostsUntagged ==
  /\ thread["wait"] = "posting"
  /\ PostEvent(Event(result.kind, result.code))
  /\ SetThread("wait", "done")
  /\ threadUnchanged /\ UNCHANGED modes

WaitPosts ==
  /\ thread["wait"] = "posting"
  /\ PostEvent(IF result.kind = "ok" THEN Event("exit", result.code) ELSE Event("waitError", 0))
  /\ SetThread("wait", "done")
  /\ threadUnchanged /\ UNCHANGED modes

(* mode_loop: stop is read, then the terminal; a change is posted, and the *)
(* loop ends when the terminal cannot be read or the port is gone.         *)
ModeLooks ==
  /\ thread["mode"] = "running"
  /\ SetThread("mode", IF stop THEN "done" ELSE "looking")
  /\ threadUnchanged /\ UNCHANGED <<events, modes>>

ModeSame ==
  /\ thread["mode"] = "looking"
  /\ SetThread("mode", "running")
  /\ threadUnchanged /\ UNCHANGED <<events, modes>>

ModeChanges ==
  /\ thread["mode"] = "looking" /\ modes < MaxModes
  /\ modes' = modes + 1
  /\ PostEvent(Event("mode", 0))
  /\ SetThread("mode", IF portOpen THEN "running" ELSE "done")
  /\ threadUnchanged

ModeFails ==
  /\ thread["mode"] = "looking"
  /\ PostEvent(Event("modeError", 0))
  /\ SetThread("mode", "done")
  /\ threadUnchanged /\ UNCHANGED modes

WriterEnds ==
  /\ thread["writer"] = "running" /\ stop
  /\ SetThread("writer", "done")
  /\ threadUnchanged /\ UNCHANGED <<events, modes>>

CallStep ==
  \/ SpawnChild \/ SpawnChildFails \/ ForkMonitor \/ Announced \/ NeverAnnounced \/ ReapMonitor
  \/ StartWaiter \/ StartReader \/ StartWait \/ StartMode
  \/ CloseKills \/ CloseRuntime \/ JoinThread \/ ThreadsJoined \/ JoinWaiter

ReaderThread == ReaderEnds
WaitThread   == WaitObserves \/ WaitPosts
ModeThread   == ModeLooks \/ ModeSame \/ ModeChanges \/ ModeFails
WriterThread == WriterEnds
===========================================================================
