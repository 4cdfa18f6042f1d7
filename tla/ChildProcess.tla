--------------------------- MODULE ChildProcess ---------------------------
(***************************************************************************)
(* The child of a session, how its end is observed, and how it is          *)
(* signalled: native/src/process.rs, and on Linux the monitor process of   *)
(* native/src/process_linux.rs, which is the child's parent and reports    *)
(* over a pipe.                                                            *)
(*                                                                         *)
(* On Linux the monitor forks and execs the child, and announces it.       *)
(*                                                                         *)
(* Four parties move on their own: the child, the process that reaps it,   *)
(* the thread "ptyx-child-wait" that caches what it learns in WaitState,   *)
(* and the kernel, which may give the number of a reaped child to another  *)
(* process.  kill() runs in the caller's thread, in two steps.             *)
(***************************************************************************)
EXTENDS Naturals, Sequences

CONSTANTS
  Reporters,  \* ways a session may learn of the exit: a subset of Reporter
  Codes,      \* the codes the child may exit with
  Faults      \* the failures a run admits: a subset of Fault

Reporter == {"monitor", "watcher", "wait"}
Fault == {"exec", "monitor", "host", "kevent", "permission",
          "childWaiter", "reader", "wait", "mode"}

ASSUME ReporterAssumption == Reporters \subseteq Reporter /\ Reporters # {}
(* Of the number a process exits with, 8 bits are kept.                    *)
ASSUME FaultAssumption == Codes \subseteq 0..255 /\ Codes # {} /\ Faults \subseteq Fault

VARIABLES
  reporter,      \* how this session learns of the exit
  child,         \* the child process
  status,        \* how it ended: [by |-> "exit" or "signal", n |-> which]
  foreign,       \* it runs as another user: signals to it are refused
  pending,       \* signals sent to the child and not yet acted upon
  pidOwner,      \* whom child_pid names
  mistaken,      \* history: wait() took the status of another child of the host
  monitor, pipe, \* the monitor process and its event pipe
  monitorPid,    \* whom the monitor's number names
  lost,          \* history: the monitor died at work
  waiter, found, \* the child waiter thread and what it is about to cache
  result,        \* WaitState.result
  kpc, ksig,     \* kill(): the step it is at, its signal
  strangers      \* history: signals that reached a process not the child

fateVars   == <<status, foreign, mistaken>>
osVars     == <<child, fateVars, pending, pidOwner, monitor, monitorPid, lost>>
waitVars   == <<pipe, waiter, found, result>>
killVars   == <<kpc, ksig, strangers>>
childVars  == <<reporter, osVars, waitVars, killVars>>

SIGKILL == 9
SIGTERM == 15

NoResult  == [kind |-> "none", code |-> 0]
Exited(c) == [kind |-> "ok", code |-> c]
Failed    == [kind |-> "error", code |-> 0]

(* The child ends by exit(n) or by signal n.  Each reporter makes an exit   *)
(* code of it in its own way: wait_for_pid_raw, exit_code_from_wait_status *)
(* of the status kevent hands over, and exit_code of portable_pty.  What   *)
(* the kernel packs into a status is WaitStatus; SIGKILL and SIGTERM leave *)
(* no core.                                                                *)
Ended(b, k) == [by |-> b, n |-> k]
WaitStatus(e) == IF e.by = "exit" THEN 256 * e.n ELSE e.n

MonitorCode(e) == IF e.by = "exit" THEN e.n ELSE 128 + e.n

WatcherCode(e) ==
  LET s == WaitStatus(e) IN
    IF s <= 255 THEN s
    ELSE IF s % 128 = 0 THEN (s \div 256) % 256
    ELSE 128 + (s % 128)

WaitCode(e) == IF e.by = "exit" THEN e.n ELSE 1

(* What the monitor writes to its pipe: MONITOR_PID, _EXIT, _EXEC_ERROR.   *)
Message(k, c) == [kind |-> k, code |-> c]

ChildInit ==
  /\ reporter \in Reporters
  /\ child = "none" /\ status = Ended("exit", 0) /\ foreign = FALSE /\ mistaken = FALSE
  /\ pending = {} /\ pidOwner = "nobody"
  /\ monitor = "none" /\ pipe = <<>> /\ monitorPid = "monitor" /\ lost = FALSE
  /\ waiter = "none" /\ found = NoResult /\ result = NoResult
  /\ kpc = "idle" /\ ksig = SIGKILL /\ strangers = FALSE

(***************************************************************************)
(* The child and the kernel.                                               *)
(***************************************************************************)
ChildExits ==
  /\ child = "running"
  /\ child' = "zombie" /\ \E c \in Codes : status' = Ended("exit", c)
  /\ pending' = {}
  /\ UNCHANGED <<reporter, foreign, mistaken, pidOwner, monitor, monitorPid, lost, waitVars, killVars>>

ChildDies ==
  /\ child = "running"
  /\ \E s \in pending : child' = "zombie" /\ status' = Ended("signal", s)
  /\ pending' = {}
  /\ UNCHANGED <<reporter, foreign, mistaken, pidOwner, monitor, monitorPid, lost, waitVars, killVars>>

ChildIgnoresTerm ==
  /\ child = "running" /\ SIGTERM \in pending
  /\ pending' = pending \ {SIGTERM}
  /\ UNCHANGED <<reporter, child, fateVars, pidOwner, monitor, monitorPid, lost, waitVars, killVars>>

Reaped == child' = "reaped" /\ pidOwner' = "nobody"

(* An embedding host waits for any of its direct children.                 *)
HostReaps ==
  /\ "host" \in Faults /\ reporter # "monitor" /\ child = "zombie"
  /\ Reaped
  /\ UNCHANGED <<reporter, fateVars, pending, monitor, monitorPid, lost, waitVars, killVars>>

(* Orphans of a monitor that died are reaped by init.                      *)
InitReaps ==
  /\ monitor \in {"exited", "reaped"} /\ child \in {"zombie", "failed"}
  /\ Reaped
  /\ UNCHANGED <<reporter, fateVars, pending, monitor, monitorPid, lost, waitVars, killVars>>

(* The kernel gives the number to another process, once (a bound of the    *)
(* model): a stranger, or the next child of a host that reaped this one.   *)
PidReused ==
  /\ child = "reaped" /\ pidOwner = "nobody"
  /\ \/ pidOwner' = "stranger"
     \/ "host" \in Faults /\ reporter # "monitor" /\ pidOwner' = "sibling"
  /\ UNCHANGED <<reporter, child, fateVars, pending, monitor, monitorPid, lost, waitVars, killVars>>

(* That child ends, and the host reaps it unless wait() does.              *)
NamesakeEnds ==
  /\ \/ pidOwner = "sibling" /\ pidOwner' = "deadSibling"
     \/ pidOwner = "deadSibling" /\ pidOwner' = "spent"
  /\ UNCHANGED <<reporter, child, fateVars, pending, monitor, monitorPid, lost, waitVars, killVars>>

(* The monitor is a direct child of the host, which may wait for any, and  *)
(* whose next child may be given the number, while the session is still to *)
(* reap the monitor by it.  Who gets the status of that child is left out. *)
HostReapsMonitor ==
  /\ "host" \in Faults /\ monitor = "exited" /\ monitorPid = "monitor"
  /\ monitor' = "reaped" /\ monitorPid' \in {"nobody", "sibling"}
  /\ UNCHANGED <<reporter, child, fateVars, pending, pidOwner, lost, waitVars, killVars>>

SiblingEnds ==
  /\ monitorPid = "sibling" /\ monitorPid' = "nobody"
  /\ UNCHANGED <<reporter, child, fateVars, pending, pidOwner, monitor, lost, waitVars, killVars>>

(* reap_pid: waits for the end of whoever has the number; ECHILD if nobody *)
(* has.                                                                    *)
ReapMonitorPid ==
  \/ /\ monitorPid = "monitor" /\ monitor = "exited"
     /\ monitor' = "reaped"
  \/ monitorPid = "nobody" /\ UNCHANGED monitor

(***************************************************************************)
(* run_monitor and exec_child: the monitor forks the child, learns over a  *)
(* second pipe whether it could exec, announces its number, waits, and     *)
(* reports.  Its messages do not fail while the session reads them.        *)
(***************************************************************************)
Says(m) == pipe' = Append(pipe, m)
WaiterUnchanged == UNCHANGED <<waiter, found, result>>

MonitorForks ==
  /\ monitor = "forking"
  /\ child' = "execing" /\ pidOwner' = "child"
  /\ monitor' = "checking"
  /\ UNCHANGED <<reporter, fateVars, pending, monitorPid, lost, waitVars, killVars>>

(* A program with the set-user-ID bit may run as a user who may not be     *)
(* signalled.                                                              *)
RunsAs == foreign' \in (IF "permission" \in Faults THEN BOOLEAN ELSE {FALSE})

(* No pipe, or no second fork.                                             *)
MonitorCannotFork ==
  /\ "exec" \in Faults /\ monitor = "forking"
  /\ Says(Message("execError", 0)) /\ monitor' = "exited"
  /\ UNCHANGED <<reporter, child, fateVars, pending, pidOwner, monitorPid, lost, killVars>> /\ WaiterUnchanged

ChildExecs ==
  /\ child = "execing"
  /\ \/ child' = "running" /\ RunsAs
     \/ "exec" \in Faults /\ child' = "failed" /\ UNCHANGED foreign
  /\ UNCHANGED <<reporter, status, mistaken, pending, pidOwner, monitor, monitorPid, lost, waitVars, killVars>>

(* The end of the exec pipe means success, an error in it is passed on.    *)
MonitorLearns ==
  /\ monitor = "checking" /\ child # "execing"
  /\ IF child = "failed" THEN Says(Message("execError", 0)) /\ monitor' = "reaping"
                         ELSE UNCHANGED pipe /\ monitor' = "announcing"
  /\ UNCHANGED <<reporter, child, fateVars, pending, pidOwner, monitorPid, lost, killVars>> /\ WaiterUnchanged

MonitorReapsFailed ==
  /\ monitor = "reaping" /\ child = "failed"
  /\ Reaped
  /\ monitor' = "exited"
  /\ UNCHANGED <<reporter, fateVars, pending, monitorPid, lost, waitVars, killVars>>

MonitorAnnounces ==
  /\ monitor = "announcing"
  /\ Says(Message("pid", 0)) /\ monitor' = "waiting"
  /\ UNCHANGED <<reporter, child, fateVars, pending, pidOwner, monitorPid, lost, killVars>> /\ WaiterUnchanged

MonitorReaps ==
  /\ monitor = "waiting" /\ child = "zombie"
  /\ Reaped
  /\ monitor' = "reporting"
  /\ UNCHANGED <<reporter, fateVars, pending, monitorPid, lost, waitVars, killVars>>

MonitorReports ==
  /\ monitor = "reporting"
  /\ Says(Message("exit", MonitorCode(status))) /\ monitor' = "exited"
  /\ UNCHANGED <<reporter, child, fateVars, pending, pidOwner, monitorPid, lost, killVars>> /\ WaiterUnchanged

MonitorDies ==
  /\ "monitor" \in Faults
  /\ monitor \notin {"none", "exited", "reaped"}
  /\ monitor' = "exited" /\ lost' = TRUE
  /\ UNCHANGED <<reporter, child, fateVars, pending, pidOwner, monitorPid, waitVars, killVars>>

(***************************************************************************)
(* wait_child, in the thread of start_exit_waiter.                         *)
(***************************************************************************)
Finds(r) == waiter = "waiting" /\ found' = r /\ waiter' = "completing"

(* read_exit_status; the monitor is reaped when it has reported.           *)
ReadReport ==
  /\ waiter = "waiting" /\ pipe # <<>> /\ Head(pipe).kind = "exit"
  /\ found' = Exited(Head(pipe).code) /\ waiter' = "reaping"
  /\ pipe' = Tail(pipe)
  /\ UNCHANGED <<reporter, osVars, result, killVars>>

WaiterReaps ==
  /\ waiter = "reaping" /\ ReapMonitorPid
  /\ waiter' = "completing"
  /\ UNCHANGED <<reporter, child, fateVars, pending, pidOwner, monitorPid, lost, pipe, found, result, killVars>>

ReadReportFails ==
  /\ pipe = <<>> /\ monitor \in {"exited", "reaped"} /\ reporter = "monitor"
  /\ Finds(Failed)
  /\ UNCHANGED <<reporter, osVars, pipe, result, killVars>>

(* child.wait() of portable_pty waits by number: for the child, or for     *)
(* another child of the host that has its number, whose code it then       *)
(* returns; ECHILD if there is neither.                                    *)
WaitReturns ==
  /\ reporter = "wait"
  /\ \/ /\ child = "zombie"
        /\ Finds(Exited(WaitCode(status))) /\ Reaped /\ UNCHANGED mistaken
     \/ /\ child = "reaped" /\ pidOwner = "deadSibling"
        /\ \E c \in Codes \union {1} : Finds(Exited(c))
        /\ pidOwner' = "spent" /\ mistaken' = TRUE /\ UNCHANGED child
     \/ /\ child = "reaped" /\ pidOwner \notin {"sibling", "deadSibling"}
        /\ Finds(Failed) /\ UNCHANGED <<child, pidOwner, mistaken>>
  /\ UNCHANGED <<reporter, status, foreign, pending, monitor, monitorPid, lost, pipe, result, killVars>>

(* ExitWatcher::wait reports the status whoever reaps; try_wait follows,   *)
(* by number.                                                              *)
WatcherFires ==
  /\ reporter = "watcher" /\ child \in {"zombie", "reaped"}
  /\ Finds(Exited(WatcherCode(status)))
  /\ child' = "reaped"
  /\ pidOwner' = CASE child = "zombie" -> "nobody"
                   [] pidOwner = "deadSibling" -> "spent"
                   [] OTHER -> pidOwner
  /\ UNCHANGED <<reporter, fateVars, pending, monitor, monitorPid, lost, pipe, result, killVars>>

WatcherFails ==
  /\ "kevent" \in Faults /\ reporter = "watcher"
  /\ Finds(Failed)
  /\ UNCHANGED <<reporter, osVars, pipe, result, killVars>>

(* WaitState::complete                                                     *)
CacheResult ==
  /\ waiter = "completing"
  /\ result' = IF result = NoResult THEN found ELSE result
  /\ waiter' = "done"
  /\ UNCHANGED <<reporter, osVars, pipe, found, killVars>>

(***************************************************************************)
(* kill()                                                                  *)
(***************************************************************************)
KillStarts(s) == kpc = "idle" /\ kpc' = "check" /\ ksig' = s
KillReturns == kpc' = "idle" /\ ksig' = SIGKILL

KillChecks ==
  /\ kpc = "check"
  /\ IF result # NoResult THEN KillReturns ELSE kpc' = "signal" /\ UNCHANGED ksig
  /\ UNCHANGED <<reporter, osVars, waitVars, strangers>>

(* kill(2) reaches whoever has the number now; ESRCH if nobody has, EPERM   *)
(* if the child runs as another user.                                       *)
KillSignals ==
  /\ kpc = "signal"
  /\ KillReturns
  /\ strangers' = (strangers \/ pidOwner \in {"stranger", "sibling"})
  /\ pending' = IF child = "running" /\ ~foreign THEN pending \union {ksig} ELSE pending
  /\ UNCHANGED <<reporter, child, fateVars, pidOwner, monitor, monitorPid, lost, waitVars>>

ChildStep == ChildExecs \/ ChildExits \/ ChildDies \/ ChildIgnoresTerm
KernelStep ==
  \/ HostReaps \/ InitReaps \/ PidReused \/ MonitorDies
  \/ HostReapsMonitor \/ SiblingEnds \/ NamesakeEnds
MonitorStep ==
  \/ MonitorForks \/ MonitorCannotFork \/ MonitorLearns \/ MonitorReapsFailed
  \/ MonitorAnnounces \/ MonitorReaps \/ MonitorReports
WaiterStep ==
  ReadReport \/ WaiterReaps \/ ReadReportFails \/ WaitReturns \/ WatcherFires \/ CacheResult
KillStep == KillChecks \/ KillSignals

(* What the cache says of the child is true of it: a code is known only    *)
(* once the child has ended; the code of an exit is that code, and a child *)
(* that was killed is not taken for one that succeeded.                    *)
ResultIsTrue(r) ==
  r.kind = "ok" =>
    /\ child \in {"zombie", "reaped"}
    /\ status.by = "exit" => r.code = status.n
    /\ status.by = "signal" => r.code # 0
===========================================================================
