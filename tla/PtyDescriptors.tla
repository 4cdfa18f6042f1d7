--------------------------- MODULE PtyDescriptors ---------------------------
(***************************************************************************)
(* Several sessions of one process on Linux, and who holds which of their  *)
(* descriptors (session.rs spawn and close, process_linux.rs).             *)
(*                                                                         *)
(* A monitor is forked from the whole process and never execs: it keeps    *)
(* every descriptor that was open at that moment, those of the other       *)
(* sessions among them, until it exits.  The child it forks execs and      *)
(* keeps what is not close-on-exec.  A terminal ends, and a pipe ends,     *)
(* when nobody holds its other side any more.                              *)
(***************************************************************************)
EXTENDS Naturals, Sequences

CONSTANTS
  Sessions,  \* the sessions, each spawned in a thread of its own
  MayFail    \* steps that may fail: a subset of Failures

Failures == {"pty", "pipe", "fork", "monitorFork", "exec", "monitor"}

ASSUME FailureAssumption == MayFail \subseteq Failures

VARIABLES
  fds,      \* the descriptors each process holds
  call,     \* the thread of ptyx_spawn, and later of ptyx_close
  waiter,   \* the child waiter thread
  monitor, child,
  messages, \* what the monitor has written and nobody has read
  execError \* the child has written to the exec pipe

vars == <<fds, call, waiter, monitor, child, messages, execError>>

(* The master with its two duplicates, the slave, and the two ends of the  *)
(* event pipe and of the exec pipe.                                        *)
Kinds == {"master", "slave", "eventRead", "eventWrite", "execRead", "execWrite"}
Of(s) == [kind : Kinds, of : {s}]
Descriptors == UNION {Of(s) : s \in Sessions}
Fd(k, s) == [kind |-> k, of |-> s]

Host == <<"host", "host">>
Monitor(s) == <<"monitor", s>>
Child(s) == <<"child", s>>
Processes == {Host} \union {Monitor(s) : s \in Sessions} \union {Child(s) : s \in Sessions}

Holders(d) == {p \in Processes : d \in fds[p]}
Goes(s, to) == call' = [call EXCEPT ![s] = to]

Init ==
  /\ fds = [p \in Processes |-> {}]
  /\ call = [s \in Sessions |-> "idle"]
  /\ waiter = [s \in Sessions |-> "none"]
  /\ monitor = [s \in Sessions |-> "none"]
  /\ child = [s \in Sessions |-> "none"]
  /\ messages = [s \in Sessions |-> <<>>]
  /\ execError = [s \in Sessions |-> FALSE]

(***************************************************************************)
(* session::spawn and process_linux::spawn.                                *)
(***************************************************************************)
OthersUnchanged == UNCHANGED <<waiter, monitor, child, messages, execError>>

(* Whatever the caller of spawn had opened is dropped.                     *)
Fails(s) == fds' = [fds EXCEPT ![Host] = @ \ Of(s)] /\ Goes(s, "failed")

OpenPty(s) ==
  /\ call[s] = "idle"
  /\ \/ fds' = [fds EXCEPT ![Host] = @ \union {Fd("master", s), Fd("slave", s)}] /\ Goes(s, "pipe")
     \/ "pty" \in MayFail /\ Fails(s)
  /\ OthersUnchanged

OpenEvents(s) ==
  /\ call[s] = "pipe"
  /\ \/ /\ fds' = [fds EXCEPT ![Host] = @ \union {Fd("eventRead", s), Fd("eventWrite", s)}]
        /\ Goes(s, "fork")
     \/ "pipe" \in MayFail /\ Fails(s)
  /\ OthersUnchanged

(* Mutant of ForkMonitor: a failed fork leaves the event pipe open.        *)
ForkMonitorLeaks(s) ==
  /\ call[s] = "fork"
  /\ \/ /\ fds' = [fds EXCEPT ![Monitor(s)] = fds[Host] \ {Fd("eventRead", s)}]
        /\ monitor' = [monitor EXCEPT ![s] = "forking"]
        /\ Goes(s, "forked")
     \/ /\ "fork" \in MayFail
        /\ fds' = [fds EXCEPT ![Host] = @ \ {Fd("master", s), Fd("slave", s)}] /\ Goes(s, "failed")
        /\ UNCHANGED monitor
  /\ UNCHANGED <<waiter, child, messages, execError>>

(* The monitor has what the process has, and closes its reading end.       *)
ForkMonitor(s) ==
  /\ call[s] = "fork"
  /\ \/ /\ fds' = [fds EXCEPT ![Monitor(s)] = fds[Host] \ {Fd("eventRead", s)}]
        /\ monitor' = [monitor EXCEPT ![s] = "forking"]
        /\ Goes(s, "forked")
     \/ "fork" \in MayFail /\ Fails(s) /\ UNCHANGED monitor
  /\ UNCHANGED <<waiter, child, messages, execError>>

(* Mutant of CloseWriteEnd: the process keeps its writing end.             *)
KeepWriteEnd(s) ==
  /\ call[s] = "forked"
  /\ Goes(s, "await")
  /\ UNCHANGED fds /\ OthersUnchanged

CloseWriteEnd(s) ==
  /\ call[s] = "forked"
  /\ fds' = [fds EXCEPT ![Host] = @ \ {Fd("eventWrite", s)}]
  /\ Goes(s, "await")
  /\ OthersUnchanged

(* read_message; the pipe ends when nobody can write to it any more.       *)
PipeEnded(s) == messages[s] = <<>> /\ Holders(Fd("eventWrite", s)) = {}

Announced(s) ==
  /\ call[s] = "await"
  /\ \/ /\ messages[s] # <<>>
        /\ messages' = [messages EXCEPT ![s] = Tail(@)]
        /\ Goes(s, IF Head(messages[s]) = "pid" THEN "started" ELSE "reap")
     \/ PipeEnded(s) /\ Goes(s, "reap") /\ UNCHANGED messages
  /\ UNCHANGED <<fds, waiter, monitor, child, execError>>

ReapMonitor(s) ==
  /\ call[s] = "reap" /\ monitor[s] = "exited"
  /\ Fails(s)
  /\ OthersUnchanged

(* Mutant of SpawnReturns: the session keeps the slave.                    *)
SpawnKeepsSlave(s) ==
  /\ call[s] = "started"
  /\ waiter' = [waiter EXCEPT ![s] = "waiting"]
  /\ Goes(s, "open")
  /\ UNCHANGED <<fds, monitor, child, messages, execError>>

(* The waiter has been started; the slave is dropped when spawn returns.   *)
SpawnReturns(s) ==
  /\ call[s] = "started"
  /\ waiter' = [waiter EXCEPT ![s] = "waiting"]
  /\ fds' = [fds EXCEPT ![Host] = @ \ {Fd("slave", s)}]
  /\ Goes(s, "open")
  /\ UNCHANGED <<monitor, child, messages, execError>>

(***************************************************************************)
(* The waiter, which drops the event pipe with the child, and close, which *)
(* kills the child unless its end is known, and joins the waiter.          *)
(***************************************************************************)
WaiterEnds(s) ==
  /\ waiter[s] = "waiting" /\ (messages[s] # <<>> \/ PipeEnded(s))
  /\ messages[s] # <<>> => monitor[s] = "exited"
  /\ messages' = [messages EXCEPT ![s] = <<>>]
  /\ waiter' = [waiter EXCEPT ![s] = "done"]
  /\ fds' = [fds EXCEPT ![Host] = @ \ {Fd("eventRead", s)}]
  /\ UNCHANGED <<call, monitor, child, execError>>

Close(s) ==
  /\ call[s] = "open"
  /\ child' = [child EXCEPT ![s] = IF @ = "running" /\ waiter[s] = "waiting" THEN "killed" ELSE @]
  /\ Goes(s, "closing")
  /\ UNCHANGED <<fds, waiter, monitor, messages, execError>>

CloseReturns(s) ==
  /\ call[s] = "closing" /\ waiter[s] = "done"
  /\ fds' = [fds EXCEPT ![Host] = @ \ {Fd("master", s)}]
  /\ Goes(s, "closed")
  /\ OthersUnchanged

(***************************************************************************)
(* run_monitor                                                             *)
(***************************************************************************)
CallsUnchanged == UNCHANGED <<call, waiter>>
Says(s, m) == messages' = [messages EXCEPT ![s] = Append(@, m)]
Exits(s) == monitor' = [monitor EXCEPT ![s] = "exited"] /\ fds' = [fds EXCEPT ![Monitor(s)] = {}]

(* The child closes the reading end and the event pipe, the monitor the    *)
(* writing end.                                                            *)
ForkChild(s) ==
  /\ monitor[s] = "forking"
  /\ \/ /\ fds' = [fds EXCEPT
             ![Monitor(s)] = @ \union {Fd("execRead", s)},
             ![Child(s)] = (fds[Monitor(s)] \union {Fd("execWrite", s)}) \ {Fd("eventWrite", s)}]
        /\ child' = [child EXCEPT ![s] = "execing"]
        /\ monitor' = [monitor EXCEPT ![s] = "checking"]
        /\ UNCHANGED messages
     \/ /\ "monitorFork" \in MayFail
        /\ Says(s, "execError") /\ Exits(s) /\ UNCHANGED child
  /\ CallsUnchanged /\ UNCHANGED execError

(* Mutant of MonitorLearns: the message has no tag.                        *)
MonitorLearnsUntagged(s) ==
  /\ monitor[s] = "checking" /\ Holders(Fd("execWrite", s)) = {}
  /\ fds' = [fds EXCEPT ![Monitor(s)] = @ \ {Fd("execRead", s)}]
  /\ monitor' = [monitor EXCEPT ![s] = "waiting"]
  /\ Says(s, "untagged")
  /\ CallsUnchanged /\ UNCHANGED <<child, execError>>

MonitorLearns(s) ==
  /\ monitor[s] = "checking" /\ Holders(Fd("execWrite", s)) = {}
  /\ fds' = [fds EXCEPT ![Monitor(s)] = @ \ {Fd("execRead", s)}]
  /\ monitor' = [monitor EXCEPT ![s] = "waiting"]
  /\ Says(s, IF execError[s] THEN "execError" ELSE "pid")
  /\ CallsUnchanged /\ UNCHANGED <<child, execError>>

MonitorReports(s) ==
  /\ monitor[s] = "waiting" /\ child[s] = "ended"
  /\ IF execError[s] THEN UNCHANGED messages ELSE Says(s, "exit")
  /\ Exits(s)
  /\ CallsUnchanged /\ UNCHANGED <<child, execError>>

MonitorDies(s) ==
  /\ "monitor" \in MayFail /\ monitor[s] \in {"forking", "checking", "waiting"}
  /\ Exits(s)
  /\ CallsUnchanged /\ UNCHANGED <<child, messages, execError>>

(***************************************************************************)
(* exec_child, and the program it becomes.                                 *)
(***************************************************************************)
(* Mutant of CloseOnExec: the event pipe is made without O_CLOEXEC.        *)
CloseOnExecNotPipes == {"master", "slave", "execRead", "execWrite"}

CloseOnExec == Kinds

(* The terminal it has opened by its name is its input and output.         *)
Execs(s) ==
  /\ child[s] = "execing"
  /\ fds' = [fds EXCEPT ![Child(s)] = {d \in @ : d.kind \notin CloseOnExec} \union {Fd("slave", s)}]
  /\ child' = [child EXCEPT ![s] = "running"]
  /\ CallsUnchanged /\ UNCHANGED <<monitor, messages, execError>>

ExecFails(s) ==
  /\ "exec" \in MayFail /\ child[s] = "execing"
  /\ execError' = [execError EXCEPT ![s] = TRUE]
  /\ child' = [child EXCEPT ![s] = "ended"]
  /\ fds' = [fds EXCEPT ![Child(s)] = {}]
  /\ CallsUnchanged /\ UNCHANGED <<monitor, messages>>

ChildEnds(s) ==
  /\ child[s] \in {"running", "killed"}
  /\ child' = [child EXCEPT ![s] = "ended"]
  /\ fds' = [fds EXCEPT ![Child(s)] = {}]
  /\ CallsUnchanged /\ UNCHANGED <<monitor, messages, execError>>

Thread(s) ==
  \/ OpenPty(s) \/ OpenEvents(s) \/ ForkMonitor(s) \/ CloseWriteEnd(s) \/ Announced(s)
  \/ ReapMonitor(s) \/ SpawnReturns(s) \/ CloseReturns(s)
MonitorStep(s) == ForkChild(s) \/ MonitorLearns(s) \/ MonitorReports(s)

Next ==
  \E s \in Sessions :
    \/ Thread(s) \/ WaiterEnds(s) \/ Close(s) \/ MonitorStep(s) \/ MonitorDies(s)
    \/ Execs(s) \/ ExecFails(s) \/ ChildEnds(s)

(* Threads and monitors go on, and a killed child ends; a child need not   *)
(* end otherwise, and nobody need close a session.                         *)
Fairness ==
  \A s \in Sessions :
    /\ WF_vars(Thread(s)) /\ WF_vars(WaiterEnds(s)) /\ WF_vars(MonitorStep(s))
    /\ WF_vars(Execs(s) \/ ExecFails(s))
    /\ WF_vars(child[s] = "killed" /\ ChildEnds(s))

Spec == Init /\ [][Next]_vars /\ Fairness

(***************************************************************************)
(* Properties                                                              *)
(***************************************************************************)

(* Every variable holds a value of its type.                               *)
TypeOK ==
  /\ fds \in [Processes -> SUBSET Descriptors]
  /\ call \in [Sessions -> {"idle", "pipe", "fork", "forked", "await", "started", "reap", "open",
                            "closing", "closed", "failed"}]
  /\ waiter \in [Sessions -> {"none", "waiting", "done"}]
  /\ monitor \in [Sessions -> {"none", "forking", "checking", "waiting", "exited"}]
  /\ child \in [Sessions -> {"none", "execing", "running", "killed", "ended"}]
  /\ messages \in [Sessions -> Seq({"pid", "exit", "execError"})]
  /\ execError \in [Sessions -> BOOLEAN]

(* A program that has been started holds its own terminal and nothing else *)
(* of any session, however many were being spawned at the time: it cannot  *)
(* keep another one's terminal, or a pipe a thread waits on, from ending   *)
(* (process_linux.rs 24, 342, 382-438).                                    *)
ProgramHoldsItsTerminal ==
  \A s \in Sessions : child[s] \in {"running", "killed"} => fds[Child(s)] = {Fd("slave", s)}

(* When a spawn has failed, wherever it did, or a close has returned, the  *)
(* process holds no descriptor of that session (process_linux.rs 31-79,    *)
(* session.rs 125-182).                                                    *)
HostLeaksNothing ==
  \A s \in Sessions : call[s] \in {"failed", "closed"} => fds[Host] \intersect Of(s) = {}

(* The child of another session goes on for ever, and its monitor with it. *)
Pinned(s) == \E t \in Sessions \ {s} : <>[](child[t] = "running")

(* ptyx_spawn returns and a waiting thread ends, also when the monitor has *)
(* died without a word, unless the monitor of another session, forked      *)
(* while the event pipe was open for writing, outlives it                  *)
(* (process_linux.rs 31-58, 249-260).                                      *)
CallsReturn ==
  \A s \in Sessions :
    \/ Pinned(s)
    \/ /\ call[s] = "forked" ~> call[s] \in {"failed", "open", "closing", "closed"}
       /\ (waiter[s] = "waiting" /\ monitor[s] = "exited") ~> waiter[s] = "done"
       /\ call[s] = "closing" ~> call[s] = "closed"

(* The output of a session ends once its child has ended, because no one   *)
(* holds the slave then, and once the session is closed nobody holds       *)
(* anything of it, unless the monitor of a session that was spawned        *)
(* meanwhile keeps it (session.rs 71-76, 125, 147; lib/src/api/session.dart *)
(* 67-68, 92).                                                             *)
DescriptorsReleased ==
  \A s \in Sessions :
    \/ Pinned(s)
    \/ /\ child[s] = "ended" ~> Holders(Fd("slave", s)) = {}
       /\ call[s] = "closed" /\ child[s] = "ended" ~> \A d \in Of(s) : Holders(d) = {}
===========================================================================
