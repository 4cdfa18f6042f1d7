# TLA+ models of ptyx

ptyx (`packages/ptyx`) runs a command in a pseudo-terminal for a Dart program.
A Dart isolate owns a `PtySession`; behind it a Rust library spawns the child,
reads its output on one thread, writes its input on another, watches for its
exit on up to three more, and posts messages to the isolate's ports. What makes
it hard to get right is in the seams: who may still touch what while the
session closes, how acknowledgements from the isolate hold back a thread the
isolate may be waiting for, and when the number of a child means that child.

The modules here model those seams. Every definition is translated from the
source; `PROJECT.json` maps each one to the lines it stands for.

Paths below are relative to `packages/ptyx`; `native/src/` is left out of the
names of Rust files.

## Inventory

| Part | State it keeps | Operations | Hard behaviour |
|---|---|---|---|
| Output reader (`reader.rs`, `output.rs`, `message.rs`) | batch, time of the first pending byte, inflight window, external byte count | read, append, flush, wait for credit, post, retire | credit given before the post returns; failed posts; waiting while close joins |
| Dart output stream (`lib/src/impl/session.dart`) | controller buffer, pending acks, `_outputDone` | `_handleOutput`, `_flushAcks`, listen/pause/resume/cancel, close | acks held back and released while the reader runs |
| Dart lifecycle (same file) | `_closed`, `_exitCode` | spawn, kill, write, `_handleEvent`, close | two waits inside `close()`, each giving the isolate to other code |
| Session and runtime (`session.rs`, `runtime.rs`) | child, runtime with its threads, `stop` | spawn with its error paths, kill, write, ack, resize, close | joining threads that wait for somebody else |
| Child and exit (`process.rs`, `process_linux.rs`) | `WaitState`, event pipe, monitor process | fork, exec, announce, wait, kill, reap, report | a number may be reused between reap and signal; the host reaps the child or the monitor; the monitor dies |
| Descriptors (`session.rs`, `process_linux.rs`) | the terminal, two pipes, and who holds which side | open, fork, close, exec | a monitor keeps what other sessions had open when it was forked |
| Write queue (`writer.rs`, `fd.rs`) | queue, its byte count, closed, failure | enqueue, dequeue, write, fail, close | two checks a copy apart; a descriptor whose mode another thread changes |
| Terminal modes (`term_mode.rs`, `runtime.rs`) | last mode seen | poll, post | ends on a lost port |
| C ABI (`lib.rs`, `abi.rs`, `dart_api.rs`, `lib/src/bindings/`) | the session handle, whether the Dart API is initialised, the last error of each thread | entry points, conversion of sizes, names and options, status and message | ownership of the handle; the message of an error is fetched by a second call |
| Environment and sizes (`process_linux.rs`, `process.rs`, `abi.rs`) | none that changes | join, split, overlay, refuse; 64 to 32 to 16 bits | two platforms with code of their own; a number that is cut |
| Owned write buffers (`owned_buffer.rs`, `lib.rs`) | allocation, owner | allocate, transfer, free | who frees after a rejected write |
| Options (`abi.rs`, `config.rs`) | none that changes | defaults and limits | what the threads may assume of their sizes |
| Build hook (`hook/`, `lib/src/hook/`) | files in the cache, the copied library | choose, download, check, compile, copy | interrupted between two steps |
| Generated bindings, tools | none that changes | | none modelled |

How they interact. The isolate calls the native session synchronously, holding
its only thread until the call returns. The native threads reach the isolate
only by posting to two ports, output and events, that feed one queue. The
reader and the isolate share the inflight counter (a mutex and a condition
variable); the writer and its callers share the queue (the same); the reader
and the writer share one descriptor, whose blocking flag belongs to the open
file and not to either of them; everybody shares `stop`. `kill()` and the
child waiter share the cached exit.

What makes each part correct:

- output: every byte the reader takes from the terminal reaches the listener
  once and in order; unacknowledged bytes are bounded and counted exactly; a
  listener that keeps listening gets everything; a batch is not kept beyond its
  delay; close returns wherever the reader is.
- lifecycle: no exit code is made up; the future settles; `close()` and spawn
  return; after close no thread and no process of the session is left; the
  handle is freed once; a signal never reaches a stranger.
- input: accepted bytes are written once and in order, or dropped as a tail
  after a failure that is reported, or after close; the queue is bounded; a
  chunk never waits for a writer that has gone; the buffer of an owned write is
  freed once, whoever owns it at the end; close is not held up.
- descriptors: a program holds its own terminal and nothing else of any session;
  a spawn that failed and a close leave the process none; pipes and terminals
  end when they should, so that threads that wait for it go on.
- calls: an exception is about the call that failed; what is read back is what
  there is; a child has the environment its caller asked for.
- options: the sizes the threads run with are at least one byte and countable.
- build hook: what an application gets is a whole library whose hash was
  checked, and no file of an earlier, interrupted hook keeps a later one from it.

## Modules

| Module | Models | Extends |
|---|---|---|
| `OutputReader` | `reader.rs`, `output.rs`, posting in `message.rs`, the terminal's output side | |
| `OutputFlow` | the reader with the Dart output stream, subscription and close | `OutputReader` |
| `OutputStream` | abstract: what `PtySession.output` promises | |
| `OutputFlow_proofs` | theorems about `OutputFlow` | `OutputFlow`, `DataInduction`, `TLAPS` |
| `ChildProcess` | `process.rs`, `process_linux.rs`, `WaitState`, the kernel's side | |
| `NativeSession` | `session.rs` and `runtime.rs`: spawn, close, the threads between | `ChildProcess` |
| `DartSession` | `NativeSession.spawn`, `kill`, `write`, `_handleEvent`, `close()` in Dart | `NativeSession` |
| `DartSession_proofs` | theorems about `DartSession` | `DartSession`, `TLAPS` |
| `PtyDescriptors` | several sessions of one process on Linux and the descriptors of its processes | |
| `PtyDescriptors_proofs` | theorems about `PtyDescriptors` | `PtyDescriptors`, `TLAPS` |
| `SpawnConfig` | the environment and the sizes that a spawn is given | |
| `NativeCalls` | calls of several isolates through the bindings: initialisation, spawn, resize, getters, errors | `SpawnConfig` |
| `MCNativeCalls` | the values `NativeCalls` is checked with | `NativeCalls` |
| `NativeCalls_proofs` | theorems about `NativeCalls` | `NativeCalls`, `DataInduction` |
| `WriteQueue` | `writer.rs`, the write half of `fd.rs`, closing | |
| `BytePipe` | abstract: what a session promises of its input | |
| `WriteQueue_proofs` | theorems about `WriteQueue` | `WriteQueue`, `DataInduction` |
| `DataInduction` | lemmas: induction over numbers, flattened sequences, sums over finite sets | `TLAPS` |
| `SessionOptions` | defaults and limits of `abi.rs`, with theorems | `TLAPS` |
| `BuildHook` | `hook/build.dart`, `lib/src/hook/library_provider.dart`, interruptions | |
| `BuildHook_proofs` | theorems about `BuildHook` | `BuildHook`, `TLAPS` |

### OutputReader and OutputFlow

Bytes are named by their position in the child's output and a buffer is the
interval `[lo, hi)` it holds, so that a loss, a repetition or an overtaking is a
gap or an overlap. `rpc` is the reader's place in the code, with a place of its
own wherever the other thread can come in between: `capacity` (the check under
the lock), `entering` (between the check and the wait, where close's
`notify_all`, which does not hold the lock, is missed), `waiting`, `reserve`,
`post`, `release` (a failed post gives its reservation back). `cont` is what
`flush()` returns to. `timer` is `first_pending_at`: `none`, `running`,
`expired`. `Nonblocking` chooses between `read_unix_fd`, which polls, and
`read_blocking`.

In `OutputFlow`, `dpc` is what the isolate's thread is doing, and `closed`,
`flushing` and the three steps of `ptyx_session_close` are visible because the
reader runs between them. `StreamController`, its subscription and the receive
ports belong to the Dart SDK; they are modelled from how the session uses them
(`isPaused` stays true after `resume()` until the buffer is delivered, and only
then does `onResume` run) and marked external in the map.

### ChildProcess, NativeSession, DartSession

`reporter` is how a session learns of the exit: the Linux monitor process with
its pipe, the macOS kqueue watcher, or the plain `wait()`. `child` goes from
`running` to `zombie` to `reaped`, and `pidOwner` says whom its number names
meanwhile. On Linux the child comes about in a handshake of three processes:
the session forks the monitor (`monitor = "forking"`), the monitor forks the
child and reads from a second pipe whether it could exec (`checking`), then
reports that it could not and reaps it (`reaping`), or announces its number
(`announcing`), waits for it (`waiting`) and reports the end (`reporting`). The
session waits for the first message at `npc = "await"`, and for the end of a monitor
that sent none or an error at `reapMonitor`. The monitor may die at any of its steps;
`lost` remembers that it did. `monitorPid` says whom the number of the monitor
names: an embedding host that waits for any child may have reaped it and have
another child (`sibling`) by that number, for which `reap_pid` then waits. The
number of the child may likewise be that of another child of the host when `wait()`
comes to it (a plain `waitpid` by number, `process.rs:337`): it waits for that one and
takes its code for the child's, which `mistaken` remembers and `ExitCodeIsTrue`
excepts. That takes a session without monitor and watcher, a host that reaps any
child, and a number given out again at once; no document rules it out for such a
session.
`status` is how the child ended, by `exit(n)` or by signal `n`, and each reporter
makes an exit code of it in its own way: a child killed by signal 9 is reported
as 137 by the monitor, as 9 by the kqueue watcher, which reads the status as a plain
number, and as 1 by `wait()`. `foreign` is a program with the set-user-ID bit, which
the process may not signal. `npc` is the step of `ptyx_spawn` or `ptyx_close`, `joins` the
threads still to be joined, `then` what follows. The failures a run admits are
the constant `Faults`; each is a branch of the code (a thread that cannot be
created, a failed `kevent`, an `EPERM`, a monitor that dies, a host that reaps). `ModeEvents` is the
set of reporters with which a run has the mode thread.

In `DartSession`, `turn` says whose code the isolate is in: an await gives it
back, a native call keeps it. `cpc` is the place of each call to `close()`.

### PtyDescriptors

`fds` is what each process holds: the host, and per session the monitor and the
child. A fork copies it, an exec drops what is close-on-exec, an exit empties
it; a pipe ends, and a terminal ends, when `Holders` of the other side is empty.
`call` is the thread of a session's `ptyx_spawn` and later `ptyx_close`, and
spawns of several sessions interleave at every step. The runtime's threads are
left out (`DartSession` has them), the waiter is kept because it holds the event
pipe.

### SpawnConfig, NativeCalls

A string is a sequence of bytes of which `=` and `NUL` matter. `Environment` is
the code of Linux, `ApplyEnv` that of the other platforms. They differ: Linux
looks for NUL in what it has built, so that a NUL in a value that a later entry
replaces passes there, which takes two keys that become one because one of them
has `=` in it. `NativeSize` is the 32 bits a Dart integer is stored in, `ToPtySize`
the 16 of a terminal: 2^32 + 24 rows are 24 rows.

`NativeCalls` runs isolates on a pool of threads, each turn of an isolate on one
of them. `turn` is what an isolate is doing, with a place of its own between a
call that has failed and the call that fetches the message, since other isolates
call meanwhile. `lastError` is the thread-local message. `latest` is the size the
terminal was last given, which the read-back is held against.

### WriteQueue

`cpc` is the call in progress. The runtime's lock is held for the whole of a
write and of a close, so there is one at a time, but the writer runs between
its steps: between the two validations of a copied write, and between the end
of an enqueue and its notification. `nonblocking` is the flag of the open file,
which the reader's guard sets when it starts and resets when it ends. `buffer`
says who owns the bytes of an owned write (the caller, the library during the
call, the queue, nobody) and `freed` how often they were freed.

### SessionOptions and BuildHook

`SessionOptions` has no state: `RuntimeConfig` is a function of the options, and
its theorems are what the other modules assume of their constants.

In `BuildHook` a file is named by what is in it: nothing, a part, something with
another hash than the release's, or the library. `pc` has a place wherever an
interruption leaves the files different. `cargo`, the server and `copySync` are
modelled by what the hook sees of them.

## Runs

| Run | Asks | Bounds |
|---|---|---|
| `flow_window` | types, stream, counters, batch sizes, backlog, external bytes | window 2, batch 2, read 2, external limit 2, terminal 2, 7 bytes of output |
| `flow_progress` | close terminates, output arrives, overdue batches leave, refinement of `OutputStream` | window 1, batch 2, 3 bytes |
| `session_safety` | exit codes, nothing left after close | all reporters, all nine faults, codes 0 and 255, one closer, one mode change |
| `session_liveness` | close completes, exit is reported, spawn returns | all reporters, all faults but the mode thread's, the mode thread with one reporter |
| `descriptors` | who holds what, nothing leaked, spawn and close return, terminals end | two sessions, every failure |
| `calls` | own errors, true reads, the environment | two isolates, two threads, one of two ABI versions, five requests, seven sizes, 2^32 scaled to 8 and 2^16 - 1 to 3; maps of up to two entries of six keys and four values, all modes |
| `write_drain` | order, bounds, stranded chunks, buffers freed once, drain, close, refinement of `BytePipe` | queue of 3, chunks of 0, 1, 2 and 4, terminal 2, 5 bytes |
| `build_hook` | only verified files leave the cache, the asset is whole, a hook tried again succeeds | all sources, a target with a hash, any number of hooks and interruptions |
| `stale_signal`, `concurrent_close`, `spawn_hangs`, `write_blocks` | one claim each of a comment, header or doc | as small as the question allows |

Why the bounds are enough. With a window of 2, a batch of 2 and 7 bytes the
window is overrun by a batch, fills, is drained by single acks and fills again;
the backlog of the isolate reaches its bound of 6 and has room to go past it; a
read crosses the end of a batch; the external limit of 2 admits one full batch
and refuses the next until a finalizer has run. For progress a window of
1 is the hardest: each post waits for the ack of the one before. A chunk of 4
is too large for the queue, one of 2 and one of 1 fill it, and a terminal of 2
takes part of what is left. Of the exit codes, 255 is the largest, is told from those of
signals and from the zero of no code at all, and 0 is the success that no killed child
may be taken for. A mode change more only repeats the first. With two
sessions a monitor keeps each kind of descriptor of another session, and with a
third it only keeps more of the same (the invariants are proved for any
number). The sizes are scaled so that each side of both limits, zero, a negative
number and one that the 32 bits cut to a valid one are there; two entries suffice
for one to replace another, since each is put into what was built before. `BuildHook` has finitely many states without a bound.

`build_hook` and `calls` check for deadlock, since another hook can be started and
another call made at any time. The other runs do not: a session that has been closed, an isolate that has exited
and a spawn that has failed have nothing left to do. The liveness properties
say what must happen before.

What each property rules out is in the comment above it; the map of mutants in
`PROJECT.json` gives for each one a plausible mistake that it finds.

### Fairness

- A native thread that can take a step takes one (`WF` of the reader, the
  writer, the waiting threads, the steps of a native call). They are ordinary
  threads, and a mutex nobody holds for ever.
- The isolate's own steps in `OutputFlow` are strongly fair. It contends with
  the reader for the inflight lock, and the reader releases it for up to 10 ms
  every time it finds no credit; messages are taken by an event loop that other
  code returns to.
- In `DartSession`, `HandleEvent` and the steps of `close()` are strongly fair
  for the same reason: the loop is free again and again, not continuously.
  A timer of 50 ms fires.
- The batching delay passes (`DelayElapses`).
- A pending SIGKILL is acted on. A child killed by close lets go of its
  terminal, unless `SlaveKept` says that another process holds it.
- A child that was forked execs or fails to (`ChildExecs`, in `PtyDescriptors`
  `Execs` and `ExecFails`), and its monitor goes on until it has nothing to wait
  for.
- `CloseCompletes`, `ExitIsReported` and `SpawnReturns` except a child that may not
  be signalled and never ends, and another child of the host that has the monitor's
  number and never ends (`Obstructed`). `CallsReturn` and `DescriptorsReleased` except
  another session whose child goes on for ever (`Pinned`): its monitor keeps what
  was open when it was forked.
- A hook that runs goes on. Nobody has to start one, and any of its steps may
  fail or be cut short: `HookRecovers` supposes that it is tried again, and that
  from some moment on the server or the compiler works and nothing interrupts.
- Nothing obliges a child to exit, to write, to read or to heed SIGTERM; nor a
  user to listen, call or close; nor the collector to run a finalizer; nor a
  read to fail. `OutputArrives` and `OverdueBatchIsPosted` suppose that
  somebody goes on listening, `WritesArrive` that the child goes on reading.

## What the violated claims show

| Run | Claim | What happens |
|---|---|---|
| `stale_signal` | `process.rs:3-4`, never signals a stale PID | the child is reaped before its exit is cached, and `kill()` looks at the cache before it signals |
| `concurrent_close` | `lib/src/api/session.dart:95`, close may be called more than once | two calls that overlap in their waits both free the handle |
| `spawn_hangs` | `lib/src/api/session.dart:34` and the test at `session.rs:199` | when the mode thread cannot be made, the clean-up joins the wait thread before anything has killed the child |
| `write_blocks` | `fd.rs:3-4`, reads and writes stay interruptible | close joins the reader first, which makes the descriptor blocking again under the writer |

Two more statements of `include/ptyx.h` are looser than they read, without a run of
their own. Line 214 calls `max_inflight_bytes` the maximum of unacknowledged
bytes, but a whole batch passes when one byte of credit is left: the bound is
`MaxInflight - 1 + BatchMax`, and that is what `InflightBound` states and the
proof shows. Line 210 calls the batching delay a maximum, but the blocking
reader, used where the terminal has no descriptor to poll, looks at it when a read
returns: `OverdueBatchIsPosted` is about the polling reader.

## Proofs

`OutputFlow_proofs` proves, for all sizes of window, batch, read buffer,
terminal and external limit, with or without acknowledgements, external buffers
and a pollable descriptor, from `FlagAssumption` and `SizeAssumption` alone
(flags are Boolean; window, batch, read buffer and terminal hold at least one
byte, which of the first three `ConfigIsSound` proves):

| Theorem | States |
|---|---|
| `TypeCorrect` | `Spec => []TypeOK` |
| `Inductive` | `Spec => []IInv` |
| `StreamIsIntact` | `Spec => []StreamIntact` |
| `InflightIsExact` | `Spec => []InflightExact` |
| `InflightIsBounded` | `Spec => []InflightBound` |
| `BatchesAreBounded` | `Spec => []BatchesFit` |
| `BacklogIsBounded` | `Spec => []IsolateBacklogBound` |
| `ExternalBytesAreExact` | `Spec => []ExternalBytesExact` |
| `PromiseKept` | `Spec => ImplementsOutputStream`: the output path is the stream the API promises |

`SessionOptions` proves, for all options and any address space that can count
the largest queue:

| Theorem | States |
|---|---|
| `ConfigIsSound` | window, batch, read buffer and queue have sizes their threads can work with |
| `ZeroIsTheDefault` | options of zero give the defaults of the header, untouched by the limits |

`BuildHook_proofs` proves `TypeCorrect`, `OnlyVerifiedIsCopied` (`CopiesVerified`) and
`AssetsAreWhole` (`AssetIsWhole`) for every choice of sources, with or without a
hash. The invariant behind them adds that what is renamed was downloaded to its
end (`DownloadInv`), that a download is copied from the cache and what is copied is a
library (`CopyInv`), and that what lies where the library belongs is one unless a
copy is going on or was interrupted (`TargetInv`).

`PtyDescriptors_proofs` proves, for any set of sessions and whichever steps may fail
(`FailureAssumption` only says that those steps have names):

| Theorem | States |
|---|---|
| `TypeCorrect` | `Spec => []TypeOK` |
| `Inductive` | `Spec => []IInv` |
| `ProgramsHoldTheirTerminal` | `Spec => []ProgramHoldsItsTerminal` |
| `NothingLeaks` | `Spec => []HostLeaksNothing` |
| `OverIsOver` | `Spec => []NobodyHoldsWhatIsOver`: when every call has ended and no monitor and no child is left, nobody holds any descriptor |

`HostLeaksNothing` is not inductive: that a failed spawn has nothing left says nothing
about the steps before. `HostInv` gives, for each descriptor of the process, the steps
its call may be at while it is held; for the reading end of the event pipe that is up
to the waiter, whose stages `WaiterInv` ties to those of the call. `DeadInv` says that
processes that are gone hold nothing, which `OverIsOver` needs. What a monitor holds of
other sessions is not bounded by any invariant, and need not be: it is a copy of what
the process had, and only its exit releases it, which is liveness.

The argument for `OutputFlow`. None of the properties is inductive. `StreamIntact` chains
what the listener has, the controller holds, the isolate's queue carries and
the reader keeps. A cancel empties the controller's buffer in the middle of the
chain, so `ListenerInv` is needed (a cancelled subscription holds nothing). After
the done event no message may follow, so `InboxInv` is (a "closed" message is the
last, and the reader has ended), and it rests on `PortInv`. The next read must not
begin before the last one has been taken: `DataInv`.

`InflightExact` would hold by arithmetic if the native side subtracted what it is
told, but it subtracts with saturation: that nothing saturates needs the acks
that are still pending to be chunks that were posted and not yet acknowledged,
which is `AckInv`, a second chain along the same stream. `InflightBound` needs two
more: `CreditInv` (credit seen under the lock is credit left when it is reserved,
because only acks happen in between) and `BatchInv` (only a reader stopped while it
waited for credit holds more than a batch, and it posts nothing any more).

`IsolateBacklogBound` adds the window twice, so it needs to know that what was
acknowledged and not yet received is within one (`BacklogInv`). An ack outside a
flush is made when the controller is empty, and a flush that follows a pause
begins when the buffer has been delivered; only the flush of the first listen
finds a full buffer, and before it nothing was acknowledged.

`ExternalBytesExact` equates a counter with a sum over a set. What is posted adds to
the sum only if no peer alive is equal to it, and that holds because a peer ends
where the stream was when it was posted (`PeersInv`) and a batch in hand is not
empty. The sum itself is `MapThenSumSet`, a recursion over sets: that its value
does not depend on the order in which members are taken is `SumAdds` of
`DataInduction`.

For `PromiseKept` a step of the output path is mapped to a step of `OutputStream`.
The listener never has more than was written (`ReachInv`), so whatever adds to
`received` is `Deliver`. The done event is `End`, and `End` asks that nothing be left:
the event is the last of the controller and of the queue (`DoneInv`, `InboxInv`), and
a reader that has left was stopped, failed, or has found the terminal closed and
empty and posted all it had (`EndInv`). A child writing on after that would break
`Write`; it cannot, because then its terminal is closed. What cuts the stream short
does so for good (`CutStays`).

Each part has a step lemma that names the parts it uses; steps that leave the
part's variables alone are dispatched together, the others one by one. The
lemmas about chains (`ChainedAppend`, `ChainedTail`, `ControllerFed`,
`ControllerDrained`) carry the reasoning about sequences.

`WriteQueue_proofs` proves, for every limit, set of chunk lengths and terminal
(`SizeAssumption`: they are natural numbers, and the terminal holds a byte):

| Theorem | States |
|---|---|
| `TypeCorrect`, `Inductive` | `Spec => []TypeOK`, `Spec => []IInv` |
| `OrderKept` | `Spec => []BytesInOrder` |
| `QueueWithinLimit` | `Spec => []QueueBounded` |
| `NothingStranded` | `Spec => []NoChunkStranded` |
| `BufferOwned` | `Spec => []BufferFreedOnce` |
| `WriterIsHeard` | `Spec => []WriterEndsLoudly` |
| `PipeImplemented` | `Spec => ImplementsBytePipe` |

What was written, what the writer holds and what is queued form one line of
bytes (`LineInv`), which a dequeue and a write only divide anew, an enqueue extends
by the next numbers and a failure or a close cuts at a point behind what was
written. `QueueInv` says when the queue must be empty: a writer that has posted
its failure, or has never run, leaves nothing behind it, though a write is
validated, copied and validated again while the writer fails. `ChunkInv`, `ErrorInv` and
`BufferInv` give what the writer holds, whether it has reported, and who owns the
buffer, each by the step. The refinement follows from the line: a write to the
terminal delivers the next numbers, a cut breaks the pipe and loses a tail.

`DataInduction` holds what the proofs need of recursive definitions. The library's
induction theorems take an operator, which no prover here can instantiate, so
the principle is stated about sets: a set of numbers with 0 and with the successor of
each member is `Nat`, by the least number of its complement. From it follow what
`FlattenSeq` makes of an empty sequence, of an appended chunk and of a tail, and what a
sum over a finite set is and how it grows by a member.

`DartSession_proofs` proves, for every set of reporters, faults and callers of close and
for exit codes of 8 bits (`FaultAssumption`; the kernel keeps no more):

| Theorem | States |
|---|---|
| `TypeCorrect` | `Spec => []TypeOK` |
| `CodesAreTheChilds` | `Spec => []ExitCodeIsTrue` |
| `ThreadsHaveEnded` | `Spec => []NothingRunsAfterClose` |
| `NothingIsLeftBehind` | `Spec => []NoProcessLeft` |

`MonitorInv` ties the child to the step of the monitor, its parent; `WaiterInv` says that a
waiter with a code in its hands finds the child reaped, or has reaped the monitor that had;
`TrueInv` that the code is true at each place it passes on its way to the future, the
pipe, the cache and the event queue, unless `wait()` was told of another child, which
it is once and for all (`MistakeStays`). `ThreadInv` says, for each step of the call in
progress, which threads may run, and that those not yet joined are in `joins`; `CallInv`
why the call joins (a close, or a spawn that failed), `HandleInv` when the isolate may
use the handle. Without the 8 bits `ExitCodeIsTrue` is not inductive: the monitor's 128 + n
for a signal and the kqueue watcher's plain status would be confused with larger codes.
The step lemmas go through twelve groups of steps (`AnyStep`).

`NativeCalls_proofs` proves, for any isolates, threads, requests, sizes, names, keys, values
and parent environments (`GivenAssumption`: a size is a pair of integers, the program's
own ones have 16 bits; `StringAssumption`: keys and values are strings; `ParentAssumption`:
the environment of the process has C strings and no empty name, which is what
`std::env::vars_os` returns):

| Theorem | States |
|---|---|
| `TypeCorrect` | `Spec => []TypeOK` |
| `ErrorsAreOwn` | `Spec => []ErrorIsOwn` |
| `ReadsTellTheTruth` | `Spec => ReadsAreTrue` |
| `EnvironmentAsAsked` | `Spec => []EnvironmentIsAsAsked`, which speaks of maps of up to two entries |
| `EnvironmentOfAnyMap` | the same for maps of any length |

A step belongs to one isolate and writes no error but that of the thread it is on
(`Others`); no two turns share a thread (`Apart`); so what a failed call has left in its
thread is still there when the message is fetched, although the isolate gave
nothing back in between and other isolates went on. A size that is accepted has not been
changed by its way through 32 and 16 bits (`AcceptedSize`).

The environment is a fold over the strings that the map became. `EnvPrefix` turns the
fold into steps, one string each. With keys that differ and hold no `=`, a string
comes apart into the entry it was made of (`ItemParts`), and after n steps the first n
entries are in, and what the base had under other keys is as it was (`Holds`); at the
end that is what `Asked` says, and a NUL can only be in an entry, so that searching the
result (Linux) refuses what searching the strings (elsewhere) refuses. For keys with
`=` all that remains is where each key and value came from (`From`), which is enough
for what is accepted to be free of empty keys and of NULs.

Only model-checked: the liveness properties (fairness and ENABLED are beyond the
prover): `CloseTerminates`, `OutputArrives`, `OverdueBatchIsPosted`, `CloseCompletes`,
`ExitIsReported`, `SpawnReturns`, `CallsReturn`, `DescriptorsReleased`, `WritesArrive`,
`CloseReturns`, `HookRecovers`. Every invariant, action property and refinement that a passing
run checks is stated by a theorem.

## Not modelled

- Windows: other system calls behind the same structure, and its own ways of
  ending a process.
- Lock poisoning and failed allocations: the first follows a panic, the second
  ends the process or is an early return of the copy in `writer.rs`, which is
  there.
- The steps of `exec_child` between the fork and the exec, beyond whether they
  succeed; in `PtyDescriptors`, the case of a host that has closed its standard
  descriptors, so that a pipe gets the number of one.
- Descriptors between their opening and their close-on-exec flag: `openpty` of
  the `portable_pty` crate sets it afterwards, and a program that another part of
  the host starts in between inherits the terminal. That crate is not in this
  repository.
- A panic inside `ptyx_spawn` after the child has been started: the status comes
  back (`NativeCalls`), and what is left of the session is not followed.
- Null pointers, invalid UTF-8 and unknown flags, which `abi.rs` refuses and the
  Dart side never passes; which bits of a mode are valid.
- What the host makes of it when the status of its own child was taken by `reap_pid`,
  by `wait()` or by the `try_wait` after the kqueue watcher.
- A number that is given out again more than once, to a stranger or to another child of
  the host, while a session holds it (`spent` is a number after its second owner).
- Of the build hook: toolchains and target triples, and whether a library that is
  there is older than its sources. A hook interrupted in its copy leaves a part
  of a library, which the later ones take for the whole: `AssetIsWhole` excepts it.
  Nothing is synced to the disk, so after a loss of power a file that was renamed or
  copied may be torn; an interruption is that of the hook alone.
- Off Linux, the environment that the `CommandBuilder` of the `portable_pty` crate starts
  from and what it makes of the variables it is given: it is not in this repository, and
  `ApplyEnv` takes the first for the environment of the process.
- Formatting, logging, error texts, the layout of messages.
- What an overlapping second `close()` does with the handle after the first has
  freed it is undefined; the model stops that call there.

## Plan

Done: `OutputReader`, `OutputStream`, `OutputFlow`, `OutputFlow_proofs`; `ChildProcess`,
`NativeSession`, `DartSession`, `DartSession_proofs`; `BytePipe`, `WriteQueue` with the
owned buffers, `WriteQueue_proofs`, `DataInduction`; `SessionOptions` with its theorems;
`BuildHook`, `BuildHook_proofs`; `PtyDescriptors`, `PtyDescriptors_proofs`; `SpawnConfig`,
`NativeCalls`, `NativeCalls_proofs`. Both abstract specifications are shown to be
implemented for all sizes.

Next, in this order:

1. Action properties of `DartSession`, such as that an exit code, once cached, is never
   replaced, from the invariant that is there.
2. Versions of the sources in `BuildHook`: a library that is already there is taken
   as it is when the hook runs again because its sources have changed.
