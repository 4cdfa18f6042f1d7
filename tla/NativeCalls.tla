----------------------------- MODULE NativeCalls -----------------------------
(***************************************************************************)
(* The calls that the isolates of one process make into the native library *)
(* (lib/src/bindings, lib.rs, abi.rs): how it is initialised, what becomes *)
(* of the values that cross the border, and how an error comes back, as a  *)
(* status and, later in the same turn of the isolate, a message that is    *)
(* kept for the thread.                                                    *)
(***************************************************************************)
EXTENDS SpawnConfig

CONSTANTS
  Isolates, Threads, \* an isolate runs each of its turns on a thread of a pool
  Requests, Sizes,   \* options of a spawn, and sizes to change to
  ProgramSizes,      \* sizes that a program may give its own terminal
  TtyNames,
  Majors, AbiMajor,  \* ABI versions a library may have, and the expected one
  MayFail            \* a subset of Failures

Failures == {"initialize", "openpty", "panic", "resize", "termios"}

ASSUME CallsAssumption == MayFail \subseteq Failures /\ AbiMajor \in Majors
(* A caller may ask for a size of any Dart integers; a terminal has one in *)
(* 16 bits.                                                                *)
ASSUME GivenAssumption ==
  /\ \A request \in Requests : request.size \in [Dimensions -> Int]
  /\ Sizes \subseteq [Dimensions -> Int] /\ ProgramSizes \subseteq [Dimensions -> 0..Max16]
  /\ TtyNames \subseteq Seq(Bytes)

VARIABLES
  initialized,     \* DART_INITIALIZED, of the process
  dartInitialized, \* _dartInitialized, of each isolate
  major,           \* ptyx_abi_version_major of the library that was loaded
  turn,            \* what each isolate is doing
  lastError,       \* LAST_ERROR of each thread
  session,         \* the native session of each isolate
  latest           \* the size the terminal was last given, as it was given

vars == <<initialized, dartInitialized, major, turn, lastError, session, latest>>
global == <<initialized, dartInitialized, major>>
owned == <<session, latest>>

NoError == [kind |-> "none", text |-> "none"]
Error(kind, text) == [kind |-> kind, text |-> text]
NoSession == [size |-> <<>>, tty |-> <<>>]
Idle == [stage |-> "idle"]

Init ==
  /\ initialized = FALSE
  /\ dartInitialized = [i \in Isolates |-> FALSE]
  /\ major \in Majors
  /\ turn = [i \in Isolates |-> Idle]
  /\ lastError = [t \in Threads |-> NoError]
  /\ session = [i \in Isolates |-> NoSession]
  /\ latest = [i \in Isolates |-> <<>>]

(***************************************************************************)
(* A turn of an isolate calls one operation of a session.  thrown is what  *)
(* its caller gets, result what an operation returns.                      *)
(***************************************************************************)
Begin(i, op, given, stage) ==
  \E t \in Threads :
    /\ turn[i] = Idle
    /\ \A j \in Isolates : turn[j] # Idle => turn[j].thread # t
    /\ turn' = [turn EXCEPT ![i] =
         [stage |-> stage, op |-> op, given |-> given, thread |-> t, error |-> NoError, result |-> <<>>]]

At(i, stage) == turn[i].stage = stage
Returns(i, result) == turn' = [turn EXCEPT ![i].stage = "returned", ![i].result = result]

(* Mutant of Cell: one LAST_ERROR for all threads.                         *)
OneCell(t) == CHOOSE u \in Threads : TRUE

(* thread_local!                                                           *)
Cell(t) == t

(* ffi_status, with an error and without.                                  *)
Fails(i, error) ==
  /\ lastError' = [lastError EXCEPT ![Cell(turn[i].thread)] = error]
  /\ turn' = [turn EXCEPT ![i].stage = "failed", ![i].error = error]
Succeeds(i) == lastError' = [lastError EXCEPT ![Cell(turn[i].thread)] = NoError]

(* exceptionFromStatus: the class is that of the status, the text that of  *)
(* the thread.                                                             *)
Class(kind) ==
  CASE kind = "Unsupported" -> "PtyUnsupportedException"
    [] kind = "Closed" -> "PtyClosedException"
    [] OTHER -> "PtyException"
CheckStatus(i) ==
  /\ At(i, "failed")
  /\ turn' = [turn EXCEPT ![i].stage = "thrown",
       ![i].result = [class |-> Class(turn[i].error.kind), text |-> lastError[Cell(turn[i].thread)].text]]
  /\ UNCHANGED <<global, lastError, owned>>

(***************************************************************************)
(* NativeSession.spawn: ensureDartInitialized, the ports, ptyx_spawn.      *)
(***************************************************************************)
BeginSpawn(i, request) ==
  /\ session[i] = NoSession
  /\ IF dartInitialized[i] THEN Begin(i, "spawn", request, "spawn")
     ELSE IF major = AbiMajor THEN Begin(i, "spawn", request, "initialize")
     ELSE Begin(i, "spawn", request, "mismatch")
  /\ UNCHANGED <<global, lastError, owned>>

(* _checkNativeAbi throws without a native call.                           *)
Mismatch(i) ==
  /\ At(i, "mismatch")
  /\ turn' = [turn EXCEPT ![i].stage = "thrown", ![i].error = Error("Error", "mismatch"),
                          ![i].result = [class |-> "PtyException", text |-> "mismatch"]]
  /\ UNCHANGED <<global, lastError, owned>>

PtyxInit(i) ==
  /\ At(i, "initialize")
  /\ \/ /\ initialized' = TRUE
        /\ dartInitialized' = [dartInitialized EXCEPT ![i] = TRUE]
        /\ Succeeds(i) /\ turn' = [turn EXCEPT ![i].stage = "spawn"]
     \/ /\ "initialize" \in MayFail
        /\ Fails(i, Error("NativeError", "initialize")) /\ UNCHANGED <<initialized, dartInitialized>>
  /\ UNCHANGED <<major, owned>>

SpawnError(i, request) ==
  IF ~initialized THEN {Error("InvalidArgument", "uninitialized")}
  ELSE IF ConfigRefused(request) THEN {Error("InvalidArgument", "options")}
  ELSE {Error("SpawnFailed", text) : text \in MayFail \intersect {"openpty"}}
       \union {Error("NativeError", text) : text \in MayFail \intersect {"panic"}}
       \union IF SpawnRequestRefused(request, Parent) THEN {Error("InvalidArgument", "options")}
              ELSE {NoError}

PtyxSpawn(i) ==
  /\ At(i, "spawn")
  /\ \E error \in SpawnError(i, turn[i].given) :
       IF error = NoError
       THEN /\ \E name \in TtyNames :
                 session' = [session EXCEPT ![i] =
                   [size |-> ToPtySize(NativeSize(turn[i].given.size)).value, tty |-> name]]
            /\ latest' = [latest EXCEPT ![i] = turn[i].given.size]
            /\ Succeeds(i) /\ Returns(i, <<>>)
       ELSE Fails(i, error) /\ UNCHANGED owned
  /\ UNCHANGED global

(***************************************************************************)
(* Operations of a session                                                 *)
(***************************************************************************)
BeginCall(i, op, given) ==
  /\ session[i] # NoSession
  /\ Begin(i, op, given, op)
  /\ UNCHANGED <<global, lastError, owned>>

PtyxResize(i) ==
  /\ At(i, "resize")
  /\ LET size == ToPtySize(NativeSize(turn[i].given)) IN
     \/ /\ size.ok
        /\ session' = [session EXCEPT ![i].size = size.value]
        /\ latest' = [latest EXCEPT ![i] = turn[i].given]
        /\ Succeeds(i) /\ Returns(i, <<>>)
     \/ /\ ~size.ok /\ Fails(i, Error("InvalidArgument", "options"))
        /\ UNCHANGED owned
     \/ /\ size.ok /\ "resize" \in MayFail /\ Fails(i, Error("NativeError", "resize"))
        /\ UNCHANGED owned
  /\ UNCHANGED global

PtyxGetSize(i) ==
  /\ At(i, "size")
  /\ Succeeds(i) /\ Returns(i, session[i].size)
  /\ UNCHANGED <<global, owned>>

(* Where there is no mode the status is UNSUPPORTED, and mode is null.     *)
PtyxGetTermMode(i) ==
  /\ At(i, "mode")
  /\ \/ Succeeds(i) /\ Returns(i, <<"mode">>)
     \/ /\ "termios" \in MayFail
        /\ lastError' = [lastError EXCEPT ![Cell(turn[i].thread)] = Error("Unsupported", "termios")]
        /\ Returns(i, <<>>)
  /\ UNCHANGED <<global, owned>>

(* fill_string                                                             *)
RequiredLength(name) == Len(name) + 1

(* sessionTtyName asks for the length, and then for as many bytes, of      *)
(* which the last is the NUL.                                              *)
AskLength(i) ==
  /\ At(i, "ttyName")
  /\ lastError' = [lastError EXCEPT ![Cell(turn[i].thread)] = Error("BufferTooSmall", "buffer")]
  /\ turn' = [turn EXCEPT ![i].stage = "fill", ![i].given = RequiredLength(session[i].tty)]
  /\ UNCHANGED <<global, owned>>

Fill(i) ==
  /\ At(i, "fill")
  /\ LET length == turn[i].given IN
     IF length < RequiredLength(session[i].tty) THEN Fails(i, Error("BufferTooSmall", "buffer"))
     ELSE Succeeds(i) /\ Returns(i, SubSeq(session[i].tty, 1, length - 1))
  /\ UNCHANGED <<global, owned>>

Ends(i) ==
  /\ turn[i].stage \in {"returned", "thrown"}
  /\ turn' = [turn EXCEPT ![i] = Idle]
  /\ UNCHANGED <<global, lastError, owned>>

(* ptyx_close has no status, and leaves LAST_ERROR alone.                  *)
Close(i) ==
  /\ turn[i] = Idle /\ session[i] # NoSession
  /\ session' = [session EXCEPT ![i] = NoSession]
  /\ latest' = [latest EXCEPT ![i] = <<>>]
  /\ UNCHANGED <<global, turn, lastError>>

(* A program may give its terminal another size.                           *)
ProgramResizes(i, size) ==
  /\ session[i] # NoSession
  /\ session' = [session EXCEPT ![i].size = size]
  /\ latest' = [latest EXCEPT ![i] = size]
  /\ UNCHANGED <<global, turn, lastError>>

Step(i) ==
  \/ \E request \in Requests : BeginSpawn(i, request)
  \/ Mismatch(i) \/ PtyxInit(i) \/ PtyxSpawn(i)
  \/ \E size \in Sizes : BeginCall(i, "resize", size)
  \/ \E op \in {"size", "mode", "ttyName"} : BeginCall(i, op, <<>>)
  \/ PtyxResize(i) \/ PtyxGetSize(i) \/ PtyxGetTermMode(i) \/ AskLength(i) \/ Fill(i)
  \/ CheckStatus(i) \/ Ends(i) \/ Close(i)
  \/ \E size \in ProgramSizes : ProgramResizes(i, size)

Next == \E i \in Isolates : Step(i)

Spec == Init /\ [][Next]_vars

(***************************************************************************)
(* Properties                                                              *)
(***************************************************************************)

(* Every variable holds a value of its type; a size is one that a terminal *)
(* can have.                                                               *)
TypeOK ==
  /\ initialized \in BOOLEAN /\ dartInitialized \in [Isolates -> BOOLEAN] /\ major \in Majors
  /\ \A i \in Isolates :
       turn[i].stage \in {"idle", "initialize", "mismatch", "spawn", "resize", "size", "mode", "ttyName",
                         "fill", "returned", "failed", "thrown"}
  /\ \A i \in Isolates : session[i] # NoSession =>
       session[i].size \in [Dimensions -> 0..Max16] /\ session[i].tty \in TtyNames
  /\ \A t \in Threads : DOMAIN lastError[t] = {"kind", "text"}

(* The exception that a caller gets tells of its own call, whatever the    *)
(* other isolates call meanwhile and whatever the thread had before: the   *)
(* message is read after the call has returned (bindings/status.dart 8-11, *)
(* 40-50, abi.rs 240-296).                                                 *)
ErrorIsOwn ==
  \A i \in Isolates : At(i, "thrown") =>
    turn[i].result = [class |-> Class(turn[i].error.kind), text |-> turn[i].error.text]

(* Whatever environment an isolate asks for in a spawn, the child gets the *)
(* one that its mode says, or the spawn is refused where an entry that     *)
(* counts has an empty key or a NUL, on every platform; and whatever the   *)
(* keys are, "=" among them, no environment that is accepted has an empty  *)
(* key or a NUL in it (options.dart 3-21, 61-76).                          *)
EnvironmentIsAsAsked == \A i \in Isolates : At(i, "spawn") => EveryEnvironment

(* What is read back is what there is: the size that was last accepted,    *)
(* from spawn, resize or the program itself, in the 32 bits that cross the *)
(* border, and the whole name of the terminal (abi.rs 173-182, 638-687).   *)
ReadsAreTrue ==
  [][\A i \in Isolates :
       /\ At(i, "size") /\ At(i, "returned")' => turn'[i].result = NativeSize(latest[i])
       /\ At(i, "fill") /\ ~At(i, "fill")' =>
            At(i, "returned")' /\ turn'[i].result = session[i].tty
    ]_vars
=============================================================================
