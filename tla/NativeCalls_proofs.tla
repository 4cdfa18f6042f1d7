-------------------------- MODULE NativeCalls_proofs --------------------------
(***************************************************************************)
(* NativeCalls for every number of isolates and threads, every request and *)
(* every size: an error is its caller's own, what is read back is what     *)
(* there is, and a child's environment is what was asked for.              *)
(*                                                                         *)
(* A step is one isolate's: it leaves the turns and sessions of the others *)
(* alone, and the errors of their threads (Others), because two turns do   *)
(* not share a thread (Apart).  So it is enough to look at the isolate     *)
(* that moves (OwnStep).                                                   *)
(***************************************************************************)
EXTENDS NativeCalls, DataInduction

Stages == {"initialize", "mismatch", "spawn", "resize", "size", "mode", "ttyName", "fill",
           "returned", "failed", "thrown"}
Fields == {"stage", "op", "given", "thread", "error", "result"}

Busy(i) == turn[i] # Idle

(* Every turn is idle or has all its parts; what it was given is what the  *)
(* operation takes, and it has the session that it uses.                   *)
TurnOK(i) ==
  Busy(i) =>
    /\ DOMAIN turn[i] = Fields /\ turn[i].stage \in Stages /\ turn[i].thread \in Threads
    /\ turn[i].stage \in {"initialize", "spawn"} => turn[i].given \in Requests
    /\ turn[i].stage = "resize" => turn[i].given \in Sizes
    /\ turn[i].stage \in {"resize", "size", "mode", "ttyName", "fill"} => session[i] # NoSession
    /\ turn[i].stage = "fill" => turn[i].given = RequiredLength(session[i].tty)

(* A terminal has the size it was last given.                              *)
SessionOK(i) ==
  session[i] # NoSession =>
    /\ DOMAIN session[i] = {"size", "tty"}
    /\ session[i].size \in [Dimensions -> 0..Max16] /\ session[i].tty \in TtyNames
    /\ session[i].size = NativeSize(latest[i])

IsError(e) == DOMAIN e = {"kind", "text"}

(* An error that a call of i has reported is still its thread's when i     *)
(* asks for the message, and the one that is thrown is made of it.         *)
ErrorOK(i) ==
  /\ At(i, "failed") => lastError[turn[i].thread] = turn[i].error
  /\ At(i, "thrown") =>
       turn[i].result = [class |-> Class(turn[i].error.kind), text |-> turn[i].error.text]

(* Two turns do not share a thread.                                        *)
Apart == \A i, j \in Isolates : i # j /\ Busy(i) /\ Busy(j) => turn[i].thread # turn[j].thread

Shape ==
  /\ initialized \in BOOLEAN /\ dartInitialized \in [Isolates -> BOOLEAN] /\ major \in Majors
  /\ DOMAIN turn = Isolates /\ DOMAIN session = Isolates /\ DOMAIN latest = Isolates
  /\ DOMAIN lastError = Threads /\ \A t \in Threads : IsError(lastError[t])

IInv ==
  /\ Shape /\ Apart
  /\ \A i \in Isolates : TurnOK(i) /\ SessionOK(i) /\ ErrorOK(i)

(***************************************************************************)
(* Sizes                                                                   *)
(***************************************************************************)
(* A remainder is less than the modulus, and a smaller number is its own.  *)
LEMMA Remainder ==
  ASSUME NEW a \in Int, NEW m \in Nat, m # 0
  PROVE  a % m \in 0..(m - 1) /\ (a \in 0..(m - 1) => a % m = a)
  OBVIOUS

(* What crosses the border has 32 bits; a size of 16 bits is not changed.  *)
LEMMA Crossing ==
  /\ \A size \in [Dimensions -> Int] : NativeSize(size) \in [Dimensions -> Nat]
  /\ \A size \in [Dimensions -> 0..Max16] : NativeSize(size) = size
<1>1. Mod32 \in Nat /\ Mod32 # 0 /\ Max16 \in Nat /\ Max16 < Mod32
  BY WidthAssumption
<1>2. ASSUME NEW size \in [Dimensions -> Int], NEW d \in Dimensions
      PROVE  size[d] % Mod32 \in Nat /\ (size[d] \in 0..Max16 => size[d] % Mod32 = size[d])
  <2> DEFINE a == size[d]
  <2>1. a \in Int
    BY <1>2
  <2>2. a % Mod32 \in 0..(Mod32 - 1) /\ (a \in 0..(Mod32 - 1) => a % Mod32 = a)
    <3> HIDE DEF a
    <3> QED
      BY <1>1, <2>1, Remainder
  <2>3. \A b \in 0..(Mod32 - 1) : b \in Nat
    BY <1>1
  <2>4. a \in 0..Max16 => a \in 0..(Mod32 - 1)
    BY <1>1
  <2> QED
    BY <2>2, <2>3, <2>4
<1> QED
  BY <1>1, <1>2 DEF NativeSize

(* A size that is accepted fits the terminal, and is the one given.        *)
LEMMA AcceptedSize ==
  ASSUME NEW size \in [Dimensions -> Int], ToPtySize(NativeSize(size)).ok
  PROVE  /\ ToPtySize(NativeSize(size)).value = NativeSize(size)
         /\ NativeSize(size) \in [Dimensions -> 0..Max16]
<1>1. NativeSize(size) \in [Dimensions -> Nat]
  BY Crossing
<1>2. /\ ToPtySize(NativeSize(size)) = Accepted(NativeSize(size))
      /\ \A d \in Dimensions : ~(NativeSize(size)[d] > Max16)
  BY DEF ToPtySize, Refused, Accepted
<1> QED
  BY <1>1, <1>2, WidthAssumption DEF Accepted

(***************************************************************************)
(* The steps                                                               *)
(***************************************************************************)
(* The step of one isolate leaves the others' turn and session alone, and  *)
(* writes the error of no thread but its own.                              *)
LEMMA Others ==
  ASSUME IInv, NEW i \in Isolates, Step(i)
  PROVE  /\ \A j \in Isolates \ {i} :
              turn'[j] = turn[j] /\ session'[j] = session[j] /\ latest'[j] = latest[j]
         /\ \A t \in Threads : (Busy(i) => t # turn[i].thread) => lastError'[t] = lastError[t]
  BY DEF IInv, Shape, Step, global, owned, Begin, At, Returns, Fails, Succeeds, Cell, BeginSpawn, Mismatch,
     PtyxInit, PtyxSpawn, BeginCall, PtyxResize, PtyxGetSize, PtyxGetTermMode, AskLength, Fill, CheckStatus,
     Ends, Close, ProgramResizes, Busy, Idle

(* The errors that a spawn may end with have their two parts.              *)
LEMMA SpawnErrors == \A i, request : \A e \in SpawnError(i, request) : IsError(e)
  BY DEF SpawnError, Error, NoError, IsError

(* All of a sequence is the sequence.                                      *)
LEMMA WholeSeq == ASSUME NEW S, NEW s \in Seq(S) PROVE SubSeq(s, 1, Len(s)) = s
  OBVIOUS

(* What is spawned has a size that a terminal can have.                    *)
LEMMA SpawnAccepted ==
  ASSUME NEW i, NEW request, NoError \in SpawnError(i, request)
  PROVE  ToPtySize(NativeSize(request.size)).ok
  BY DEF SpawnError, Error, NoError, ConfigRefused

(* Every variable keeps its shape.                                         *)
LEMMA ShapeStep == ASSUME IInv, NEW i \in Isolates, Step(i) PROVE Shape'
<1> USE DEF IInv, Shape, global, owned, Begin, At, Returns, Fails, Succeeds, Cell
<1>1. \A k, u : IsError(Error(k, u)) /\ IsError(NoError)
  BY DEF IsError, Error, NoError
<1>2. UNCHANGED major /\ initialized' \in BOOLEAN /\ dartInitialized' \in [Isolates -> BOOLEAN]
  BY DEF Step, BeginSpawn, Mismatch, PtyxInit, PtyxSpawn, BeginCall, PtyxResize, PtyxGetSize,
     PtyxGetTermMode, AskLength, Fill, CheckStatus, Ends, Close, ProgramResizes
<1>3. DOMAIN turn' = Isolates /\ DOMAIN session' = Isolates /\ DOMAIN latest' = Isolates
      /\ DOMAIN lastError' = Threads
  BY DEF Step, BeginSpawn, Mismatch, PtyxInit, PtyxSpawn, BeginCall, PtyxResize, PtyxGetSize,
     PtyxGetTermMode, AskLength, Fill, CheckStatus, Ends, Close, ProgramResizes
<1>4. \A t \in Threads : IsError(lastError'[t])
  BY <1>1, SpawnErrors DEF Step, BeginSpawn, Mismatch, PtyxInit, PtyxSpawn, BeginCall, PtyxResize,
     PtyxGetSize, PtyxGetTermMode, AskLength, Fill, CheckStatus, Ends, Close, ProgramResizes
<1> QED
  BY <1>2, <1>3, <1>4

(* A turn that begins takes a thread that no other turn has; until it ends *)
(* it stays on it.                                                         *)
LEMMA ApartStep == ASSUME IInv, NEW i \in Isolates, Step(i) PROVE Apart'
<1> USE DEF IInv, Shape, global, owned, At
<1>1. \A j \in Isolates \ {i} : turn'[j] = turn[j]
  BY Others
<1>2. CASE Busy(i)
  <2>1. turn'[i] = Idle \/ turn'[i].thread = turn[i].thread
    BY <1>2 DEF Step, Begin, Returns, Fails, Succeeds, Cell, BeginSpawn, Mismatch, PtyxInit, PtyxSpawn,
       BeginCall, PtyxResize, PtyxGetSize, PtyxGetTermMode, AskLength, Fill, CheckStatus, Ends, Close,
       ProgramResizes, Busy, Idle, TurnOK, Fields
  <2> QED
    BY <1>1, <1>2, <2>1 DEF Apart, Busy
<1>3. CASE ~Busy(i)
  <2>1. turn'[i] = Idle \/ \A j \in Isolates : Busy(j) => turn[j].thread # turn'[i].thread
    BY <1>3 DEF Step, Begin, Returns, Fails, Succeeds, Cell, BeginSpawn, Mismatch, PtyxInit, PtyxSpawn,
       BeginCall, PtyxResize, PtyxGetSize, PtyxGetTermMode, AskLength, Fill, CheckStatus, Ends, Close,
       ProgramResizes, Busy, Idle
  <2> QED
    BY <1>1, <2>1 DEF Apart, Busy
<1> QED
  BY <1>2, <1>3

(* What the isolate that moves has afterwards.                             *)
LEMMA OwnStep == ASSUME IInv, NEW i \in Isolates, Step(i) PROVE TurnOK(i)' /\ SessionOK(i)' /\ ErrorOK(i)'
<1>i. /\ TurnOK(i) /\ SessionOK(i) /\ ErrorOK(i)
      /\ DOMAIN turn = Isolates /\ DOMAIN session = Isolates /\ DOMAIN latest = Isolates
      /\ DOMAIN lastError = Threads
  BY DEF IInv, Shape
<1>b. \A s \in Stages : At(i, s) => Busy(i)
  BY DEF At, Busy, Idle, Stages
<1>t. Busy(i) => turn[i].thread \in Threads
  BY <1>i DEF TurnOK
<1> USE DEF TurnOK, SessionOK, ErrorOK, Stages, Fields, Busy, At, Idle, global, owned
<1>1. CASE \E request \in Requests : BeginSpawn(i, request)
  BY <1>1, <1>i, <1>b, <1>t DEF BeginSpawn, Begin
<1>2. CASE Mismatch(i)
  <2>1. Class("Error") = "PtyException"
    BY DEF Class
  <2> QED
    BY <1>2, <1>i, <1>b, <1>t, <2>1 DEF Mismatch, Error
<1>3. CASE PtyxInit(i)
  BY <1>3, <1>i, <1>b, <1>t DEF PtyxInit, Fails, Succeeds, Cell
<1>4. CASE PtyxSpawn(i)
  <2> DEFINE given == turn[i].given
             size == given.size
  <2>1. turn[i].stage = "spawn" /\ Busy(i)
    BY <1>4, <1>b DEF PtyxSpawn
  <2>2. given \in Requests
    BY <1>i, <2>1
  <2>3. size \in [Dimensions -> Int]
    BY <2>2, GivenAssumption
  <2>4. PICK error \in SpawnError(i, given) :
          IF error = NoError
          THEN /\ \E name \in TtyNames : session' = [session EXCEPT ![i] =
                     [size |-> ToPtySize(NativeSize(size)).value, tty |-> name]]
               /\ latest' = [latest EXCEPT ![i] = size]
               /\ Returns(i, <<>>)
          ELSE Fails(i, error) /\ UNCHANGED owned
    BY <1>4 DEF PtyxSpawn
  <2>5. CASE error = NoError
    <3>1. ToPtySize(NativeSize(size)).ok
      BY <2>4, <2>5, SpawnAccepted
    <3>2. /\ ToPtySize(NativeSize(size)).value = NativeSize(size)
          /\ NativeSize(size) \in [Dimensions -> 0..Max16]
      BY <2>3, <3>1, AcceptedSize
    <3> QED
      <4>1. PICK name \in TtyNames : session'[i] = [size |-> NativeSize(size), tty |-> name]
        BY <2>4, <2>5, <3>2, <1>i
      <4>2. latest'[i] = size
        BY <2>4, <2>5, <1>i
      <4>3. SessionOK(i)'
        <5> HIDE DEF size
        <5> QED
          BY <3>2, <4>1, <4>2
      <4>4. turn'[i].stage = "returned" /\ DOMAIN turn'[i] = Fields /\ turn'[i].thread = turn[i].thread
        BY <2>1, <2>4, <2>5, <1>i DEF Returns
      <4> QED
        BY <4>3, <4>4, <1>t, <2>1
  <2>6. CASE error # NoError
    BY <2>1, <2>4, <2>6, <1>i, <1>t DEF Fails, Cell
  <2> QED
    BY <2>5, <2>6
<1>5. CASE (\E size \in Sizes : BeginCall(i, "resize", size))
           \/ \E op \in {"size", "mode", "ttyName"} : BeginCall(i, op, <<>>)
  BY <1>5, <1>i, <1>b, <1>t DEF BeginCall, Begin
<1>6. CASE PtyxResize(i)
  <2> DEFINE given == turn[i].given
             size == ToPtySize(NativeSize(given))
  <2>1. turn[i].stage = "resize" /\ Busy(i)
    BY <1>6, <1>b DEF PtyxResize
  <2>2. given \in [Dimensions -> Int]
    BY <1>i, <2>1, GivenAssumption
  <2>3. CASE /\ size.ok
             /\ session' = [session EXCEPT ![i].size = size.value]
             /\ latest' = [latest EXCEPT ![i] = given]
             /\ Returns(i, <<>>)
    <3>1. size.value = NativeSize(given) /\ NativeSize(given) \in [Dimensions -> 0..Max16]
      BY <2>2, <2>3, AcceptedSize
    <3> QED
      BY <2>1, <2>3, <3>1, <1>i DEF Returns
  <2>4. CASE UNCHANGED owned /\ \E error : Fails(i, error)
    BY <2>1, <2>4, <1>i, <1>t DEF Fails, Cell
  <2> QED
    BY <1>6, <2>3, <2>4 DEF PtyxResize
<1>7. CASE PtyxGetSize(i) \/ PtyxGetTermMode(i)
  BY <1>7, <1>i, <1>b, <1>t DEF PtyxGetSize, PtyxGetTermMode, Succeeds, Cell, Returns
<1>8. CASE AskLength(i)
  BY <1>8, <1>i, <1>b, <1>t DEF AskLength, Cell
<1>9. CASE Fill(i)
  BY <1>9, <1>i, <1>b, <1>t DEF Fill, Fails, Succeeds, Cell, Returns
<1>10. CASE CheckStatus(i)
  BY <1>10, <1>i, <1>b, <1>t DEF CheckStatus, Cell
<1>11. CASE Ends(i) \/ Close(i)
  BY <1>11, <1>i, <1>b, <1>t DEF Ends, Close
<1>12. CASE \E size \in ProgramSizes : ProgramResizes(i, size)
  <2>1. PICK size \in ProgramSizes : ProgramResizes(i, size)
    BY <1>12
  <2>2. size \in [Dimensions -> 0..Max16] /\ NativeSize(size) = size
    BY Crossing, GivenAssumption
  <2>3. /\ session[i] # NoSession /\ UNCHANGED <<turn, lastError>>
        /\ session'[i].size = size /\ latest'[i] = size
        /\ session'[i].tty = session[i].tty /\ DOMAIN session'[i] = DOMAIN session[i]
    BY <2>1, <1>i DEF ProgramResizes
  <2>4. session'[i] # NoSession
    <3>1. DOMAIN size # DOMAIN <<>>
      BY <2>2 DEF Dimensions
    <3> QED
      BY <2>3, <3>1 DEF NoSession
  <2> QED
    BY <2>2, <2>3, <2>4, <1>i
<1> QED
  BY <1>1, <1>i, <1>b, <1>t, <1>2, <1>3, <1>4, <1>5, <1>6, <1>7, <1>8, <1>9, <1>10, <1>11, <1>12 DEF Step

(* It holds before the first call.                                         *)
LEMMA InitInv == Init => IInv
<1> SUFFICES ASSUME Init PROVE IInv
  OBVIOUS
<1>1. Shape
  BY DEF Init, Shape, IsError, NoError
<1>2. \A i \in Isolates : turn[i] = Idle /\ session[i] = NoSession
  BY DEF Init
<1> QED
  BY <1>1, <1>2 DEF IInv, Apart, Busy, TurnOK, SessionOK, ErrorOK, At, Idle

(* Every step keeps it.                                                    *)
LEMMA StepInv == IInv /\ [Next]_vars => IInv'
<1> SUFFICES ASSUME IInv, [Next]_vars PROVE IInv'
  OBVIOUS
<1>1. ASSUME NEW i \in Isolates, Step(i) PROVE IInv'
  <2>1. Shape' /\ Apart' /\ TurnOK(i)' /\ SessionOK(i)' /\ ErrorOK(i)'
    BY <1>1, ShapeStep, ApartStep, OwnStep
  <2>2. ASSUME NEW j \in Isolates, j # i PROVE TurnOK(j)' /\ SessionOK(j)' /\ ErrorOK(j)'
    <3>1. turn'[j] = turn[j] /\ session'[j] = session[j] /\ latest'[j] = latest[j]
      BY <1>1, <2>2, Others
    <3>2. TurnOK(j) /\ SessionOK(j) /\ ErrorOK(j)
      BY DEF IInv
    <3>3. At(j, "failed") => lastError'[turn[j].thread] = lastError[turn[j].thread]
      <4>1. SUFFICES ASSUME At(j, "failed") PROVE lastError'[turn[j].thread] = lastError[turn[j].thread]
        OBVIOUS
      <4>2. Busy(j)
        BY <4>1 DEF At, Busy, Idle
      <4>3. turn[j].thread \in Threads /\ (Busy(i) => turn[j].thread # turn[i].thread)
        BY <2>2, <3>2, <4>2 DEF IInv, Apart, TurnOK
      <4> QED
        BY <1>1, <4>3, Others
    <3> QED
      BY <3>1, <3>2, <3>3 DEF TurnOK, SessionOK, ErrorOK, Busy, At
  <2> QED
    BY <2>1, <2>2 DEF IInv
<1>2. CASE UNCHANGED vars
  BY <1>2 DEF vars, IInv, Shape, Apart, TurnOK, SessionOK, ErrorOK, Busy, At
<1> QED
  BY <1>1, <1>2 DEF Next

(* The inductive invariant always holds.                                   *)
THEOREM Inductive == Spec => []IInv
BY InitInv, StepInv, PTL DEF Spec

(***************************************************************************)
(* What it implies                                                         *)
(***************************************************************************)
(* Every variable always holds a value of its type.                        *)
THEOREM TypeCorrect == Spec => []TypeOK
<1>1. IInv => TypeOK
  <2> SUFFICES ASSUME IInv PROVE TypeOK
    OBVIOUS
  <2>1. \A i \in Isolates : turn[i].stage \in Stages \union {"idle"}
    BY DEF IInv, TurnOK, Busy, Idle
  <2> QED
    BY <2>1 DEF IInv, Shape, IsError, SessionOK, TypeOK, Stages
<1> QED
  BY <1>1, Inductive, PTL

(* However many isolates and threads there are, the exception that a       *)
(* caller gets tells of its own call: the thread's error is read in the    *)
(* turn of the call, and no other isolate runs on the thread meanwhile     *)
(* (bindings/status.dart 8-11, 40-50, abi.rs 240-296).                     *)
THEOREM ErrorsAreOwn == Spec => []ErrorIsOwn
<1>1. IInv => ErrorIsOwn
  BY DEF IInv, ErrorOK, ErrorIsOwn
<1> QED
  BY <1>1, Inductive, PTL

(* What is read back is the size last accepted and the whole name, for     *)
(* every size of Dart integers and every name (abi.rs 173-182, 638-687).   *)
LEMMA ReadStep ==
  ASSUME IInv, [Next]_vars, NEW i \in Isolates
  PROVE  /\ At(i, "size") /\ At(i, "returned")' => turn'[i].result = NativeSize(latest[i])
         /\ At(i, "fill") /\ ~At(i, "fill")' => At(i, "returned")' /\ turn'[i].result = session[i].tty
<1>1. CASE Step(i)
  <2>i. TurnOK(i) /\ SessionOK(i) /\ DOMAIN turn = Isolates
    BY DEF IInv, Shape
  <2>1. CASE At(i, "size")
    <3>1. session[i].size = NativeSize(latest[i])
      BY <2>1, <2>i DEF TurnOK, SessionOK, Busy, At, Idle
    <3>2. At(i, "returned")' => PtyxGetSize(i)
      BY <1>1, <2>1, <2>i DEF Step, At, BeginSpawn, Begin, Mismatch, PtyxInit, PtyxSpawn, BeginCall, PtyxResize,
         PtyxGetTermMode, AskLength, Fill, CheckStatus, Ends, Close, ProgramResizes, Idle
    <3>3. PtyxGetSize(i) => turn'[i].result = session[i].size
      BY <2>1, <2>i DEF PtyxGetSize, Returns, TurnOK, Busy, At, Idle, Fields
    <3> QED
      BY <2>1, <3>1, <3>2, <3>3 DEF At
  <2>2. CASE At(i, "fill")
    <3>1. /\ turn[i].given = Len(session[i].tty) + 1 /\ session[i].tty \in Seq(Bytes)
          /\ Busy(i) /\ DOMAIN turn[i] = Fields
      BY <2>2, <2>i, GivenAssumption DEF TurnOK, SessionOK, Busy, At, Idle, RequiredLength
    <3>2. ~At(i, "fill")' => Fill(i)
      BY <1>1, <2>2, <2>i DEF Step, At, BeginSpawn, Begin, Mismatch, PtyxInit, PtyxSpawn, BeginCall, PtyxResize,
         PtyxGetSize, PtyxGetTermMode, AskLength, CheckStatus, Ends, Close, ProgramResizes, Idle
    <3>3. SubSeq(session[i].tty, 1, Len(session[i].tty)) = session[i].tty
      BY <3>1, WholeSeq
    <3>4. Fill(i) => Returns(i, SubSeq(session[i].tty, 1, Len(session[i].tty)))
      BY <3>1 DEF Fill, RequiredLength
    <3> QED
      BY <2>2, <2>i, <3>1, <3>2, <3>3, <3>4 DEF Returns, At, Fields
  <2> QED
    BY <2>1, <2>2
<1>2. CASE ~Step(i)
  <2>1. turn'[i] = turn[i]
    BY <1>2, Others DEF Next, vars
  <2> QED
    BY <2>1 DEF At
<1> QED
  BY <1>1, <1>2

(* The same of every step of the system.                                   *)
THEOREM ReadsTellTheTruth == Spec => ReadsAreTrue
<1>1. IInv /\ [Next]_vars =>
        [\A i \in Isolates :
           /\ At(i, "size") /\ At(i, "returned")' => turn'[i].result = NativeSize(latest[i])
           /\ At(i, "fill") /\ ~At(i, "fill")' =>
                At(i, "returned")' /\ turn'[i].result = session[i].tty]_vars
  BY ReadStep
<1> QED
  BY <1>1, Inductive, PTL DEF Spec, ReadsAreTrue

(***************************************************************************)
(* The environment, for maps of any length.                                *)
(*                                                                         *)
(* Built folds the items into the base; EnvOf is the recursive function    *)
(* that the fold is, on sets of places in the items.                       *)
(***************************************************************************)
EnvStep(g, base, items, d) ==
  IF d = {} THEN base ELSE Put(g[d \ {Max(d)}], items[Max(d)])
EnvOf(base, items) ==
  CHOOSE g : g = [d \in SUBSET DOMAIN items |-> EnvStep(g, base, items, d)]

Folds(g, base, items) == \A d \in SUBSET DOMAIN items : g[d] = EnvStep(g, base, items, d)

LEMMA BuiltIsEnv ==
  \A mode, parent, items :
    Built(mode, parent, items) =
      EnvOf(Base(mode, parent), Applied(mode, items))[DOMAIN Applied(mode, items)]
BY DEF Built, FoldLeft, MapThenFoldSet, EnvOf, EnvStep

(* The last of some places is one of them.                                 *)
LEMMA LastPlace ==
  /\ \A n \in Nat : \A d \in SUBSET (1..n) : d # {} => Max(d) \in d
  /\ \A n \in Nat : n # 0 => Max(1..n) = n /\ (1..n) \ {n} = 1..(n - 1)
<1>1. ASSUME NEW n \in Nat, NEW d \in SUBSET (1..n), d # {}
      PROVE  Max(d) \in d
  <2> DEFINE T == {n - x : x \in d}
  <2>1. T \subseteq Nat /\ T # {}
    BY <1>1
  <2>2. PICK t \in T : \A m \in T : ~(m < t)
    <3> HIDE DEF T
    <3> QED
      BY <2>1, LeastNumber
  <2>3. PICK x \in d : t = n - x
    BY <2>2
  <2>4. \A y \in d : x >= y
    BY <2>2, <2>3
  <2> QED
    BY <2>4 DEF Max
<1>2. ASSUME NEW n \in Nat, n # 0
      PROVE  Max(1..n) = n /\ (1..n) \ {n} = 1..(n - 1)
  <2>1. n \in 1..n /\ \A y \in 1..n : n >= y
    BY <1>2
  <2>2. \A x \in 1..n : (\A y \in 1..n : x >= y) => x = n
    BY <2>1
  <2> QED
    BY <2>1, <2>2 DEF Max
<1> QED
  BY <1>1, <1>2

(* The function chosen for the fold is one.                                *)
LEMMA EnvExists ==
  ASSUME NEW base, NEW items, NEW len \in Nat, DOMAIN items = 1..len
  PROVE  \E g : g = [d \in SUBSET DOMAIN items |-> EnvStep(g, base, items, d)]
<1> DEFINE D == DOMAIN items
           Small(n) == {d \in SUBSET D : Cardinality(d) <= n}
           Good(n) == \E g : \A d \in Small(n) : g[d] = EnvStep(g, base, items, d)
           N == {n \in Nat : Good(n)}
<1>1. IsFiniteSet(D) /\ \A d \in SUBSET D : d # {} => Max(d) \in d
  <2>1. IsFiniteSet(1..len)
    BY FS_Interval
  <2>2. \A d \in SUBSET (1..len) : d # {} => Max(d) \in d
    BY LastPlace
  <2> QED
    BY <2>1, <2>2
<1>2. Good(0)
  <2> DEFINE g == [d \in Small(0) |-> base]
  <2>1. ASSUME NEW d \in Small(0) PROVE d = {}
    BY <1>1, FS_Subset, FS_EmptySet, FS_CardinalityType
  <2>2. \A d \in Small(0) : g[d] = EnvStep(g, base, items, d)
    BY <2>1 DEF EnvStep
  <2> QED
    BY <2>2
<1>3. ASSUME NEW n \in Nat, Good(n) PROVE Good(n + 1)
  <2>1. PICK g : \A d \in Small(n) : g[d] = EnvStep(g, base, items, d)
    BY <1>3
  <2> DEFINE h == [d \in Small(n + 1) |-> EnvStep(g, base, items, d)]
  <2>2. ASSUME NEW d \in Small(n + 1), d # {}
        PROVE  d \ {Max(d)} \in Small(n)
    <3>1. PICK x \in d : x = Max(d)
      BY <1>1, <2>2
    <3>2. d \in SUBSET D /\ Cardinality(d) <= n + 1
      OBVIOUS
    <3>3. d \ {x} \in SUBSET D /\ Cardinality(d) \in Nat /\ Cardinality(d \ {x}) = Cardinality(d) - 1
      <4> HIDE DEF D
      <4> QED
        BY <1>1, <3>2, SomeMember
    <3> QED
      BY <3>1, <3>2, <3>3
  <2>3. ASSUME NEW d \in Small(n) PROVE d \in Small(n + 1) /\ h[d] = g[d]
    <3>1. d \in Small(n + 1)
      BY <1>1, FS_Subset, FS_CardinalityType
    <3> QED
      BY <2>1, <3>1
  <2>4. ASSUME NEW d \in Small(n + 1) PROVE h[d] = EnvStep(h, base, items, d)
    <3>1. CASE d = {}
      BY <3>1 DEF EnvStep
    <3>2. CASE d # {}
      <4>1. h[d \ {Max(d)}] = g[d \ {Max(d)}]
        BY <2>2, <2>3, <3>2
      <4> QED
        BY <3>2, <4>1 DEF EnvStep
    <3> QED
      BY <3>1, <3>2
  <2> QED
    BY <2>4
<1>4. 0 \in N /\ \A n \in Nat : n \in N => n + 1 \in N
  <2> HIDE DEF Good
  <2> QED
    BY <1>2, <1>3
<1>5. \A n \in Nat : n \in N
  <2> HIDE DEF N
  <2> QED
    BY <1>4, InductionOnNat
<1>6. Cardinality(D) \in Nat /\ Small(Cardinality(D)) = SUBSET D
  BY <1>1, FS_CardinalityType, FS_Subset
<1>7. PICK g : \A d \in SUBSET D : g[d] = EnvStep(g, base, items, d)
  BY <1>5, <1>6
<1> DEFINE h == [d \in SUBSET D |-> g[d]]
<1>8. ASSUME NEW d \in SUBSET D PROVE EnvStep(g, base, items, d) = EnvStep(h, base, items, d)
  BY DEF EnvStep
<1>9. h = [d \in SUBSET D |-> EnvStep(h, base, items, d)]
  BY <1>7, <1>8
<1> QED
  BY <1>9

(* What has been built of no items is the base, and each item is put into  *)
(* what was built of those before it.                                      *)
LEMMA EnvPrefix ==
  ASSUME NEW base, NEW items, NEW len \in Nat, DOMAIN items = 1..len
  PROVE  /\ EnvOf(base, items)[1..0] = base
         /\ \A n \in 1..len :
              EnvOf(base, items)[1..n] = Put(EnvOf(base, items)[1..(n - 1)], items[n])
<1> DEFINE g == EnvOf(base, items)
<1>1. g = [d \in SUBSET DOMAIN items |-> EnvStep(g, base, items, d)]
  BY EnvExists DEF EnvOf
<1> HIDE DEF g
<1>2. \A d \in SUBSET (1..len) : g[d] = EnvStep(g, base, items, d)
  BY <1>1
<1>3. g[1..0] = base
  <2>1. 1..0 = {} /\ {} \in SUBSET (1..len)
    OBVIOUS
  <2> QED
    BY <1>2, <2>1 DEF EnvStep
<1>4. ASSUME NEW n \in 1..len PROVE g[1..n] = Put(g[1..(n - 1)], items[n])
  <2>1. 1..n \in SUBSET (1..len) /\ 1..n # {} /\ n \in Nat /\ n # 0
    <3>1. n \in Nat /\ n # 0 /\ n <= len /\ n \in 1..n
      OBVIOUS
    <3>2. \A k \in 1..n : k \in 1..len
      BY <3>1
    <3> QED
      BY <3>1, <3>2
  <2>2. Max(1..n) = n /\ (1..n) \ {n} = 1..(n - 1)
    BY <2>1, LastPlace
  <2> QED
    BY <1>2, <2>1, <2>2 DEF EnvStep
<1> QED
  BY <1>3, <1>4 DEF g

(* A string of the caller's map has a first "=", or none.                  *)
LEMMA FirstEquals ==
  ASSUME NEW s \in Seq(Bytes)
  PROVE  /\ Split(s) \in 0..Len(s)
         /\ Split(s) # 0 => s[Split(s)] = "=" /\ \A i \in 1..Len(s) : s[i] = "=" => Split(s) <= i
         /\ Split(s) = 0 => \A i \in 1..Len(s) : s[i] # "="
<1> DEFINE I == {i \in 1..Len(s) : s[i] = "="}
<1>1. Split(s) = IF I # {} THEN Min(I) ELSE 0
  BY DEF Split, SelectInSeq
<1>2. CASE I = {}
  BY <1>1, <1>2
<1>3. CASE I # {}
  <2>1. PICK x \in I : \A y \in I : ~(y < x)
    <3>1. I \subseteq Nat
      OBVIOUS
    <3> HIDE DEF I
    <3> QED
      BY <1>3, <3>1, LeastNumber
  <2>2. \A y \in I : x <= y
    BY <2>1
  <2>3. \A z \in I : (\A y \in I : z <= y) => z = x
    BY <2>2
  <2>4. Min(I) = x
    BY <2>2, <2>3 DEF Min
  <2>5. Split(s) = x
    BY <1>1, <1>3, <2>4
  <2>6. x \in 1..Len(s) /\ s[x] = "=" /\ x # 0 /\ x \in 0..Len(s)
    OBVIOUS
  <2>7. \A i \in 1..Len(s) : s[i] = "=" => x <= i
    BY <2>2
  <2> QED
    BY <2>5, <2>6, <2>7, Zenon
<1> QED
  BY <1>2, <1>3

(* The parts of a string that has a key, whatever it is.                   *)
LEMMA PartsOf ==
  ASSUME NEW s \in Seq(Bytes), ~NoKey(s)
  PROVE  /\ Key(s) # <<>>
         /\ HasNul(Key(s)) => HasNul(s)
         /\ HasNul(Value(s)) => HasNul(s)
<1> DEFINE n == Split(s)
<1>1. n \in 2..Len(s)
  BY FirstEquals DEF NoKey
<1>2. /\ Key(s) = SubSeq(s, 1, n - 1) /\ Value(s) = SubSeq(s, n + 1, Len(s))
  BY DEF Key, Value
<1> HIDE DEF n
<1>3. Len(Key(s)) = n - 1 /\ \A i \in 1..(n - 1) : Key(s)[i] = s[i]
  BY <1>1, <1>2
<1>4. Len(Value(s)) = Len(s) - n /\ \A i \in 1..(Len(s) - n) : Value(s)[i] = s[n + i]
  BY <1>1, <1>2
<1>5. Key(s) # <<>>
  BY <1>1, <1>3
<1>6. HasNul(Key(s)) => HasNul(s)
  BY <1>1, <1>3 DEF HasNul, Contains
<1>7. HasNul(Value(s)) => HasNul(s)
  BY <1>1, <1>4 DEF HasNul, Contains
<1> QED
  BY <1>5, <1>6, <1>7

(* Two strings with something in between.                                  *)
IsJoined(s, a, x, b) ==
  /\ Len(s) = Len(a) + 1 + Len(b)
  /\ \A i \in 1..Len(a) : s[i] = a[i]
  /\ s[Len(a) + 1] = x
  /\ \A i \in 1..Len(b) : s[Len(a) + 1 + i] = b[i]

LEMMA Joined ==
  ASSUME NEW S, NEW a \in Seq(S), NEW x \in S, NEW b \in Seq(S)
  PROVE  a \o <<x>> \o b \in Seq(S) /\ IsJoined(a \o <<x>> \o b, a, x, b)
<1> DEFINE t == a \o <<x>>
<1>1. <<x>> \in Seq(S) /\ t \in Seq(S) /\ t \o b \in Seq(S)
  OBVIOUS
<1>2. Len(t) = Len(a) + 1 /\ t[Len(a) + 1] = x /\ \A i \in 1..Len(a) : t[i] = a[i]
  OBVIOUS
<1> HIDE DEF t
<1>3. /\ Len(t \o b) = Len(t) + Len(b) /\ \A i \in 1..Len(t) : (t \o b)[i] = t[i]
      /\ \A i \in 1..Len(b) : (t \o b)[Len(t) + i] = b[i]
  BY <1>1
<1>4. \A i \in 1..(Len(a) + 1) : (t \o b)[i] = t[i]
  BY <1>2, <1>3
<1>5. \A i \in 1..Len(a) : i \in 1..(Len(a) + 1)
  OBVIOUS
<1>6. Len(a) + 1 \in 1..(Len(a) + 1)
  OBVIOUS
<1> QED
  BY <1>1, <1>2, <1>3, <1>4, <1>5, <1>6 DEF t, IsJoined

(* A sequence is the part of another that it agrees with.                  *)
LEMMA PartOf ==
  ASSUME NEW S, NEW s \in Seq(S), NEW c \in Seq(S), NEW k \in Nat, k + Len(c) <= Len(s),
         \A i \in 1..Len(c) : s[k + i] = c[i]
  PROVE  SubSeq(s, k + 1, k + Len(c)) = c
<1> DEFINE d == SubSeq(s, k + 1, k + Len(c))
<1>1. d \in Seq(S) /\ Len(d) = Len(c) /\ \A i \in 1..Len(c) : d[i] = s[k + i]
  OBVIOUS
<1> HIDE DEF d
<1>2. d = c
  BY <1>1
<1> QED
  BY <1>2 DEF d

(* A string made of a key without "=", a "=" and a value is taken apart    *)
(* into the two again.                                                     *)
LEMMA JoinedParts ==
  ASSUME NEW s \in Seq(Bytes), NEW a \in Seq(Bytes), NEW b \in Seq(Bytes),
         IsJoined(s, a, "=", b), ~Contains(a, "=")
  PROVE  /\ Key(s) = a /\ Value(s) = b
         /\ NoKey(s) <=> a = <<>>
<1>1. PICK p \in Nat, q \in Nat : p = Len(a) /\ q = Len(b)
  OBVIOUS
<1>2. /\ Len(s) = p + 1 + q /\ s[p + 1] = "="
      /\ \A i \in 1..p : s[i] = a[i]
      /\ \A i \in 1..q : s[p + 1 + i] = b[i]
  BY <1>1 DEF IsJoined
<1>3. \A i \in 1..p : s[i] # "="
  BY <1>1, <1>2 DEF Contains
<1>4. Split(s) = p + 1
  <2>1. PICK n \in 0..(p + 1 + q) : n = Split(s)
    BY <1>2, FirstEquals
  <2>2. p + 1 \in 1..Len(s) /\ ~(p + 1 \in {}) /\ s[p + 1] = "="
    BY <1>2
  <2>3. n # 0
    BY <2>1, <2>2, FirstEquals
  <2>4. s[n] = "=" /\ n <= p + 1
    BY <2>1, <2>2, <2>3, FirstEquals
  <2>5. n \notin 1..p
    BY <1>3, <2>4
  <2> QED
    BY <2>1, <2>3, <2>4, <2>5
<1>5. Key(s) = a
  <2>1. Key(s) = SubSeq(s, 1, p)
    BY <1>4 DEF Key
  <2>2. SubSeq(s, 0 + 1, 0 + Len(a)) = a
    <3>1. 0 + Len(a) <= Len(s)
      BY <1>1, <1>2
    <3>2. \A i \in 1..Len(a) : s[0 + i] = a[i]
      BY <1>1, <1>2
    <3> QED
      BY <3>1, <3>2, PartOf
  <2> QED
    BY <1>1, <2>1, <2>2
<1>6. Value(s) = b
  <2>1. Value(s) = SubSeq(s, (p + 1) + 1, Len(s))
    BY <1>4 DEF Value
  <2>2. SubSeq(s, (p + 1) + 1, (p + 1) + Len(b)) = b
    <3>1. p + 1 \in Nat /\ (p + 1) + Len(b) <= Len(s)
      BY <1>1, <1>2
    <3>2. \A i \in 1..Len(b) : s[(p + 1) + i] = b[i]
      BY <1>1, <1>2
    <3> QED
      BY <3>1, <3>2, PartOf
  <2> QED
    BY <1>1, <1>2, <2>1, <2>2
<1>7. NoKey(s) <=> a = <<>>
  <2>1. p = 0 <=> a = <<>>
    BY <1>1
  <2> QED
    BY <1>4, <2>1 DEF NoKey
<1> QED
  BY <1>5, <1>6, <1>7

(* It has a NUL where the key or the value has one.                        *)
LEMMA JoinedNul ==
  ASSUME NEW s \in Seq(Bytes), NEW a \in Seq(Bytes), NEW b \in Seq(Bytes), IsJoined(s, a, "=", b)
  PROVE  HasNul(s) <=> HasNul(a) \/ HasNul(b)
<1>1. PICK p \in Nat, q \in Nat : p = Len(a) /\ q = Len(b)
  OBVIOUS
<1>2. /\ Len(s) = p + 1 + q /\ s[p + 1] = "="
      /\ \A i \in 1..p : s[i] = a[i]
      /\ \A i \in 1..q : s[p + 1 + i] = b[i]
  BY <1>1 DEF IsJoined
<1>3. /\ HasNul(s) <=> \E i \in 1..(p + 1 + q) : s[i] = "NUL"
      /\ HasNul(a) <=> \E i \in 1..p : a[i] = "NUL"
      /\ HasNul(b) <=> \E i \in 1..q : b[i] = "NUL"
  BY <1>1, <1>2 DEF HasNul, Contains
<1>4. ASSUME NEW i \in 1..(p + 1 + q), s[i] = "NUL"
      PROVE  (\E j \in 1..p : a[j] = "NUL") \/ \E j \in 1..q : b[j] = "NUL"
  <2>1. i # p + 1
    BY <1>2, <1>4
  <2>2. CASE i \in 1..p
    BY <1>2, <1>4, <2>2
  <2>3. CASE i \notin 1..p
    <3>1. PICK j \in 1..q : i = p + 1 + j
      <4>1. i - (p + 1) \in 1..q /\ i = p + 1 + (i - (p + 1))
        BY <2>1, <2>3
      <4> QED
        BY <4>1
    <3> QED
      BY <1>2, <1>4, <3>1
  <2> QED
    BY <2>2, <2>3
<1>5. ASSUME NEW j \in 1..p, a[j] = "NUL" PROVE \E i \in 1..(p + 1 + q) : s[i] = "NUL"
  <2>1. j \in 1..(p + 1 + q)
    OBVIOUS
  <2> QED
    BY <1>2, <1>5, <2>1
<1>6. ASSUME NEW j \in 1..q, b[j] = "NUL" PROVE \E i \in 1..(p + 1 + q) : s[i] = "NUL"
  <2>1. p + 1 + j \in 1..(p + 1 + q)
    OBVIOUS
  <2> QED
    BY <1>2, <1>6, <2>1
<1> QED
  BY <1>3, <1>4, <1>5, <1>6

(* An entry becomes such a string.                                         *)
LEMMA ItemType ==
  ASSUME NEW e \in Entries
  PROVE  /\ e.key \in Seq(Bytes) /\ e.value \in Seq(Bytes) /\ Item(e) \in Seq(Bytes)
         /\ IsJoined(Item(e), e.key, "=", e.value)
<1>1. e.key \in Seq(Bytes) /\ e.value \in Seq(Bytes) /\ "=" \in Bytes
  BY StringAssumption DEF Entries
<1> QED
  BY <1>1, Joined DEF Item

(* So it is taken apart into its key and value, if the key has no "=".     *)
LEMMA ItemParts ==
  ASSUME NEW e \in Entries
  PROVE  /\ ~Contains(e.key, "=") =>
              Key(Item(e)) = e.key /\ Value(Item(e)) = e.value /\ (NoKey(Item(e)) <=> e.key = <<>>)
         /\ HasNul(Item(e)) <=> HasNul(e.key) \/ HasNul(e.value)
BY ItemType, JoinedParts, JoinedNul

(***************************************************************************)
(* What is built of a map with its keys all different and without "=".     *)
(***************************************************************************)
Items(map) == [k \in DOMAIN map |-> Item(map[k])]
Distinct(map) == \A j, k \in DOMAIN map : map[j].key = map[k].key => j = k
Plain(map) == \A k \in DOMAIN map : ~Contains(map[k].key, "=")
IsMap(map) == map \in Seq(Entries) /\ Distinct(map)
KeysTo(map, n) == {map[k].key : k \in 1..n}
IsEnv(env) == env = [key \in DOMAIN env |-> env[key]]

(* env is base with the first n entries of map in it.                      *)
Holds(env, base, map, n) ==
  /\ IsEnv(env) /\ DOMAIN env = DOMAIN base \union KeysTo(map, n)
  /\ \A k \in 1..n : env[map[k].key] = map[k].value
  /\ \A key \in DOMAIN base : key \notin KeysTo(map, n) => env[key] = base[key]

LEMMA NothingHeld == \A base, map : IsEnv(base) => Holds(base, base, map, 0)
BY DEF Holds, KeysTo

LEMMA OneMore ==
  ASSUME NEW map, IsMap(map), Plain(map), NEW base, NEW env, NEW n \in Nat, n + 1 <= Len(map),
         Holds(env, base, map, n)
  PROVE  Holds(Put(env, Items(map)[n + 1]), base, map, n + 1)
<1> DEFINE new == Put(env, Items(map)[n + 1])
<1>1. n + 1 \in DOMAIN map /\ map[n + 1] \in Entries /\ \A k \in 1..n : k \in DOMAIN map /\ k # n + 1
  BY DEF IsMap
<1>2. PICK key, value : key = map[n + 1].key /\ value = map[n + 1].value
  OBVIOUS
<1>3. Key(Items(map)[n + 1]) = key /\ Value(Items(map)[n + 1]) = value
  BY <1>1, <1>2, ItemParts DEF Items, Plain
<1>4. new = [k \in DOMAIN env \union {key} |-> IF k = key THEN value ELSE env[k]]
  BY <1>3 DEF Put
<1> HIDE DEF new
<1>5. \A k \in 1..n : map[k].key # key
  BY <1>1, <1>2 DEF IsMap, Distinct
<1>6. 1..(n + 1) = (1..n) \union {n + 1}
  OBVIOUS
<1>7. KeysTo(map, n + 1) = KeysTo(map, n) \union {key}
  BY <1>2, <1>6 DEF KeysTo
<1>8. DOMAIN new = DOMAIN env \union {key} /\ IsEnv(new)
  BY <1>4 DEF IsEnv
<1>9. DOMAIN new = DOMAIN base \union KeysTo(map, n + 1)
  BY <1>7, <1>8 DEF Holds
<1>10. \A k \in 1..(n + 1) : new[map[k].key] = map[k].value
  <2>1. new[key] = value
    BY <1>4
  <2>2. ASSUME NEW k \in 1..n PROVE new[map[k].key] = map[k].value
    <3>1. map[k].key \in DOMAIN env /\ env[map[k].key] = map[k].value
      BY DEF Holds, KeysTo
    <3> QED
      BY <1>4, <1>5, <3>1
  <2> QED
    BY <1>2, <1>6, <2>1, <2>2
<1>11. \A k \in DOMAIN base : k \notin KeysTo(map, n + 1) => new[k] = base[k]
  BY <1>4, <1>7 DEF Holds
<1> QED
  BY <1>8, <1>9, <1>10, <1>11 DEF Holds, new

LEMMA EveryEntryHeld ==
  ASSUME NEW map, IsMap(map), Plain(map), NEW base, IsEnv(base)
  PROVE  Holds(EnvOf(base, Items(map))[DOMAIN Items(map)], base, map, Len(map))
<1> DEFINE env == EnvOf(base, Items(map))
           Good(n) == n <= Len(map) => Holds(env[1..n], base, map, n)
           N == {n \in Nat : Good(n)}
<1>1. Len(map) \in Nat /\ DOMAIN Items(map) = 1..Len(map)
  BY DEF IsMap, Items
<1>2. /\ env[1..0] = base
      /\ \A n \in 1..Len(map) : env[1..n] = Put(env[1..(n - 1)], Items(map)[n])
  BY <1>1, EnvPrefix
<1> HIDE DEF env
<1>3. Good(0)
  BY <1>2, NothingHeld
<1>4. ASSUME NEW n \in Nat, Good(n) PROVE Good(n + 1)
  <2> SUFFICES ASSUME n + 1 <= Len(map) PROVE Holds(env[1..(n + 1)], base, map, n + 1)
    OBVIOUS
  <2>1. n + 1 \in 1..Len(map) /\ (n + 1) - 1 = n /\ n <= Len(map)
    BY <1>1
  <2>2. env[1..(n + 1)] = Put(env[1..n], Items(map)[n + 1])
    BY <1>2, <2>1
  <2>3. Holds(env[1..n], base, map, n)
    BY <1>4, <2>1
  <2> QED
    BY <2>2, <2>3, OneMore
<1>5. 0 \in N /\ \A n \in Nat : n \in N => n + 1 \in N
  <2> HIDE DEF Good
  <2> QED
    BY <1>3, <1>4
<1>6. \A n \in Nat : n \in N
  <2> HIDE DEF N
  <2> QED
    BY <1>5, InductionOnNat
<1> QED
  BY <1>1, <1>6 DEF env

(* What the documentation asks for, by the same words.                     *)
Given(map) ==
  [key \in {map[k].key : k \in DOMAIN map} |->
     map[CHOOSE k \in DOMAIN map : map[k].key = key].value]

LEMMA GivenIs ==
  ASSUME NEW map, IsMap(map)
  PROVE  /\ DOMAIN Given(map) = KeysTo(map, Len(map))
         /\ \A k \in 1..Len(map) : Given(map)[map[k].key] = map[k].value
<1>1. DOMAIN map = 1..Len(map)
  BY DEF IsMap
<1>2. DOMAIN Given(map) = KeysTo(map, Len(map))
  BY <1>1 DEF Given, KeysTo
<1>3. ASSUME NEW k \in 1..Len(map) PROVE Given(map)[map[k].key] = map[k].value
  <2>1. PICK j \in DOMAIN map : j = CHOOSE h \in DOMAIN map : map[h].key = map[k].key
    BY <1>1
  <2>2. map[j].key = map[k].key
    BY <1>1, <2>1
  <2>3. j = k
    BY <1>1, <2>2 DEF IsMap, Distinct
  <2> QED
    BY <1>1, <2>1, <2>3 DEF Given
<1> QED
  BY <1>2, <1>3

LEMMA HeldIsMerged ==
  ASSUME NEW map, IsMap(map), NEW base, NEW env, Holds(env, base, map, Len(map))
  PROVE  env = [key \in DOMAIN base \union DOMAIN Given(map) |->
                  IF key \in DOMAIN Given(map) THEN Given(map)[key] ELSE base[key]]
<1> DEFINE D == DOMAIN base \union DOMAIN Given(map)
           Merged(key) == IF key \in DOMAIN Given(map) THEN Given(map)[key] ELSE base[key]
<1>1. DOMAIN env = D
  BY GivenIs DEF Holds
<1>2. ASSUME NEW key \in D PROVE env[key] = Merged(key)
  <2>1. CASE key \in DOMAIN Given(map)
    <3>1. PICK k \in 1..Len(map) : key = map[k].key
      <4>1. key \in KeysTo(map, Len(map))
        BY <2>1, GivenIs
      <4> QED
        BY <4>1 DEF KeysTo
    <3>2. env[key] = map[k].value
      BY <3>1 DEF Holds
    <3>3. Given(map)[key] = map[k].value
      BY <3>1, GivenIs
    <3> QED
      BY <2>1, <3>2, <3>3
  <2>2. CASE key \notin DOMAIN Given(map)
    BY <2>2, GivenIs DEF Holds
  <2> QED
    BY <2>1, <2>2
<1>3. IsEnv(env)
  BY DEF Holds
<1> QED
  BY <1>1, <1>2, <1>3 DEF IsEnv

(***************************************************************************)
(* Against Asked.                                                          *)
(***************************************************************************)
AllPlain(map) == \A k \in DOMAIN map : ~Bad(map[k])

(* Neither the environment of the process nor an empty one has a NUL.      *)
LEMMA BaseIsSound ==
  \A mode : /\ IsEnv(Base(mode, Parent))
            /\ \A key \in DOMAIN Base(mode, Parent) :
                 key # <<>> /\ ~HasNul(key) /\ ~HasNul(Base(mode, Parent)[key])
<1>1. IsEnv(<<>>) /\ DOMAIN <<>> = {}
  BY DEF IsEnv
<1>2. IsEnv(Parent)
  BY ParentAssumption DEF IsEnv
<1> QED
  BY <1>1, <1>2, ParentAssumption DEF Base

(* An environment that holds a whole map has a NUL only from an entry.     *)
LEMMA NulOfEntry ==
  ASSUME NEW map, IsMap(map), NEW base, NEW env, Holds(env, base, map, Len(map)),
         \A key \in DOMAIN base : ~HasNul(key) /\ ~HasNul(base[key])
  PROVE  (\E key \in DOMAIN env : HasNul(key) \/ HasNul(env[key])) <=>
           \E k \in DOMAIN map : HasNul(map[k].key) \/ HasNul(map[k].value)
<1>1. DOMAIN map = 1..Len(map)
  BY DEF IsMap
<1>2. ASSUME NEW key \in DOMAIN env, HasNul(key) \/ HasNul(env[key])
      PROVE  \E k \in DOMAIN map : HasNul(map[k].key) \/ HasNul(map[k].value)
  <2>1. key \in KeysTo(map, Len(map))
    BY <1>2 DEF Holds
  <2>2. PICK k \in 1..Len(map) : key = map[k].key
    BY <2>1 DEF KeysTo
  <2>3. env[key] = map[k].value
    BY <2>2 DEF Holds
  <2> QED
    BY <1>1, <1>2, <2>2, <2>3
<1>3. ASSUME NEW k \in DOMAIN map, HasNul(map[k].key) \/ HasNul(map[k].value)
      PROVE  \E key \in DOMAIN env : HasNul(key) \/ HasNul(env[key])
  <2>1. map[k].key \in DOMAIN env /\ env[map[k].key] = map[k].value
    BY <1>1 DEF Holds, KeysTo
  <2> QED
    BY <1>3, <2>1
<1> QED
  BY <1>2, <1>3

(* With no items, nothing is changed.                                      *)
LEMMA NoneApplied ==
  ASSUME NEW mode, ~Counts(mode), NEW items
  PROVE  /\ DOMAIN Applied(mode, items) = {}
         /\ Built(mode, Parent, items) = Base(mode, Parent)
<1>1. Applied(mode, items) = <<>> /\ DOMAIN <<>> = 1..0 /\ 1..0 = {}
  BY DEF Applied, Counts
<1>2. EnvOf(Base(mode, Parent), <<>>)[1..0] = Base(mode, Parent)
  BY <1>1, EnvPrefix
<1> QED
  BY <1>1, <1>2, BuiltIsEnv

LEMMA AllApplied ==
  ASSUME NEW mode, Counts(mode), NEW map, IsMap(map), Plain(map)
  PROVE  /\ Applied(mode, Items(map)) = Items(map)
         /\ Holds(Built(mode, Parent, Items(map)), Base(mode, Parent), map, Len(map))
<1>1. Applied(mode, Items(map)) = Items(map)
  BY DEF Applied, Counts
<1> QED
  BY <1>1, BuiltIsEnv, BaseIsSound, EveryEntryHeld

(* What Asked says of the modes with a map.                                *)
LEMMA AskedIsMerged ==
  ASSUME NEW mode, Counts(mode), NEW map
  PROVE  Asked(mode, map) =
           [key \in DOMAIN Base(mode, Parent) \union DOMAIN Given(map) |->
              IF key \in DOMAIN Given(map) THEN Given(map)[key] ELSE Base(mode, Parent)[key]]
<1>1. CASE mode = "overlay"
  BY <1>1 DEF Asked, Base, Given
<1>2. CASE mode = "replace"
  <2>1. Asked(mode, map) = Given(map) /\ Base(mode, Parent) = <<>> /\ DOMAIN <<>> = {}
    BY <1>2 DEF Asked, Base, Given
  <2>2. Given(map) = [key \in DOMAIN Given(map) |-> Given(map)[key]]
    BY DEF Given
  <2> QED
    BY <2>1, <2>2
<1> QED
  BY <1>1, <1>2 DEF Counts

LEMMA AskedWithoutMap ==
  ASSUME NEW mode \in Modes, ~Counts(mode), NEW map
  PROVE  Asked(mode, map) = Base(mode, Parent)
BY DEF Asked, Base, Counts, Modes

(* The two ways of building differ in what they refuse.                    *)
NulInEnv(used, env) ==
  \/ \E k \in DOMAIN used : NoKey(used[k])
  \/ \E key \in DOMAIN env : HasNul(key) \/ HasNul(env[key])
NulInItem(used) == \E k \in DOMAIN used : NoKey(used[k]) \/ HasNul(used[k])

LEMMA Refusals ==
  ASSUME NEW mode, NEW parent, NEW items, NEW used, NEW env,
         used = Applied(mode, items), env = Built(mode, parent, items)
  PROVE  /\ Environment(mode, parent, items) =
              IF NulInEnv(used, env) THEN Refused ELSE Accepted(env)
         /\ ApplyEnv(mode, parent, items) =
              IF NulInItem(used) THEN Refused ELSE Accepted(env)
<1>1. \A k \in DOMAIN used : used[k] = items[k]
  <2>1. DOMAIN <<>> = {}
    OBVIOUS
  <2> QED
    BY <2>1 DEF Applied
<1>2. /\ (\E k \in DOMAIN used : NoKey(items[k])) <=> \E k \in DOMAIN used : NoKey(used[k])
      /\ (\E k \in DOMAIN used : NoKey(items[k]) \/ HasNul(items[k])) <=> NulInItem(used)
  BY <1>1 DEF NulInItem
<1>3. /\ Environment(mode, parent, items) =
           IF \/ \E k \in DOMAIN used : NoKey(items[k])
              \/ \E key \in DOMAIN env : HasNul(key) \/ HasNul(env[key])
           THEN Refused ELSE Accepted(env)
      /\ ApplyEnv(mode, parent, items) =
           IF \E k \in DOMAIN used : NoKey(items[k]) \/ HasNul(items[k])
           THEN Refused ELSE Accepted(env)
  BY DEF Environment, ApplyEnv
<1> QED
  BY <1>2, <1>3 DEF NulInEnv

LEMMA Outcome ==
  /\ ~Refused.ok
  /\ \A value : Accepted(value).ok /\ Accepted(value).value = value
BY DEF Refused, Accepted

(* Where a map counts, both ways of building refuse the same maps, and     *)
(* build what is asked for of the others.                                  *)
LEMMA CountedMap ==
  ASSUME NEW mode, Counts(mode), NEW map, IsMap(map), Plain(map),
         NEW want, want = IF AllPlain(map) THEN Accepted(Asked(mode, map)) ELSE Refused
  PROVE  Environment(mode, Parent, Items(map)) = want /\ ApplyEnv(mode, Parent, Items(map)) = want
<1> DEFINE env == Built(mode, Parent, Items(map))
           base == Base(mode, Parent)
           items == Items(map)
<1>1. Applied(mode, items) = items /\ Holds(env, base, map, Len(map))
  BY AllApplied
<1>2. env = Asked(mode, map)
  <2> HIDE DEF env, base
  <2>1. env = [key \in DOMAIN base \union DOMAIN Given(map) |->
                 IF key \in DOMAIN Given(map) THEN Given(map)[key] ELSE base[key]]
    BY <1>1, HeldIsMerged
  <2> QED
    BY <2>1, AskedIsMerged DEF base
<1>3. DOMAIN items = DOMAIN map /\ \A k \in DOMAIN map : map[k] \in Entries /\ items[k] = Item(map[k])
  BY DEF IsMap, Items
<1>4. \A k \in DOMAIN map : /\ NoKey(items[k]) <=> map[k].key = <<>>
                            /\ HasNul(items[k]) <=> HasNul(map[k].key) \/ HasNul(map[k].value)
  BY <1>3, ItemParts DEF Plain
<1>5. (\E key \in DOMAIN env : HasNul(key) \/ HasNul(env[key])) <=>
        \E k \in DOMAIN map : HasNul(map[k].key) \/ HasNul(map[k].value)
  BY <1>1, BaseIsSound, NulOfEntry
<1> HIDE DEF env, items, base
<1>6. /\ AllPlain(map) <=> ~NulInItem(items)
      /\ AllPlain(map) <=> ~NulInEnv(items, env)
  BY <1>3, <1>4, <1>5 DEF AllPlain, Bad, NulInItem, NulInEnv
<1>7. /\ Environment(mode, Parent, items) = IF NulInEnv(items, env) THEN Refused ELSE Accepted(env)
      /\ ApplyEnv(mode, Parent, items) = IF NulInItem(items) THEN Refused ELSE Accepted(env)
  <2>1. env = Built(mode, Parent, items) /\ items = Applied(mode, items)
    BY <1>1 DEF env, items
  <2> QED
    BY <2>1, Refusals
<1> QED
  BY <1>2, <1>6, <1>7 DEF items

LEMMA UncountedMap ==
  ASSUME NEW mode \in Modes, ~Counts(mode), NEW map
  PROVE  /\ Environment(mode, Parent, Items(map)) = Accepted(Asked(mode, map))
         /\ ApplyEnv(mode, Parent, Items(map)) = Accepted(Asked(mode, map))
<1>1. DOMAIN Applied(mode, Items(map)) = {} /\ Built(mode, Parent, Items(map)) = Base(mode, Parent)
  BY NoneApplied
<1>2. Asked(mode, map) = Base(mode, Parent)
  BY AskedWithoutMap
<1> QED
  BY <1>1, <1>2, BaseIsSound DEF Environment, ApplyEnv

LEMMA EveryMapAsAsked ==
  ASSUME NEW mode \in Modes, NEW map, IsMap(map)
  PROVE  AsAsked(mode, map)
<1> SUFFICES ASSUME Plain(map)
             PROVE  Outcomes(mode, map) =
                      {IF Counts(mode) /\ \E k \in DOMAIN map : Bad(map[k]) THEN Refused
                       ELSE Accepted(Asked(mode, map))}
  BY DEF AsAsked, Plain
<1>1. Outcomes(mode, map) =
        {Environment(mode, Parent, Items(map)), ApplyEnv(mode, Parent, Items(map))}
  BY DEF Outcomes, Items
<1>2. CASE Counts(mode)
  <2>1. PICK want : want = IF AllPlain(map) THEN Accepted(Asked(mode, map)) ELSE Refused
    OBVIOUS
  <2>2. Environment(mode, Parent, Items(map)) = want /\ ApplyEnv(mode, Parent, Items(map)) = want
    BY <1>2, <2>1, CountedMap
  <2>3. AllPlain(map) <=> ~\E k \in DOMAIN map : Bad(map[k])
    BY DEF AllPlain
  <2> QED
    BY <1>1, <1>2, <2>1, <2>2, <2>3
<1>3. CASE ~Counts(mode)
  BY <1>1, <1>3, UncountedMap
<1> QED
  BY <1>2, <1>3

(* Whatever the keys are: each key of what is built is one of the base,    *)
(* with its value there, or the key of an item, with the value of an item. *)
From(env, base, items, n) ==
  \A key \in DOMAIN env :
    \/ key \in DOMAIN base /\ env[key] = base[key]
    \/ \E k \in 1..n : key = Key(items[k]) /\ env[key] = Value(items[k])

LEMMA EveryKeyFrom ==
  ASSUME NEW base, NEW items, NEW len \in Nat, DOMAIN items = 1..len
  PROVE  From(EnvOf(base, items)[DOMAIN items], base, items, len)
<1> DEFINE env == EnvOf(base, items)
           Good(n) == n <= len => From(env[1..n], base, items, n)
           N == {n \in Nat : Good(n)}
<1>1. /\ env[1..0] = base
      /\ \A n \in 1..len : env[1..n] = Put(env[1..(n - 1)], items[n])
  BY EnvPrefix
<1> HIDE DEF env
<1>2. Good(0)
  BY <1>1 DEF From
<1>3. ASSUME NEW n \in Nat, Good(n) PROVE Good(n + 1)
  <2> SUFFICES ASSUME n + 1 <= len PROVE From(env[1..(n + 1)], base, items, n + 1)
    OBVIOUS
  <2>1. n + 1 \in 1..len /\ (n + 1) - 1 = n /\ n <= len
    OBVIOUS
  <2>2. PICK old, new, item : old = env[1..n] /\ new = env[1..(n + 1)] /\ item = items[n + 1]
    OBVIOUS
  <2>3. new = Put(old, item)
    BY <1>1, <2>1, <2>2
  <2>4. From(old, base, items, n)
    BY <1>3, <2>1, <2>2
  <2>5. (\A k \in 1..n : k \in 1..(n + 1)) /\ n + 1 \in 1..(n + 1)
    OBVIOUS
  <2>6. ASSUME NEW key \in DOMAIN new
        PROVE  \/ key \in DOMAIN base /\ new[key] = base[key]
               \/ \E k \in 1..(n + 1) : key = Key(items[k]) /\ new[key] = Value(items[k])
    <3>1. CASE key = Key(item)
      BY <2>2, <2>3, <2>5, <3>1 DEF Put
    <3>2. CASE key # Key(item)
      <4>1. key \in DOMAIN old /\ new[key] = old[key]
        BY <2>3, <3>2 DEF Put
      <4> QED
        BY <2>4, <2>5, <4>1 DEF From
    <3> QED
      BY <3>1, <3>2
  <2> QED
    BY <2>2, <2>6 DEF From
<1>4. 0 \in N /\ \A n \in Nat : n \in N => n + 1 \in N
  <2> HIDE DEF Good
  <2> QED
    BY <1>2, <1>3
<1>5. \A n \in Nat : n \in N
  <2> HIDE DEF N
  <2> QED
    BY <1>4, InductionOnNat
<1> QED
  BY <1>5 DEF env

LEMMA EveryMapSound ==
  ASSUME NEW mode \in Modes, NEW map \in Seq(Entries)
  PROVE  Sound(mode, map)
<1> DEFINE items == Applied(mode, Items(map))
           env == Built(mode, Parent, Items(map))
           Clean == \A key \in DOMAIN env : key # <<>> /\ ~HasNul(key) /\ ~HasNul(env[key])
<1>1. PICK len \in Nat : DOMAIN items = 1..len
  <2>1. DOMAIN Items(map) = 1..Len(map) /\ Len(map) \in Nat
    BY DEF Items
  <2>2. DOMAIN <<>> = 1..0
    OBVIOUS
  <2> QED
    BY <2>1, <2>2 DEF Applied
<1>2. \A k \in DOMAIN items : items[k] \in Seq(Bytes)
  <2>1. \A k \in DOMAIN Items(map) : Items(map)[k] \in Seq(Bytes)
    BY ItemType DEF Items
  <2> QED
    BY <2>1 DEF Applied
<1>3. From(env, Base(mode, Parent), items, len)
  BY <1>1, BuiltIsEnv, EveryKeyFrom
<1> HIDE DEF items, env
<1>4. ASSUME \A k \in DOMAIN items : ~NoKey(items[k])
      PROVE  \A key \in DOMAIN env : key # <<>>
  BY <1>1, <1>2, <1>3, <1>4, PartsOf, BaseIsSound DEF From
<1>5. ASSUME \A k \in DOMAIN items : ~NoKey(items[k]) /\ ~HasNul(items[k])
      PROVE  Clean
  <2> SUFFICES ASSUME NEW key \in DOMAIN env PROVE key # <<>> /\ ~HasNul(key) /\ ~HasNul(env[key])
    OBVIOUS
  <2>1. CASE key \in DOMAIN Base(mode, Parent) /\ env[key] = Base(mode, Parent)[key]
    BY <2>1, BaseIsSound
  <2>2. CASE \E k \in 1..len : key = Key(items[k]) /\ env[key] = Value(items[k])
    BY <1>1, <1>2, <1>5, <2>2, PartsOf
  <2> QED
    BY <1>3, <2>1, <2>2 DEF From
<1>6. /\ Environment(mode, Parent, Items(map)) =
           IF NulInEnv(items, env) THEN Refused ELSE Accepted(env)
      /\ ApplyEnv(mode, Parent, Items(map)) =
           IF NulInItem(items) THEN Refused ELSE Accepted(env)
  BY Refusals DEF items, env
<1>7. NulInEnv(items, env) \/ Clean
  BY <1>4 DEF NulInEnv
<1>8. NulInItem(items) \/ Clean
  BY <1>5 DEF NulInItem
<1>9. \A outcome \in {Environment(mode, Parent, Items(map)), ApplyEnv(mode, Parent, Items(map))} :
        outcome.ok => outcome.value = env /\ Clean
  BY <1>6, <1>7, <1>8, Outcome
<1>10. Outcomes(mode, map) =
        {Environment(mode, Parent, Items(map)), ApplyEnv(mode, Parent, Items(map))}
  BY DEF Outcomes, Items
<1> QED
  BY <1>9, <1>10 DEF Sound

(* The environment of the child is the one that its mode asks for, or the  *)
(* spawn is refused, on every platform, for every map of any length whose  *)
(* keys differ and hold no "="; and whatever the keys are, no environment  *)
(* that is accepted has an empty key or a NUL in it.                       *)
THEOREM EnvironmentOfAnyMap ==
  \A mode \in Modes : \A map \in Seq(Entries) :
    /\ Distinct(map) => AsAsked(mode, map)
    /\ Sound(mode, map)
BY EveryMapAsAsked, EveryMapSound DEF IsMap

(* EnvironmentIsAsAsked, which a run checks for maps of up to two entries. *)
THEOREM EnvironmentAsAsked == Spec => []EnvironmentIsAsAsked
<1>1. \A map \in Maps : map \in Seq(Entries) /\ Distinct(map)
  <2>1. SeqOf(Entries, 2) \subseteq Seq(Entries)
    <3>1. \A n \in Nat : \A map \in [1..n -> Entries] : map \in Seq(Entries)
      OBVIOUS
    <3>2. SeqOf(Entries, 2) = UNION {[1..n -> Entries] : n \in 0..2}
      BY DEF SeqOf
    <3>3. \A n \in 0..2 : n \in Nat
      OBVIOUS
    <3> QED
      BY <3>1, <3>2, <3>3
  <2> QED
    BY <2>1 DEF Maps, Distinct
<1>2. EveryEnvironment
  BY <1>1, EnvironmentOfAnyMap DEF EveryEnvironment
<1>3. EnvironmentIsAsAsked
  BY <1>2 DEF EnvironmentIsAsAsked
<1> QED
  BY <1>3, PTL
=============================================================================
