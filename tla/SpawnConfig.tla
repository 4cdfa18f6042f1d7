----------------------------- MODULE SpawnConfig -----------------------------
(***************************************************************************)
(* What ptyx_spawn makes of its arguments: the environment of the child    *)
(* and the size of its terminal (lib/src/bindings/session.dart, abi.rs,    *)
(* process.rs, process_linux.rs).  SessionOptions has the other sizes.     *)
(*                                                                         *)
(* A string is a sequence of bytes, of which only "=" and "NUL" matter.    *)
(***************************************************************************)
EXTENDS Integers, SequencesExt

CONSTANTS
  Max16,  \* u16::MAX
  Mod32   \* 2^32, which a Dart integer is taken modulo of in a u32

ASSUME WidthAssumption == Max16 \in Nat \ {0} /\ Mod32 \in Nat /\ Max16 < Mod32

Refused == [ok |-> FALSE]
Accepted(value) == [ok |-> TRUE, value |-> value]

HasNul(bytes) == Contains(bytes, "NUL")

(***************************************************************************)
(* The environment.  An entry of the caller's map becomes one string, and  *)
(* is taken apart again at its first "=".                                  *)
(***************************************************************************)
Item(entry) == entry.key \o <<"=">> \o entry.value

Split(item) == SelectInSeq(item, LAMBDA byte : byte = "=")

(* Mutant of Key: taken apart at the last "=".                             *)
KeyToLast(item) == SubSeq(item, 1, SelectLastInSeq(item, LAMBDA byte : byte = "=") - 1)

Key(item)   == SubSeq(item, 1, Split(item) - 1)
Value(item) == SubSeq(item, Split(item) + 1, Len(item))

(* No "=", or nothing before it.                                           *)
NoKey(item) == Split(item) \in {0, 1}

(* A later value of a key takes the place of an earlier one.               *)
Put(env, item) ==
  [key \in DOMAIN env \union {Key(item)} |-> IF key = Key(item) THEN Value(item) ELSE env[key]]

Applied(mode, items) == IF mode \in {"overlay", "replace"} THEN items ELSE <<>>
Base(mode, parent)   == IF mode \in {"inherit", "overlay"} THEN parent ELSE <<>>
Built(mode, parent, items) == FoldLeft(Put, Base(mode, parent), Applied(mode, items))

(* environment, on Linux: what has been built is searched for NUL.         *)
Environment(mode, parent, items) ==
  LET env == Built(mode, parent, items) IN
  IF \/ \E k \in DOMAIN Applied(mode, items) : NoKey(items[k])
     \/ \E key \in DOMAIN env : HasNul(key) \/ HasNul(env[key])
  THEN Refused
  ELSE Accepted(env)

(* apply_env, elsewhere: every item is.  What the CommandBuilder of         *)
(* portable_pty starts from is taken to be the environment of the process. *)
ApplyEnv(mode, parent, items) ==
  IF \E k \in DOMAIN Applied(mode, items) : NoKey(items[k]) \/ HasNul(items[k])
  THEN Refused
  ELSE Accepted(Built(mode, parent, items))

(***************************************************************************)
(* A size.                                                                 *)
(***************************************************************************)
Dimensions == {"rows", "columns", "pixel_width", "pixel_height"}

(* setNativeSize stores Dart integers in 32 bits.                          *)
NativeSize(size) == [d \in Dimensions |-> size[d] % Mod32]

(* Mutants of ToPtySize: a number that is too large is cut to 16 bits, and *)
(* is let through.                                                         *)
CutSize(size) ==
  IF size.rows = 0 \/ size.columns = 0 THEN Refused
  ELSE Accepted([d \in Dimensions |-> size[d] % (Max16 + 1)])
AnySize(size) == IF size.rows = 0 \/ size.columns = 0 THEN Refused ELSE Accepted(size)

ToPtySize(size) ==
  IF \/ size.rows = 0 \/ size.columns = 0
     \/ \E d \in Dimensions : size[d] > Max16
  THEN Refused
  ELSE Accepted(size)

(***************************************************************************)
(* spawn_config_from_options, before a terminal is opened, and             *)
(* SpawnRequest::new, after it.                                            *)
(***************************************************************************)
ConfigRefused(request) ==
  request.executable = <<>> \/ ~ToPtySize(NativeSize(request.size)).ok

SpawnRequestRefused(request, parent) ==
  \/ HasNul(request.executable) \/ HasNul(request.cwd)
  \/ \E k \in DOMAIN request.arguments : HasNul(request.arguments[k])
  \/ ~Environment(request.mode, parent, [k \in DOMAIN request.environment |-> Item(request.environment[k])]).ok

(***************************************************************************)
(* The environment against what its documentation says.                    *)
(***************************************************************************)
CONSTANTS
  Bytes,
  Keys, Values, \* strings that a caller's map has as keys and as values
  Parent        \* the environment of the process itself

ASSUME StringAssumption ==
  {"=", "NUL"} \subseteq Bytes /\ Keys \subseteq Seq(Bytes) /\ Values \subseteq Seq(Bytes)
(* std::env::vars_os has C strings, and no name that is empty.             *)
ASSUME ParentAssumption ==
  /\ Parent \in [DOMAIN Parent -> Seq(Bytes)] /\ DOMAIN Parent \subseteq Seq(Bytes)
  /\ \A key \in DOMAIN Parent : key # <<>> /\ ~HasNul(key) /\ ~HasNul(Parent[key])

Modes == {"inherit", "overlay", "replace", "clear"}

Entries == [key : Keys, value : Values]

(* Maps of up to two entries, in their order.                              *)
Maps == {m \in SeqOf(Entries, 2) : \A j, k \in DOMAIN m : m[j].key = m[k].key => j = k}

(* options.dart 3-21, for a map whose keys hold no "=".                    *)
Asked(mode, map) ==
  LET given == [key \in {map[k].key : k \in DOMAIN map} |->
                  map[CHOOSE k \in DOMAIN map : map[k].key = key].value] IN
  CASE mode = "inherit" -> Parent
    [] mode = "overlay" -> [key \in DOMAIN Parent \union DOMAIN given |->
                              IF key \in DOMAIN given THEN given[key] ELSE Parent[key]]
    [] mode = "replace" -> given
    [] mode = "clear"   -> <<>>

(* What a mode and a map come to, on Linux and elsewhere, against Asked.    *)
Outcomes(mode, map) ==
  LET items == [k \in DOMAIN map |-> Item(map[k])] IN
  {Environment(mode, Parent, items), ApplyEnv(mode, Parent, items)}

Counts(mode) == mode \in {"overlay", "replace"}
Bad(entry) == entry.key = <<>> \/ HasNul(entry.key) \/ HasNul(entry.value)

AsAsked(mode, map) ==
  (\A k \in DOMAIN map : ~Contains(map[k].key, "=")) =>
    Outcomes(mode, map) = {IF Counts(mode) /\ \E k \in DOMAIN map : Bad(map[k]) THEN Refused
                           ELSE Accepted(Asked(mode, map))}

Sound(mode, map) ==
  \A outcome \in Outcomes(mode, map) : outcome.ok =>
    \A key \in DOMAIN outcome.value : key # <<>> /\ ~HasNul(key) /\ ~HasNul(outcome.value[key])

EveryEnvironment == \A mode \in Modes : \A map \in Maps : AsAsked(mode, map) /\ Sound(mode, map)
=============================================================================
