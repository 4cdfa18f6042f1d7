--------------------------- MODULE SessionOptions ---------------------------
(***************************************************************************)
(* The sizes and flags that the threads of a session run with, as          *)
(* ptyx_spawn takes them from its options (native/src/abi.rs).  The other  *)
(* modules have them as constants, and assume of them what is proved here. *)
(* The program's name, its environment and the size of its terminal are    *)
(* left out.                                                               *)
(***************************************************************************)
EXTENDS Integers, TLAPS

KIB == 1024
MIB == 1048576

DEFAULT_READ_BUFFER_SIZE          == 256 * KIB
DEFAULT_OUTPUT_BATCH_MAX_BYTES    == 128 * KIB
DEFAULT_OUTPUT_BATCH_DELAY_US     == 1000
DEFAULT_MODE_POLL_INTERVAL_MS     == 50
DEFAULT_MAX_INFLIGHT_BYTES        == 4 * MIB
DEFAULT_MAX_EXTERNAL_OUTPUT_BYTES == 64 * MIB
DEFAULT_WRITE_QUEUE_MAX_BYTES     == 64 * MIB

MIN_OUTPUT_BATCH_DELAY_US  == 1
MAX_OUTPUT_BATCH_DELAY_US  == 1000000
MIN_MODE_POLL_INTERVAL_MS  == 25
MAX_MODE_POLL_INTERVAL_MS  == 60000
MIN_READ_BUFFER_SIZE       == 4 * KIB
MAX_READ_BUFFER_SIZE       == MIB
MIN_OUTPUT_BATCH_MAX_BYTES == 64 * KIB
MAX_OUTPUT_BATCH_MAX_BYTES == 256 * KIB
MIN_WRITE_QUEUE_MAX_BYTES  == 64 * KIB
MAX_WRITE_QUEUE_MAX_BYTES  == 512 * MIB

Flags == {"external", "modes", "acks"}

(* ptyx_session_options_t; the numbers have 32 or 64 bits, which nothing   *)
(* here depends on.                                                        *)
Options ==
  [flags : SUBSET Flags,
   read_buffer_size : Nat, output_batch_max_bytes : Nat, output_batch_max_delay_us : Nat,
   mode_poll_interval_ms : Nat,
   max_inflight_bytes : Nat, max_external_output_bytes : Nat, write_queue_max_bytes : Nat]

(* default_session_options                                                 *)
DefaultOptions ==
  [flags |-> Flags,
   read_buffer_size |-> DEFAULT_READ_BUFFER_SIZE,
   output_batch_max_bytes |-> DEFAULT_OUTPUT_BATCH_MAX_BYTES,
   output_batch_max_delay_us |-> DEFAULT_OUTPUT_BATCH_DELAY_US,
   mode_poll_interval_ms |-> DEFAULT_MODE_POLL_INTERVAL_MS,
   max_inflight_bytes |-> DEFAULT_MAX_INFLIGHT_BYTES,
   max_external_output_bytes |-> DEFAULT_MAX_EXTERNAL_OUTPUT_BYTES,
   write_queue_max_bytes |-> DEFAULT_WRITE_QUEUE_MAX_BYTES]

(* default_u32 and default_u64                                             *)
Default(value, default) == IF value = 0 THEN default ELSE value

Clamp(value, low, high) == IF value < low THEN low ELSE IF value > high THEN high ELSE value

(* try_into().unwrap_or(usize::MAX)                                        *)
ToUsize(value, max) == IF value <= max THEN value ELSE max

(* The sizes of runtime_config_from_options.                               *)
ReadBufferSize(options) ==
  Clamp(Default(options.read_buffer_size, DEFAULT_READ_BUFFER_SIZE),
        MIN_READ_BUFFER_SIZE, MAX_READ_BUFFER_SIZE)
OutputBatchMaxBytes(options) ==
  Clamp(Default(options.output_batch_max_bytes, DEFAULT_OUTPUT_BATCH_MAX_BYTES),
        MIN_OUTPUT_BATCH_MAX_BYTES, MAX_OUTPUT_BATCH_MAX_BYTES)
OutputBatchMaxDelay(options) ==
  Clamp(Default(options.output_batch_max_delay_us, DEFAULT_OUTPUT_BATCH_DELAY_US),
        MIN_OUTPUT_BATCH_DELAY_US, MAX_OUTPUT_BATCH_DELAY_US)
ModePollInterval(options) ==
  Clamp(Default(options.mode_poll_interval_ms, DEFAULT_MODE_POLL_INTERVAL_MS),
        MIN_MODE_POLL_INTERVAL_MS, MAX_MODE_POLL_INTERVAL_MS)
MaxInflight(options) == Default(options.max_inflight_bytes, DEFAULT_MAX_INFLIGHT_BYTES)
MaxExternalOutputBytes(options) ==
  Default(options.max_external_output_bytes, DEFAULT_MAX_EXTERNAL_OUTPUT_BYTES)
WriteQueueMaxBytes(options, usizeMax) ==
  Clamp(ToUsize(Default(options.write_queue_max_bytes, DEFAULT_WRITE_QUEUE_MAX_BYTES), usizeMax),
        MIN_WRITE_QUEUE_MAX_BYTES, MAX_WRITE_QUEUE_MAX_BYTES)

(* runtime_config_from_options                                             *)
RuntimeConfig(options, usizeMax) ==
  [require_acks              |-> "acks" \in options.flags,
   use_external_output       |-> "external" \in options.flags,
   enable_mode_events        |-> "modes" \in options.flags,
   max_inflight              |-> MaxInflight(options),
   read_buffer_size          |-> ReadBufferSize(options),
   output_batch_max_bytes    |-> OutputBatchMaxBytes(options),
   output_batch_max_delay    |-> OutputBatchMaxDelay(options),
   max_external_output_bytes |-> MaxExternalOutputBytes(options),
   mode_poll_interval        |-> ModePollInterval(options),
   write_queue_max_bytes     |-> WriteQueueMaxBytes(options, usizeMax)]

(***************************************************************************)
(* Theorems                                                                *)
(***************************************************************************)

(* value is a number from low to high.                                     *)
Within(value, low, high) == value \in Nat /\ low <= value /\ value <= high

(* The limits and defaults are numbers, each default between its limits.   *)
LEMMA Limits ==
  /\ MIN_READ_BUFFER_SIZE \in Nat \ {0} /\ MAX_READ_BUFFER_SIZE \in Nat
  /\ Within(DEFAULT_READ_BUFFER_SIZE, MIN_READ_BUFFER_SIZE, MAX_READ_BUFFER_SIZE)
  /\ MIN_OUTPUT_BATCH_MAX_BYTES \in Nat \ {0} /\ MAX_OUTPUT_BATCH_MAX_BYTES \in Nat
  /\ Within(DEFAULT_OUTPUT_BATCH_MAX_BYTES, MIN_OUTPUT_BATCH_MAX_BYTES, MAX_OUTPUT_BATCH_MAX_BYTES)
  /\ MIN_OUTPUT_BATCH_DELAY_US \in Nat \ {0} /\ MAX_OUTPUT_BATCH_DELAY_US \in Nat
  /\ Within(DEFAULT_OUTPUT_BATCH_DELAY_US, MIN_OUTPUT_BATCH_DELAY_US, MAX_OUTPUT_BATCH_DELAY_US)
  /\ MIN_MODE_POLL_INTERVAL_MS \in Nat \ {0} /\ MAX_MODE_POLL_INTERVAL_MS \in Nat
  /\ Within(DEFAULT_MODE_POLL_INTERVAL_MS, MIN_MODE_POLL_INTERVAL_MS, MAX_MODE_POLL_INTERVAL_MS)
  /\ MIN_WRITE_QUEUE_MAX_BYTES \in Nat \ {0} /\ MAX_WRITE_QUEUE_MAX_BYTES \in Nat
  /\ Within(DEFAULT_WRITE_QUEUE_MAX_BYTES, MIN_WRITE_QUEUE_MAX_BYTES, MAX_WRITE_QUEUE_MAX_BYTES)
  /\ DEFAULT_MAX_INFLIGHT_BYTES \in Nat \ {0} /\ DEFAULT_MAX_EXTERNAL_OUTPUT_BYTES \in Nat \ {0}
BY SMT DEF Within, KIB, MIB,
  MIN_READ_BUFFER_SIZE, MAX_READ_BUFFER_SIZE, DEFAULT_READ_BUFFER_SIZE,
  MIN_OUTPUT_BATCH_MAX_BYTES, MAX_OUTPUT_BATCH_MAX_BYTES, DEFAULT_OUTPUT_BATCH_MAX_BYTES,
  MIN_OUTPUT_BATCH_DELAY_US, MAX_OUTPUT_BATCH_DELAY_US, DEFAULT_OUTPUT_BATCH_DELAY_US,
  MIN_MODE_POLL_INTERVAL_MS, MAX_MODE_POLL_INTERVAL_MS, DEFAULT_MODE_POLL_INTERVAL_MS,
  MIN_WRITE_QUEUE_MAX_BYTES, MAX_WRITE_QUEUE_MAX_BYTES, DEFAULT_WRITE_QUEUE_MAX_BYTES,
  DEFAULT_MAX_INFLIGHT_BYTES, DEFAULT_MAX_EXTERNAL_OUTPUT_BYTES

(* However the options combine, the threads run with sizes they can work   *)
(* with: a window, a batch and a read buffer of at least one byte, so that *)
(* no read is empty, no batch is full before it holds a byte and no window *)
(* is closed for good, and a queue whose bytes a usize can count (abi.rs   *)
(* 534-578).  It is what OutputReader and WriteQueue assume of theirs.     *)
THEOREM ConfigIsSound ==
  ASSUME NEW options \in Options,
         NEW usizeMax \in Nat, MAX_WRITE_QUEUE_MAX_BYTES <= usizeMax
  PROVE  LET config == RuntimeConfig(options, usizeMax) IN
           /\ config.max_inflight \in Nat \ {0}
           /\ config.max_external_output_bytes \in Nat \ {0}
           /\ Within(config.read_buffer_size, MIN_READ_BUFFER_SIZE, MAX_READ_BUFFER_SIZE)
           /\ Within(config.output_batch_max_bytes, MIN_OUTPUT_BATCH_MAX_BYTES, MAX_OUTPUT_BATCH_MAX_BYTES)
           /\ Within(config.write_queue_max_bytes, MIN_WRITE_QUEUE_MAX_BYTES, MAX_WRITE_QUEUE_MAX_BYTES)
           /\ config.write_queue_max_bytes <= usizeMax
           /\ 0 \notin {config.read_buffer_size, config.output_batch_max_bytes}
<1>1. /\ options.read_buffer_size \in Nat /\ options.output_batch_max_bytes \in Nat
      /\ options.max_inflight_bytes \in Nat /\ options.max_external_output_bytes \in Nat
      /\ options.write_queue_max_bytes \in Nat
  BY SMT DEF Options
<1>2. MaxInflight(options) \in Nat \ {0} /\ MaxExternalOutputBytes(options) \in Nat \ {0}
  BY <1>1, Limits, SMT DEF Default, MaxInflight, MaxExternalOutputBytes
<1>3. Within(ReadBufferSize(options), MIN_READ_BUFFER_SIZE, MAX_READ_BUFFER_SIZE)
  <2>1. Default(options.read_buffer_size, DEFAULT_READ_BUFFER_SIZE) \in Nat
    BY <1>1, Limits, SMT DEF Default, Within
  <2> QED BY <2>1, Limits, SMT DEF Clamp, ReadBufferSize, Within
<1>4. Within(OutputBatchMaxBytes(options), MIN_OUTPUT_BATCH_MAX_BYTES, MAX_OUTPUT_BATCH_MAX_BYTES)
  <2>1. Default(options.output_batch_max_bytes, DEFAULT_OUTPUT_BATCH_MAX_BYTES) \in Nat
    BY <1>1, Limits, SMT DEF Default, Within
  <2> QED BY <2>1, Limits, SMT DEF Clamp, OutputBatchMaxBytes, Within
<1>5. /\ Within(WriteQueueMaxBytes(options, usizeMax), MIN_WRITE_QUEUE_MAX_BYTES, MAX_WRITE_QUEUE_MAX_BYTES)
      /\ WriteQueueMaxBytes(options, usizeMax) <= usizeMax
  <2> DEFINE size == Default(options.write_queue_max_bytes, DEFAULT_WRITE_QUEUE_MAX_BYTES)
  <2>1. size \in Nat
    BY <1>1, Limits, SMT DEF Default, Within
  <2>2. ToUsize(size, usizeMax) \in Nat
    BY <2>1, SMT DEF ToUsize
  <2>3. Within(WriteQueueMaxBytes(options, usizeMax), MIN_WRITE_QUEUE_MAX_BYTES, MAX_WRITE_QUEUE_MAX_BYTES)
    BY <2>2, Limits, SMT DEF Clamp, WriteQueueMaxBytes, Within
  <2> QED BY <2>3, Limits, SMT DEF Within
<1>6. 0 \notin {ReadBufferSize(options), OutputBatchMaxBytes(options)}
  BY <1>3, <1>4, Limits, SMT DEF Within
<1> QED
  BY <1>2, <1>3, <1>4, <1>5, <1>6, SMT DEF RuntimeConfig

(* "Zero selects the default" (include/ptyx.h 206-218): options whose      *)
(* sizes are zero run with the same configuration as those that            *)
(* ptyx_session_options_init writes, each default being within its limits. *)
THEOREM ZeroIsTheDefault ==
  ASSUME NEW usizeMax \in Nat, MAX_WRITE_QUEUE_MAX_BYTES <= usizeMax
  PROVE  LET given == DefaultOptions
             zero  == [given EXCEPT
               !.read_buffer_size = 0, !.output_batch_max_bytes = 0,
               !.output_batch_max_delay_us = 0, !.mode_poll_interval_ms = 0,
               !.max_inflight_bytes = 0, !.max_external_output_bytes = 0,
               !.write_queue_max_bytes = 0]
             config == RuntimeConfig(zero, usizeMax) IN
           /\ config = RuntimeConfig(given, usizeMax)
           /\ config.read_buffer_size = DEFAULT_READ_BUFFER_SIZE
           /\ config.output_batch_max_bytes = DEFAULT_OUTPUT_BATCH_MAX_BYTES
           /\ config.output_batch_max_delay = DEFAULT_OUTPUT_BATCH_DELAY_US
           /\ config.mode_poll_interval = DEFAULT_MODE_POLL_INTERVAL_MS
           /\ config.max_inflight = DEFAULT_MAX_INFLIGHT_BYTES
           /\ config.max_external_output_bytes = DEFAULT_MAX_EXTERNAL_OUTPUT_BYTES
           /\ config.write_queue_max_bytes = DEFAULT_WRITE_QUEUE_MAX_BYTES
<1> DEFINE given == DefaultOptions
           zero  == [given EXCEPT
             !.read_buffer_size = 0, !.output_batch_max_bytes = 0,
             !.output_batch_max_delay_us = 0, !.mode_poll_interval_ms = 0,
             !.max_inflight_bytes = 0, !.max_external_output_bytes = 0,
             !.write_queue_max_bytes = 0]
<1>1. \A d : Default(0, d) = d /\ Default(d, d) = d
  BY SMT DEF Default
<1>2. /\ given.read_buffer_size = DEFAULT_READ_BUFFER_SIZE
      /\ given.output_batch_max_bytes = DEFAULT_OUTPUT_BATCH_MAX_BYTES
      /\ given.output_batch_max_delay_us = DEFAULT_OUTPUT_BATCH_DELAY_US
      /\ given.mode_poll_interval_ms = DEFAULT_MODE_POLL_INTERVAL_MS
      /\ given.max_inflight_bytes = DEFAULT_MAX_INFLIGHT_BYTES
      /\ given.max_external_output_bytes = DEFAULT_MAX_EXTERNAL_OUTPUT_BYTES
      /\ given.write_queue_max_bytes = DEFAULT_WRITE_QUEUE_MAX_BYTES
  BY SMT DEF DefaultOptions
<1>3. /\ zero.flags = given.flags
      /\ zero.read_buffer_size = 0 /\ zero.output_batch_max_bytes = 0
      /\ zero.output_batch_max_delay_us = 0 /\ zero.mode_poll_interval_ms = 0
      /\ zero.max_inflight_bytes = 0 /\ zero.max_external_output_bytes = 0
      /\ zero.write_queue_max_bytes = 0
  BY SMT DEF DefaultOptions
<1> HIDE DEF given, zero
<1>4. \A o \in {given, zero} :
        /\ ReadBufferSize(o) = DEFAULT_READ_BUFFER_SIZE
        /\ OutputBatchMaxBytes(o) = DEFAULT_OUTPUT_BATCH_MAX_BYTES
        /\ OutputBatchMaxDelay(o) = DEFAULT_OUTPUT_BATCH_DELAY_US
        /\ ModePollInterval(o) = DEFAULT_MODE_POLL_INTERVAL_MS
  BY <1>1, <1>2, <1>3, Limits, SMT
    DEF Clamp, ReadBufferSize, OutputBatchMaxBytes, OutputBatchMaxDelay, ModePollInterval, Within
<1>5. \A o \in {given, zero} :
        /\ MaxInflight(o) = DEFAULT_MAX_INFLIGHT_BYTES
        /\ MaxExternalOutputBytes(o) = DEFAULT_MAX_EXTERNAL_OUTPUT_BYTES
  BY <1>1, <1>2, <1>3, SMT DEF MaxInflight, MaxExternalOutputBytes
<1>6. \A o \in {given, zero} : WriteQueueMaxBytes(o, usizeMax) = DEFAULT_WRITE_QUEUE_MAX_BYTES
  <2>1. ToUsize(DEFAULT_WRITE_QUEUE_MAX_BYTES, usizeMax) = DEFAULT_WRITE_QUEUE_MAX_BYTES
    BY Limits, SMT DEF ToUsize, Within
  <2> QED BY <1>1, <1>2, <1>3, <2>1, Limits, SMT DEF Clamp, WriteQueueMaxBytes, Within
<1>7. RuntimeConfig(zero, usizeMax) = RuntimeConfig(given, usizeMax)
  BY <1>3, <1>4, <1>5, <1>6, SMT DEF RuntimeConfig
<1>8. LET config == RuntimeConfig(zero, usizeMax) IN
        /\ config.read_buffer_size = DEFAULT_READ_BUFFER_SIZE
        /\ config.output_batch_max_bytes = DEFAULT_OUTPUT_BATCH_MAX_BYTES
        /\ config.output_batch_max_delay = DEFAULT_OUTPUT_BATCH_DELAY_US
        /\ config.mode_poll_interval = DEFAULT_MODE_POLL_INTERVAL_MS
        /\ config.max_inflight = DEFAULT_MAX_INFLIGHT_BYTES
        /\ config.max_external_output_bytes = DEFAULT_MAX_EXTERNAL_OUTPUT_BYTES
        /\ config.write_queue_max_bytes = DEFAULT_WRITE_QUEUE_MAX_BYTES
  BY <1>4, <1>5, <1>6, SMT DEF RuntimeConfig
<1> QED
  BY <1>7, <1>8, SMT DEF given, zero
=============================================================================
