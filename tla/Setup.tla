------------------------------- MODULE Setup --------------------------------
(***************************************************************************)
(* What happens before the first operation: the features of the kernel are *)
(* detected, by version or by probing as well; a configuration is chosen,  *)
(* from a preset, from what was detected, or section by section; a ring is *)
(* built from it; and, beside that, Runtime picks a backend.               *)
(*                                                                         *)
(* A configuration is modelled by the fields that validate, with_config    *)
(* and the detection read; a set of features stands for the booleans of    *)
(* AvailableFeatures and of AdvancedConfig. The kernel is external: what   *)
(* it accepts when a ring is created is io_uring_setup(2).                 *)
(***************************************************************************)
EXTENDS Integers

CONSTANTS
  Machine,   \* the machines the program may run on
  MaxCalls,  \* bound: calls of setters on one configuration
  None

VARIABLES
  machine,   \* the one it runs on
  calls,     \* calls of setters so far, for the bound
  features,  \* FeatureDetector, None before it is created
  detected,  \* "version" or "probing", how it was
  advanced,  \* an AdvancedConfig on its way into a configuration
  config,    \* SaferRingConfig, None before one is created
  runtime,   \* the backend Runtime picked
  ring       \* None, the error, or the Ring

vars == <<machine, calls, features, detected, advanced, config, runtime, ring>>

---------------------------------------------------------------------------
(* FeatureDetector. Versions are major and minor: no feature asks for a    *)
(* patch level.                                                            *)

(* Seeded fault: major and minor are compared one by one.                  *)
BothAtLeast(v, w) == v[1] >= w[1] /\ v[2] >= w[2]

AtLeast(v, w) == v[1] > w[1] \/ (v[1] = w[1] /\ v[2] >= w[2])

LegacySince ==
  [fixed_files |-> <<5, 1>>, fixed_buffers |-> <<5, 1>>, fast_poll |-> <<5, 7>>,
   sq_poll |-> <<5, 11>>, buffer_selection |-> <<5, 13>>, provided_buffers |-> <<5, 13>>,
   multi_shot |-> <<5, 19>>, coop_taskrun |-> <<6, 0>>, defer_taskrun |-> <<6, 0>>]

NewerSince ==
  [advanced_task_work |-> <<6, 1>>, defer_async_work |-> <<6, 1>>,
   send_zc_reporting |-> <<6, 2>>, multishot_completion_batching |-> <<6, 2>>,
   epoll_uring_wake |-> <<6, 2>>, registered_ring_fd |-> <<6, 3>>,
   multishot_timeouts |-> <<6, 4>>, user_allocated_ring_memory |-> <<6, 5>>,
   async_cancel_op |-> <<6, 6>>, socket_command_support |-> <<6, 6>>,
   sysctl_disable_support |-> <<6, 6>>, direct_io_optimizations |-> <<6, 6>>,
   msg_ring_speedup |-> <<6, 11>>, native_bind_listen |-> <<6, 11>>,
   improved_huge_pages |-> <<6, 12>>, async_discard |-> <<6, 12>>,
   minimum_timeout_waits |-> <<6, 12>>, absolute_timeouts |-> <<6, 12>>,
   incremental_buffer_consumption |-> <<6, 12>>, registered_buffer_cloning |-> <<6, 12>>]

Legacy == DOMAIN LegacySince
Name == Legacy \union DOMAIN NewerSince

(* has_feature answers for these names and says no to any other.           *)
HasFeature(fs, name) == name \in Name /\ name \in fs
AvailableFeatures(fs) == {name \in Name : HasFeature(fs, name)}

ProbeFeatures(v) == {f \in Legacy : AtLeast(v, LegacySince[f])}
                      \union {f \in DOMAIN NewerSince : AtLeast(v, NewerSince[f])}

(* DirectProbeDetector: most features are guessed from the opcode they are *)
(* used with. The newer ones are found out too, and merging drops them.    *)
Proxy ==
  [fixed_files |-> {"Read", "Write"}, fixed_buffers |-> {"Read"}, fast_poll |-> {"PollAdd"},
   sq_poll |-> {}, buffer_selection |-> {"Recv"}, provided_buffers |-> {"Recv"},
   multi_shot |-> {"Accept"}, send_zc_reporting |-> {"SendZc"},
   multishot_timeouts |-> {"Timeout"}, async_cancel_op |-> {"AsyncCancel"}]

ProbeKernelFeatures(opcodes) == {f \in DOMAIN Proxy : Proxy[f] \subseteq opcodes}

MergeFeatureDetection(byVersion, byProbe) == byVersion \union (byProbe \intersect Legacy)

(* uname, and a release that splits into numbers.                          *)
Detect ==
  /\ features = None /\ machine.parses
  /\ features' = ProbeFeatures(machine.version)
  /\ detected' = "version"
  /\ UNCHANGED <<machine, calls, advanced, config, runtime, ring>>

DetectByProbing ==
  /\ features = None /\ machine.parses
  /\ features' = IF machine.ioUring /\ AtLeast(machine.version, <<5, 6>>)
                 THEN MergeFeatureDetection(ProbeFeatures(machine.version),
                                            ProbeKernelFeatures(machine.opcodes))
                 ELSE ProbeFeatures(machine.version)
  /\ detected' = "probing"
  /\ UNCHANGED <<machine, calls, advanced, config, runtime, ring>>

---------------------------------------------------------------------------
(* AdvancedConfig: the features that are on, and whether the polling       *)
(* thread has a CPU.                                                       *)

Advanced(on) == [on |-> on, cpu |-> FALSE]

Stable == Advanced({"buffer_selection", "fast_poll", "provided_buffers",
                    "coop_taskrun", "defer_taskrun"})

Performance ==
  Advanced(Stable.on \union {"multi_shot", "advanced_task_work", "send_zc_reporting",
                             "multishot_completion_batching", "async_cancel_op",
                             "direct_io_optimizations"})

Development == Advanced(Stable.on \union {"multi_shot"})

(* What a configuration has no field for, and what stays off.              *)
NoField == {"fixed_files", "fixed_buffers", "sysctl_disable_support"}
OffByDefault == {"sq_poll", "defer_async_work", "user_allocated_ring_memory"}

(* Seeded fault: polling is taken from the detector like the others.       *)
OptimalWithPolling(fs) == Advanced(fs \ (NoField \union (OffByDefault \ {"sq_poll"})))

CreateOptimalConfig(fs) == Advanced(fs \ (NoField \union OffByDefault))

(* enabled_features: the names of the fields that are on.                  *)
EnabledFeatures(c) == {name \in Name \ NoField : name \in c.on}

Settable == Performance.on

With(c, f, enabled) == [c EXCEPT !.on = IF enabled THEN @ \union {f} ELSE @ \ {f}]

WithSqPoll(c, enabled, cpu) == [With(c, "sq_poll", enabled) EXCEPT !.cpu = enabled /\ cpu]

(* AdvancedConfig::validate: the warnings.                                 *)
Warnings(c) ==
  {w \in {"sq_poll and defer_taskrun", "defer_async_work alone", "custom memory",
          "no CPU affinity", "intensive"} :
     \/ w = "sq_poll and defer_taskrun" /\ {"sq_poll", "defer_taskrun"} \subseteq c.on
     \/ w = "defer_async_work alone" /\ "defer_async_work" \in c.on
                                     /\ "advanced_task_work" \notin c.on
     \/ w = "custom memory" /\ "user_allocated_ring_memory" \in c.on
     \/ w = "no CPU affinity" /\ "sq_poll" \in c.on /\ ~c.cpu
     \/ w = "intensive" /\ \E f, g \in c.on \intersect OffByDefault : f # g}

ChooseAdvanced ==
  /\ advanced = None
  /\ \/ advanced' \in {Advanced({}), Stable, Performance, Development}
     \/ features # None /\ advanced' = CreateOptimalConfig(features)
  /\ UNCHANGED <<machine, calls, features, detected, config, runtime, ring>>

SetAdvanced ==
  /\ advanced # None /\ calls < MaxCalls
  /\ calls' = calls + 1
  /\ \E enabled \in BOOLEAN :
       \/ \E f \in Settable : advanced' = With(advanced, f, enabled)
       \/ \E cpu \in BOOLEAN : advanced' = WithSqPoll(advanced, enabled, cpu)
  /\ UNCHANGED <<machine, features, detected, config, runtime, ring>>

---------------------------------------------------------------------------
(* SaferRingConfig.                                                        *)

DefaultConfig ==
  [sqEntries |-> 128, cqEntries |-> 0, sqPoll |-> FALSE, size |-> 4096,
   pooling |-> TRUE, pool |-> 64, batching |-> TRUE, batch |-> 32,
   retry |-> FALSE, retries |-> 3, advanced |-> Advanced({})]

LowLatency ==
  [DefaultConfig EXCEPT !.sqEntries = 32, !.sqPoll = TRUE, !.size = 1024, !.pool = 32,
     !.batching = FALSE, !.batch = 1, !.retries = 0,
     !.advanced = WithSqPoll(Stable, TRUE, TRUE)]

HighThroughput ==
  [DefaultConfig EXCEPT !.sqEntries = 1024, !.cqEntries = 2048, !.size = 65536, !.pool = 256,
     !.batch = 256, !.retry = TRUE,
     !.advanced = With(Development, "fast_poll", FALSE)]

DevelopmentConfig ==
  [DefaultConfig EXCEPT !.sqEntries = 64, !.pool = 32, !.batch = 16, !.retry = TRUE,
     !.retries = 1]

Production ==
  [DefaultConfig EXCEPT !.sqEntries = 256, !.size = 8192, !.pool = 128, !.batch = 64,
     !.retry = TRUE]

(* auto_detect; get_memory_info gives the pool, a third of which is the    *)
(* answer when /proc/meminfo cannot be read.                               *)
PoolFor(memory) == CASE memory = "over 1024 MB" -> 256
                     [] memory = "over 512 MB" -> 128
                     [] OTHER -> 64

AutoDetect ==
  [DefaultConfig EXCEPT
     !.advanced = CreateOptimalConfig(ProbeFeatures(machine.version)),
     !.sqEntries = IF machine.cpus * 32 < 1024 THEN machine.cpus * 32 ELSE 1024,
     !.pool = PoolFor(machine.memory)]

ChooseConfig ==
  /\ config = None
  /\ \/ config' \in {DefaultConfig, LowLatency, HighThroughput, DevelopmentConfig, Production}
     \/ machine.parses /\ config' = AutoDetect
  /\ UNCHANGED <<machine, calls, features, detected, advanced, runtime, ring>>

(* ConfigBuilder, or writing the public fields: one section is replaced.   *)
ReplaceSection ==
  /\ config # None /\ calls < MaxCalls
  /\ calls' = calls + 1
  /\ \/ \E n \in {0, 64, 5000} : config' = [config EXCEPT !.sqEntries = n]
     \/ \E n \in {0, 8192} : config' = [config EXCEPT !.size = n]
     \/ \E on \in BOOLEAN : config' = [config EXCEPT !.pooling = on, !.pool = 0]
     \/ \E on \in BOOLEAN : config' = [config EXCEPT !.batching = on, !.batch = 0]
     \/ \E on \in BOOLEAN : config' = [config EXCEPT !.retry = on, !.retries = 0]
     \/ advanced # None /\ config' = [config EXCEPT !.advanced = advanced]
  /\ UNCHANGED <<machine, features, detected, advanced, runtime, ring>>

Validate(c) ==
  /\ c.sqEntries \in 1..4096
  /\ c.size # 0
  /\ c.pooling => c.pool # 0
  /\ c.batching => c.batch # 0
  /\ c.retry => c.retries # 0

---------------------------------------------------------------------------
(* The kernel: io_uring_setup(2). SQPOLL excludes the two taskrun flags,   *)
(* and DEFER_TASKRUN needs SINGLE_ISSUER, for which the code never asks.   *)
KernelAccepts(flags) ==
  /\ machine.ioUring
  /\ "COOP_TASKRUN" \in flags => AtLeast(machine.version, <<5, 19>>)
                                 /\ "SQPOLL" \notin flags
  /\ "DEFER_TASKRUN" \in flags => /\ AtLeast(machine.version, <<6, 1>>)
                                  /\ "SQPOLL" \notin flags
                                  /\ "SINGLE_ISSUER" \in flags

(* The builder of with_config. It is used for its error only: the ring is  *)
(* dropped, and the backend creates one of its own without any flag.       *)

(* Seeded fault: polling only if asked for, and the flag that defer_task-  *)
(* run needs beside it.                                                    *)
FlagsAsMeant(c) ==
  (IF c.sqPoll THEN {"SQPOLL"} ELSE {})
    \union (IF "coop_taskrun" \in c.advanced.on THEN {"COOP_TASKRUN"} ELSE {})
    \union (IF "defer_taskrun" \in c.advanced.on THEN {"DEFER_TASKRUN", "SINGLE_ISSUER"} ELSE {})

BuilderFlags(c) ==
  {"SQPOLL"}
    \union (IF "coop_taskrun" \in c.advanced.on THEN {"COOP_TASKRUN"} ELSE {})
    \union (IF "defer_taskrun" \in c.advanced.on THEN {"DEFER_TASKRUN"} ELSE {})

Refused == [error |-> "refused"]
Invalid == [error |-> "invalid"]
Built(backend, c) == [backend |-> backend, from |-> c]

(* The kernel can refuse for its own reasons too (memory, limits), and     *)
(* there is no fall back to epoll here.                                    *)
WithConfig(c) ==
  /\ ring = None
  /\ ring' \in IF ~Validate(c) THEN {Invalid}
               ELSE {Refused} \union (IF KernelAccepts(BuilderFlags(c)) /\ KernelAccepts({})
                                      THEN {Built("io_uring", c)} ELSE {})
  /\ UNCHANGED <<machine, calls, features, detected, advanced, config, runtime>>

(* with_advanced_config switches off two features the kernel lacks.        *)
Checked == {"buffer_selection", "multi_shot"}

WithAdvancedConfig ==
  /\ advanced # None /\ machine.parses
  /\ LET missing == Checked \ ProbeFeatures(machine.version)
     IN WithConfig([DefaultConfig EXCEPT !.advanced = [advanced EXCEPT !.on = @ \ missing]])

(* Whatever error io_uring ends in, epoll is tried next, and may fail too. *)
DetectBackend ==
  {Refused, Built("epoll", None)}
    \union (IF KernelAccepts({}) THEN {Built("io_uring", None)} ELSE {})

New(entries) ==
  /\ ring = None
  /\ ring' \in IF entries = 0 THEN {Invalid} ELSE DetectBackend
  /\ UNCHANGED <<machine, calls, features, detected, advanced, config, runtime>>

---------------------------------------------------------------------------
(* Runtime.                                                                *)

IsCloud == machine.container \/ machine.kubernetes \/ machine.serverless

SelectBestBackend ==
  IF ~KernelAccepts({}) \/ (IsCloud /\ machine.restricted) THEN "epoll" ELSE "io_uring"

RuntimeAutoDetect ==
  /\ runtime = None
  /\ runtime' = SelectBestBackend
  /\ UNCHANGED <<machine, calls, features, detected, advanced, config, ring>>

RuntimeWithBackend(backend) ==
  /\ runtime = None
  /\ backend = "io_uring" => KernelAccepts({})
  /\ runtime' = backend
  /\ UNCHANGED <<machine, calls, features, detected, advanced, config, ring>>

---------------------------------------------------------------------------
Init ==
  /\ machine \in Machine
  /\ calls = 0 /\ features = None /\ detected = None
  /\ advanced = None /\ config = None /\ runtime = None /\ ring = None

(* Setup ends with the ring.                                               *)
Next ==
  /\ ring = None
  /\ \/ Detect \/ DetectByProbing
     \/ ChooseAdvanced \/ SetAdvanced
     \/ ChooseConfig \/ ReplaceSection
     \/ config # None /\ WithConfig(config)
     \/ WithAdvancedConfig
     \/ \E entries \in {0, 32} : New(entries)
     \/ RuntimeAutoDetect
     \/ \E backend \in {"io_uring", "epoll", "stub"} : RuntimeWithBackend(backend)

Spec == Init /\ [][Next]_vars

---------------------------------------------------------------------------
(* The order of versions, spelt out for the property.                      *)
NotNewer(v, w) == v[1] < w[1] \/ (v[1] = w[1] /\ v[2] <= w[2])

(* Detection is ordered: a newer kernel, whether its number grew in the    *)
(* major or the minor part, has every feature of an older one, and probing *)
(* never takes a feature away that the version promises, nor adds one of   *)
(* those that came with 6.0 or later (feature_detection.rs 229, 751).      *)
DetectionGrows ==
  features # None =>
    /\ \A older \in Machine : NotNewer(older.version, machine.version) =>
         ProbeFeatures(older.version) \subseteq features
    /\ \A f \in features \ ProbeFeatures(machine.version) :
         detected = "probing" /\ f \in Legacy \ {"coop_taskrun", "defer_taskrun"}

(* Whenever create_optimal_config can be called, what it builds is within  *)
(* the features that were detected and passes AdvancedConfig::validate     *)
(* without a warning, and so does the configuration that auto_detect       *)
(* builds around it.                                                       *)
OptimalFits ==
  /\ features # None /\ advanced = None =>
       LET c == CreateOptimalConfig(features)
       IN /\ EnabledFeatures(c) \subseteq AvailableFeatures(features)
          /\ Warnings(c) = {}
  /\ machine.parses /\ config = None =>
       Validate(AutoDetect) /\ Warnings(AutoDetect.advanced) = {}

(* No ring is ever built from a configuration with coop_taskrun or         *)
(* defer_taskrun, on any kernel: with_config asks for SQPOLL even when     *)
(* the configuration does not (configuration.rs 84), and the kernel        *)
(* refuses the two beside it. Of the presets stable, performance,          *)
(* development, low_latency and high_throughput therefore end in an error, *)
(* and so do the optimal ones from 6.0 on.                                 *)
TaskrunIsRefused ==
  ring # None /\ "from" \in DOMAIN ring /\ ring.from # None =>
    ring.from.advanced.on \intersect {"coop_taskrun", "defer_taskrun"} = {}
=============================================================================
