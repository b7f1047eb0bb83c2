-------------------------- MODULE ExecutionProtocol --------------------------
(***************************************************************************)
(* From a plan to the arguments of its children.  execution_protocol.rs    *)
(* resolves a benchmark or quick-check plan to a list of invocations,      *)
(* fit_profile_capture.rs prepares six of its own.  An argument is a pair  *)
(* of its kind and its value, so that a number and a word can be told      *)
(* apart as parse::<u64>() does.                                           *)
(***************************************************************************)
EXTENDS Integers, Sequences, FiniteSets

CONSTANTS
    Plans,           \* the plans that may be handed in, of all three protocols
    FixedChecks,     \* FIXED_CHECKS: each identifier with its token limit
    PromptTokens, GenerationTokens,
    MaxWarmups, MaxMeasured, MaxTotal,
    MinContext, MaxContext, MaxBatch, MaxThreads, MaxLayers,
    MaxCaptureContext, Repetitions

ASSUME ProtocolAssumption ==
    /\ {MaxWarmups, MaxMeasured, MaxTotal, MinContext, MaxContext} \subseteq Nat
    /\ MinContext > 0

(* What a caller may hand in has the types of its fields.                  *)
ASSUME PlansAssumption ==
    \A p \in Plans :
        \/ p.protocol = "benchmark" /\ {p.warmups, p.measured} \subseteq Nat
        \/ p.protocol = "quick-check" /\ p.checks \in Seq({p.checks[i] : i \in DOMAIN p.checks})
        \/ p.protocol = "capture"

None == -1    \* an Option that is not there
All == -2     \* GpuLayers::All

CacheTypes == {"f16", "q8_0", "q4_0"}
Toggles == {"on", "off"}

Flag(name) == <<"flag", name>>
Number(n) == <<"number", n>>
Word(w) == <<"word", w>>
Path(p) == <<"path", p>>

-----------------------------------------------------------------------------
(* validate_runtime, shared by both resolvers.                             *)
RuntimeSupported(r) ==
    /\ r.engineSupported /\ r.noFlags
    /\ r.backend \in {"cuda", "vulkan", "cpu"}
    /\ r.context \in MinContext..MaxContext
    /\ r.batch \in 1..MaxBatch /\ r.microBatch \in 1..MaxBatch /\ r.microBatch <= r.batch
    /\ r.threads \in 1..MaxThreads
    /\ r.parallelism = 1
    /\ {r.flash, r.mmap} \subseteq Toggles
    /\ r.layers = All \/ r.layers \in 0..MaxLayers
    /\ {r.key, r.value} \subseteq CacheTypes
    /\ r.samplerComplete

DistinctEntries(list) == Cardinality({list[i] : i \in DOMAIN list}) = Len(list)

BenchmarkResolves(p) ==
    /\ p.identified
    /\ RuntimeSupported(p.runtime)
    /\ p.warmups <= MaxWarmups
    /\ p.measured \in 1..MaxMeasured
    /\ p.warmups + p.measured <= MaxTotal
    /\ DistinctEntries(p.kinds)
    /\ {"prompt-processing", "generation"} \subseteq {p.kinds[i] : i \in DOMAIN p.kinds}
    /\ {p.kinds[i] : i \in DOMAIN p.kinds} \subseteq {"prompt-processing", "generation", "stability"}

QuickCheckResolves(p) ==
    /\ p.identified
    /\ RuntimeSupported(p.runtime) /\ p.runtime.chatml
    /\ p.checks # <<>>
    /\ DistinctEntries(p.checks)
    /\ \A i \in DOMAIN p.checks : p.checks[i] \in DOMAIN FixedChecks

(* prepare_fit_profile_capture; its receipts and identities are one choice.*)
CaptureResolves(p) ==
    /\ p.identified
    /\ p.runtime.engineSupported /\ p.runtime.noFlags
    /\ p.runtime.backend = "cuda" /\ p.runtime.layers = All
    /\ p.runtime.context > 0 /\ 4 * p.runtime.context <= MaxCaptureContext
    /\ \A field \in {"batch", "microBatch", "threads"} : p.runtime[field] > 0
    /\ {p.runtime.key, p.runtime.value} \subseteq CacheTypes
    /\ {p.runtime.flash, p.runtime.mmap} \subseteq Toggles

Resolves(p) ==
    CASE p.protocol = "benchmark" -> BenchmarkResolves(p)
      [] p.protocol = "quick-check" -> QuickCheckResolves(p)
      [] p.protocol = "capture" -> CaptureResolves(p)

-----------------------------------------------------------------------------
LayersNumber(layers) == Number(IF layers = All THEN MaxLayers ELSE layers)
ToggleNumber(toggle) == Number(IF toggle = "on" THEN 1 ELSE 0)
MmapFlag(toggle) == Flag(IF toggle = "on" THEN "--mmap" ELSE "--no-mmap")

(* Seeded fault: the batch sizes change places.                            *)
BenchmarkArgvSwapped(p) ==
    LET r == p.runtime
    IN  << Flag("-m"), Path(p.artifact), Flag("-p"), Number(PromptTokens),
           Flag("-n"), Number(GenerationTokens), Flag("-d"), Number(r.context),
           Flag("-b"), Number(r.microBatch), Flag("-ub"), Number(r.batch),
           Flag("-ctk"), Word(r.key), Flag("-ctv"), Word(r.value), Flag("-t"), Number(r.threads),
           Flag("-ngl"), LayersNumber(r.layers), Flag("-fa"), ToggleNumber(r.flash),
           Flag("-mmp"), ToggleNumber(r.mmap), Flag("-r"), Number(1), Flag("-o"), Word("json") >>

BenchmarkArgv(p) ==
    LET r == p.runtime
    IN  << Flag("-m"), Path(p.artifact), Flag("-p"), Number(PromptTokens),
           Flag("-n"), Number(GenerationTokens), Flag("-d"), Number(r.context),
           Flag("-b"), Number(r.batch), Flag("-ub"), Number(r.microBatch),
           Flag("-ctk"), Word(r.key), Flag("-ctv"), Word(r.value), Flag("-t"), Number(r.threads),
           Flag("-ngl"), LayersNumber(r.layers), Flag("-fa"), ToggleNumber(r.flash),
           Flag("-mmp"), ToggleNumber(r.mmap), Flag("-r"), Number(1), Flag("-o"), Word("json") >>

QuickCheckArgv(p, check) ==
    LET r == p.runtime
    IN  << Flag("-m"), Path(p.artifact), Flag("-p"), Word(check),
           Flag("-n"), Number(FixedChecks[check]), Flag("-c"), Number(r.context),
           Flag("-ctk"), Word(r.key), Flag("-ctv"), Word(r.value),
           Flag("-ngl"), LayersNumber(r.layers), Flag("-b"), Number(r.batch),
           Flag("-ub"), Number(r.microBatch), Flag("-t"), Number(r.threads),
           Flag("--flash-attn"), Word(r.flash), MmapFlag(r.mmap),
           Flag("--chat-template"), Word("chatml"), Flag("--temp"), Word("sampler"),
           Flag("--top-p"), Word("sampler"), Flag("--top-k"), Word("sampler"),
           Flag("--min-p"), Word("sampler"), Flag("--seed"), Word("sampler"),
           Flag("--single-turn"), Flag("--simple-io"), Flag("--no-show-timings"),
           Flag("--color"), Word("off") >>

CaptureArgv(p, context) ==
    LET r == p.runtime
    IN  << Flag("-m"), Path(p.artifact), Flag("-c"), Number(context),
           Flag("-ngl"), Number(MaxLayers), Flag("-b"), Number(r.batch),
           Flag("-ub"), Number(r.microBatch), Flag("-ctk"), Word(r.key),
           Flag("-ctv"), Word(r.value), Flag("-t"), Number(r.threads),
           Flag("-fa"), Word(r.flash), MmapFlag(r.mmap),
           Flag("-fitp"), Word("on"), Flag("--offline"), Flag("--log-disable") >>

-----------------------------------------------------------------------------
(* Seeded fault: measured runs are numbered beside the warmups.            *)
BenchmarkInvocationsRestarted(p) ==
    LET run(phase, n, count) ==
            [phase |-> phase, number |-> n, count |-> count, overall |-> n,
             total |-> p.warmups + p.measured, argv |-> BenchmarkArgv(p)]
    IN  [n \in 1..p.warmups |-> run("warmup", n, p.warmups)]
        \o [n \in 1..p.measured |-> run("measured", n, p.measured)]

BenchmarkInvocations(p) ==
    LET run(phase, n, count, before) ==
            [phase |-> phase, number |-> n, count |-> count, overall |-> before + n,
             total |-> p.warmups + p.measured, argv |-> BenchmarkArgv(p)]
    IN  [n \in 1..p.warmups |-> run("warmup", n, p.warmups, 0)]
        \o [n \in 1..p.measured |-> run("measured", n, p.measured, p.warmups)]

QuickCheckInvocations(p) ==
    [i \in DOMAIN p.checks |-> [check |-> p.checks[i], argv |-> QuickCheckArgv(p, p.checks[i])]]

(* The selected context, then four times it.                               *)
CaptureInvocations(p) ==
    LET at(context) == [n \in 1..Repetitions |-> [context |-> context, number |-> n,
                                                  argv |-> CaptureArgv(p, context)]]
    IN  at(p.runtime.context) \o at(4 * p.runtime.context)

Invocations(p) ==
    CASE p.protocol = "benchmark" -> BenchmarkInvocations(p)
      [] p.protocol = "quick-check" -> QuickCheckInvocations(p)
      [] p.protocol = "capture" -> CaptureInvocations(p)
=============================================================================
