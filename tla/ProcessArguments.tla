--------------------------- MODULE ProcessArguments ---------------------------
(***************************************************************************)
(* The invocations of a resolved plan on their way through the process     *)
(* boundary, one by one as the worker runs them.  The boundary does not    *)
(* trust the resolver: from_benchmark_protocol, from_quick_check_protocol  *)
(* and from_fit_profile_capture_protocol of execution_process.rs describe  *)
(* the same arguments a second time, by position, and refuse what differs. *)
(***************************************************************************)
EXTENDS ExecutionProtocol

VARIABLES
    plan,          \* the plan that was handed in
    status,        \* "none", "resolved", "not-resolved" or "refused"
    invocations,   \* what it was resolved to
    crossed        \* how many of them the boundary has accepted

vars == <<plan, status, invocations, crossed>>

IsNumber(argument) == argument[1] = "number"

(* The code counts positions from zero.                                    *)
At(argv, position) == argv[position + 1]

FlagsAt(argv, positions) == [i \in DOMAIN positions |-> At(argv, positions[i])]
Flags(names) == [i \in DOMAIN names |-> Flag(names[i])]
EvenBelow(n) == [i \in 1..(n \div 2) |-> 2 * (i - 1)]

(* validate_benchmark_protocol_argv                                        *)
BenchmarkArgvAccepted(p, argv) ==
    /\ Len(argv) = 28
    /\ FlagsAt(argv, EvenBelow(28)) =
          Flags(<<"-m", "-p", "-n", "-d", "-b", "-ub", "-ctk", "-ctv", "-t", "-ngl", "-fa",
                  "-mmp", "-r", "-o">>)
    /\ At(argv, 1) = Path(p.artifact)
    /\ At(argv, 25) = Number(1) /\ At(argv, 27) = Word("json")
    /\ \A i \in {3, 5, 7, 9, 11, 17, 19, 21, 23, 25} : IsNumber(At(argv, i))
    /\ \A i \in {13, 15} : \E type \in CacheTypes : At(argv, i) = Word(type)

(* validate_resolved_benchmark_invocation                                  *)
BenchmarkIsCanonical(p, all, run) ==
    LET phaseCount == IF run.phase = "warmup" THEN p.warmups ELSE p.measured
    IN  /\ run.overall \in DOMAIN all /\ all[run.overall] = run
        /\ run.total = Len(all)
        /\ At(run.argv, 3) = Number(PromptTokens)
        /\ At(run.argv, 5) = Number(GenerationTokens)
        /\ At(run.argv, 7) = Number(p.runtime.context)
        /\ run.number \in 1..phaseCount /\ run.count = phaseCount

(* validate_quick_check_protocol_argv.  The sampler's numbers were built   *)
(* from a complete and valid sampler, and are not told apart.              *)
QuickCheckArgvAccepted(p, argv) ==
    /\ Len(argv) = 40
    /\ At(argv, 1) = Path(p.artifact)
    /\ FlagsAt(argv, EvenBelow(22)) =
          Flags(<<"-m", "-p", "-n", "-c", "-ctk", "-ctv", "-ngl", "-b", "-ub", "-t",
                  "--flash-attn">>)
    /\ At(argv, 22) \in {Flag("--mmap"), Flag("--no-mmap")}
    /\ FlagsAt(argv, <<23, 25, 27, 29, 31, 33, 35, 36, 37, 38>>) =
          Flags(<<"--chat-template", "--temp", "--top-p", "--top-k", "--min-p", "--seed",
                  "--single-turn", "--simple-io", "--no-show-timings", "--color">>)
    /\ At(argv, 24) = Word("chatml") /\ At(argv, 39) = Word("off")
    /\ \A i \in {26, 28, 30, 32, 34} : At(argv, i) = Word("sampler")

(* validate_resolved_quick_check_invocation                                *)
QuickCheckIsCanonical(all, invocation) ==
    /\ invocation.check \in DOMAIN FixedChecks
    /\ \E i \in DOMAIN all : all[i] = invocation
    /\ At(invocation.argv, 3) = Word(invocation.check)
    /\ At(invocation.argv, 5) = Number(FixedChecks[invocation.check])

(* validate_fit_profile_capture_protocol_argv, with both its conditions on *)
(* position 19.                                                            *)
CaptureArgvAccepted(p, argv) ==
    /\ Len(argv) = 23
    /\ FlagsAt(argv, EvenBelow(18)) =
          Flags(<<"-m", "-c", "-ngl", "-b", "-ub", "-ctk", "-ctv", "-t", "-fa">>)
    /\ At(argv, 1) = Path(p.artifact)
    /\ At(argv, 5) = Number(MaxLayers)
    /\ At(argv, 18) \in {Flag("--mmap"), Flag("--no-mmap")}
    /\ At(argv, 19) = Flag("-fitp") /\ At(argv, 20) = Word("on")
    /\ At(argv, 21) = Flag("--offline") /\ At(argv, 22) = Flag("--log-disable")
    /\ \A i \in {3, 7, 9, 15} : IsNumber(At(argv, i)) /\ At(argv, i) # Number(0)
    /\ \A i \in {11, 13} : \E type \in CacheTypes : At(argv, i) = Word(type)
    /\ \E toggle \in Toggles : At(argv, 17) = Word(toggle)
    /\ At(argv, 19) \in {Number(0), Number(1)}

Accepted(p, all, invocation) ==
    CASE p.protocol = "benchmark" ->
            /\ BenchmarkIsCanonical(p, all, invocation)
            /\ BenchmarkArgvAccepted(p, invocation.argv)
      [] p.protocol = "quick-check" ->
            /\ QuickCheckIsCanonical(all, invocation)
            /\ QuickCheckArgvAccepted(p, invocation.argv)
      [] p.protocol = "capture" -> CaptureArgvAccepted(p, invocation.argv)

-----------------------------------------------------------------------------
Init ==
    /\ plan \in Plans
    /\ status = "none" /\ invocations = <<>> /\ crossed = 0

Resolve ==
    /\ status = "none"
    /\ IF Resolves(plan)
       THEN status' = "resolved" /\ invocations' = Invocations(plan)
       ELSE status' = "not-resolved" /\ UNCHANGED invocations
    /\ UNCHANGED <<plan, crossed>>

(* The first refusal ends the plan.                                        *)
Cross ==
    /\ status = "resolved"
    /\ crossed < Len(invocations)
    /\ IF Accepted(plan, invocations, invocations[crossed + 1])
       THEN crossed' = crossed + 1 /\ UNCHANGED status
       ELSE status' = "refused" /\ UNCHANGED crossed
    /\ UNCHANGED <<plan, invocations>>

Next == Resolve \/ Cross
Spec == Init /\ [][Next]_vars
-----------------------------------------------------------------------------
Through == 1..crossed
IsCapture == plan.protocol = "capture"

FlagNames == [context |-> {"-d", "-c"}, batch |-> {"-b"}, microBatch |-> {"-ub"},
              threads |-> {"-t"}, key |-> {"-ctk"}, value |-> {"-ctv"}]

Behind(argv, names) ==
    {argv[i + 1][2] : i \in {j \in 1..(Len(argv) - 1) : \E n \in names : argv[j] = Flag(n)}}

(* What a resolver lets through, the boundary lets through: the two        *)
(* descriptions of the benchmark and quick-check arguments agree on every  *)
(* runtime, run number and check, so that no plan fails between them after *)
(* it was confirmed.                                                       *)
ResolvedPlansCross == status = "refused" => IsCapture

(* The same of the fit-profile capture: "Executes exactly the sealed U27   *)
(* invocations after an explicit local-process acknowledgement."           *)
PreparedCapturesCross == status = "refused" => ~IsCapture

(* Whatever the positions are: behind each flag of an accepted invocation  *)
(* stands the plan's own value of that runtime field, and no other, so     *)
(* that the benchmark and the checks measure the runtime that was          *)
(* confirmed.                                                              *)
TheConfirmedRuntimeRuns ==
    ~IsCapture =>
        \A i \in Through : \A field \in DOMAIN FlagNames :
            Behind(invocations[i].argv, FlagNames[field]) = {plan.runtime[field]}

=============================================================================
