---------------------------- MODULE ResultAdmission ----------------------------
(***************************************************************************)
(* The adapter fed the way run_worker feeds it: the children's outputs     *)
(* arrive one by one, nothing follows a child that did not complete, and   *)
(* the fixed checks begin only behind a completed benchmark.  At every     *)
(* point the worker could hand over what it has.                           *)
(***************************************************************************)
EXTENDS ResultAdapter

CONSTANTS
    Plans,             \* plans: how many warmups, measured runs and checks
    BenchmarkOutputs,  \* the outputs a benchmark child may have
    QuickOutputs       \* the outputs a fixed check may have

ASSUME AdmissionAssumption ==
    /\ \A p \in Plans : p.warmups \in Nat /\ p.measured \in Nat \ {0} /\ p.checks \in Nat
    /\ BenchmarkOutputs \subseteq BenchmarkOutput
    /\ QuickOutputs \subseteq QuickOutput
    /\ Refused \notin NormalizedResults({p.id : p \in Plans})
    /\ NoObservation \notin QuickObservations

VARIABLES
    plan,      \* the verification plan of this run
    outputs,   \* the benchmark children's outputs, in order
    checks     \* the fixed checks' outputs, in order

vars == <<plan, outputs, checks>>

Benchmark == BenchmarkObservation(outputs, plan)

(* run_worker asks for the checks behind a completed benchmark only.       *)
ChecksRun == plan.checks > 0 /\ Benchmark.status = "completed" /\ checks # <<>>

Quick == IF ChecksRun THEN QuickObservation(checks, plan) ELSE NoObservation

Normalized ==
    VerificationResult(plan, RunStatus(Benchmark, Quick), Benchmark, Quick)

Init == plan \in Plans /\ outputs = <<>> /\ checks = <<>>

(* The benchmark loop: it breaks behind an output that did not complete.   *)
RunInvocation(output) ==
    /\ Len(outputs) < Planned(plan)
    /\ \A k \in DOMAIN outputs : outputs[k].ended = "completed"
    /\ outputs' = Append(outputs, output)
    /\ UNCHANGED <<plan, checks>>

(* run_quick_check_suite.                                                  *)
RunCheck(output) ==
    /\ Len(outputs) = Planned(plan)
    /\ Benchmark.status = "completed"
    /\ Len(checks) < plan.checks
    /\ \A k \in DOMAIN checks : checks[k].ended = "completed"
    /\ checks' = Append(checks, output)
    /\ UNCHANGED <<plan, outputs>>

Next ==
    \/ \E output \in BenchmarkOutputs : RunInvocation(output)
    \/ \E output \in QuickOutputs : RunCheck(output)

Spec == Init /\ [][Next]_vars
-----------------------------------------------------------------------------
TypeOK ==
    /\ plan \in Plans
    /\ outputs \in Seq(BenchmarkOutputs)
    /\ checks \in Seq(QuickOutputs)

Accepted == {k \in DOMAIN outputs : outputs[k].ended = "completed" /\ ~ReportRefused(outputs[k])}

(* The worker may hand over: the run of children is over, one way or the   *)
(* other.                                                                  *)
RunOver ==
    /\ outputs # <<>>
    /\ \/ Len(outputs) = Planned(plan)
       \/ outputs[Len(outputs)].ended # "completed"
    /\ plan.checks > 0 /\ Benchmark.status = "completed" =>
          checks # <<>> /\ (Len(checks) = plan.checks \/ checks[Len(checks)].ended # "completed")

(* Normalization accepts whatever the worker can hand it: a stopped, timed *)
(* out or failed run gives a result with the worker's own status and is    *)
(* never turned into an empty failure by a check of verification_result.   *)
NormalizationAcceptsTheRun == RunOver => Normalized # Refused

(* Completed is the whole plan: every invocation ran, every report was     *)
(* accepted, every check was scored, and warmups are kept apart from       *)
(* measured runs.  (AdmissionStatus, benchmark_result, quick_check_result) *)
CompletedIsTheWholePlan ==
    (RunOver /\ Normalized # Refused /\ Normalized.status = "completed") =>
        /\ Accepted = 1..Planned(plan)
        /\ Normalized.warmups = 1..plan.warmups
        /\ Normalized.measured = (plan.warmups + 1)..Planned(plan)
        /\ Normalized.passed \cup Normalized.failed = 1..plan.checks

(* The load observation is there exactly when some report was accepted: a  *)
(* run that ends early keeps it, one that never was accepted has none.     *)
LoadIsObservedOfAcceptedReports == Benchmark.load <=> 1 \in Accepted

(* A later output never takes back what an earlier one was admitted for:   *)
(* samples, scores and the load observation only grow.                     *)
AdmittedPrefixSurvives ==
    [][/\ Benchmark.warmups \subseteq Benchmark'.warmups
       /\ Benchmark.measured \subseteq Benchmark'.measured
       /\ Benchmark.load => Benchmark'.load
       /\ QuickObservation(checks, plan).passed \subseteq QuickObservation(checks, plan)'.passed
       /\ QuickObservation(checks, plan).failed \subseteq QuickObservation(checks, plan)'.failed]_vars

(* What the adapter's test malformed_later_benchmark_output_preserves_only *)
(* _admitted_prefix_and_load says: only accepted reports leave samples.    *)
OnlyAcceptedReportsLeaveSamples ==
    Benchmark.warmups \cup Benchmark.measured \subseteq Accepted
=============================================================================
