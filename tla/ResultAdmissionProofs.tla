------------------------- MODULE ResultAdmissionProofs -------------------------
(***************************************************************************)
(* The properties of the admission, for every plan and every run of        *)
(* children.  The invariant says no more than that the worker runs no more *)
(* children than the plan has; the rest are the lemmas on the adapter.     *)
(***************************************************************************)
EXTENDS ResultAdmission, ExecutionLemmas

IInv ==
    /\ TypeOK
    /\ Len(outputs) <= Planned(plan)
    /\ Len(checks) <= plan.checks

(* The plan and the outputs are as the lemmas on the adapter need them.    *)
LEMMA RunIsTyped ==
    ASSUME IInv
    PROVE  /\ Counted(plan) /\ plan.id \in {p.id : p \in Plans}
           /\ outputs \in Seq(BenchmarkOutput) /\ Len(outputs) \in Nat
           /\ checks \in Seq(QuickOutput) /\ Len(checks) \in Nat
           /\ Planned(plan) \in Nat
           /\ Accepted = AcceptedReports(outputs)
  <1>1. Counted(plan) /\ plan.id \in {p.id : p \in Plans}
    BY AdmissionAssumption DEF IInv, TypeOK, Counted
  <1>2. outputs \in Seq(BenchmarkOutput) /\ checks \in Seq(QuickOutput)
    BY AdmissionAssumption DEF IInv, TypeOK
  <1>3. QED
    BY <1>1, <1>2 DEF Counted, Planned, Accepted, AcceptedReports

(* No child has run yet.                                                   *)
LEMMA InitInv == Init => IInv
  <1> SUFFICES ASSUME Init PROVE IInv
    OBVIOUS
  <1>1. plan \in Plans /\ outputs = <<>> /\ checks = <<>> /\ Len(<<>>) = 0
    BY DEF Init
  <1>2. QED
    BY <1>1, AdmissionAssumption DEF IInv, TypeOK, Planned

(* A further child is one the plan has.                                    *)
LEMMA NextInv == IInv /\ [Next]_vars => IInv'
  <1> SUFFICES ASSUME IInv, [Next]_vars PROVE IInv'
    OBVIOUS
  <1>1. /\ plan \in Plans /\ outputs \in Seq(BenchmarkOutputs) /\ checks \in Seq(QuickOutputs)
        /\ Len(outputs) \in Nat /\ Len(checks) \in Nat
        /\ Planned(plan) \in Nat /\ plan.checks \in Nat
    BY RunIsTyped DEF IInv, TypeOK, Counted
  <1>2. ASSUME NEW output \in BenchmarkOutputs, RunInvocation(output) PROVE IInv'
    <2>1. /\ plan' = plan /\ checks' = checks /\ outputs' = Append(outputs, output)
          /\ Len(outputs) < Planned(plan)
      BY <1>2 DEF RunInvocation
    <2>2. outputs' \in Seq(BenchmarkOutputs) /\ Len(outputs') = Len(outputs) + 1
      BY <1>1, <2>1, AppendProperties
    <2>3. QED
      BY <1>1, <2>1, <2>2 DEF IInv, TypeOK
  <1>3. ASSUME NEW output \in QuickOutputs, RunCheck(output) PROVE IInv'
    <2>1. /\ plan' = plan /\ outputs' = outputs /\ checks' = Append(checks, output)
          /\ Len(checks) < plan.checks
      BY <1>3 DEF RunCheck
    <2>2. checks' \in Seq(QuickOutputs) /\ Len(checks') = Len(checks) + 1
      BY <1>1, <2>1, AppendProperties
    <2>3. QED
      BY <1>1, <2>1, <2>2 DEF IInv, TypeOK
  <1>4. CASE UNCHANGED vars
    BY <1>4 DEF vars, IInv, TypeOK
  <1>5. QED
    BY <1>2, <1>3, <1>4 DEF Next

(* The inductive invariant holds of every run of children.                 *)
LEMMA SpecInv == Spec => []IInv
  BY InitInv, NextInv, PTL DEF Spec
-----------------------------------------------------------------------------
(* What the worker hands over when its children are through is as the      *)
(* normalization takes it.                                                 *)
LEMMA HandedOver ==
    ASSUME IInv, RunOver
    PROVE  /\ Normalized # Refused
           /\ Normalized.warmups = Benchmark.warmups
           /\ Normalized.measured = Benchmark.measured
           /\ Normalized.status = "completed" =>
                 /\ Benchmark.status = "completed"
                 /\ Normalized.passed \cup Normalized.failed = 1..plan.checks
  <1>1. /\ Counted(plan) /\ plan.id \in {p.id : p \in Plans}
        /\ outputs \in Seq(BenchmarkOutput) /\ Len(outputs) <= Planned(plan)
        /\ checks \in Seq(QuickOutput) /\ Len(checks) <= plan.checks
    BY RunIsTyped DEF IInv
  <1>2. QuickIsOf(plan, Benchmark, Quick)
    <2>1. CASE ChecksRun
      <3>1. Quick = QuickObservation(checks, plan)
        BY <2>1 DEF Quick
      <3>2. plan.checks > 0 /\ Benchmark.status = "completed"
        BY <2>1 DEF ChecksRun
      <3>3. QED
        BY <1>1, <3>1, <3>2 DEF QuickIsOf
    <2>2. CASE ~ChecksRun
      <3>1. Quick = NoObservation
        BY <2>2 DEF Quick
      <3>2. plan.checks > 0 => Benchmark.status # "completed"
        BY <2>2 DEF ChecksRun, RunOver
      <3>3. QED
        BY <3>1, <3>2 DEF QuickIsOf
    <2>3. QED
      BY <2>1, <2>2
  <1>3. QuickIsOf(plan, BenchmarkObservation(outputs, plan), Quick)
    BY <1>2 DEF Benchmark
  <1>4. QED
    BY <1>1, <1>3, AdmissionAssumption, NormalizationAccepts DEF Normalized, Benchmark

(* A stopped, timed out or failed run is never turned into an empty        *)
(* failure by a check of verification_result: it takes all of them.        *)
THEOREM NormalizationAccepted == Spec => []NormalizationAcceptsTheRun
  <1>1. IInv => NormalizationAcceptsTheRun
    BY HandedOver DEF NormalizationAcceptsTheRun
  <1>2. QED
    BY <1>1, SpecInv, PTL

(* "completed" is said of whole runs only, with the warmups apart.         *)
THEOREM CompletedIsWhole == Spec => []CompletedIsTheWholePlan
  <1>1. IInv => CompletedIsTheWholePlan
    <2> SUFFICES ASSUME IInv, RunOver, Normalized.status = "completed"
                 PROVE  /\ Accepted = 1..Planned(plan)
                        /\ Normalized.warmups = 1..plan.warmups
                        /\ Normalized.measured = (plan.warmups + 1)..Planned(plan)
                        /\ Normalized.passed \cup Normalized.failed = 1..plan.checks
      BY DEF CompletedIsTheWholePlan
    <2>1. /\ Normalized.warmups = Benchmark.warmups
          /\ Normalized.measured = Benchmark.measured
          /\ Benchmark.status = "completed"
          /\ Normalized.passed \cup Normalized.failed = 1..plan.checks
      BY HandedOver
    <2>2. /\ Counted(plan) /\ outputs \in Seq(BenchmarkOutput) /\ Len(outputs) <= Planned(plan)
          /\ Accepted = AcceptedReports(outputs)
      BY RunIsTyped DEF IInv
    <2>3. /\ AcceptedReports(outputs) = 1..Planned(plan)
          /\ Benchmark.warmups = 1..plan.warmups
          /\ Benchmark.measured = (plan.warmups + 1)..Planned(plan)
      BY <2>1, <2>2, BenchmarkIs DEF Benchmark
    <2>4. QED
      BY <2>1, <2>2, <2>3
  <1>2. QED
    BY <1>1, SpecInv, PTL

(* The load is observed of accepted reports, and of the first of them.     *)
THEOREM LoadIsOfAcceptedReports == Spec => []LoadIsObservedOfAcceptedReports
  <1>1. IInv => LoadIsObservedOfAcceptedReports
    <2> SUFFICES ASSUME IInv PROVE Benchmark.load <=> 1 \in Accepted
      BY DEF LoadIsObservedOfAcceptedReports
    <2>1. /\ Counted(plan) /\ outputs \in Seq(BenchmarkOutput) /\ Len(outputs) <= Planned(plan)
          /\ Accepted = AcceptedReports(outputs)
      BY RunIsTyped DEF IInv
    <2>2. QED
      BY <2>1, BenchmarkIs DEF Benchmark
  <1>2. QED
    BY <1>1, SpecInv, PTL

(* A later output takes back nothing an earlier one was admitted for.      *)
THEOREM PrefixSurvives == Spec => AdmittedPrefixSurvives
  <1> DEFINE Grows ==
        /\ Benchmark.warmups \subseteq Benchmark'.warmups
        /\ Benchmark.measured \subseteq Benchmark'.measured
        /\ Benchmark.load => Benchmark'.load
        /\ QuickObservation(checks, plan).passed \subseteq QuickObservation(checks, plan)'.passed
        /\ QuickObservation(checks, plan).failed \subseteq QuickObservation(checks, plan)'.failed
  <1>1. IInv /\ [Next]_vars => [Grows]_vars
    <2> SUFFICES ASSUME IInv, Next PROVE Grows
      OBVIOUS
    <2>1. Counted(plan) /\ outputs \in Seq(BenchmarkOutput) /\ checks \in Seq(QuickOutput)
      BY RunIsTyped
    <2>2. ASSUME NEW output \in BenchmarkOutputs, RunInvocation(output) PROVE Grows
      <3>1. /\ output \in BenchmarkOutput /\ outputs' = Append(outputs, output)
            /\ checks' = checks /\ plan' = plan
        BY <2>2, AdmissionAssumption DEF RunInvocation
      <3>2. QuickObservation(checks, plan)' = QuickObservation(checks, plan)
        BY <3>1
      <3>3. Benchmark' = BenchmarkObservation(Append(outputs, output), plan)
        BY <3>1 DEF Benchmark
      <3>4. QED
        BY <2>1, <3>1, <3>2, <3>3, AppendKeepsBenchmark DEF Benchmark
    <2>3. ASSUME NEW output \in QuickOutputs, RunCheck(output) PROVE Grows
      <3>1. /\ output \in QuickOutput /\ checks' = Append(checks, output)
            /\ outputs' = outputs /\ plan' = plan
        BY <2>3, AdmissionAssumption DEF RunCheck
      <3>2. Benchmark' = Benchmark
        BY <3>1 DEF Benchmark
      <3>3. QuickObservation(checks, plan)' = QuickObservation(Append(checks, output), plan)
        BY <3>1
      <3>4. QED
        BY <2>1, <3>1, <3>2, <3>3, AppendKeepsQuick
    <2>4. QED
      BY <2>2, <2>3 DEF Next
  <1>2. QED
    BY <1>1, SpecInv, PTL DEF Spec, AdmittedPrefixSurvives
=============================================================================
