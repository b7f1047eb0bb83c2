---------------------------- MODULE ResultAdapter ----------------------------
(***************************************************************************)
(* From the outputs of a run's child processes to its normalized result:   *)
(* produce_benchmark_observation and produce_quick_check_observation of    *)
(* execution_result_adapter.rs, then benchmark_result, quick_check_result  *)
(* and verification_result of verification.rs.  Pure: no variables.        *)
(*                                                                         *)
(* A sample is the number of the invocation that measured it.  The text of *)
(* a report is abstracted to what its parser and its checks tell apart.    *)
(* The worker builds each output from the invocation it ran and the plan   *)
(* it resolved, so the checks of identities and timestamps, which compare  *)
(* those with themselves, are left out.                                    *)
(***************************************************************************)
EXTENDS Integers, Sequences, FiniteSets

CONSTANTS
    NoObservation,   \* the subplan was not run, or the plan does not have it
    Refused          \* verification_result returned Err

Terminations == {"completed", "stopped", "timed-out", "failed"}

(* How many rows of a report have the planned prompt shape, the planned    *)
(* generation shape, and any other shape or more than one sample.          *)
Rows == [prompt : 0..2, generation : 0..2, other : 0..1]

(* reading: the report does not parse, or it parses and does not match the *)
(* plan (build, path, backend, settings), or it matches.                   *)
Readings == {"unreadable", "mismatched", "matching"}

NoRows == [prompt |-> 0, generation |-> 0, other |-> 0]
OnePair == [prompt |-> 1, generation |-> 1, other |-> 0]

(* A benchmark child's output; reading and rows say nothing unless it      *)
(* completed.                                                              *)
BenchmarkOutput == [ended : Terminations, reading : Readings, rows : Rows]

(* A fixed check's output: build line and answer were both admitted, and   *)
(* what the scorer says of the answer.                                     *)
QuickOutput == [ended : Terminations, admitted : BOOLEAN, passed : BOOLEAN]

Terminal(ended) == [ended |-> ended, reading |-> "unreadable", rows |-> NoRows]
TerminalCheck(ended) == [ended |-> ended, admitted |-> FALSE, passed |-> FALSE]

(* What a run of one of these plans is normalized to, and what its checks  *)
(* are observed to be: a sample and a check are known by their number.     *)
NormalizedResults(ids) ==
    [plan : ids, status : Terminations, warmups : SUBSET Nat, measured : SUBSET Nat,
     passed : SUBSET Nat, failed : SUBSET Nat]

QuickObservations == [status : Terminations, passed : SUBSET Nat, failed : SUBSET Nat]

(* The benchmark invocations of a plan.                                    *)
Planned(plan) == plan.warmups + plan.measured

-----------------------------------------------------------------------------
(* append_samples.                                                         *)
HasPair(rows) == rows.prompt > 0 /\ rows.generation > 0

ShapeIssue(rows) == rows.other > 0 \/ rows.prompt # 1 \/ rows.generation # 1

(* The report of a completed child is refused by the parser, by            *)
(* validate_report or by append_samples.                                   *)
ReportRefused(output) ==
    /\ output.ended = "completed"
    /\ output.reading # "matching" \/ ShapeIssue(output.rows)

CheckRefused(output) == output.ended = "completed" /\ ~output.admitted

(* The admission loop ends at the first refused output; an output behind a *)
(* terminal one is refused too.  These are the outputs before that.        *)
AfterTerminal(outputs, k) == \E j \in 1..(k - 1) : outputs[j].ended # "completed"

Clean(outputs, refused) ==
    {k \in DOMAIN outputs : \A j \in 1..k : j \notin refused /\ ~AfterTerminal(outputs, j)}

RefusedReports(outputs) == {k \in DOMAIN outputs : ReportRefused(outputs[k])}
RefusedChecks(outputs) == {k \in DOMAIN outputs : CheckRefused(outputs[k])}

(* append_samples pushes the pair it found before its caller looks at the  *)
(* issues it raised: a report refused for its shape alone leaves its       *)
(* samples behind.                                                         *)
PushedBy(outputs, k) ==
    /\ outputs[k].ended = "completed"
    /\ outputs[k].reading = "matching"
    /\ HasPair(outputs[k].rows)

(* Seeded fault: a run that ended early gives up what it measured.         *)
PushedOfWholeRun(outputs) ==
    IF \E k \in DOMAIN outputs : outputs[k].ended # "completed" THEN {}
    ELSE {k \in DOMAIN outputs : PushedBy(outputs, k)}

Pushed(outputs) ==
    LET clean == Clean(outputs, RefusedReports(outputs))
    IN  {k \in DOMAIN outputs :
            /\ \A j \in 1..(k - 1) : j \in clean
            /\ ~AfterTerminal(outputs, k)
            /\ PushedBy(outputs, k)}

TerminalIn(outputs, clean) == {k \in clean : outputs[k].ended # "completed"}

(* Seeded fault: only what ended a child early decides.                    *)
AdmissionOfTerminations(outputs, planned, clean) ==
    IF \E k \in DOMAIN outputs : outputs[k].ended # "completed"
    THEN outputs[CHOOSE k \in DOMAIN outputs : outputs[k].ended # "completed"].ended
    ELSE IF Len(outputs) < planned THEN "failed" ELSE "completed"

(* The status of an admission: what the worker ran to, what stopped it, or *)
(* failed when an output was refused or one is missing without a reason.   *)
AdmissionStatus(outputs, planned, clean) ==
    CASE clean # DOMAIN outputs -> "failed"
      [] clean = DOMAIN outputs /\ TerminalIn(outputs, clean) # {} ->
            outputs[CHOOSE k \in TerminalIn(outputs, clean) : TRUE].ended
      [] clean = DOMAIN outputs /\ TerminalIn(outputs, clean) = {} ->
            IF Len(outputs) < planned THEN "failed" ELSE "completed"

(* Seeded fault: the load is observed before the rows are looked at.       *)
LoadBeforeRows(outputs, plan) ==
    LET clean == Clean(outputs, RefusedReports(outputs))
        pushed == Pushed(outputs)
    IN  [status |-> AdmissionStatus(outputs, Planned(plan), clean),
         warmups |-> {k \in pushed : k <= plan.warmups},
         measured |-> {k \in pushed : k > plan.warmups},
         load |-> \E k \in DOMAIN outputs : outputs[k].ended = "completed"
                                              /\ outputs[k].reading = "matching"]

(* produce_benchmark_observation: one pair of series, the samples of the   *)
(* first `warmups` invocations apart.  The load is observed from the first *)
(* admitted report.                                                        *)
BenchmarkObservation(outputs, plan) ==
    LET clean == Clean(outputs, RefusedReports(outputs))
        pushed == Pushed(outputs)
    IN  [status |-> AdmissionStatus(outputs, Planned(plan), clean),
         warmups |-> {k \in pushed : k <= plan.warmups},
         measured |-> {k \in pushed : k > plan.warmups},
         load |-> \E k \in clean : outputs[k].ended = "completed"]

(* produce_quick_check_observation: the admitted checks and their scores.  *)
QuickObservation(outputs, plan) ==
    LET clean == Clean(outputs, RefusedChecks(outputs))
        scored == {k \in clean : outputs[k].ended = "completed"}
    IN  [status |-> AdmissionStatus(outputs, plan.checks, clean),
         passed |-> {k \in scored : outputs[k].passed},
         failed |-> {k \in scored : ~outputs[k].passed}]

-----------------------------------------------------------------------------
Severity(status) ==
    CASE status = "completed" -> 0 [] status = "stopped" -> 1 [] status = "cancelled" -> 2
      [] status = "failed" -> 3 [] status = "timed-out" -> 4 [] status = "oom" -> 5

Worst(a, b) == IF Severity(b) > Severity(a) THEN b ELSE a

(* benchmark_result: validate_samples of both series.                      *)
BenchmarkNormalizes(plan, seen) ==
    LET warmups == Cardinality(seen.warmups)
        measured == Cardinality(seen.measured)
    IN  IF seen.status = "completed"
        THEN warmups = plan.warmups /\ measured = plan.measured
        ELSE warmups <= plan.warmups /\ measured <= plan.measured

(* quick_check_result: a completed suite has an outcome for every check.   *)
QuickNormalizes(plan, seen) ==
    seen.status = "completed" => Cardinality(seen.passed \cup seen.failed) = plan.checks

(* A planned check suite that was not run takes the run's own status; it   *)
(* may be missing from a completed one only if it was not planned.         *)
QuickOutcome(plan, status, quick) ==
    IF quick = NoObservation /\ plan.checks > 0
    THEN [status |-> status, passed |-> {}, failed |-> {}]
    ELSE quick

(* verification_result of a plan with a benchmark part.                    *)
VerificationResult(plan, status, bench, quick) ==
    LET checks == QuickOutcome(plan, status, quick)
        worst == IF checks = NoObservation THEN bench.status
                 ELSE Worst(bench.status, checks.status)
    IN  IF /\ BenchmarkNormalizes(plan, bench)
           /\ quick # NoObservation => plan.checks > 0 /\ QuickNormalizes(plan, quick)
           /\ quick = NoObservation /\ plan.checks > 0 => status # "completed"
           /\ worst = status
        THEN [plan |-> plan.id, status |-> status, warmups |-> bench.warmups,
              measured |-> bench.measured,
              passed |-> IF checks = NoObservation THEN {} ELSE checks.passed,
              failed |-> IF checks = NoObservation THEN {} ELSE checks.failed]
        ELSE Refused

(* Seeded fault: the benchmark alone decides.                              *)
BenchmarkStatusOnly(bench, quick) == bench.status

(* run_worker: the checks decide when they ran, else the benchmark does.   *)
RunStatus(bench, quick) == IF quick = NoObservation THEN bench.status ELSE quick.status

(* failed_result_for_plan: no observation is kept.                         *)
FailedResult(plan) ==
    [plan |-> plan.id, status |-> "failed", warmups |-> {}, measured |-> {},
     passed |-> {}, failed |-> {}]
=============================================================================
