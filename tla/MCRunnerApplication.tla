------------------------- MODULE MCRunnerApplication -------------------------
(***************************************************************************)
(* A page with one model to choose, a plan of one warmup, two measured     *)
(* runs and one check, and every result a worker can make of it.           *)
(***************************************************************************)
EXTENDS RunnerApplication

CONSTANTS left, right

Plan == [id |-> "plan", warmups |-> 1, measured |-> 2, checks |-> 1]
OnePlan == {Plan}

(* index.html: the section each control stands in.                         *)
ShippedSections ==
    [m \in Methods |->
        CASE m \in {"startManualSetup", "importBundle"} -> {"welcome"}
          [] m \in {"evaluateHardware", "confirmHardware"} -> {"hardware"}
          [] m \in {"scanInventory", "selectArtifact", "prepareFitProfileCapture",
                    "probeTools", "prepareVerification"} -> {"inventory"}
          [] m = "startExecution" -> {"plan", "permission"}
          [] m = "executeFitProfileCapture" -> {"fit-capture-permission"}
          [] m \in RunMethods -> {"progress"}]

(* The order of calls of the class's own tests: the plan is prepared where *)
(* the tools were checked.                                                 *)
TestedSections == [ShippedSections EXCEPT !["prepareVerification"] = {"inventory", "plan"}]

Artifact(path, resolution) == [path |-> path, resolution |-> resolution]
OneScan ==
    {{Artifact("a", "candidateBySize"), Artifact("b", "ambiguousIdentity"),
      Artifact("c", "verified"), Artifact("d", "verified"), Artifact("d", "unavailable")}}

TwoContexts == {<<8, 32>>, <<8, 16>>}

(* What run_worker can publish of the plan.                                *)
Report1(ended, reading, rows) == [ended |-> ended, reading |-> reading, rows |-> rows]
Accepted1 == Report1("completed", "matching", OnePair)
LastReports ==
    {Accepted1, Report1("completed", "matching", [OnePair EXCEPT !.other = 1]),
     Report1("completed", "mismatched", OnePair), Terminal("stopped"), Terminal("timed-out")}
BenchmarkRuns ==
    {[k \in 1..n |-> IF k < n THEN Accepted1 ELSE last] : n \in 1..3, last \in LastReports}
CheckRuns ==
    {<<[ended |-> "completed", admitted |-> TRUE, passed |-> TRUE]>>,
     <<[ended |-> "completed", admitted |-> FALSE, passed |-> FALSE]>>,
     <<TerminalCheck("stopped")>>}

Published(outputs, checks) ==
    LET bench == BenchmarkObservation(outputs, Plan)
        quick == IF bench.status = "completed" THEN QuickObservation(checks, Plan)
                 ELSE NoObservation
        r == VerificationResult(Plan, RunStatus(bench, quick), bench, quick)
    IN  [plan |-> Plan.id, status |-> r.status, warmups |-> r.warmups, measured |-> r.measured,
         passed |-> r.passed, failed |-> r.failed, completion |-> bench.status, observed |-> TRUE]

WholeRuns ==
    {b \in BenchmarkRuns : Len(b) = 3 \/ b[Len(b)].ended # "completed"}

(* failed_result_for_plan, and what it falls back to.                      *)
Failures ==
    {[plan |-> Plan.id, status |-> "failed", warmups |-> {}, measured |-> {}, passed |-> {},
      failed |-> {}, completion |-> "failed", observed |-> observed] : observed \in BOOLEAN}

AllResults == {Published(b, c) : b \in WholeRuns, c \in CheckRuns} \cup Failures
=============================================================================
