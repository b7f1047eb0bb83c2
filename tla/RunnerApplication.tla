-------------------------- MODULE RunnerApplication --------------------------
(***************************************************************************)
(* The desktop page: the class RunnerApplication of runner-application.ts  *)
(* and the controls and the poll of main.ts around it.  A method runs to   *)
(* its first `await invoke`, and from each answer to the next: those are   *)
(* the steps, and between them other methods run on the same #state.       *)
(*                                                                         *)
(* Reason codes and messages are left out; what they decide, the status,   *)
(* is kept through the words statusForReasons looks for in them.           *)
(***************************************************************************)
EXTENDS ResultAdapter

CONSTANTS
    Clicks,         \* clicks whose answers are awaited at once
    Sections,       \* method -> the stages whose section shows its control
    Inventories,    \* the scans the runner can answer with
    Plans,          \* the plans it can prepare
    Contexts,       \* pairs of context sizes a capture preview names
    WorkerResults,  \* the results runs of the plans can have
    MaxSequence     \* bound on the sequence numbers of a run's snapshots

VARIABLES
    ui,      \* #state
    calls,   \* invocations whose answers have not been handled
    shown,   \* what render() last drew: the stage, and whether controls are off
    poll,    \* pollTimer: "armed" or "off"; a poll in flight is one of calls
    remote   \* the runner's execution, as OneRunExecution promises it

vars == <<ui, calls, shown, poll, remote>>

None == "none"
NoLifecycle == [sequence |-> -1, plan |-> None, state |-> None, phase |-> None]
NoRun == [snapshot |-> NoLifecycle, result |-> NoObservation]

StageOf ==
    [startManualSetup |-> "welcome", importBundle |-> "welcome",
     evaluateHardware |-> "hardware", confirmHardware |-> "hardware",
     scanInventory |-> "inventory", selectArtifact |-> "inventory",
     probeTools |-> "plan", prepareFitProfileCapture |-> "inventory",
     executeFitProfileCapture |-> "fit-capture-permission",
     prepareVerification |-> "plan", startExecution |-> "permission",
     refreshExecution |-> "progress", stopExecution |-> "progress"]

Methods == DOMAIN StageOf
RunMethods == {"refreshExecution", "stopExecution"}
Stages == {StageOf[m] : m \in Methods} \cup {"fit-capture-result", "result", "failure"}
Statuses == {"idle", "loading", "ready", "blocked", "unavailable", "partial", "error"}

(* The stages from which only the run goes on.                             *)
RunStages == {"progress", "result", "failure"}

ASSUME RunnerAssumption ==
    /\ Sections \in [Methods -> SUBSET Stages]
    /\ "poll" \notin Clicks
    /\ MaxSequence \in Nat
    /\ \A p \in Plans : p.checks \in Nat \ {0} /\ p.measured \in Nat \ {0}

(* A result that is completed is of the whole plan, the warmups apart:     *)
(* CompletedIsTheWholePlan of ResultAdmission.                             *)
ASSUME ResultsAssumption ==
    \A p \in Plans :
        /\ p.warmups \in Nat
        /\ \A r \in WorkerResults :
              r.plan = p.id /\ r.status = "completed" =>
                  /\ r.observed /\ r.completion = "completed"
                  /\ r.warmups = 1..p.warmups
                  /\ r.measured = (p.warmups + 1)..Planned(p)
                  /\ r.passed \cup r.failed = 1..p.checks

(* index.html: Refresh and Stop stand in the progress section, no control  *)
(* of the setup in one of the run's.                                       *)
ASSUME SectionsAssumption ==
    /\ \A method \in RunMethods : Sections[method] \subseteq {"progress"}
    /\ \A method \in Methods \ RunMethods : Sections[method] \cap RunStages = {}

(* A fresh #state; import and flow handles are told apart by the journey.  *)
Fresh ==
    [status |-> "idle", stage |-> "welcome", journey |-> None, expired |-> FALSE,
     evaluation |-> None, hardware |-> FALSE, scanned |-> FALSE, scan |-> {},
     selection |-> FALSE,
     benchmarkTool |-> FALSE, quickCheckTool |-> FALSE, capture |-> FALSE,
     receipt |-> FALSE, plan |-> None, execution |-> FALSE,
     lifecycle |-> NoLifecycle, result |-> NoObservation]

-----------------------------------------------------------------------------
(* statusForReasons: an error is classed by the words in its reason codes. *)
StatusForReasons(words) ==
    CASE "unavailable" \in words -> "unavailable"
      [] "unavailable" \notin words
         /\ words \cap {"blocked", "required", "mismatch", "invalid", "unsupported",
                        "stale", "consumed", "mutation"} # {} -> "blocked"
      [] OTHER -> "error"

Thrown(u, words) == [u EXCEPT !.status = StatusForReasons(words)]

(* Seeded fault: controls stay on while a step loads.                      *)
ControlsStayOn(u) == [stage |-> u.stage, busy |-> FALSE]

(* render: the section of the stage is shown, and every control without    *)
(* data-allow-while-running is off while a step before the run loads.      *)
Rendered(u) == [stage |-> u.stage, busy |-> u.status = "loading" /\ u.stage # "progress"]

(* Seeded fault: the poll takes a requested stop for the end.              *)
SettledAtStop(u) ==
    \/ u.stage \in {"result", "failure"}
    \/ u.status \in {"blocked", "unavailable", "error", "partial"}

(* render at the end of a method or a poll; a poll stops behind a result   *)
(* or a failure, and behind a step that was refused.                       *)
Settled(u) ==
    u.stage \in {"result", "failure"} \/ u.status \in {"blocked", "unavailable", "error"}

(* #attempt: the stage and the loading status are set before the method    *)
(* runs; `words` are those it throws before its first invocation.          *)
Attempt(by, method, arg, words) ==
    LET u == [ui EXCEPT !.stage = StageOf[method], !.status = "loading"]
    IN  IF words = {}
        THEN /\ ui' = u
             /\ calls' = calls \cup {[by |-> by, method |-> method, step |-> 1, arg |-> arg,
                                      answer |-> NoRun]}
             /\ shown' = IF by = "poll" THEN shown ELSE Rendered(u)
        ELSE /\ ui' = Thrown(u, words)
             /\ shown' = Rendered(Thrown(u, words))
             /\ calls' = calls

(* A method returns: run() and poll() render what it left, the poll is set *)
(* again unless it settled, and a run that started sets the first one.     *)
Return(c, u) ==
    /\ ui' = u
    /\ calls' = calls \ {c}
    /\ shown' = Rendered(u)
    /\ poll' = CASE c.by = "poll" -> IF Settled(u) THEN "off" ELSE "armed"
                 [] c.method = "startExecution" /\ u.stage = "progress" -> "armed"
                 [] OTHER -> poll

(* The next invocation of the same method.                                 *)
InvokeNext(c, u) ==
    /\ ui' = u
    /\ calls' = (calls \ {c}) \cup {[c EXCEPT !.step = @ + 1, !.answer = NoRun]}
    /\ UNCHANGED <<shown, poll>>

(* The control of a method is in the section shown and not switched off;   *)
(* Stop and Refresh are never switched off.                                *)
Offered(method) ==
    /\ shown.stage \in Sections[method]
    /\ shown.busy => method \in RunMethods

Clicked(by, method) ==
    /\ by \notin {c.by : c \in calls}
    /\ Offered(method)
    /\ UNCHANGED <<poll, remote>>

Awaiting(method, step) == {c \in calls : c.method = method /\ c.step = step}

-----------------------------------------------------------------------------
(* The answers of the setup commands, which nothing else changes: Err with *)
(* a word of its reason, or a preview that may be malformed or claim to    *)
(* authorize more than a preview.                                          *)
RefusalWords == {"unavailable", "stale", "failed"}
Preview == [wellFormed : BOOLEAN, previewOnly : BOOLEAN]

(* #assertImportPreview, and importBundle's own check of the authority.    *)
ImportAdmitted(v) == v.wellFormed /\ v.previewOnly

(* #assertHardwareEvaluation.                                              *)
EvaluationAdmitted(v) ==
    v.wellFormed /\ v.state \in {"ready", "confirmation-required", "blocked", "unavailable"}

(* #assertHardwareConfirmation.                                            *)
ConfirmationAdmitted(v) == v.wellFormed /\ v.previewOnly

(* #assertInventory: every artifact has one of the four resolutions.       *)
Resolutions == {"verified", "candidateBySize", "ambiguousIdentity", "unavailable"}
InventoryAdmitted(v) == v.wellFormed /\ \A a \in v.scan : a.resolution \in Resolutions

(* #assertToolProbe: the probe is of the kind that was asked for.          *)
ToolAdmitted(v, kind) == v.wellFormed /\ v.kind = kind /\ v.previewOnly

(* #assertFitProfileCapturePreview: two contexts, one four times the other.*)
CaptureAdmitted(v) ==
    /\ v.wellFormed
    /\ Len(v.contexts) = 2
    /\ \A k \in DOMAIN v.contexts : v.contexts[k] > 0
    /\ v.contexts[2] = 4 * v.contexts[1]
    /\ v.previewOnly

(* #assertPlanPreview: both parts are there and of the plan's candidate.   *)
PlanAdmitted(v) == v.wellFormed /\ v.candidate = v.benchmarkCandidate
                                /\ v.candidate = v.quickCheckCandidate

EvaluationStatus(state) ==
    CASE state = "ready" -> "ready"
      [] state = "confirmation-required" -> "partial"
      [] state \in {"blocked", "unavailable"} -> state

-----------------------------------------------------------------------------
(* Setup: each method begins at its control and ends at its answer.        *)
Unless(condition, word) == IF condition THEN {} ELSE {word}

SetupRefused(c) ==
    /\ c.method \notin RunMethods
    /\ c.answer = NoRun
    /\ \E word \in RefusalWords : Return(c, Thrown(ui, {word}))
    /\ UNCHANGED remote

StartManualSetup(by) ==
    Clicked(by, "startManualSetup") /\ Attempt(by, "startManualSetup", None, {})

(* The answer replaces the whole state.                                    *)
ManualSetupAnswered(c, v) ==
    Return(c, IF EvaluationAdmitted(v) /\ v.previewOnly
              THEN [Fresh EXCEPT !.status = EvaluationStatus(v.state), !.stage = "hardware",
                                 !.journey = "manual", !.evaluation = v.state]
              ELSE Thrown(ui, {"invalid"}))

ImportBundle(by, blank) ==
    Clicked(by, "importBundle") /\ Attempt(by, "importBundle", None, Unless(~blank, "required"))

ImportAnswered(c, v) ==
    Return(c, IF ImportAdmitted(v)
              THEN [Fresh EXCEPT !.status = IF v.expired THEN "partial" ELSE "ready",
                                 !.stage = "hardware", !.journey = "website-import",
                                 !.expired = v.expired]
              ELSE Thrown(ui, {"invalid"}))

EvaluateHardware(by) ==
    /\ Clicked(by, "evaluateHardware")
    /\ ui.journey # "manual"
    /\ Attempt(by, "evaluateHardware", None, Unless(ui.journey # None, "required"))

EvaluationAnswered(c, v) ==
    Return(c, IF EvaluationAdmitted(v) /\ v.previewOnly
              THEN [ui EXCEPT !.evaluation = v.state, !.status = EvaluationStatus(v.state)]
              ELSE Thrown(ui, {"invalid"}))

(* The button that render turns off behind an evaluation that is blocked   *)
(* or unavailable is on again when render ends (setBusy): confirmHardware  *)
(* refuses itself.                                                         *)
ConfirmHardware(by, acknowledged) ==
    /\ Clicked(by, "confirmHardware")
    /\ Attempt(by, "confirmHardware", None,
               CASE ui.evaluation = None -> {"required"}
                 [] ui.evaluation \in {"blocked", "unavailable"} -> {ui.evaluation}
                 [] OTHER -> Unless(ui.evaluation = "confirmation-required" => acknowledged, "required"))

ConfirmationAnswered(c, v) ==
    Return(c, IF ConfirmationAdmitted(v)
              THEN [ui EXCEPT !.hardware = TRUE, !.stage = "inventory", !.status = "ready"]
              ELSE Thrown(ui, {"invalid"}))

ScanInventory(by) ==
    /\ Clicked(by, "scanInventory")
    /\ Attempt(by, "scanInventory", None, Unless(ui.hardware, "required"))

(* A new scan replaces the list; a selection made from the old one stays.  *)
ScanAnswered(c, v) ==
    Return(c, IF InventoryAdmitted(v)
              THEN [ui EXCEPT !.scanned = TRUE, !.scan = v.scan,
                              !.status = IF v.status = "ok" THEN "ready" ELSE v.status]
              ELSE Thrown(ui, {"invalid"}))

(* selectArtifact: the path names exactly one artifact of the scan, whose  *)
(* resolution decides which command checks it.  The list begins with an    *)
(* empty choice, and the button is on without a scan too (setBusy).        *)
SelectArtifact(by, path) ==
    /\ Clicked(by, "selectArtifact")
    /\ LET matches == {a \in ui.scan : a.path = path}
           artifact == CHOOSE a \in matches : TRUE
           words == IF path = None \/ ~ui.scanned THEN {"required"}
                    ELSE IF Cardinality(matches) # 1 THEN {"other"}
                    ELSE Unless(ui.journey # None, "required")
                         \cup Unless(artifact.resolution \in {"verified", "candidateBySize"},
                                     "other")
       IN  Attempt(by, "selectArtifact", IF words = {} THEN artifact.resolution ELSE None, words)

SelectionAnswered(c, v) ==
    Return(c, IF v.wellFormed /\ (c.arg = "candidateBySize" => v.previewOnly)
              THEN [ui EXCEPT !.selection = TRUE, !.status = "ready"]
              ELSE Thrown(ui, {"invalid"}))

ProbeTools(by, bothPaths) ==
    /\ Clicked(by, "probeTools")
    /\ ui.selection
    /\ Attempt(by, "probeTools", None, Unless(bothPaths, "required"))

BenchmarkToolAnswered(c, v) ==
    IF ToolAdmitted(v, "benchmark") THEN InvokeNext(c, ui) ELSE Return(c, Thrown(ui, {"invalid"}))

QuickCheckToolAnswered(c, v) ==
    Return(c, IF ToolAdmitted(v, "quick-check")
              THEN [ui EXCEPT !.benchmarkTool = TRUE, !.quickCheckTool = TRUE, !.status = "ready"]
              ELSE Thrown(ui, {"invalid"}))

PrepareFitProfileCapture(by, toolPath) ==
    /\ Clicked(by, "prepareFitProfileCapture")
    /\ ui.selection
    /\ Attempt(by, "prepareFitProfileCapture", None, Unless(toolPath, "required"))

CaptureToolAnswered(c, v) ==
    CASE ~ToolAdmitted(v, "fit-profile-capture") -> Return(c, Thrown(ui, {"invalid"}))
      [] ToolAdmitted(v, "fit-profile-capture") /\ ~(ui.hardware /\ ui.selection) ->
            Return(c, Thrown(ui, {"required"}))
      [] OTHER -> InvokeNext(c, ui)

CapturePreviewAnswered(c, v) ==
    Return(c, IF CaptureAdmitted(v)
              THEN [ui EXCEPT !.capture = TRUE, !.stage = "fit-capture-permission",
                              !.status = "ready"]
              ELSE Thrown(ui, {"invalid"}))

ExecuteFitProfileCapture(by, acknowledged) ==
    /\ Clicked(by, "executeFitProfileCapture")
    /\ Attempt(by, "executeFitProfileCapture", None,
               Unless(acknowledged, "required") \cup Unless(ui.capture, "required"))

ReceiptAnswered(c, v) ==
    Return(c, IF v.wellFormed
              THEN [ui EXCEPT !.receipt = TRUE, !.stage = "fit-capture-result",
                              !.status = "partial"]
              ELSE Thrown(ui, {"invalid"}))

(* createVerificationPlanRequestV1 is made of the five handles.            *)
PrepareVerification(by) ==
    /\ Clicked(by, "prepareVerification")
    /\ ui.selection
    /\ Attempt(by, "prepareVerification", None,
               Unless(ui.journey # None /\ ui.hardware /\ ui.selection
                      /\ ui.benchmarkTool /\ ui.quickCheckTool, "required"))

PlanAnswered(c, v) ==
    Return(c, IF PlanAdmitted(v) /\ v.previewOnly
              THEN [ui EXCEPT !.plan = v.plan, !.stage = "permission", !.status = "ready"]
              ELSE Thrown(ui, {"invalid"}))

-----------------------------------------------------------------------------
(* The run.  #assertLifecycle.                                             *)
LifecycleWellFormed(v) ==
    /\ v.sequence >= 0
    /\ v.plan # None
    /\ v.state \in {"queued", "running", "stop-requested", "terminal"}
    /\ v.state = "queued" => v.phase = "queued"
    /\ v.state = "terminal" <=> v.phase = "complete"

(* Seeded fault: any snapshot of the run is taken over.                    *)
VerdictOfAnyOrder(v) == IF LifecycleWellFormed(v) THEN "newer" ELSE "invalid"

(* #admitLifecycle: what becomes of a snapshot beside the one shown.       *)
Verdict(v) ==
    CASE ~LifecycleWellFormed(v) -> "invalid"
      [] LifecycleWellFormed(v) /\ ui.lifecycle = NoLifecycle -> "newer"
      [] OTHER ->
            CASE v.plan # ui.lifecycle.plan -> "mismatch"
              [] v.plan = ui.lifecycle.plan /\ v.sequence < ui.lifecycle.sequence -> "older"
              [] v.plan = ui.lifecycle.plan /\ v.sequence > ui.lifecycle.sequence -> "newer"
              [] OTHER -> IF v = ui.lifecycle THEN "newer" ELSE "mutation"

Objections == {"invalid", "mismatch", "mutation"}

(* #validResultObservations: a series without an aggregate, or one that    *)
(* did not complete, makes the whole result invalid.                       *)
SeriesAdmitted(r) == r.measured # {} /\ r.completion = "completed"

(* Seeded fault: the samples of all invocations are counted as measured.   *)
WarmupsCountedAsMeasured(p, r) == Cardinality(r.measured) = p.warmups + p.measured

(* nestedResult: benchmarkCountsMatch.                                     *)
CountsMatch(p, r) ==
    Cardinality(r.warmups) = p.warmups /\ Cardinality(r.measured) = p.measured

(* #assertResult.  A result has both parts or, when it could not be        *)
(* normalized, none; a check that was not run is listed as such.           *)
ResultAdmitted(p, r) ==
    /\ r.status \in {"completed", "failed", "timed-out", "cancelled", "oom", "stopped"}
    /\ r.observed =>
          /\ CountsMatch(p, r)
          /\ SeriesAdmitted(r)
          /\ r.passed \cup r.failed \subseteq 1..p.checks
    /\ r.status = "completed" => r.observed

ShownPlan == CHOOSE p \in Plans : p.id = ui.plan

StartExecution(by, consents) ==
    /\ Clicked(by, "startExecution")
    /\ Attempt(by, "startExecution", None,
               Unless(consents, "required") \cup Unless(ui.plan # None, "required"))

StartAnswered(c) ==
    LET v == c.answer.snapshot
        u == [ui EXCEPT !.execution = TRUE]
    IN  Return(c, IF Verdict(v) \in Objections THEN Thrown(u, {Verdict(v)})
                  ELSE [u EXCEPT !.lifecycle = IF Verdict(v) = "newer" THEN v ELSE @,
                                 !.stage = "progress", !.status = "loading"])

RefreshExecution(by) ==
    /\ Clicked(by, "refreshExecution")
    /\ Attempt(by, "refreshExecution", None, Unless(ui.execution, "required"))

(* The timer of startPolling fires.                                        *)
Poll ==
    /\ poll = "armed"
    /\ poll' = "off"
    /\ Attempt("poll", "refreshExecution", None, Unless(ui.execution, "required"))
    /\ UNCHANGED remote

(* Seeded fault: a delayed answer shows the progress again.                *)
DelayedInProgress(u) == [u EXCEPT !.stage = "progress", !.status = "loading"]

(* refreshExecution: a progress answer older than what is shown.           *)
Delayed(u) == [u EXCEPT !.status = "loading"]

(* refreshExecution, from its first answer.  A snapshot older than the one *)
(* shown is ignored, a terminal one asks for the result.                   *)
StatusAnswered(c) ==
    LET v == c.answer.snapshot
        u == [ui EXCEPT !.lifecycle = v]
    IN  CASE Verdict(v) \in Objections -> Return(c, Thrown(ui, {Verdict(v)}))
          [] Verdict(v) = "older" -> Return(c, Delayed(ui))
          [] Verdict(v) = "newer" /\ v.state # "terminal" ->
                Return(c, [u EXCEPT !.status = IF v.state = "stop-requested" THEN "partial"
                                               ELSE "loading"])
          [] Verdict(v) = "newer" /\ v.state = "terminal" -> InvokeNext(c, u)

ResultShown(u, r) ==
    [u EXCEPT !.result = r,
              !.stage = IF r.status = "completed" THEN "result" ELSE "failure",
              !.status = CASE r.status = "completed" -> "ready"
                           [] r.status # "completed" /\ r.observed -> "partial"
                           [] r.status # "completed" /\ ~r.observed -> "error"]

(* refreshExecution, from its second answer.                               *)
ResultAnswered(c) ==
    LET v == c.answer.snapshot
        r == c.answer.result
        u == [ui EXCEPT !.lifecycle = v]
    IN  Return(c,
          CASE Verdict(v) \in Objections -> Thrown(ui, {Verdict(v)})
            [] Verdict(v) = "older" -> [ui EXCEPT !.status = "blocked"]
            [] Verdict(v) = "newer" ->
                 CASE v.state # "terminal" \/ v.phase # "complete" -> Thrown(u, {"other"})
                   [] v.state = "terminal" /\ r = NoObservation ->
                         [u EXCEPT !.stage = "failure", !.status = "error"]
                   [] OTHER -> IF ~ResultAdmitted(ShownPlan, r) THEN Thrown(u, {"invalid"})
                               ELSE IF r.plan # v.plan THEN Thrown(u, {"mismatch"})
                               ELSE ResultShown(u, r))

StopExecution(by) ==
    /\ Clicked(by, "stopExecution")
    /\ Attempt(by, "stopExecution", None, Unless(ui.execution, "required"))

StopAnswered(c) ==
    LET v == c.answer.snapshot
    IN  Return(c, CASE Verdict(v) \in Objections -> Thrown(ui, {Verdict(v)})
                    [] Verdict(v) = "older" -> [ui EXCEPT !.status = "partial"]
                    [] Verdict(v) = "newer" ->
                          [ui EXCEPT !.lifecycle = v,
                                     !.status = IF v.state = "terminal" THEN "partial"
                                                ELSE "loading"])

-----------------------------------------------------------------------------
(* The runner behind the commands: an execution's snapshots are numbered,  *)
(* a stop is recorded once, and the result is there with the last one.     *)
Advanced(snapshot, state, phase) ==
    [sequence |-> snapshot.sequence + 1, plan |-> snapshot.plan, state |-> state, phase |-> phase]

Served(c, answer) == calls' = (calls \ {c}) \cup {[c EXCEPT !.answer = answer]}

Serve(c) ==
    /\ c.method \in RunMethods \cup {"startExecution"}
    /\ c.answer = NoRun
    /\ CASE c.method = "startExecution" ->
              /\ remote = NoRun
              /\ remote' = [snapshot |-> [sequence |-> 1, plan |-> ui.plan, state |-> "running",
                                          phase |-> "integrity-recheck"],
                            result |-> NoObservation]
              /\ Served(c, remote')
         [] c.method = "refreshExecution" ->
              /\ remote' = remote
              /\ Served(c, IF c.step = 1 THEN [remote EXCEPT !.result = NoObservation] ELSE remote)
         [] c.method = "stopExecution" ->
              /\ remote' = IF remote.snapshot.state = "running"
                           THEN [remote EXCEPT !.snapshot =
                                   Advanced(@, "stop-requested", @.phase)]
                           ELSE remote
              /\ Served(c, [remote' EXCEPT !.result = NoObservation])
    /\ UNCHANGED <<ui, shown, poll>>

Running == remote.snapshot.state \in {"running", "stop-requested"}

RunProgresses ==
    /\ Running
    /\ remote.snapshot.sequence < MaxSequence
    /\ remote' = [remote EXCEPT !.snapshot = Advanced(@, @.state, "quick-check")]
    /\ UNCHANGED <<ui, calls, shown, poll>>

RunEnds ==
    /\ Running
    /\ \E r \in {w \in WorkerResults : w.plan = remote.snapshot.plan} :
          remote' = [snapshot |-> Advanced(remote.snapshot, "terminal", "complete"), result |-> r]
    /\ UNCHANGED <<ui, calls, shown, poll>>

-----------------------------------------------------------------------------
Init ==
    /\ ui = Fresh
    /\ calls = {}
    /\ shown = Rendered(Fresh)
    /\ poll = "off"
    /\ remote = NoRun

Setup(by) ==
    \/ StartManualSetup(by)
    \/ \E blank \in BOOLEAN : ImportBundle(by, blank)
    \/ EvaluateHardware(by)
    \/ \E ack \in BOOLEAN : ConfirmHardware(by, ack)
    \/ ScanInventory(by)
    \/ \E path \in {a.path : a \in ui.scan} \cup {None} : SelectArtifact(by, path)
    \/ \E both \in BOOLEAN : ProbeTools(by, both)
    \/ \E tool \in BOOLEAN : PrepareFitProfileCapture(by, tool)
    \/ \E ack \in BOOLEAN : ExecuteFitProfileCapture(by, ack)
    \/ PrepareVerification(by)
    \/ \E consents \in BOOLEAN : StartExecution(by, consents)

(* What the setup commands may answer.                                     *)
Evaluations ==
    [wellFormed : BOOLEAN, previewOnly : BOOLEAN,
     state : {"ready", "confirmation-required", "blocked", "unavailable"}]
Imports == [wellFormed : BOOLEAN, previewOnly : BOOLEAN, expired : BOOLEAN]
Scans == [wellFormed : BOOLEAN, scan : Inventories, status : {"ok", "partial", "unavailable"}]
Tools == [wellFormed : BOOLEAN, previewOnly : BOOLEAN,
          kind : {"benchmark", "quick-check", "fit-profile-capture"}]
Captures == [wellFormed : BOOLEAN, previewOnly : BOOLEAN, contexts : Contexts]
PlanPreviews ==
    [wellFormed : BOOLEAN, previewOnly : BOOLEAN, plan : {p.id : p \in Plans},
     candidate : {1}, benchmarkCandidate : {1, 2}, quickCheckCandidate : {1, 2}]

SetupAnswered ==
    \/ \E c \in Awaiting("startManualSetup", 1), v \in Evaluations : ManualSetupAnswered(c, v)
    \/ \E c \in Awaiting("importBundle", 1), v \in Imports : ImportAnswered(c, v)
    \/ \E c \in Awaiting("evaluateHardware", 1), v \in Evaluations : EvaluationAnswered(c, v)
    \/ \E c \in Awaiting("confirmHardware", 1), v \in Preview : ConfirmationAnswered(c, v)
    \/ \E c \in Awaiting("scanInventory", 1), v \in Scans : ScanAnswered(c, v)
    \/ \E c \in Awaiting("selectArtifact", 1), v \in Preview : SelectionAnswered(c, v)
    \/ \E c \in Awaiting("probeTools", 1), v \in Tools : BenchmarkToolAnswered(c, v)
    \/ \E c \in Awaiting("probeTools", 2), v \in Tools : QuickCheckToolAnswered(c, v)
    \/ \E c \in Awaiting("prepareFitProfileCapture", 1), v \in Tools : CaptureToolAnswered(c, v)
    \/ \E c \in Awaiting("prepareFitProfileCapture", 2), v \in Captures :
          CapturePreviewAnswered(c, v)
    \/ \E c \in Awaiting("executeFitProfileCapture", 1), v \in Preview : ReceiptAnswered(c, v)
    \/ \E c \in Awaiting("prepareVerification", 1), v \in PlanPreviews : PlanAnswered(c, v)

(* The answer of a command of the run reaches the method that awaits it.   *)
RunAnswered(c) ==
    /\ c.answer # NoRun
    /\ \/ c.method = "startExecution" /\ StartAnswered(c)
       \/ c.method = "refreshExecution" /\ c.step = 1 /\ StatusAnswered(c)
       \/ c.method = "refreshExecution" /\ c.step = 2 /\ ResultAnswered(c)
       \/ c.method = "stopExecution" /\ StopAnswered(c)
    /\ UNCHANGED remote

Next ==
    \/ \E by \in Clicks : Setup(by) \/ RefreshExecution(by) \/ StopExecution(by)
    \/ SetupAnswered /\ UNCHANGED remote
    \/ \E c \in calls : SetupRefused(c) \/ Serve(c) \/ RunAnswered(c)
    \/ Poll
    \/ RunProgresses
    \/ RunEnds

Spec == Init /\ [][Next]_vars

(* The runner answers the poll and its answers arrive, a timer fires, and  *)
(* runs end (EveryRunEnds of ExecutionService).                            *)
FairSpec ==
    /\ Spec
    /\ WF_vars(Poll)
    /\ []<>~Running
    /\ WF_vars(\E c \in calls : c.by = "poll" /\ (Serve(c) \/ RunAnswered(c)))

-----------------------------------------------------------------------------
Quiet == calls = {} /\ poll = "off"
Ended == remote.snapshot.state = "terminal"

(* A step of the setup writes its answer over the state it finds, and two  *)
(* of them replace it: the controls keep every such step alone, from its   *)
(* first invocation to its last answer.  (#attempt, setBusy)               *)
SetupStepsDoNotOverlap ==
    \A c \in calls : c.method \notin RunMethods => calls = {c}

(* Answers of the poll, of Refresh and of Stop may overtake one another:   *)
(* the progress shown never goes back.  (#admitLifecycle)                  *)
SnapshotsNeverGoBack ==
    [][ui'.lifecycle.sequence >= ui.lifecycle.sequence]_vars

(* Every method of the run sets the stage back to progress when it begins: *)
(* whatever is late, once nothing is awaited a result that arrived is what *)
(* the page shows.  (refreshExecution, stopExecution, startPolling)        *)
AResultStaysShown ==
    Quiet /\ ui.result # NoObservation => shown.stage \in {"result", "failure"}

(* The page checks a result against the plan it showed, sample by sample:  *)
(* what the worker calls completed is never refused.  (#assertResult,      *)
(* verification_result)                                                    *)
CompletedRunsAreShown ==
    Quiet /\ Ended /\ remote.result # NoObservation /\ remote.result.status = "completed"
        => ui.result = remote.result /\ shown.stage = "result"

(* A run that started does not leave the page waiting: the poll goes on    *)
(* through progress, a stop and late answers until the run's end is shown  *)
(* or refused.  (startPolling)                                             *)
EveryRunIsSettled ==
    poll = "armed" ~>
        /\ Ended
        /\ ui.stage \in {"result", "failure"} \/ ui.status \in {"blocked", "unavailable", "error"}

(* What the message of a run that did not complete says: "Admitted partial *)
(* observations remain visible."  (refreshExecution, #assertResult)        *)
RetainedObservationsStayVisible ==
    Quiet /\ Ended /\ remote.result # NoObservation /\ remote.result.measured # {}
        => ui.result = remote.result

(* What index.html says of the two programs, "Local Arcade checks both     *)
(* programs before use", and the tests' order of calls: once they are      *)
(* checked, the check can be prepared.  (probeTools, render)               *)
CheckedProgramsCanBeUsed ==
    calls = {} /\ ui.benchmarkTool /\ ui.plan = None => Offered("prepareVerification")
=============================================================================
