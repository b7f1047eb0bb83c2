------------------------- MODULE RunnerPreparation -------------------------
(***************************************************************************)
(* lib/orchestrator/runner-import.ts, runner.ts, verification-preview.ts:  *)
(* the runner's side.  A bundle is inspected, the model stores are         *)
(* scanned, one verified artifact is selected, and a verification plan is  *)
(* asked for that binds them.                                              *)
(***************************************************************************)
EXTENDS FinderOrchestration

-----------------------------------------------------------------------------
(* Runner import.  .wellFormed: passive plain data.                        *)
BlockedInspection(reason) == Unsealed([status |-> "blocked", reason |-> reason])

(* Seeded fault: whatever can be inspected can be imported.                *)
InspectionWithoutExpiry(file, now, intent) ==
    Sealed([status |-> "accepted", bundle |-> file.data, expired |-> now >= file.data.handoff.expires,
            intent |-> intent, canImport |-> TRUE], None)

Inspection(file, now, intent) ==
    LET expired == now >= file.data.handoff.expires
    IN  Sealed([status |-> "accepted", bundle |-> file.data, expired |-> expired, intent |-> intent,
                canImport |-> ~expired \/ intent = "confirm-expired-import"], None)

InspectRunnerImportBundle(file, now, intent) ==
    IF ~file.wellFormed THEN BlockedInspection("orchestrator.runner-import-bundle-hostile")
    ELSE IF file.status \notin {"ok", "partial"} \/ ~BundleContract(file.data)
         THEN BlockedInspection("orchestrator.runner-import-bundle-invalid")
    ELSE Inspection(file, now, intent)

IsImportAllowedByInspection(inspection) ==
    /\ Intact(inspection)
    /\ inspection.content.status = "accepted"
    /\ inspection.content.canImport

-----------------------------------------------------------------------------
(* The inventory.  A finding is [path, sha256, bytes, resolution,          *)
(* identity], where identity is the registry's artifact.                   *)
ScannedSession(answer) ==
    CASE answer.kind = "throws" ->
            Sealed([status |-> "error", reason |-> "orchestrator.inventory-port-failed"], None)
      [] answer.kind = "malformed" ->
            Sealed([status |-> "error", reason |-> "orchestrator.inventory-port-invalid"], None)
      [] OTHER ->
            Sealed([status |-> answer.status, snapshot |-> answer.snapshot,
                    artifacts |-> answer.artifacts], None)

SelectionOf(artifact) ==
    Sealed([path |-> artifact.path, sha256 |-> artifact.sha256, bytes |-> artifact.bytes,
            identity |-> artifact.identity], None)

SelectVerifiedInventoryArtifact(session, path) ==
    LET content == session.content
        matches == {a \in content.artifacts : a.path = path}
        artifact == CHOOSE a \in matches : TRUE
        refused(status, reason) == Unsealed(Refusal(status, reason))
        blocked(reason) == refused("blocked", reason)
    IN  IF ~Intact(session) THEN blocked("orchestrator.inventory-session-invalid")
        ELSE IF content.status = "error" THEN refused("error", content.reason)
        ELSE IF content.status = "unavailable" THEN blocked("orchestrator.inventory-unavailable")
        ELSE IF matches = {} THEN blocked("orchestrator.inventory-artifact-not-found")
        ELSE IF Cardinality(matches) > 1 THEN blocked("orchestrator.inventory-artifact-path-ambiguous")
        ELSE IF artifact.resolution # "verified"
             THEN blocked("orchestrator.inventory-artifact-not-verified")
        ELSE IF \/ content.snapshot = None
                \/ artifact.sha256 # artifact.identity.sha256
                \/ artifact.bytes # artifact.identity.bytes
             THEN blocked("orchestrator.inventory-identity-binding-invalid")
        ELSE SelectionOf(artifact)

-----------------------------------------------------------------------------
(* The verification preview.  A part is what is asked of one tool: .runs   *)
(* is the protocol with its counts and kinds, or the list of checks.       *)
Parts == {"benchmark", "quickCheck"}
Asked(input) == {part \in Parts : input[part] # None}

ToolName == [benchmark |-> "llama-bench.exe", quickCheck |-> "llama-cli.exe"]

ValidConfirmedHardware(receipt, target) ==
    /\ receipt.exact
    /\ receipt.target = target
    /\ receipt.state \in {"ready", "ambiguity-explicitly-confirmed"}

ValidPreparation(part, preparation, candidate) ==
    /\ preparation.exact
    /\ preparation.tool.kind = part
    /\ preparation.tool.name = ToolName[part]
    /\ \A f \in {"product", "engine", "build"} : preparation.tool[f] = candidate[f]

PreparationBindsBundle(input, bundle) ==
    /\ ValidConfirmedHardware(input.confirmedHardware, bundle.handoff.hardware.target)
    /\ Asked(input) # {}
    /\ \A part \in Asked(input) : ValidPreparation(part, input[part], bundle.handoff.candidate)

RegistryFields == {"artifact", "sha256", "bytes", "quantization"}

CandidateMatchesInventory(candidate, selection) ==
    /\ selection.sha256 = candidate.sha256
    /\ selection.bytes = candidate.bytes
    /\ \A f \in RegistryFields : selection.identity[f] = candidate[f]

(* null is no reason.                                                      *)
ASSUME PreviewReasonsAssumption ==
    None \notin {"action-invalid", "import-not-allowed", "inventory-not-intact",
                 "preparation-invalid", "inventory-drift"}

(* Why a preview is blocked before the planner is asked.                   *)
PreviewRefusal(input, inspection, selection) ==
    IF ~input.exact \/ input.id = None THEN "action-invalid"
    ELSE IF ~IsImportAllowedByInspection(inspection) \/ ~BundleContract(inspection.content.bundle)
         THEN "import-not-allowed"
    ELSE IF ~Intact(selection) THEN "inventory-not-intact"
    ELSE IF ~PreparationBindsBundle(input, inspection.content.bundle) THEN "preparation-invalid"
    ELSE IF ~CandidateMatchesInventory(inspection.content.bundle.handoff.candidate, selection.content)
         THEN "inventory-drift"
    ELSE None

PlannerRequest(input, inspection, selection) ==
    [id |-> input.id, benchmark |-> input.benchmark, quickCheck |-> input.quickCheck,
     confirmedHardware |-> input.confirmedHardware,
     candidate |-> inspection.content.bundle.handoff.candidate,
     receipt |-> inspection.content.bundle.receipt,
     selection |-> selection.content]

PlanFields == {"id", "runs", "preflight"}

RuntimeOf(candidate) ==
    [f \in {"runtimeId", "product", "engine", "build", "backend", "context", "gpuLayers", "settings"} |->
        candidate[f]]

(* The contract of a verification plan of both parts.                      *)
PlanContract(plan) ==
    LET parts == {part \in Parts : plan[part] # None}
    IN  /\ parts # {}
        /\ \A part \in parts : plan[part].candidate = plan.candidate
        /\ \A a, b \in parts : plan[a].path = plan[b].path /\ plan[a].sha256 = plan[b].sha256

(* The input is the caller's object as it is when the planner answers; the *)
(* bundle and the selection are frozen.                                    *)
PlanBindsRequest(plan, input, bundle, selection) ==
    /\ plan.id = input.id
    /\ plan.target = bundle.handoff.hardware.target
    /\ plan.candidate = bundle.handoff.candidate.candidate
    /\ {part \in Parts : plan[part] # None} = Asked(input)
    /\ Asked(input) # {}
    /\ \A part \in Asked(input) :
          /\ \A f \in PlanFields : plan[part][f] = input[part][f]
          /\ plan[part].candidate = bundle.handoff.candidate.candidate
          /\ plan[part].path = selection.path
          /\ plan[part].sha256 = selection.sha256
          /\ plan[part].runtime = RuntimeOf(bundle.handoff.candidate)

(* The preview shown for an answer of the planner.                         *)
PreviewOf(answer, input, bundle, selection) ==
    CASE answer.kind = "throws" -> Refusal("error", "port-failed")
      [] answer.kind = "malformed" -> Refusal("error", "port-invalid")
      [] answer.kind = "failure" -> Refusal(answer.status, answer.reason)
      [] OTHER ->
           IF ~PlanContract(answer.plan) THEN Refusal("error", "port-invalid")
           ELSE IF ~PlanBindsRequest(answer.plan, input, bundle, selection)
                THEN Refusal("blocked", "plan-binding-invalid")
           ELSE [status |-> "ok", plan |-> answer.plan]
=============================================================================
