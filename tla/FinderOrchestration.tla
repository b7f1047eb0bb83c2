------------------------ MODULE FinderOrchestration ------------------------
(***************************************************************************)
(* lib/orchestrator/index.ts: from an assessed universe to the bundle a    *)
(* visitor takes to the runner.  Every result is frozen and branded: its   *)
(* object is remembered with its content, so that a copy, changed or not,  *)
(* is known from the original.                                             *)
(*                                                                         *)
(* An object is [content, brand, binding]: brand is what it was remembered *)
(* with, nothing for a copy, and binding what was remembered about its     *)
(* origin.  The hash of a handoff or a bundle is the content it was taken  *)
(* over.                                                                   *)
(***************************************************************************)
EXTENDS PortfolioSelection

CONSTANTS
    Lifetime,     \* how long a handoff lasts: 24 hours in the code
    LastInstant   \* the end of the year 9999

ASSUME TimeAssumption == Lifetime \in Nat \ {0} /\ LastInstant \in Nat

Sealed(content, binding) == [content |-> content, brand |-> {content}, binding |-> binding]
Copied(object) == [object EXCEPT !.brand = {}, !.binding = None]
Intact(object) == object.content \in object.brand

IsData(content) == content.status \in {"ok", "partial"}
Refusal(status, reason) == [status |-> status, reason |-> reason]

-----------------------------------------------------------------------------
(* validateContract of a handoff, a bundle and their compatibility receipt.*)
HandoffContract(handoff) ==
    /\ handoff.expires - handoff.created = Lifetime
    /\ handoff.hash = [handoff EXCEPT !.hash = None]

BundleContract(bundle) ==
    /\ HandoffContract(bundle.handoff)
    /\ bundle.receipt.valid
    /\ bundle.hash = [bundle EXCEPT !.hash = None]
    /\ \A f \in ReceiptFields : bundle.receipt.target[f] = bundle.handoff.candidate[f]
    /\ bundle.receipt.os = bundle.handoff.hardware.os

Hashed(content) == [content EXCEPT !.hash = content]

-----------------------------------------------------------------------------
ValidFinderInput(input) ==
    /\ input.request.valid /\ input.request.status = "ok"
    /\ input.hardware.valid /\ input.hardware.status = "ok"
    /\ input.request.target = input.hardware.target
    /\ input.policy.version = 1 /\ input.policy.named

FailedSession(status, reason) ==
    Sealed([portfolio |-> [status |-> status, reason |-> reason, items |-> {}, ledger |-> <<>>],
            universe |-> None], None)

AdmittedUniverse(universe) ==
    [universe EXCEPT !.entries =
        [i \in DOMAIN @ |-> IF @[i].kind = "candidate" THEN AdmitPortfolioCandidateEntry(@[i]) ELSE @[i]]]

EvaluatedSession(request, hardware, universe, portfolio) ==
    Sealed([portfolio |-> portfolio, universe |-> IF IsData(portfolio) THEN universe ELSE None],
           [request |-> request, hardware |-> hardware])

(* What becomes of the answer of the candidate-universe port: a universe,  *)
(* a failure it reports, or one of the ways in which it is no answer.      *)
SessionOf(request, hardware, policy, answer) ==
    CASE answer.kind = "throws" ->
            FailedSession("error", "orchestrator.candidate-universe-port-failed")
      [] answer.kind = "malformed" ->
            FailedSession("error", "orchestrator.candidate-universe-port-invalid")
      [] answer.kind = "unreadable" ->
            FailedSession("error", "orchestrator.finder-input-or-port-invalid")
      [] answer.kind = "failure" ->
            FailedSession(answer.status, answer.reason)
      [] OTHER ->
            LET admitted == AdmittedUniverse(answer.universe)
            IN  EvaluatedSession(request, hardware, admitted,
                                 BuildRecommendationPortfolio(request, admitted, policy))

-----------------------------------------------------------------------------
EntriesOf(universe, candidate) ==
    {i \in DOMAIN universe.entries :
        /\ universe.entries[i].kind = "candidate"
        /\ universe.entries[i].candidate.candidate = candidate}

FirstEntry(universe, candidate) ==
    LET entries == EntriesOf(universe, candidate)
    IN  universe.entries[CHOOSE i \in entries : \A j \in entries : i <= j]

Alternatives(session, item) ==
    LET entries == session.universe.entries
    IN  {[candidate |-> entries[i].candidate.candidate, artifact |-> entries[i].artifact,
          disposition |-> session.portfolio.ledger[i].disposition,
          reasons |-> session.portfolio.ledger[i].reasons] :
            i \in {i \in DOMAIN entries :
                     /\ entries[i].kind = "candidate"
                     /\ entries[i].candidate.candidate # item.candidate
                     /\ entries[i].candidate.family = item.family}}

DetailOf(session, item) ==
    LET entry == FirstEntry(session.content.universe, item.candidate)
        missing == IF entry.assessment.status = "partial" THEN entry.assessment.missing ELSE {}
    IN  Sealed([status |-> IF missing # {} THEN "partial" ELSE "ok",
                request |-> session.binding.request.id,
                candidate |-> entry.candidate,
                receipt |-> entry.receipt,
                assessment |-> entry.assessment,
                alternatives |-> Alternatives(session.content, item),
                missing |-> missing],
               session.binding)

(* A failure is a plain object without a brand.                            *)
Unsealed(content) == [content |-> content, brand |-> {}, binding |-> None]

GetExactConfigurationDetail(session, candidate) ==
    LET content == session.content
        items == {item \in content.portfolio.items : item.candidate = candidate}
        item == CHOOSE item \in items : TRUE
        refused(status, reason) == Unsealed(Refusal(status, reason))
    IN  IF ~Intact(session) THEN refused("blocked", "orchestrator.finder-session-invalid")
        ELSE IF ~IsData(content.portfolio) THEN refused(content.portfolio.status, content.portfolio.reason)
        ELSE IF content.universe = None THEN refused("error", "orchestrator.detail-universe-missing")
        ELSE IF items = {} THEN refused("blocked", "orchestrator.candidate-not-selected")
        ELSE IF EntriesOf(content.universe, candidate) = {}
             THEN refused("error", "orchestrator.selected-candidate-missing")
        ELSE IF LET assessment == FirstEntry(content.universe, candidate).assessment
                IN  ~IsData(assessment) \/ assessment.id # item.assessment
             THEN refused("error", "orchestrator.selected-assessment-mismatch")
        ELSE IF ~FirstEntry(content.universe, candidate).candidate.valid
             THEN refused("error", "orchestrator.candidate-output-invalid")
        ELSE DetailOf(session, item)

-----------------------------------------------------------------------------
HandoffBinds(input) ==
    LET detail == input.detail.content
    IN  /\ input.hardware.valid /\ input.request.valid
        /\ input.request.target = input.hardware.target
        /\ detail.request = input.request.id
        /\ detail.assessment.candidate = detail.candidate.candidate
        /\ detail.assessment.target = input.hardware.target

HandoffContent(input) ==
    [status |-> input.detail.content.status,
     missing |-> input.detail.content.missing,
     data |-> Hashed([created |-> input.now, expires |-> input.now + Lifetime,
                      request |-> input.request, hardware |-> input.hardware,
                      candidate |-> input.detail.content.candidate,
                      assessment |-> input.detail.content.assessment,
                      hash |-> None])]

(* Seeded fault: the request and the hardware are those of the call,       *)
(* whatever the finder was asked.                                          *)
HandoffOfAnySnapshot(input) ==
    LET detail == input.detail
        refused(status, reason) == Unsealed(Refusal(status, reason))
    IN  IF ~IsData(detail.content) THEN refused(detail.content.status, detail.content.reason)
        ELSE IF ~Intact(detail) THEN refused("blocked", "orchestrator.detail-integrity-invalid")
        ELSE IF ~HandoffBinds(input) THEN refused("blocked", "orchestrator.handoff-binding-mismatch")
        ELSE IF input.now + Lifetime > LastInstant
             THEN refused("blocked", "orchestrator.handoff-time-invalid")
        ELSE Sealed(HandoffContent(input), detail.content)

CreateRunnerHandoff(input) ==
    LET detail == input.detail
        refused(status, reason) == Unsealed(Refusal(status, reason))
    IN  IF ~IsData(detail.content) THEN refused(detail.content.status, detail.content.reason)
        ELSE IF ~Intact(detail) THEN refused("blocked", "orchestrator.detail-integrity-invalid")
        ELSE IF detail.binding # [request |-> input.request, hardware |-> input.hardware]
             THEN refused("blocked", "orchestrator.handoff-snapshot-mismatch")
        ELSE IF ~HandoffBinds(input) THEN refused("blocked", "orchestrator.handoff-binding-mismatch")
        ELSE IF input.now + Lifetime > LastInstant
             THEN refused("blocked", "orchestrator.handoff-time-invalid")
        ELSE Sealed(HandoffContent(input), detail.content)

-----------------------------------------------------------------------------
ImportBundleInput(handoff, detail) ==
    /\ IsData(handoff.content) /\ IsData(detail.content)
    /\ Intact(detail) /\ Intact(handoff)
    /\ handoff.binding = detail.content

CreateRunnerImportBundle(handoff, detail) ==
    LET data == Hashed([handoff |-> handoff.content.data, receipt |-> detail.content.receipt,
                        hash |-> None])
        blocked(reason) == Refusal("blocked", reason)
    IN  IF ~ImportBundleInput(handoff, detail) THEN blocked("orchestrator.import-bundle-input-invalid")
        ELSE IF \/ ~HandoffContract(handoff.content.data)
                \/ handoff.content.data.candidate.candidate # detail.content.candidate.candidate
                \/ handoff.content.data.assessment.id # detail.content.assessment.id
             THEN blocked("orchestrator.import-bundle-binding-mismatch")
        ELSE IF ~BundleContract(data) THEN blocked("orchestrator.import-bundle-output-invalid")
        ELSE [status |-> handoff.content.status, data |-> data]
=============================================================================
