------------------------------- MODULE Finder -------------------------------
(***************************************************************************)
(* One visit, from the facts a configuration is judged by to the preview   *)
(* of its verification plan: lib/assessment and lib/evidence feed the      *)
(* finder of lib/orchestrator, whose bundle a visitor takes to the runner. *)
(*                                                                         *)
(* The calls are the library's; which of them is made, when, with which of *)
(* the objects at hand, and what the ports answer is the environment's.    *)
(***************************************************************************)
EXTENDS FitAssessment, ProfileCollection, EvidenceAdapters, TaskContext, RunnerPreparation

CONSTANTS
    Visits,         \* the facts a visit may start from; .reach bounds how far it is followed
    Providers(_),   \* what the candidate-universe port may answer, by that reach
    Candidates,     \* the ids a visitor may ask the detail of
    Edits,          \* what a caller may change in its own objects
    Stores,         \* what a scan of the model stores may find
    Paths,          \* the paths one may select
    Preparations,   \* what may be asked of the planner
    Planners,       \* how the planner may answer
    MaxSearches,    \* how often the finder is asked
    MaxNow          \* the last instant of a visit

(* What the types and the shape checks in front of the calls leave: a      *)
(* record has one of two modes, what is named has an id, and the stored    *)
(* evidence, a collection's contexts and their attempts are lists.         *)
ASSUME VisitsAssumption ==
    \A v \in Visits :
       /\ v.record.mode \in {"split", "host"}
       /\ v.record.named => v.record.id # None
       /\ v.collection # None =>
             /\ v.collection.id # None /\ v.collection.hardware.target # None
             /\ v.collection.contexts \in Seq(ToSet(v.collection.contexts))
             /\ \A c \in ToSet(v.collection.contexts) : c.attempts \in Seq(ToSet(c.attempts))
       /\ v.stored \in Seq(ToSet(v.stored))

(* An id of a candidate names one artifact: no code looks for two          *)
(* candidates of one id, and a detail is looked up by the id.              *)
ASSUME ProvidersAssumption ==
    \A v \in Visits : \A p \in Providers(v.reach) :
       /\ p.neighbours \in Seq(ToSet(p.neighbours))
       /\ \A n \in ToSet(p.neighbours) :
             "kind" \in DOMAIN n /\ (n.kind = "candidate" => "candidate" \in DOMAIN n)
       /\ LET candidates == {v.candidate} \cup
                            {n.candidate : n \in {n \in ToSet(p.neighbours) : n.kind = "candidate"}}
          IN  \A a, b \in candidates : a.candidate = b.candidate => a.artifact = b.artifact

VARIABLES
    facts,          \* what this visit starts from
    proposal,       \* the record derived from a collection, before its review
    profile, policy, assessment,          \* lib/assessment's results
    input,          \* the caller's finder input: a plain mutable object
    edited,         \* whether the caller has changed an object of its own
    pending,        \* the frozen request and hardware, while the port is awaited
    evaluated,      \* every evaluation the finder has returned, with its inputs
    searches,
    session, detail, handoff, bundle,     \* the latest of each
    now,
    inspection, inventory, selection,     \* the runner's
    preparation,    \* the caller's preview input, mutable as well
    planning,       \* what the planner was asked, with the objects it is bound to
    preview

assessing == <<proposal, profile, policy, assessment>>
asking == <<input, edited, pending, evaluated, searches>>
exporting == <<session, detail, handoff, bundle>>
importing == <<inspection, inventory, selection>>
previewing == <<preparation, planning, preview>>
vars == <<facts, assessing, asking, exporting, now, importing, previewing>>

Init ==
    /\ facts \in Visits
    /\ proposal = None /\ profile = None /\ policy = None /\ assessment = None
    /\ input = None /\ edited = FALSE /\ pending = None
    /\ evaluated = {} /\ searches = 0
    /\ session = None /\ detail = None /\ handoff = None /\ bundle = None
    /\ now = 0
    /\ inspection = None /\ inventory = None /\ selection = None
    /\ preparation = None /\ planning = None /\ preview = None

-----------------------------------------------------------------------------
(* lib/assessment.                                                         *)
Admitted(result) == result # None /\ result.kind = "ok"

(* The collection is a receipt of the runner, or a bundle of raw attempts. *)
DeriveRecord ==
    /\ facts.collection # None /\ proposal = None
    /\ proposal' = IF facts.collection.contract = "runner-fit-profile-capture"
                   THEN DeriveProposedProfileFromRunnerCapture(facts.collection)
                   ELSE DeriveProposedProfile(facts.collection, FALSE)
    /\ UNCHANGED <<facts, profile, policy, assessment, asking, exporting, now, importing, previewing>>

Proposed == proposal # None /\ proposal.kind = "proposed-unreviewed"

(* The record of allocation facts that is put up for admission.            *)
Submitted == IF Proposed THEN proposal.record ELSE facts.record

AdmitProfile ==
    /\ profile = None /\ (facts.collection = None \/ Proposed)
    /\ profile' = AdmitFitProfile(Submitted, facts.manifest, facts)
    /\ UNCHANGED <<facts, proposal, policy, assessment, asking, exporting, now, importing, previewing>>

AdmitPolicy ==
    /\ Admitted(profile) /\ policy = None
    /\ policy' = AdmitCapacityPolicy(facts.policyRecord, facts.manifest, facts.hardware,
                                     profile.value.runPath)
    /\ UNCHANGED <<facts, proposal, profile, assessment, asking, exporting, now, importing, previewing>>

Adapted == [k \in DOMAIN facts.stored |-> AdaptEvidenceRecord(facts.stored[k], facts.context)]

Assess ==
    /\ Admitted(profile) /\ Admitted(policy) /\ assessment = None
    /\ assessment' = AssessFitEvidence(
         [named |-> TRUE, id |-> facts.assessmentId, candidate |-> facts.candidate,
          receipt |-> facts.receipt, hardware |-> facts.hardware,
          context |-> facts.candidate.context,
          profile |-> profile.value, policy |-> policy.value,
          throughput |-> IF facts.prior = None THEN None
                         ELSE AdaptThroughputPrior(facts.prior, facts.context),
          records |-> Adapted, advisory |-> facts.advisory])
    /\ UNCHANGED <<facts, proposal, profile, policy, asking, exporting, now, importing, previewing>>

-----------------------------------------------------------------------------
(* lib/orchestrator: the finder.                                           *)
Compose ==
    /\ input = None /\ assessment # None /\ facts.reach # "assessed"
    /\ input' = [request |-> CompileRecommendationRequest(facts.question),
                 hardware |-> facts.hardware,
                 policy |-> [exact |-> TRUE, version |-> 1, named |-> TRUE]]
    /\ UNCHANGED <<facts, assessing, edited, pending, evaluated, searches, exporting, now,
                   importing, previewing>>

(* The caller's object changes between two calls, or during one.           *)
EditInput(edit) ==
    /\ bundle = None /\ input # None /\ ~edited /\ input.request.status = "ok"
    /\ edited' = TRUE
    /\ input' = CASE edit = "request" -> [input EXCEPT !.request.priority = "lightest"]
                  [] edit = "hardware" -> [input EXCEPT !.hardware.ram = @ + 1]
                  [] OTHER -> [input EXCEPT !.policy.named = FALSE]
    /\ UNCHANGED <<facts, assessing, pending, evaluated, searches, exporting, now, importing, previewing>>

AssessedEntry ==
    [kind |-> "candidate", exact |-> TRUE, artifact |-> facts.candidate.artifact,
     snapshot |-> "snapshot", position |-> 0, content |-> "entry", admittedAs |-> None,
     candidate |-> facts.candidate, receipt |-> facts.receipt, assessment |-> assessment,
     eligibility |-> facts.eligibility, familiarity |-> facts.familiarity,
     evidence |-> ToSet(Adapted)]

(* What the port answers: the assessed entry among its neighbours, in the  *)
(* order of their list, over a catalog; .flaw is what is wrong with it.    *)
AnswerOf(provider) ==
    LET place(artifact) == CHOOSE k \in DOMAIN provider.catalog : provider.catalog[k] = artifact
        entries == <<AssessedEntry>> \o provider.neighbours
    IN  [kind |-> provider.kind, status |-> "unavailable", reason |-> "candidate-universe.none",
         universe |->
           [throws |-> provider.flaw = "throws", exact |-> TRUE, version |-> 1, named |-> TRUE,
            request |-> IF provider.flaw = "request" THEN None ELSE pending.request.id,
            target |-> pending.request.target, snapshot |-> "snapshot",
            artifacts |-> provider.catalog,
            entries |-> [k \in DOMAIN entries |->
                           [entries[k] EXCEPT !.position = place(entries[k].artifact) - 1]]]]

FindConfigurations ==
    /\ bundle = None /\ input # None /\ pending = None
    /\ searches < (IF facts.reach = "found" THEN 1 ELSE MaxSearches)
    /\ searches' = searches + 1
    /\ IF ValidFinderInput(input)
       THEN /\ pending' = [request |-> input.request, hardware |-> input.hardware]
            /\ UNCHANGED session
       ELSE /\ session' = FailedSession("blocked", "orchestrator.finder-input-invalid")
            /\ UNCHANGED pending
    /\ UNCHANGED <<facts, assessing, input, edited, evaluated, detail, handoff, bundle, now,
                   importing, previewing>>

UniverseLoaded(provider) ==
    /\ bundle = None /\ pending # None
    /\ \E found \in {SessionOf(pending.request, pending.hardware, input.policy, AnswerOf(provider))} :
          /\ session' = found
          /\ evaluated' = IF found.content.universe = None THEN evaluated
                          ELSE evaluated \cup
                               {[request |-> pending.request, hardware |-> pending.hardware,
                                 session |-> found.content]}
    /\ pending' = None
    /\ UNCHANGED <<facts, assessing, input, edited, searches, detail, handoff, bundle, now,
                   importing, previewing>>

OpenDetail(candidate) ==
    /\ bundle = None /\ session # None /\ facts.reach = "previewed"
    /\ \E given \in {session, Copied(session)} :
          detail' = GetExactConfigurationDetail(given, candidate)
    /\ UNCHANGED <<facts, assessing, asking, session, handoff, bundle, now, importing, previewing>>

HandOff ==
    /\ bundle = None /\ detail # None
    /\ \E given \in {detail, Copied(detail)} :
          handoff' = CreateRunnerHandoff([detail |-> given, now |-> now, request |-> input.request,
                                          hardware |-> input.hardware])
    /\ UNCHANGED <<facts, assessing, asking, session, detail, bundle, now, importing, previewing>>

Export ==
    /\ handoff # None /\ bundle = None
    /\ \E given \in {handoff, Copied(handoff)} :
          bundle' = CreateRunnerImportBundle(given, detail)
    /\ UNCHANGED <<facts, assessing, asking, session, detail, handoff, now, importing, previewing>>

Tick ==
    /\ handoff # None /\ now < MaxNow
    /\ now' = now + 1
    /\ UNCHANGED <<facts, assessing, asking, exporting, importing, previewing>>

-----------------------------------------------------------------------------
(* lib/orchestrator: the runner.  The file is the bundle, or one that was  *)
(* changed on its way.                                                     *)
Files ==
    {[status |-> bundle.status, wellFormed |-> TRUE, data |-> bundle.data],
     [status |-> bundle.status, wellFormed |-> FALSE, data |-> bundle.data],
     [status |-> bundle.status, wellFormed |-> TRUE,
      data |-> [bundle.data EXCEPT !.handoff.expires = @ + 1]]}

InspectImport(intent) ==
    /\ bundle # None /\ IsData(bundle) /\ planning = None
    /\ \E file \in Files : inspection' = InspectRunnerImportBundle(file, now, intent)
    /\ UNCHANGED <<facts, assessing, asking, exporting, now, inventory, selection, previewing>>

ScanInventory(store) ==
    /\ inspection # None /\ inventory = None
    /\ inventory' = ScannedSession(store)
    /\ UNCHANGED <<facts, assessing, asking, exporting, now, inspection, selection, previewing>>

SelectArtifact(path) ==
    /\ inventory # None /\ selection = None
    /\ \E given \in {inventory, Copied(inventory)} :
          selection' = SelectVerifiedInventoryArtifact(given, path)
    /\ UNCHANGED <<facts, assessing, asking, exporting, now, inspection, inventory, previewing>>

PreparePreview(asked) ==
    /\ selection # None /\ planning = None /\ preview = None
    /\ \E givenImport \in {inspection, Copied(inspection)},
          givenSelection \in {selection, Copied(selection)} :
          LET refusal == PreviewRefusal(asked, givenImport, givenSelection)
          IN  IF refusal # None
              THEN /\ preview' = Refusal("blocked", refusal)
                   /\ UNCHANGED <<preparation, planning>>
              ELSE /\ preparation' = asked
                   /\ planning' = [request |-> PlannerRequest(asked, givenImport, givenSelection),
                                   import |-> givenImport.content,
                                   selection |-> givenSelection.content]
                   /\ UNCHANGED preview
    /\ UNCHANGED <<facts, assessing, asking, exporting, now, importing>>

EditPreparation(asked) ==
    /\ planning # None /\ preview = None
    /\ preparation' = asked
    /\ UNCHANGED <<facts, assessing, asking, exporting, now, importing, planning, preview>>

(* The plan that was asked for, but for what .flaw names.                  *)
PlanOf(request, planner) ==
    LET planned(part) ==
          IF request[part] = None THEN None
          ELSE [id |-> request[part].id,
                runs |-> IF planner.flaw = "runs" THEN "other" ELSE request[part].runs,
                preflight |-> request[part].preflight,
                candidate |-> request.candidate.candidate,
                path |-> IF planner.flaw = "path" THEN "elsewhere" ELSE request.selection.path,
                sha256 |-> request.selection.sha256, runtime |-> RuntimeOf(request.candidate)]
    IN  [id |-> request.id, target |-> request.confirmedHardware.target,
         candidate |-> IF planner.flaw = "candidate" THEN "other" ELSE request.candidate.candidate,
         benchmark |-> planned("benchmark"), quickCheck |-> planned("quickCheck")]

PlannerAnswers(planner) ==
    /\ planning # None /\ preview = None
    /\ preview' = PreviewOf([kind |-> planner.kind, status |-> "blocked", reason |-> "planner",
                             plan |-> PlanOf(planning.request, planner)],
                            preparation, planning.import.bundle, planning.selection)
    /\ UNCHANGED <<facts, assessing, asking, exporting, now, importing, preparation, planning>>

-----------------------------------------------------------------------------
Next ==
    \/ DeriveRecord \/ AdmitProfile \/ AdmitPolicy \/ Assess \/ Compose
    \/ \E edit \in Edits : EditInput(edit)
    \/ FindConfigurations
    \/ \E provider \in Providers(facts.reach) : UniverseLoaded(provider)
    \/ \E candidate \in Candidates : OpenDetail(candidate)
    \/ HandOff \/ Export \/ Tick
    \/ \E intent \in {"inspect", "confirm-expired-import"} : InspectImport(intent)
    \/ \E store \in Stores : ScanInventory(store)
    \/ \E path \in Paths : SelectArtifact(path)
    \/ \E asked \in Preparations : PreparePreview(asked) \/ EditPreparation(asked)
    \/ \E planner \in Planners : PlannerAnswers(planner)

Spec == Init /\ [][Next]_vars

-----------------------------------------------------------------------------
(* The reasons of index.ts that blame the profile or the policy.           *)
ProfileRefusals ==
    {"fit.profile-binding-mismatch", "fit.profile-provenance-missing",
     "fit.profile-allocation-invalid", "fit.profile-hardware-scope-mismatch",
     "fit.host-path-mismatch", "fit.unified-memory-profile-required", "fit.run-path-mismatch",
     "fit.policy-invalid", "fit.tight-policy-unapproved", "fit.profile-invalid"}

PoolBytes(pool) == pool.model + pool.context + pool.compute

(* An observed pool with what a policy keeps free beside it.               *)
Claimed(pool, reserve, marginBps) ==
    PoolBytes(pool) + reserve + Scale(PoolBytes(pool), marginBps, BasisPoints)

BeyondExactIntegers(o, reserves) ==
    \/ Claimed(o.host, reserves.hostReserve, reserves.marginBps) > MaxSafe
    \/ o.device # None /\ Claimed(o.device, reserves.deviceReserve, reserves.marginBps) > MaxSafe

(* Two checkers agree: admission.ts and index.ts of lib/assessment judge   *)
(* the same profile and policy in different words, and what the first has  *)
(* admitted the second refuses for the profile's or the policy's sake in   *)
(* two cases only.  admission.ts tries the arithmetic of a profile without *)
(* a policy, and takes any safe integer for a reserve, so that the bytes   *)
(* observed at the candidate's own context length, with the reserve and    *)
(* the margin of the policy, may be more than the exact integers hold:     *)
(* fit.profile-invalid is said then, and never else.  A run path mismatch  *)
(* is also what a candidate of the processor is refused for beside a card. *)
AdmittedRecordsAreAssessed ==
    assessment # None =>
        \/ IsData(assessment)
        \/ assessment.reason \notin ProfileRefusals
        \/ assessment.reason = "fit.run-path-mismatch" /\ facts.candidate.backend = "cpu"
        \/ /\ assessment.reason = "fit.profile-invalid"
           /\ \E o \in Submitted.observations :
                 o.tokens = facts.candidate.context /\ BeyondExactIntegers(o, policy.value)

(* What is derived from a collection of the judged configuration, once     *)
(* reviewed, is admitted: its allocation facts reproduce every observation *)
(* in admission.ts's own arithmetic, however many contexts were observed   *)
(* and in whatever order.  What remains to be refused is a receipt of      *)
(* another build, which the collection does not look at, pools that hold   *)
(* no model, and bytes beyond the exact integers.                          *)
DerivedRecordsAreAdmitted ==
    Proposed /\ profile # None =>
        LET collected == facts.collection
            seen == UNION {{o.device, o.host} : o \in proposal.record.observations}
        IN  \/ Admitted(profile)
            \/ \E f \in {"candidate", "receipt", "hardware"} : facts[f] # collected[f]
            \/ ~ReviewedRecord(facts.manifest, "fit-profile", proposal.record, "reviewed")
            \/ profile.reason = "fit-profile.compatibility-receipt-mismatch"
            \/ \A pool \in seen : pool.model = 0
            \/ \E pool \in seen : PoolBytes(pool) > MaxSafe

(* Not one thing about the entry is left open by what the provider knows.  *)
NothingOpen(entry, request) ==
    /\ entry.kind = "candidate" /\ IsData(entry.assessment)
    /\ entry.assessment.fit \in {"good", "does-not-fit"}
    /\ request.forcedRuntime = None
    /\ request.installedOnly => entry.eligibility.installed # "unknown"
    /\ \A need \in request.needs : entry.eligibility.capabilities[need] # "unknown"

(* "Nothing fits" is said of a universe only when every entry of it was    *)
(* assessed and is known to fail; a gap in what is known is told as a gap. *)
NothingFitsIsKnown ==
    \A e \in evaluated :
       e.session.portfolio.outcome = "nothing-fits" =>
          /\ e.session.universe.entries # <<>>
          /\ \A entry \in ToSet(e.session.universe.entries) : NothingOpen(entry, e.request)

(* A family is represented by a configuration about which no configuration *)
(* of the family that could be shown as well is known better, whatever the *)
(* request's priority.                                                     *)
RepresentativesAreUndominated ==
    \A e \in evaluated :
       LET eligible == {entry \in ToSet(e.session.universe.entries) :
                           Classified(entry, e.request).disposition = "eligible"}
           undominated(entry) ==
              \A other \in eligible :
                 other.candidate.family = entry.candidate.family => ~EvidenceDominates(other, entry)
       IN  \A item \in e.session.portfolio.items :
              \E entry \in eligible : ToPortfolioItem(entry) = item /\ undominated(entry)

(* What is shown does not depend on the order in which the provider lists  *)
(* the entries, as portfolio.test.ts:414 says of permuted universes.       *)
SelectionIgnoresEntryOrder ==
    \A e \in evaluated :
       LET universe == e.session.universe
       IN  \A order \in Permutations(DOMAIN universe.entries) :
              Shown(e.request, [universe EXCEPT !.entries = [k \in DOMAIN @ |-> @[order[k]]]]).items
                  = e.session.portfolio.items

(* The evaluation in which the configuration of a handoff was shown, for   *)
(* this request on this hardware.                                          *)
Evaluations(data, receipt) ==
    {e \in evaluated :
        /\ e.request = data.request /\ e.hardware = data.hardware
        /\ \E entry \in ToSet(e.session.universe.entries) :
              /\ entry.kind = "candidate"
              /\ entry.candidate = data.candidate
              /\ entry.assessment = data.assessment
              /\ entry.receipt = receipt
              /\ ToPortfolioItem(entry) \in e.session.portfolio.items}

(* An exported bundle is of one evaluation: its request, hardware,         *)
(* configuration, assessment and receipt were judged together and the      *)
(* configuration was shown, with the context length the task asks for,     *)
(* however the caller's objects changed and whatever copies were passed.   *)
BundlesBindOneEvaluation ==
    bundle # None /\ IsData(bundle) =>
        /\ Evaluations(bundle.data.handoff, bundle.data.receipt) # {}
        /\ bundle.data.handoff.assessment.fit = "good"
        /\ bundle.data.handoff.candidate.context = DeriveTaskContext(facts.question.context).tokens

(* A plan that is previewed goes back to one evaluation of the finder, and *)
(* to a verified finding of the scan that is the judged artifact; an       *)
(* expired bundle came in only by the visitor's confirmation.              *)
PreparedPlansTraceBack ==
    preview # None /\ preview.status = "ok" =>
        LET plan == preview.plan
            bundled == planning.import.bundle
        IN  /\ Evaluations(bundled.handoff, bundled.receipt) # {}
            /\ plan.candidate = bundled.handoff.candidate.candidate
            /\ plan.target = bundled.handoff.hardware.target
            /\ \A part \in Asked(preparation) :
                  \E a \in inventory.content.artifacts :
                     /\ a.path = plan[part].path /\ a.resolution = "verified"
                     /\ a.sha256 = plan[part].sha256 /\ a.sha256 = bundled.handoff.candidate.sha256
            /\ planning.import.expired => planning.import.intent = "confirm-expired-import"
=============================================================================
