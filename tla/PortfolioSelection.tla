------------------------- MODULE PortfolioSelection -------------------------
(***************************************************************************)
(* lib/portfolio: which configurations of an assessed candidate universe   *)
(* are shown.  Pure: a request, a universe and a policy in, an envelope    *)
(* and a ledger with one row per universe entry out.                       *)
(*                                                                         *)
(* What is only checked for its shape is a boolean: .exact (the known keys *)
(* and no others), .valid (the M-A contract holds).  A range is a pair     *)
(* <<low, high>> or None; evidence and provenance are sets of records that *)
(* name their source.                                                      *)
(***************************************************************************)
EXTENDS ArraySort, Verdicts, FiniteSets

CONSTANT
    Families    \* how many families a portfolio shows at most: 5 in the code

ASSUME FamiliesAssumption == Families \in Nat \ {0}

Needs == {"tool-use", "structured-output", "vision", "embeddings", "offline"}

-----------------------------------------------------------------------------
(* The process-local brand: an entry object is remembered with its content *)
(* at the time it was admitted.                                            *)
AdmitPortfolioCandidateEntry(entry) == [entry EXCEPT !.admittedAs = entry.content]

ReceiptFields ==
    {"candidate", "artifact", "sha256", "runtimeId", "product", "engine", "build", "backend", "quantization"}

ReceiptBindsCandidate(receipt, candidate) ==
    /\ receipt.policy = "m-e.compatibility/1"
    /\ receipt.decision = "admitted"
    /\ \A f \in ReceiptFields : receipt.target[f] = candidate[f]
    /\ \A f \in {"artifact", "product", "engine"} : receipt.assertion[f] = candidate[f]

ValidEligibility(eligibility) ==
    /\ eligibility.installed \in {"yes", "no", "unknown"}
    /\ DOMAIN eligibility.capabilities = Needs
    /\ \A need \in Needs : eligibility.capabilities[need] \in {"yes", "no", "unknown"}

ValidFamiliarity(signal, candidate) ==
    /\ signal.exact
    /\ signal.family = candidate.family
    /\ signal.candidate = candidate.candidate
    /\ signal.artifact = candidate.artifact
    /\ signal.ordinal \in Nat
    /\ signal.reviewed
    /\ signal.provenance # {}
    /\ \A p \in signal.provenance :
          /\ p.valid /\ p.attributed
          /\ p.method = "imported"
          /\ p.configuration = "exact"
          /\ p.hardware \in {"not-applicable", "exact"}

ExactEligible(p) ==
    /\ p.configuration = "exact"
    /\ p.hardware \in {"exact", "not-applicable"}
    /\ p.eligible

Metrics ==
    {"fit-memory", "prompt-throughput", "generation-throughput", "time-to-first-token",
     "task-latency", "stability", "energy-per-task", "task-success",
     "operator-intervention-rate", "response-preference", "experience-preference"}

Claims == {"estimated", "measured", "community", "verified", "preference"}

ValidEvidenceComponent(value) ==
    /\ value.exact
    /\ value.metric \in Metrics
    /\ value.claim \in Claims
    /\ value.provenance # {}
    /\ \A p \in value.provenance : p.valid

ExactTaskResults(entry) ==
    {r \in entry.evidence : r.kind = "exact" /\ r.metric = "task-success"}

(* The provenance items of exact task-success results, with their results. *)
ExactTaskItems(entry, task) ==
    {item \in UNION {{r} \X r.provenance : r \in ExactTaskResults(entry)} :
        item[2].task = task /\ ExactEligible(item[2])}

Intervals(items) == {item \in items : item[2].interval # None}

HasContradictoryExactTaskEvidence(entry) ==
    \E task \in {p.task : p \in UNION {r.provenance : r \in ExactTaskResults(entry)}} \ {None} :
       Cardinality({item[2].interval : item \in Intervals(ExactTaskItems(entry, task))}) > 1

IsDataAssessment(assessment) == assessment.status \in {"ok", "partial"}

(* .valid: the M-A contract, but for the fit that one has to state.        *)
ValidAssessment(assessment) ==
    /\ assessment.valid
    /\ IsDataAssessment(assessment) =>
          assessment.fit \in {"good", "tight", "does-not-fit", "unknown"}

(* receipt, assessment, eligibility, familiarity and evidence of one       *)
(* candidate entry, each bound to the candidate and the universe.          *)
ValidCandidateEntry(entry, universe) ==
    LET candidate == entry.candidate
        assessment == entry.assessment
    IN  /\ entry.artifact = candidate.artifact
        /\ entry.admittedAs = entry.content
        /\ candidate.valid /\ entry.receipt.valid /\ ValidAssessment(assessment)
        /\ ReceiptBindsCandidate(entry.receipt, candidate)
        /\ IsDataAssessment(assessment) =>
              /\ assessment.candidate = candidate.candidate
              /\ assessment.target = universe.target
        /\ ValidEligibility(entry.eligibility)
        /\ entry.familiarity # None => ValidFamiliarity(entry.familiarity, candidate)
        /\ \A result \in entry.evidence :
              CASE result.kind = "unsupported" -> result.exact /\ result.reasons # {}
                [] result.kind \in {"exact", "lossy"} ->
                     /\ ValidEvidenceComponent(result)
                     /\ result.candidate = candidate.candidate
                     /\ result.target = universe.target
                     /\ result.kind = "lossy" => result.reasons # {}
                [] OTHER -> FALSE
        /\ ~HasContradictoryExactTaskEvidence(entry)

ValidEntry(entry, universe) ==
    /\ entry.kind \in {"candidate", "upstream-gap"}
    /\ entry.exact
    /\ entry.snapshot = universe.snapshot
    /\ entry.position + 1 \in DOMAIN universe.artifacts
    /\ universe.artifacts[entry.position + 1] = entry.artifact
    /\ entry.kind = "upstream-gap" => entry.valid
    /\ entry.kind = "candidate" => ValidCandidateEntry(entry, universe)

ValidInput(request, universe, policy) ==
    /\ policy.exact /\ policy.version = 1 /\ policy.named
    /\ request.valid /\ request.status = "ok"
    /\ universe.exact /\ universe.version = 1 /\ universe.named
    /\ universe.request = request.id
    /\ universe.target = request.target
    /\ IsInjective(universe.artifacts)
    /\ LET ids == [i \in DOMAIN universe.entries |-> universe.entries[i].artifact]
       IN  IsInjective(ids) /\ ToSet(ids) = ToSet(universe.artifacts)
    /\ \A i \in DOMAIN universe.entries : ValidEntry(universe.entries[i], universe)

-----------------------------------------------------------------------------
(* Why a request rules a candidate out; the names are the reason codes.    *)
HardConstraintReasons(entry, request) ==
    LET a == entry.assessment
        needs(support) == {need \in request.needs : entry.eligibility.capabilities[need] = support}
    IN  Held([fit_does_not_fit |-> a.fit = "does-not-fit",
              fit_unknown |-> a.fit = "unknown",
              fit_tight_unapproved |-> a.fit = "tight",
              hardware_mismatch |-> a.target # request.target,
              context_mismatch |-> entry.candidate.context # request.context,
              cpu_offload_disallowed |-> ~request.cpuOffload /\ a.runPath = "cpu-offload",
              not_installed |-> request.installedOnly /\ entry.eligibility.installed = "no",
              installed_state_unknown |->
                  request.installedOnly /\ entry.eligibility.installed = "unknown",
              forced_runtime_semantics_unresolved |-> request.forcedRuntime # None,
              artifact_too_large |->
                  request.maximumBytes # None /\ entry.candidate.bytes > request.maximumBytes,
              capability_unsupported |-> needs("no") # {},
              capability_unknown |-> needs("unknown") # {}])

(* Seeded fault: a tight fit is taken for a definite no.                   *)
CoverageReasonsWithoutTight ==
    {"fit_unknown", "installed_state_unknown", "capability_unknown",
     "forced_runtime_semantics_unresolved"}

(* The reasons that say that something is not known.                       *)
CoverageReasons ==
    {"fit_unknown", "installed_state_unknown", "capability_unknown",
     "forced_runtime_semantics_unresolved", "fit_tight_unapproved", "assessment_unavailable"}

InitialRow(entry) ==
    [disposition |-> IF entry.kind = "upstream-gap" THEN "upstream-gap" ELSE "unsupported",
     reasons |-> CASE entry.kind = "upstream-gap" -> {entry.reason}
                   [] entry.kind = "candidate" -> {}
                   [] OTHER -> {"entry_kind_unsupported"}]

(* The row of an entry before the representatives are chosen.              *)
Classified(entry, request) ==
    IF entry.kind = "upstream-gap" THEN InitialRow(entry)
    ELSE IF ~IsDataAssessment(entry.assessment)
         THEN [disposition |-> "unsupported", reasons |-> {"assessment_unavailable"}]
         ELSE LET reasons == HardConstraintReasons(entry, request)
              IN  [disposition |-> IF reasons = {} THEN "eligible"
                                   ELSE IF reasons \cap CoverageReasons # {} THEN "unsupported"
                                   ELSE "excluded",
                   reasons |-> reasons]

-----------------------------------------------------------------------------
ExactAssessmentRange(channel) ==
    IF /\ channel.range # None
       /\ \E p \in channel.provenance : ExactEligible(p) /\ p.interval = channel.range
    THEN channel.range ELSE None

SupportedChannels(entry) ==
    LET a == entry.assessment
    IN  Held([fit_memory |-> \E p \in a.fitEvidence : ExactEligible(p),
              prompt_throughput |-> ExactAssessmentRange(a.prompt) # None,
              generation_throughput |-> ExactAssessmentRange(a.generation) # None,
              time_to_first_token |-> ExactAssessmentRange(a.firstToken) # None])
        \cup {r.metric : r \in {r \in entry.evidence :
                  r.kind = "exact" /\ \E p \in r.provenance : ExactEligible(p)}}

EvidenceDominates(left, right) ==
    /\ SupportedChannels(right) \subseteq SupportedChannels(left)
    /\ Cardinality(SupportedChannels(left)) > Cardinality(SupportedChannels(right))

(* The elements of s at the places, in their order.                        *)
Sublist(s, places) ==
    [k \in 1..Cardinality(places) |->
        s[CHOOSE p \in places : Cardinality({q \in places : q <= p}) = k]]

(* Of the places left, those of the candidates that another one dominates. *)
Dominated(candidates, left) ==
    {i \in left : \E j \in left : EvidenceDominates(candidates[j], candidates[i])}

(* The undominated, then the undominated of the rest, and so on; behind    *)
(* the last of them the layers are empty.                                  *)
EvidenceLayers(candidates) ==
    LET left[n \in 0..Len(candidates)] ==
          IF n = 0 THEN DOMAIN candidates ELSE Dominated(candidates, left[n - 1])
    IN  [n \in 1..Len(candidates) |-> Sublist(candidates, left[n - 1] \ left[n])]

CompareNumber(left, right) == IF left < right THEN -1 ELSE IF left > right THEN 1 ELSE 0

HigherNonOverlappingRange(left, right) ==
    IF left = None \/ right = None THEN 0
    ELSE IF left[1] > right[2] THEN -1 ELSE IF right[1] > left[2] THEN 1 ELSE 0

(* The interval of the only exact task-success item of the task.           *)
TaskQualityRange(entry, task) ==
    LET items == Intervals(ExactTaskItems(entry, task))
    IN  IF Cardinality(items) = 1 THEN (CHOOSE item \in items : TRUE)[2].interval ELSE None

TotalRequiredBytes(entry) == entry.assessment.deviceBytes + entry.assessment.hostBytes

PriorityComparison(left, right, request) ==
    CASE request.priority = "speed" ->
            HigherNonOverlappingRange(ExactAssessmentRange(left.assessment.generation),
                                      ExactAssessmentRange(right.assessment.generation))
      [] request.priority = "quality" ->
            HigherNonOverlappingRange(TaskQualityRange(left, request.task),
                                      TaskQualityRange(right, request.task))
      [] request.priority = "long-context" ->
            CompareNumber(right.candidate.context, left.candidate.context)
      [] request.priority = "lightest" ->
            IF \A e \in {left, right} : "fit_memory" \in SupportedChannels(e)
            THEN CompareNumber(TotalRequiredBytes(left), TotalRequiredBytes(right)) ELSE 0
      [] OTHER -> 0

FamiliarityComparison(left, right) ==
    IF left.familiarity = None \/ right.familiarity = None THEN 0
    ELSE CompareNumber(right.familiarity.ordinal, left.familiarity.ordinal)

(* Positions are distinct in a valid universe, so that the last comparison *)
(* of candidate ids is never reached.                                      *)
OrderOf(left, right, request) ==
    LET priority == PriorityComparison(left, right, request)
        familiarity == FamiliarityComparison(left, right)
    IN  IF priority # 0 THEN priority
        ELSE IF familiarity # 0 THEN familiarity
        ELSE CompareNumber(left.position, right.position)

(* Seeded fault: the layers are dropped, the request's priority decides.   *)
OrderIgnoringEvidence(candidates, request) ==
    SortedBy(candidates, LAMBDA left, right : OrderOf(left, right, request))

OrderRepresentatives(candidates, request) ==
    LET layers == EvidenceLayers(candidates)
    IN  FlattenSeq([k \in DOMAIN layers |->
            SortedBy(layers[k], LAMBDA left, right : OrderOf(left, right, request))])

(* The first of each family, in the order in which families first appear.  *)
ChooseFamilyRepresentatives(candidates, request) ==
    LET familyOf(i) == candidates[i].candidate.family
        opens == {i \in DOMAIN candidates : \A j \in 1..(i - 1) : familyOf(j) # familyOf(i)}
        ofFamily(first) ==
            Sublist(candidates,
                    {i \in DOMAIN candidates : familyOf(i) = first.candidate.family})
        firsts == Sublist(candidates, opens)
    IN  [k \in DOMAIN firsts |-> OrderRepresentatives(ofFamily(firsts[k]), request)[1]]

-----------------------------------------------------------------------------
(* What was not known of a candidate that is shown.                        *)
Unresolved(entry) ==
    (IF entry.assessment.status = "partial" THEN entry.assessment.missing ELSE {})
    \cup UNION {r.reasons : r \in {r \in entry.evidence : r.kind \in {"unsupported", "lossy"}}}

BlockedPortfolio(ledger) ==
    [status |-> "blocked", reason |-> "input-invalid", outcome |-> None, items |-> {},
     missing |-> {}, ledger |-> ledger]

InvalidLedger(universe) ==
    [i \in DOMAIN universe.entries |->
        LET row == InitialRow(universe.entries[i])
        IN  [disposition |-> IF row.disposition = "upstream-gap" THEN "upstream-gap" ELSE "unsupported",
             reasons |-> row.reasons \cup {"input_invalid"}]]

(* The representatives in their order; those behind the limit are left out.*)
Ordered(request, universe) ==
    LET eligible == {i \in DOMAIN universe.entries :
                       Classified(universe.entries[i], request).disposition = "eligible"}
    IN  OrderRepresentatives(
            ChooseFamilyRepresentatives(Sublist(universe.entries, eligible), request), request)

SelectedOf(ordered) == {ordered[k] : k \in {k \in DOMAIN ordered : k <= Families}}

Ledger(request, universe, ordered) ==
    LET final(entry) ==
          IF Classified(entry, request).disposition # "eligible" THEN Classified(entry, request)
          ELSE IF entry \in SelectedOf(ordered)
               THEN [disposition |-> "selected",
                     reasons |-> {"selected_unranked"}
                                 \cup (IF Unresolved(entry) # {} THEN {"evidence_partial"} ELSE {})]
               ELSE [disposition |-> "excluded",
                     reasons |-> IF entry \in ToSet(ordered) THEN {"family_limit"}
                                 ELSE {"family_deduplicated"}]
    IN  [i \in DOMAIN universe.entries |-> final(universe.entries[i])]

Missing(universe, ledger, selected) ==
    (IF universe.entries = <<>> THEN {"universe"} ELSE {})
    \cup {universe.entries[i].artifact :
             i \in {i \in DOMAIN ledger : ledger[i].disposition \in {"upstream-gap", "unsupported"}}}
    \cup UNION {Unresolved(entry) : entry \in selected}

CoverageGap(universe, ledger) ==
    \/ universe.entries = <<>>
    \/ \E i \in DOMAIN ledger : ledger[i].disposition \in {"upstream-gap", "unsupported"}

Outcome(universe, ledger, selected) ==
    IF selected # {} THEN "unranked-compatible"
    ELSE IF CoverageGap(universe, ledger) THEN "coverage-gap" ELSE "nothing-fits"

ToPortfolioItem(entry) ==
    [family |-> entry.candidate.family, candidate |-> entry.candidate.candidate,
     assessment |-> entry.assessment.id]

(* The envelope over a valid input.  It always has the shape that          *)
(* validateContract asks for, so output-invalid is not reached.            *)
Envelope(universe, ledger, selected) ==
    LET missing == Missing(universe, ledger, selected)
    IN  [status |-> IF missing # {} THEN "partial" ELSE "ok",
         reason |-> None,
         outcome |-> Outcome(universe, ledger, selected),
         items |-> {ToPortfolioItem(entry) : entry \in selected},
         missing |-> missing,
         ledger |-> ledger]

EnvelopeOf(request, universe, ordered) ==
    Envelope(universe, Ledger(request, universe, ordered), SelectedOf(ordered))

Shown(request, universe) == EnvelopeOf(request, universe, Ordered(request, universe))

(* An input that throws while it is read is blocked without a ledger.      *)
BuildRecommendationPortfolio(request, universe, policy) ==
    IF universe.throws THEN BlockedPortfolio(<<>>)
    ELSE IF ~ValidInput(request, universe, policy) THEN BlockedPortfolio(InvalidLedger(universe))
    ELSE Shown(request, universe)
=============================================================================
