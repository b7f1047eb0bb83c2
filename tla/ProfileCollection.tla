-------------------------- MODULE ProfileCollection --------------------------
(***************************************************************************)
(* How allocation facts are measured into a record: the receipt of the     *)
(* runner's fit-profile capture (lib/assessment/runner-fit-profile-        *)
(* capture.ts) and the raw collection bundle it becomes, from whose        *)
(* repeated attempts research/mf-profile-collection derives one exactly    *)
(* linear profile.  The record is a proposal: AdmitFitProfile judges it.   *)
(*                                                                         *)
(* .exact says that every part has exactly its keys, .formed that every    *)
(* id, text, hash and timestamp has its format.  A content hash stands for *)
(* what was hashed.                                                        *)
(***************************************************************************)
EXTENDS ProfileAdmission, SequencesExt

NonNegativePool(pool) ==
    pool # None /\ \A f \in {"model", "context", "compute"} : NonNegative(pool[f])

ValidProducers(collection) ==
    collection.candidate.valid /\ collection.receipt.valid /\ collection.hardware.valid

(* Contexts of distinct lengths, and attempts of distinct ids.             *)
DistinctContexts(contexts) ==
    /\ \A c \in ToSet(contexts) : Positive(c.tokens)
    /\ \A i, j \in DOMAIN contexts : contexts[i].tokens = contexts[j].tokens => i = j
    /\ LET places == UNION {{<<i, k>> : k \in DOMAIN contexts[i].attempts} : i \in DOMAIN contexts}
           idAt(place) == contexts[place[1]].attempts[place[2]].id
       IN  \A p, q \in places : idAt(p) = idAt(q) => p = q

(* The receipt is about the candidate, as far as it is looked at here.     *)
ReceiptBinds(collection) ==
    \A f \in {"candidate", "artifact", "sha256", "runtimeId"} :
       collection.receipt.target[f] = collection.candidate[f]

(* All layers on the one accelerator of a machine with memory of its own.  *)
OneAccelerator(collection) ==
    LET hardware == collection.hardware
    IN  /\ hardware.unified = "no"
        /\ Len(hardware.accelerators) = 1
        /\ \A a \in ToSet(hardware.accelerators) :
              a.id # None /\ a.backend = collection.candidate.backend
        /\ collection.candidate.gpuLayers = "all"

BindingsHold(collection) ==
    /\ \A f \in {"candidate", "receipt", "hardware"} : collection.bindings[f] = collection[f]
    /\ collection.bindings.artifact = collection.candidate.sha256

Lengths(collection) == {c.tokens : c \in ToSet(collection.contexts)}

-----------------------------------------------------------------------------
(* The runner's receipt.                                                   *)
ValidConsent(consent) ==
    /\ consent.action = "capture-fit-profile"
    /\ consent.acknowledged
    /\ ~consent.serving /\ ~consent.recommendation

ContextSlot == "{contextTokens}"

ValidTemplate(template) ==
    LET slots == {k \in DOMAIN template : template[k] = ContextSlot}
    IN  Cardinality(slots) = 1 /\ \A k \in slots : k > 1 /\ template[k - 1] = "-c"

ValidCaptureContexts(contexts) ==
    /\ Len(contexts) = 2
    /\ DistinctContexts(contexts)
    /\ \A c \in ToSet(contexts) :
          /\ Len(c.attempts) = 3
          /\ \A a \in ToSet(c.attempts) :
                a.status = "completed" /\ NonNegativePool(a.device) /\ NonNegativePool(a.host)

ShapedCapture(capture) ==
    /\ capture.exact /\ capture.formed /\ capture.version = 1
    /\ ValidConsent(capture.consent)
    /\ ValidProducers(capture)
    /\ Positive(capture.artifact.bytes)
    /\ capture.tool.id = "llama-fit-params" /\ capture.tool.protocol = "llama-cpp-version-v1"
    /\ capture.protocol = "llama-fit-params-memory-breakdown-v1" /\ ValidTemplate(capture.argv)
    /\ ValidCaptureContexts(capture.contexts)
    /\ capture.runPath = "gpu"

(* One context as the candidate runs it, and one of four times its length. *)
CrossBindings(capture) ==
    LET candidate == capture.candidate
    IN  /\ BindingsHold(capture)
        /\ capture.bindings.selected = capture.artifact.sha256
        /\ capture.artifact.sha256 = candidate.sha256 /\ capture.artifact.bytes = candidate.bytes
        /\ ReceiptBinds(capture)
        /\ OneAccelerator(capture) /\ capture.hardware.accelerators[1].memory # None
        /\ capture.contexts[1].tokens = candidate.context
        /\ capture.contexts[2].tokens = 4 * candidate.context

Unhashed(capture) == [f \in DOMAIN capture \ {"contentHash"} |-> capture[f]]

ValidateRunnerFitProfileCapture(capture) ==
    IF ShapedCapture(capture) /\ capture.contentHash = Unhashed(capture) /\ CrossBindings(capture)
    THEN [kind |-> "ok", value |-> capture]
    ELSE Blocked("fit-profile-capture.invalid")

ToCollectionBundle(capture) ==
    [contract |-> "mf-profile-collection-bundle", exact |-> TRUE, formed |-> TRUE, version |-> 1,
     id |-> capture.id, edition |-> capture.edition, classification |-> "local-measurement",
     candidate |-> capture.candidate, receipt |-> capture.receipt, hardware |-> capture.hardware,
     bindings |-> [f \in {"candidate", "receipt", "hardware", "artifact"} |-> capture.bindings[f]],
     tool |-> [id |-> capture.tool.id], argv |-> capture.argv, runPath |-> "gpu",
     contexts |-> capture.contexts]

-----------------------------------------------------------------------------
(* The raw bundle, which may also be made by hand.                         *)
ValidAttempt(attempt) ==
    \/ /\ attempt.status = "completed"
       /\ NonNegativePool(attempt.device) /\ NonNegativePool(attempt.host)
    \/ /\ attempt.status \in {"failed", "unavailable"}
       /\ attempt.device = None /\ attempt.host = None

ValidContexts(contexts) ==
    /\ contexts # <<>>
    /\ DistinctContexts(contexts)
    /\ \A c \in ToSet(contexts) :
          Len(c.attempts) >= 2 /\ \A a \in ToSet(c.attempts) : ValidAttempt(a)

ValidateCollectionBundle(bundle) ==
    IF /\ bundle.exact /\ bundle.formed /\ bundle.version = 1
       /\ bundle.contract = "mf-profile-collection-bundle"
       /\ bundle.classification \in {"synthetic-machinery-only", "local-measurement"}
       /\ bundle.runPath = "gpu"
       /\ ValidProducers(bundle)
       /\ bundle.argv # <<>>
       /\ ValidContexts(bundle.contexts)
       /\ BindingsHold(bundle)
       /\ ReceiptBinds(bundle) /\ OneAccelerator(bundle)
       /\ bundle.candidate.context \in Lengths(bundle)
       /\ Cardinality(Lengths(bundle)) >= 2
    THEN [kind |-> "ok", value |-> bundle]
    ELSE Blocked("fit-profile-collection.invalid")

-----------------------------------------------------------------------------
(* seen[k] is what the pool held at the k-th shortest context.             *)
LinearPool(seen) ==
    LET growth == (seen[2].pool.compute - seen[1].pool.compute) * seen[1].tokens
        scaling == growth \div (seen[2].tokens - seen[1].tokens)
    IN  [model |-> seen[1].pool.model, compute |-> seen[1].pool.compute - scaling,
         context |-> seen[1].pool.context, computeContext |-> scaling, reference |-> seen[1].tokens]

(* The two shortest contexts lie on one line, through the origin for the   *)
(* context's bytes, of whole numbers.                                      *)
TwoContextsAgree(seen) ==
    LET first == seen[1]
        second == seen[2]
        growth == (second.pool.compute - first.pool.compute) * first.tokens
    IN  /\ \A k \in DOMAIN seen : seen[k].pool.model = first.pool.model
        /\ first.pool.context * second.tokens = second.pool.context * first.tokens
        /\ growth % (second.tokens - first.tokens) = 0
        /\ NonNegative(LinearPool(seen).computeContext) /\ LinearPool(seen).compute >= 0

(* Seeded fault: the longer contexts are not looked at again.              *)
DerivePoolFromTwo(seen) == IF TwoContextsAgree(seen) THEN LinearPool(seen) ELSE None

(* None where the code throws.                                             *)
DerivePool(seen) ==
    LET pool == LinearPool(seen)
        at(bytes, k) == Scale(bytes, seen[k].tokens, pool.reference)
    IN  IF /\ TwoContextsAgree(seen)
           /\ \A k \in DOMAIN seen :
                 /\ at(pool.context, k) = seen[k].pool.context
                 /\ pool.compute + at(pool.computeContext, k) = seen[k].pool.compute
        THEN pool ELSE None

(* Why no one observation stands for all attempts: of the first context    *)
(* that has an attempt not completed, or attempts that disagree.           *)
AttemptsIssue(contexts) ==
    LET incomplete(c) == \E a \in ToSet(c.attempts) : a.status # "completed"
        disagrees(c) == \E a \in ToSet(c.attempts) :
                           a.device # c.attempts[1].device \/ a.host # c.attempts[1].host
        faulty == {k \in DOMAIN contexts : incomplete(contexts[k]) \/ disagrees(contexts[k])}
        first == CHOOSE k \in faulty : \A j \in faulty : k <= j
    IN  IF faulty = {} THEN None
        ELSE IF incomplete(contexts[first]) THEN "fit-profile-collection.incomplete-attempt"
        ELSE "fit-profile-collection.repeat-disagreement"

(* A reason is never null.                                                 *)
ASSUME AttemptReasonsAssumption ==
    None \notin {"fit-profile-collection.incomplete-attempt",
                 "fit-profile-collection.repeat-disagreement"}

(* The contexts by their lengths, which differ: the k-th has k contexts    *)
(* that are no longer.                                                     *)
ByLength(contexts) ==
    LET rank(c) == Cardinality({d \in ToSet(contexts) : d.tokens <= c.tokens})
    IN  [k \in DOMAIN contexts |-> CHOOSE c \in ToSet(contexts) : rank(c) = k]

ProposedRecord(bundle, consensus, device, host) ==
    LET candidate == bundle.candidate
        accelerator == bundle.hardware.accelerators[1].id
    IN  [version |-> 1, missing |-> {}, unknown |-> {}, named |-> TRUE,
         id |-> bundle.id, edition |-> bundle.edition, content |-> "derived",
         scope |-> [candidate |-> candidate.candidate, sha256 |-> candidate.sha256,
                    target |-> bundle.hardware.target, accelerator |-> accelerator,
                    runtime |-> [f \in RuntimeFields |-> candidate[f]]],
         mode |-> "split", runPath |-> "gpu",
         allocation |-> [id |-> bundle.id, maxContext |-> consensus[Len(consensus)].tokens,
                         device |-> device, host |-> host],
         observations |-> {[id |-> k, tokens |-> consensus[k].tokens, stamped |-> TRUE,
                            device |-> consensus[k].attempts[1].device,
                            host |-> consensus[k].attempts[1].host] : k \in DOMAIN consensus},
         provenance |-> {[source |-> bundle.tool.id, valid |-> TRUE, attributed |-> TRUE,
                          method |-> "measurement", hardware |-> "exact", configuration |-> "exact",
                          task |-> None, interval |-> None, unit |-> None, eligible |-> TRUE]}]

(* trusted says that a validated receipt of the runner is behind it.       *)
DeriveProposedProfile(bundle, trusted) ==
    LET consensus == ByLength(bundle.contexts)
        seen(part) == [k \in DOMAIN consensus |->
                         [tokens |-> consensus[k].tokens, pool |-> consensus[k].attempts[1][part]]]
        device == DerivePool(seen("device"))
        host == DerivePool(seen("host"))
    IN  IF ValidateCollectionBundle(bundle).kind = "blocked" THEN ValidateCollectionBundle(bundle)
        ELSE IF bundle.classification # "synthetic-machinery-only" /\ ~trusted
             THEN Blocked("fit-profile-collection.trusted-capture-boundary-unavailable")
        ELSE IF AttemptsIssue(bundle.contexts) # None THEN Blocked(AttemptsIssue(bundle.contexts))
        ELSE IF device = None \/ host = None THEN Blocked("fit-profile-collection.scaling-unsupported")
        ELSE [kind |-> "proposed-unreviewed", record |-> ProposedRecord(bundle, consensus, device, host)]

DeriveProposedProfileFromRunnerCapture(capture) ==
    LET validation == ValidateRunnerFitProfileCapture(capture)
    IN  IF validation.kind = "blocked" THEN validation
        ELSE DeriveProposedProfile(ToCollectionBundle(validation.value), TRUE)
=============================================================================
