--------------------------- MODULE FitAssessment ---------------------------
(***************************************************************************)
(* lib/assessment/index.ts: an exact candidate on a confirmed target, with *)
(* an admitted profile and policy and the evidence of lib/evidence, is     *)
(* assessed or refused with the first reason found.  Nothing admitted is   *)
(* trusted again: identity, hardware and policy are all checked here too.  *)
(*                                                                         *)
(* .os and .exactBuild belong to the receipt; a channel is a pair of range *)
(* and provenance.                                                         *)
(***************************************************************************)
EXTENDS ProfileAdmission, SequencesExt

Failure(status, reason) == [status |-> status, reason |-> reason, valid |-> TRUE]

-----------------------------------------------------------------------------
AssessedReceiptFields ==
    {"candidate", "artifact", "sha256", "runtimeId", "product", "engine", "build", "backend", "quantization"}

ReceiptIsOfCandidate(receipt, candidate) ==
    /\ receipt.policy = "m-e.compatibility/1"
    /\ receipt.decision = "admitted"
    /\ \A f \in AssessedReceiptFields : receipt.target[f] = candidate[f]
    /\ receipt.exactBuild \in {None, receipt.target.build}

FirstAccelerator(hardware) ==
    IF hardware.accelerators = <<>> THEN None ELSE hardware.accelerators[1].id

ProfileIsOfCandidate(profile, candidate, hardware) ==
    /\ profile.binding.candidate = candidate.candidate
    /\ profile.binding.sha256 = candidate.sha256
    /\ profile.binding.accelerator = FirstAccelerator(hardware)
    /\ profile.binding.target \in {None, hardware.target}
    /\ SameRuntime(profile.binding.runtime, candidate)

ProfileNamed(profile) ==
    IF profile.mode = "host" THEN profile.allocation.artifact.named ELSE profile.allocation.id # None

IdentityFailure(input) ==
    LET profile == input.profile
    IN  FirstReason(<<
          <<"fit.candidate-contract-invalid", ~input.candidate.valid>>,
          <<"fit.compatibility-receipt-invalid", ~input.receipt.valid>>,
          <<"fit.context-mismatch", input.context # input.candidate.context>>,
          <<"fit.compatibility-receipt-mismatch", ~ReceiptIsOfCandidate(input.receipt, input.candidate)>>,
          <<"fit.profile-binding-mismatch",
            ~ProfileIsOfCandidate(profile, input.candidate, input.hardware)>>,
          <<"fit.profile-provenance-missing",
            \/ ~ProfileNamed(profile)
            \/ profile.provenance = {}
            \/ \E p \in profile.provenance : ~p.valid \/ ~p.attributed>>,
          <<"fit.profile-allocation-invalid",
            /\ profile.mode # "host"
            /\ profile.allocation.device.model + profile.allocation.host.model <= 0>>,
          <<"fit.profile-hardware-scope-mismatch",
            /\ \E p \in profile.provenance : p.hardware = "exact"
            /\ profile.binding.target # input.hardware.target>>,
          <<"fit.input-incomplete", ~input.named \/ input.context <= 0>> >>)

-----------------------------------------------------------------------------
TrustedOrigin(origin) == origin \in {"confirmed", "detected"}

HostFailure(input) ==
    FirstReason(<<
        <<"fit.host-path-mismatch",
          \/ input.candidate.backend # "cpu"
          \/ input.profile.runPath # "cpu"
          \/ input.profile.binding.accelerator # None
          \/ input.hardware.accelerators # <<>>
          \/ input.policy.deviceReserve # 0>>,
        <<"fit.memory-origin-unconfirmed", ~TrustedOrigin(input.hardware.ramOrigin)>> >>)

SplitFailure(input, accelerator) ==
    FirstReason(<<
        <<"fit.accelerator-selection-required",
          \/ accelerator.id = None
          \/ accelerator.count # 1
          \/ accelerator.kind # accelerator.vendor
          \/ accelerator.vendor = "cpu">>,
        <<"fit.device-memory-unconfirmed",
          accelerator.memory = None \/ accelerator.memory \notin 1..MaxSafe>>,
        <<"fit.backend-mismatch", accelerator.backend # input.candidate.backend>>,
        <<"fit.run-path-mismatch",
          \/ RunPathContradicts(input.profile.runPath, input.candidate.gpuLayers)
          \/ input.candidate.backend = "cpu">>,
        <<"fit.memory-origin-unconfirmed",
          ~TrustedOrigin(input.hardware.deviceOrigin) \/ ~TrustedOrigin(input.hardware.ramOrigin)>> >>)

(* null is none of the reasons for which hardware is refused.              *)
ASSUME HardwareReasonsAssumption ==
    None \notin {"fit.hardware-contract-invalid", "fit.hardware-incomplete",
                 "fit.hardware-runtime-mismatch", "fit.host-memory-unconfirmed",
                 "fit.unified-memory-profile-required", "fit.accelerator-selection-required",
                 "fit.device-memory-unconfirmed", "fit.backend-mismatch", "fit.run-path-mismatch",
                 "fit.memory-origin-unconfirmed", "fit.host-path-mismatch"}

HardwareFailure(input) ==
    LET hardware == input.hardware
        shared == FirstReason(<<
          <<"fit.hardware-contract-invalid", ~hardware.valid>>,
          <<"fit.hardware-incomplete", hardware.target = None>>,
          <<"fit.hardware-runtime-mismatch", hardware.os # input.receipt.os>>,
          <<"fit.host-memory-unconfirmed",
            \/ hardware.ram \notin 1..MaxSafe
            \/ hardware.availableRam # None /\ hardware.availableRam > hardware.ram>> >>)
    IN  IF shared # None THEN shared
        ELSE IF input.profile.mode = "host" THEN HostFailure(input)
        ELSE IF hardware.unified # "no" THEN "fit.unified-memory-profile-required"
        ELSE IF Len(hardware.accelerators) # 1 THEN "fit.accelerator-selection-required"
        ELSE SplitFailure(input, hardware.accelerators[1])

PolicyFailure(input) ==
    LET policy == input.policy
    IN  FirstReason(<<
          <<"fit.policy-invalid",
            \/ ~policy.named
            \/ PolicyMismatch(policy, input.hardware, input.profile.runPath)
            \/ ~NonNegative(policy.deviceReserve) \/ ~NonNegative(policy.hostReserve)
            \/ policy.marginBps \notin 0..BasisPoints
            \/ policy.basis # "confirmed-capacity-minus-reserve"
            \/ policy.provenance = {}
            \/ \E p \in policy.provenance : ~p.valid \/ ~p.attributed>>,
          <<"fit.tight-policy-unapproved", policy.tightBps # 0>> >>)

-----------------------------------------------------------------------------
NoPool ==
    [model |-> 0, context |-> 0, compute |-> 0, reserve |-> 0, margin |-> 0, required |-> 0,
     available |-> 0, fits |-> TRUE]

SplitFit(input) ==
    FitMemoryPools(input.profile.allocation,
        [device |-> input.hardware.accelerators[1].memory, host |-> input.hardware.ram,
         deviceReserve |-> input.policy.deviceReserve, hostReserve |-> input.policy.hostReserve,
         marginBps |-> input.policy.marginBps],
        input.context)

HostFit(input) ==
    LET result == Fit(input.profile.allocation.artifact,
                      [physical |-> input.hardware.ram, osReserve |-> input.policy.hostReserve,
                       displayReserve |-> 0, marginBps |-> input.policy.marginBps],
                      input.context, input.profile.allocation.cache)
    IN  IF result.thrown THEN Thrown
        ELSE [thrown |-> FALSE, fits |-> result.fits, reasons |-> result.reasons, device |-> NoPool,
              host |-> result.host]

-----------------------------------------------------------------------------
ExactMeasurements(provenance) ==
    {p \in provenance : /\ p.method = "measurement"
                        /\ p.hardware = "exact" /\ p.configuration = "exact"
                        /\ p.eligible /\ p.interval # None}

(* Accepted components hold one exact interval at most.                    *)
PreferredRange(provenance) ==
    IF ExactMeasurements(provenance) = {} THEN None
    ELSE (CHOOSE p \in ExactMeasurements(provenance) : TRUE).interval

ValidRange(range) == 0 <= range[1] /\ range[1] <= range[2]

UnitOf(metric) ==
    CASE metric \in {"prompt-throughput", "generation-throughput"} -> "tokens-per-second"
      [] metric = "time-to-first-token" -> "milliseconds"
      [] metric = "fit-memory" -> "bytes"
      [] OTHER -> None

(* The part of an assessment a metric is evidence for.                     *)
ChannelOf ==
    [m \in {"fit-memory", "prompt-throughput", "generation-throughput", "time-to-first-token"} |->
        CASE m = "fit-memory" -> "fit" [] m = "prompt-throughput" -> "prompt"
          [] m = "generation-throughput" -> "generation" [] OTHER -> "firstToken"]

Performance == {"prompt", "generation", "firstToken"}

ChannelUnit(channel) == IF channel = "firstToken" THEN "milliseconds" ELSE "tokens-per-second"

IsOfInput(component, input) ==
    component.candidate = input.candidate.candidate /\ component.target = input.hardware.target

(* A prior stays an attributed estimate, and its range is that of its      *)
(* provenance; the channels are looked at in turn.                         *)
ChannelFailure(component, c) ==
    FirstReason(<<
        <<"fit.performance-evidence-invalid",
          \E p \in component[c].provenance :
             \/ ~p.valid \/ ~p.attributed \/ p.method # "estimate"
             \/ p.interval = None \/ p.unit # ChannelUnit(c) \/ ~ValidRange(p.interval)>>,
        <<"fit.performance-provenance-mismatch",
          /\ component[c].range # None
          /\ \A p \in component[c].provenance : p.interval # component[c].range>> >>)

ThroughputFailure(component) ==
    LET failure(c) == <<ChannelFailure(component, c), ChannelFailure(component, c) # None>>
        outOfRange == \E c \in Performance :
                         component[c].range # None /\ ~ValidRange(component[c].range)
    IN  FirstReason(<< <<"fit.performance-range-invalid", outOfRange>>,
                       failure("prompt"), failure("generation"), failure("firstToken")>>)

NormalizedFailure(component) ==
    FirstReason(<<
        <<"fit.performance-evidence-invalid",
          \/ component.provenance = {}
          \/ \E p \in component.provenance : ~p.valid \/ ~p.attributed
          \/ UnitOf(component.metric) = None
          \/ component.claim = "preference"
          \/ \E p \in component.provenance :
               \/ p.method = "preference"
               \/ p.interval # None /\ (p.unit # UnitOf(component.metric) \/ ~ValidRange(p.interval))>>,
        <<"fit.evidence-conflict",
          Cardinality({p.interval : p \in ExactMeasurements(component.provenance)}) > 1>> >>)

(* The throughput result comes first; no range is known without it.        *)
Throughput(input) ==
    LET result == input.throughput
        nothing == [range |-> None, provenance |-> {}]
        empty == [blocked |-> None, fit |-> {}, prompt |-> nothing, generation |-> nothing,
                  firstToken |-> nothing]
        refusal == FirstReason(<<
            <<"fit.evidence-unsupported", result.kind = "unsupported">>,
            <<"fit.evidence-identity-mismatch", ~IsOfInput(result, input)>> >>)
    IN  IF result = None THEN empty
        ELSE IF refusal # None THEN [empty EXCEPT !.blocked = refusal]
        ELSE IF ThroughputFailure(result) # None
             THEN [empty EXCEPT !.blocked = ThroughputFailure(result)]
        ELSE [empty EXCEPT !.prompt = result.prompt, !.generation = result.generation,
                           !.firstToken = result.firstToken]

(* null is none of the reasons for which a record is refused.              *)
ASSUME RecordReasonsAssumption ==
    None \notin {"fit.evidence-unsupported", "fit.evidence-identity-mismatch",
                 "fit.evidence-channel-forbidden", "fit.evidence-conflict"}

RecordRefusal(collected, result, input) ==
    LET earlier(channel) == PreferredRange(collected[channel].provenance)
        next == PreferredRange(result.provenance)
    IN  FirstReason(<<
          <<"fit.evidence-unsupported", result.kind = "unsupported">>,
          <<"fit.evidence-identity-mismatch", ~IsOfInput(result, input)>>,
          <<"fit.evidence-channel-forbidden", result.metric \notin DOMAIN ChannelOf>>,
          <<NormalizedFailure(result), NormalizedFailure(result) # None>>,
          <<"fit.evidence-conflict",
            /\ result.metric \in DOMAIN ChannelOf \ {"fit-memory"}
            /\ next # None
            /\ earlier(ChannelOf[result.metric]) \notin {None, next}>> >>)

(* One record joins its channel, and its exact measurement, if it has one, *)
(* becomes the channel's range; behind a refusal nothing is read.          *)
AddNormalizedEvidence(collected, result, input) ==
    LET refusal == RecordRefusal(collected, result, input)
        channel == ChannelOf[result.metric]
        preferred == PreferredRange(result.provenance)
    IN  IF collected.blocked # None THEN collected
        ELSE IF refusal # None THEN [collected EXCEPT !.blocked = refusal]
        ELSE IF channel = "fit" THEN [collected EXCEPT !.fit = @ \cup result.provenance]
        ELSE [collected EXCEPT ![channel] =
                [range |-> IF preferred # None THEN preferred ELSE @.range,
                 provenance |-> @.provenance \cup result.provenance]]

CollectEvidence(input) ==
    LET collected[k \in 0..Len(input.records)] ==
          IF k = 0 THEN Throughput(input)
          ELSE AddNormalizedEvidence(collected[k - 1], input.records[k], input)
    IN  collected[Len(input.records)]

-----------------------------------------------------------------------------
(* assessFitEvidence.                                                      *)
Assessment(input, result, evidence) ==
    LET missing == {c \in Performance : evidence[c].range = None}
    IN  [status |-> IF missing = {} THEN "ok" ELSE "partial",
         valid |-> TRUE,
         id |-> input.id,
         candidate |-> input.candidate.candidate,
         target |-> input.hardware.target,
         fit |-> IF result.fits THEN "good" ELSE "does-not-fit",
         runPath |-> input.profile.runPath,
         deviceBytes |-> result.device.required,
         hostBytes |-> result.host.required,
         fitEvidence |-> input.profile.provenance \cup evidence.fit,
         prompt |-> evidence.prompt,
         generation |-> evidence.generation,
         firstToken |-> evidence.firstToken,
         blockingReasons |-> result.reasons,
         missing |-> missing]

AssessFitEvidence(input) ==
    LET result == IF input.profile.mode = "host" THEN HostFit(input) ELSE SplitFit(input)
        evidence == CollectEvidence(input)
    IN  IF IdentityFailure(input) # None THEN Failure("blocked", IdentityFailure(input))
        ELSE IF HardwareFailure(input) # None THEN Failure("blocked", HardwareFailure(input))
        ELSE IF PolicyFailure(input) # None THEN Failure("blocked", PolicyFailure(input))
        ELSE IF result.thrown THEN Failure("error", "fit.profile-invalid")
        ELSE IF evidence.blocked # None THEN Failure("blocked", evidence.blocked)
        ELSE IF input.advisory = "ok"
             THEN Failure("blocked", "llmfit.binding.registry-crosswalk-unverified")
        ELSE Assessment(input, result, evidence)
=============================================================================
