-------------------------- MODULE ProfileAdmission --------------------------
(***************************************************************************)
(* lib/assessment/admission.ts: which source records of allocation facts   *)
(* and of capacity policies may enter an assessment.  A record is taken    *)
(* only when it is complete, has no unknown field, is about the admitted   *)
(* candidate on the confirmed hardware, agrees with itself, and is listed  *)
(* exactly once, with the hash of its content, in the reviewed manifest.   *)
(*                                                                         *)
(* .missing and .unknown name the parts of a record that lack a key, or    *)
(* have another one.  The runtime settings that are only compared are one  *)
(* value, runtime.settings.  A record's .content stands for its canonical  *)
(* JSON and its SHA-256.                                                   *)
(***************************************************************************)
EXTENDS MemoryFit

Blocked(reason) == [kind |-> "blocked", reason |-> reason]

-----------------------------------------------------------------------------
AdmissionReceiptFields ==
    {"candidate", "artifact", "sha256", "runtimeId", "product", "engine", "build", "backend"}

ProducerIssue(input) ==
    FirstReason(<<
        <<"fit-profile.producer-invalid",
          ~(input.candidate.valid /\ input.receipt.valid /\ input.hardware.valid)>>,
        <<"fit-profile.compatibility-receipt-mismatch",
          \E f \in AdmissionReceiptFields : input.receipt.target[f] # input.candidate[f]>> >>)

(* The parts whose keys are looked for before anything else is read: a key *)
(* missing elsewhere is found by the checks behind.                        *)
ProfileParts == {"record", "scope", "runtime", "kv-cache", "sampler", "evidence", "tool"}
PolicyParts == {"record", "binding", "approval"}

MissingProfilePaths(record) == record.missing \cap ProfileParts
MissingPolicyPaths(record) == record.missing \cap PolicyParts

AllocationParts(mode) ==
    IF mode = "split" THEN {"allocation", "pool"} ELSE {"allocation", "artifact", "cache-profile", "cache"}

(* The parts with a key the schema does not have.                          *)
StrictProfileRecordIssues(record) ==
    record.unknown
        \cap (ProfileParts \cup {"observation", "observed-pool"} \cup AllocationParts(record.mode))
StrictPolicyRecordIssues(record) == record.unknown \cap PolicyParts

(* The settings by which two runtimes are compared.                        *)
RuntimeFields ==
    {"runtimeId", "product", "engine", "build", "backend", "context", "gpuLayers", "settings"}

SameRuntime(left, right) == \A f \in RuntimeFields : left[f] = right[f]

(* gpuLayers is all, some (a positive number), zero or null.               *)
RunPathContradicts(runPath, gpuLayers) ==
    \/ runPath = "gpu" /\ gpuLayers # "all"
    \/ runPath = "cpu-offload" /\ gpuLayers # "some"

SplitMismatch(record, candidate, hardware) ==
    \/ hardware.unified # "no"
    \/ Len(hardware.accelerators) # 1
    \/ record.scope.accelerator # hardware.accelerators[1].id
    \/ RunPathContradicts(record.runPath, candidate.gpuLayers)

HostMismatch(record, candidate, hardware) ==
    \/ record.scope.accelerator # None
    \/ hardware.accelerators # <<>>
    \/ candidate.backend # "cpu"
    \/ candidate.gpuLayers \notin {"zero", "null"}

ProfileMismatch(record, candidate, hardware) ==
    \/ record.version # 1
    \/ record.scope.candidate # candidate.candidate
    \/ record.scope.sha256 # candidate.sha256
    \/ record.scope.target \notin {None, hardware.target}
    \/ ~SameRuntime(record.scope.runtime, candidate)
    \/ IF record.mode = "split" THEN SplitMismatch(record, candidate, hardware)
       ELSE HostMismatch(record, candidate, hardware)

-----------------------------------------------------------------------------
AllRam == [device |-> MaxSafe, host |-> MaxSafe, deviceReserve |-> 0, hostReserve |-> 0, marginBps |-> 0]

SamePool(observed, calculated) ==
    \A f \in {"model", "context", "compute"} : observed[f] = calculated[f]

ContextScales(record) ==
    IF record.mode = "split"
    THEN \E pool \in {record.allocation.device, record.allocation.host} :
            pool.context > 0 \/ pool.computeContext > 0
    ELSE \E p \in record.allocation.artifact.key \cup record.allocation.artifact.value : p.bytes > 0

(* What the allocation facts say about an observed context is what was     *)
(* observed there.                                                         *)
ObservationAgrees(record, observation) ==
    IF record.mode = "split"
    THEN LET result == FitMemoryPools(record.allocation, AllRam, observation.tokens)
         IN  /\ ~result.thrown
             /\ observation.device # None
             /\ SamePool(observation.device, result.device)
             /\ SamePool(observation.host, result.host)
    ELSE LET result == Fit(record.allocation.artifact,
                           [physical |-> MaxSafe, osReserve |-> 0, displayReserve |-> 0, marginBps |-> 0],
                           observation.tokens, record.allocation.cache)
         IN  /\ ~result.thrown
             /\ observation.device = None
             /\ SamePool(observation.host, result.host)

MaxContextOf(record) ==
    IF record.mode = "split" THEN record.allocation.maxContext ELSE record.allocation.artifact.maxContext

(* Seeded fault: exact-hardware measurements of no named target are taken. *)
ValidSourcesOfAnyTarget(record) ==
    /\ record.named
    /\ record.provenance # {}
    /\ \A p \in record.provenance :
          /\ p.valid /\ p.attributed
          /\ p.method = "measurement" /\ p.hardware = "exact" /\ p.configuration = "exact"

(* Attributed exact measurements on the named target.                      *)
ValidSources(record) ==
    /\ record.named
    /\ record.provenance # {}
    /\ \A p \in record.provenance :
          /\ p.valid /\ p.attributed
          /\ p.method = "measurement" /\ p.hardware = "exact" /\ p.configuration = "exact"
    /\ record.scope.target # None

(* observations is a set of readings by id, so that one context may be     *)
(* claimed twice.                                                          *)
ValidProfileRecord(record) ==
    LET observations == record.observations
        contexts == {o.tokens : o \in observations}
    IN  /\ record.missing = {}
        /\ ValidSources(record)
        /\ observations # {}
        /\ \A o \in observations : o.tokens > 0 /\ o.stamped
        /\ Cardinality(contexts) = Cardinality(observations)
        /\ record.scope.runtime.context \in contexts
        /\ ContextScales(record) => Cardinality(contexts) >= 2
        /\ record.mode = "split" =>
              /\ record.runPath \in {"gpu", "cpu-offload"}
              /\ record.allocation.id = record.id
              /\ record.allocation.device.model + record.allocation.host.model > 0
        /\ \A o \in observations : ObservationAgrees(record, o)
        /\ MaxContextOf(record) \in contexts
        /\ \A tokens \in contexts : tokens <= MaxContextOf(record)

-----------------------------------------------------------------------------
(* The only manifest entry of the record; manifest.entries is a set of     *)
(* lines by number.                                                        *)
ReviewedRecord(manifest, kind, record, status) ==
    LET matches == {e \in manifest.entries :
                      e.kind = kind /\ e.id = record.id /\ e.edition = record.edition}
    IN  /\ manifest.exact /\ manifest.valid
        /\ Cardinality(matches) = 1
        /\ \A e \in matches : e.status = status /\ e.sha256 = record.content

(* The profile as an assessment gets it: frozen copies of the record.      *)
BoundProfile(record) ==
    [mode |-> record.mode,
     binding |-> [candidate |-> record.scope.candidate, sha256 |-> record.scope.sha256,
                  target |-> record.scope.target,
                  accelerator |-> IF record.mode = "split" THEN record.scope.accelerator ELSE None,
                  runtime |-> record.scope.runtime],
     allocation |-> record.allocation,
     runPath |-> IF record.mode = "split" THEN record.runPath ELSE "cpu",
     provenance |-> record.provenance,
     content |-> record.content]

AdmitFitProfile(record, manifest, input) ==
    IF ProducerIssue(input) # None THEN Blocked(ProducerIssue(input))
    ELSE IF MissingProfilePaths(record) # {} THEN Blocked("fit-profile.incomplete")
    ELSE IF StrictProfileRecordIssues(record) # {} THEN Blocked("fit-profile.invalid")
    ELSE IF ProfileMismatch(record, input.candidate, input.hardware) THEN Blocked("fit-profile.scope-mismatch")
    ELSE IF ~ValidProfileRecord(record) THEN Blocked("fit-profile.invalid")
    ELSE IF ~ReviewedRecord(manifest, "fit-profile", record, "reviewed")
         THEN Blocked("fit-profile.untrusted-source")
    ELSE [kind |-> "ok", value |-> BoundProfile(record)]

ValidPolicyRecord(record) ==
    /\ record.version = 1 /\ record.named
    /\ record.basis = "confirmed-capacity-minus-reserve"
    /\ NonNegative(record.deviceReserve) /\ NonNegative(record.hostReserve)
    /\ record.marginBps \in 0..BasisPoints
    /\ record.tightBps = 0
    /\ record.approved
    /\ record.provenance # {}
    /\ \A p \in record.provenance :
          /\ p.valid /\ p.attributed
          /\ p.method = "imported" /\ p.hardware = "not-applicable" /\ p.configuration = "not-applicable"
    /\ record.binding.runPath = "cpu" => record.deviceReserve = 0

PolicyMismatch(record, hardware, runPath) ==
    \/ record.binding.target # hardware.target
    \/ record.binding.os # hardware.os
    \/ record.binding.runPath # runPath

(* For the run path of the profile it is to be used with.                  *)
AdmitCapacityPolicy(record, manifest, hardware, runPath) ==
    IF ~hardware.valid THEN Blocked("fit-policy.hardware-invalid")
    ELSE IF MissingPolicyPaths(record) # {} THEN Blocked("fit-policy.incomplete")
    ELSE IF StrictPolicyRecordIssues(record) # {} THEN Blocked("fit-policy.invalid")
    ELSE IF PolicyMismatch(record, hardware, runPath) THEN Blocked("fit-policy.scope-mismatch")
    ELSE IF ~ValidPolicyRecord(record) THEN Blocked("fit-policy.invalid")
    ELSE IF ~ReviewedRecord(manifest, "capacity-policy", record, "owner-approved")
         THEN Blocked("fit-policy.untrusted-source")
    ELSE [kind |-> "ok", value |-> record]
=============================================================================
