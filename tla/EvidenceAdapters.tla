-------------------------- MODULE EvidenceAdapters --------------------------
(***************************************************************************)
(* lib/evidence: stored evidence records and throughput priors become      *)
(* components bound to one candidate and one hardware target, or are       *)
(* refused.  Matches and methods are carried over as they were stored; a   *)
(* prior is an estimate of the target whatever it was at its source.       *)
(***************************************************************************)
EXTENDS Verdicts

Policy(conditioning, methods, unit) ==
    [onHardware |-> conditioning = "configuration-and-hardware", methods |-> methods, unit |-> unit]

Estimated == {"estimate", "measurement"}

MetricPolicies ==
    [m \in {"fit-memory", "prompt-throughput", "generation-throughput", "time-to-first-token",
            "task-latency", "stability", "energy-per-task", "task-success",
            "operator-intervention-rate", "response-preference", "experience-preference"} |->
        CASE m = "fit-memory" -> Policy("configuration-and-hardware", Estimated, "bytes")
          [] m \in {"prompt-throughput", "generation-throughput"} ->
                Policy("configuration-and-hardware", Estimated, "tokens-per-second")
          [] m \in {"time-to-first-token", "task-latency"} ->
                Policy("configuration-and-hardware", Estimated, "milliseconds")
          [] m = "stability" -> Policy("configuration-and-hardware", Estimated, "probability")
          [] m = "energy-per-task" -> Policy("configuration-and-hardware", {"measurement"}, "joules")
          [] m \in {"task-success", "operator-intervention-rate"} ->
                Policy("configuration", {"measurement"}, "probability")
          [] m = "response-preference" -> Policy("configuration", {"preference"}, "probability")
          [] OTHER -> Policy("configuration-and-hardware", {"preference"}, "probability")]

Grouped == {"calibrated-neighbor", "coarse-bucket"}

(* validateEvidenceRecord.  .stamped: a timestamp; a probability is given  *)
(* in percent.                                                             *)
ValidEvidenceRecord(record) ==
    /\ record.metric \in DOMAIN MetricPolicies
    /\ LET policy == MetricPolicies[record.metric]
           low == record.interval[1]
           high == record.interval[2]
       IN  /\ record.method \in policy.methods
           /\ record.unit = policy.unit
           /\ low <= high
           /\ record.method = "estimate" => low # high
           /\ record.unit = "probability" => 0 <= low /\ high <= 100
           /\ record.samples >= 0
           /\ record.method # "estimate" => record.samples # 0
           /\ record.stamped
           /\ record.links # {}
           /\ policy.onHardware <=> record.hardware # "not-applicable"
           /\ record.hardware = "exact" => record.fingerprint # None
           /\ record.hardware \in Grouped => record.group # None
           /\ record.configuration = "exact" => record.identity # None /\ record.identity.valid

(* Exact matches are matches with the context the record is adapted to.    *)
IdentityMismatch(record, context) ==
    \/ /\ record.configuration = "exact"
       /\ \/ context.identity = None
          \/ \E f \in {"sha256", "build", "settings"} : record.identity[f] # context.identity[f]
    \/ record.hardware = "exact" /\ (context.fingerprint = None \/ record.fingerprint # context.fingerprint)
    \/ record.hardware \in Grouped /\ (context.group = None \/ record.group # context.group)

ClaimForEvidence(record) ==
    CASE record.method = "estimate" -> "estimated"
      [] record.method = "preference" -> "preference"
      [] OTHER ->
           IF /\ record.source = "personal"
              /\ record.hardware = "exact" /\ record.configuration = "exact"
           THEN "verified"
           ELSE IF record.source = "community" THEN "community" ELSE "measured"

(* A refusal: reasons, and no component.                                   *)
Unsupported(id) ==
    [kind |-> "unsupported", id |-> id, exact |-> TRUE, reasons |-> {id},
     candidate |-> None, target |-> None, metric |-> None, claim |-> None, provenance |-> {}]

(* The scope of the provenance names no task family, whatever was tested.  *)
AdaptEvidenceRecord(record, context) ==
    LET lossy == record.taskPackVersion # None \/ record.group # None
    IN  IF ~ValidEvidenceRecord(record) \/ IdentityMismatch(record, context)
        THEN Unsupported(record.id)
        ELSE [kind |-> IF lossy THEN "lossy" ELSE "exact",
              id |-> record.id, exact |-> TRUE,
              reasons |-> IF lossy THEN {record.id} ELSE {},
              candidate |-> context.candidate, target |-> context.target,
              metric |-> record.metric, claim |-> ClaimForEvidence(record),
              provenance |->
                {[source |-> link, valid |-> TRUE, attributed |-> TRUE,
                  method |-> record.method, hardware |-> record.hardware,
                  configuration |-> record.configuration, task |-> None,
                  interval |-> record.interval, unit |-> record.unit, eligible |-> TRUE] :
                   link \in record.links}]

-----------------------------------------------------------------------------
ThroughputScopeMismatch(prior, context) ==
    \/ context.hardware = "exact" /\ context.accelerator # prior.accelerator
    \/ context.hardware = "calibrated-neighbor" /\ context.acceleratorFamily # prior.acceleratorFamily
    \/ context.family # prior.family
    \/ context.sizeBand # prior.sizeBand
    \/ /\ context.configuration = "compatible"
       /\ \/ \E f \in {"quantization", "product", "engine", "backend"} : context.runtime[f] # prior.runtime[f]
          \/ context.runtime.build \notin {prior.runtime.commit, prior.runtime.version}

AdaptThroughputPrior(prior, context) ==
    LET channel(c, unit) ==
          [range |-> prior.ranges[c],
           provenance |-> {[source |-> "localscore", valid |-> TRUE, attributed |-> TRUE,
                            method |-> "estimate", hardware |-> context.hardware,
                            configuration |-> context.configuration, task |-> None,
                            interval |-> prior.ranges[c], unit |-> unit, eligible |-> TRUE]}]
    IN  IF ~prior.valid \/ ThroughputScopeMismatch(prior, context) THEN Unsupported("prior")
        ELSE [kind |-> "lossy", id |-> "prior", exact |-> TRUE, reasons |-> {"prior"},
              candidate |-> context.candidate, target |-> context.target,
              prompt |-> channel("prompt", "tokens-per-second"),
              generation |-> channel("generation", "tokens-per-second"),
              firstToken |-> channel("firstToken", "milliseconds")]
=============================================================================
