----------------------------- MODULE FinderProofs -----------------------------
(***************************************************************************)
(* What the finder promises, proved for every visit, provider, store and   *)
(* planner that the assumptions of its modules admit.                      *)
(***************************************************************************)
EXTENDS Finder, FiniteSetTheorems, SequenceTheorems, WellFoundedInduction, TLAPS

-----------------------------------------------------------------------------
(* Induction over the natural numbers, in its first-order form: a set of   *)
(* them has a least element.                                               *)
LEMMA LeastByRelation ==
    ASSUME NEW S \in SUBSET Nat, S # {}, NEW R, R = OpToRel(<, Nat)
    PROVE  \E n \in S : \A m \in S : ~(<<m, n>> \in R)
<1>1. IsWellFoundedOn(R, Nat)
      BY NatLessThanWellFounded, Zenon
<1> HIDE DEF OpToRel
<1> QED
    BY <1>1, WFMin, Zenon

(* Of any numbers, one is the least.                                       *)
LEMMA LeastOf ==
    ASSUME NEW S \in SUBSET Nat, S # {}
    PROVE  \E n \in S : \A m \in S : n <= m
<1>1. \A m, n \in Nat : <<m, n>> \in OpToRel(<, Nat) <=> m < n
      BY DEF OpToRel
<1> DEFINE R == OpToRel(<, Nat)
<1> HIDE DEF R
<1>2. PICK n \in S : \A m \in S : ~(<<m, n>> \in R)
      BY LeastByRelation DEF R
<1>3. \A m \in S : ~(m < n)
      BY <1>1, <1>2, Zenon DEF R
<1> QED
    BY <1>3, SMT

(* What holds of zero and is passed on holds of every number.              *)
LEMMA Inductive ==
    ASSUME NEW S, 0 \in S, \A n \in Nat : n \in S => n + 1 \in S
    PROVE  Nat \subseteq S
<1> SUFFICES ASSUME Nat \ S # {}
             PROVE  FALSE
    OBVIOUS
<1>1. PICK n \in Nat \ S : \A m \in Nat \ S : n <= m
      BY LeastOf, Zenon
<1>2. n # 0
      BY <1>1
<1>3. n - 1 \in Nat /\ n - 1 \notin Nat \ S
      BY <1>1, <1>2
<1>4. n - 1 + 1 \in S
      BY <1>3
<1> QED
    BY <1>1, <1>4

-----------------------------------------------------------------------------
(* The first reason of a list is the reason of one of its checks that      *)
(* apply.                                                                  *)
LEMMA FirstReasonApplies ==
    ASSUME NEW checks, DOMAIN checks \subseteq Nat, FirstReason(checks) # None
    PROVE  \E k \in DOMAIN checks : checks[k][2] /\ FirstReason(checks) = checks[k][1]
<1> DEFINE applying == {k \in DOMAIN checks : checks[k][2]}
<1>1. applying # {}
      BY DEF FirstReason
<1>2. \E k \in applying : \A j \in applying : k <= j
      BY <1>1, LeastOf
<1>3. FirstReason(checks) = checks[CHOOSE k \in applying : \A j \in applying : k <= j][1]
      BY <1>1 DEF FirstReason
<1> QED
    BY <1>2, <1>3

(* Where no reason is found, no check applies.                             *)
LEMMA NoReason ==
    ASSUME NEW checks, DOMAIN checks \subseteq Nat, FirstReason(checks) = None,
           \A k \in DOMAIN checks : checks[k][2] => checks[k][1] # None
    PROVE  \A k \in DOMAIN checks : ~checks[k][2]
<1> DEFINE applying == {k \in DOMAIN checks : checks[k][2]}
<1> SUFFICES ASSUME applying # {} PROVE FALSE
    OBVIOUS
<1>2. \E k \in applying : \A j \in applying : k <= j
      BY LeastOf
<1>3. FirstReason(checks) = checks[CHOOSE k \in applying : \A j \in applying : k <= j][1]
      BY DEF FirstReason
<1> QED
    BY <1>2, <1>3

-----------------------------------------------------------------------------
(* What lib/assessment has admitted.  What an admitted profile is, in the  *)
(* words of the code that assesses it: it is of the candidate on the       *)
(* hardware, named, attributed, of some bytes, and measured on the target. *)
SoundProfile(p, f) ==
    /\ ProfileIsOfCandidate(p, f.candidate, f.hardware)
    /\ ProfileNamed(p)
    /\ p.provenance # {}
    /\ \A source \in p.provenance : source.valid /\ source.attributed
    /\ p.mode # "host" => ~(p.allocation.device.model + p.allocation.host.model <= 0)
    /\ p.binding.target = f.hardware.target
    /\ p.mode # "host" =>
          f.hardware.unified = "no" /\ ~RunPathContradicts(p.runPath, f.candidate.gpuLayers)
    /\ p.mode = "host" =>
          /\ f.candidate.backend = "cpu" /\ f.hardware.accelerators = <<>>
          /\ p.runPath = "cpu" /\ p.binding.accelerator = None

(* And what it says of the candidate's own context length was observed.    *)
ObservedProfile(p, record, f) ==
    /\ p.mode \in {"split", "host"}
    /\ p.mode = record.mode
    /\ p.allocation = record.allocation
    /\ \E o \in record.observations :
          o.tokens = f.candidate.context /\ ObservationAgrees(record, o)

(* What an admitted policy is: valid, and of the hardware and the profile. *)
SoundPolicy(y, p, f) == ~PolicyMismatch(y, f.hardware, p.runPath) /\ ValidPolicyRecord(y)

(* A record as admission.ts is given it.                                   *)
TypedRecord(record) ==
    record.mode \in {"split", "host"} /\ (record.named => record.id # None)

(* fitMemoryPools throws at a pool whose sizes are no sizes.               *)
LEMMA PoolsAreSizes ==
    ASSUME NEW shape, NEW hardware, NEW context,
           ~FitMemoryPools(shape, hardware, context).thrown
    PROVE  shape.device.model \in Int /\ shape.host.model \in Int
<1>1. ValidPool(shape.device) /\ ValidPool(shape.host)
      BY DEF FitMemoryPools, Thrown
<1> QED
    BY <1>1, MaxSafeAssumption DEF ValidPool, NonNegative

(* fit throws at an artifact that has no name.                             *)
LEMMA ArtifactsAreNamed ==
    ASSUME NEW artifact, NEW hardware, NEW context, NEW chosen,
           ~Fit(artifact, hardware, context, chosen).thrown
    PROVE  artifact.named
<1>1. ValidArtifact(artifact)
      BY DEF Fit, Thrown
<1> QED
    BY <1>1 DEF ValidArtifact

(* admission.ts admits what index.ts calls sound.                          *)
LEMMA AdmittedProfileIsSound ==
    ASSUME NEW record, NEW manifest, NEW f, TypedRecord(record),
           AdmitFitProfile(record, manifest, f).kind = "ok"
    PROVE  SoundProfile(AdmitFitProfile(record, manifest, f).value, f)
<1> DEFINE p == BoundProfile(record)
<1>1. /\ AdmitFitProfile(record, manifest, f).value = p
      /\ ~ProfileMismatch(record, f.candidate, f.hardware)
      /\ ValidProfileRecord(record)
      BY DEF AdmitFitProfile, Blocked
<1>2. /\ record.scope.candidate = f.candidate.candidate
      /\ record.scope.sha256 = f.candidate.sha256
      /\ record.scope.target \in {None, f.hardware.target}
      /\ SameRuntime(record.scope.runtime, f.candidate)
      /\ record.mode = "split" => ~SplitMismatch(record, f.candidate, f.hardware)
      /\ record.mode # "split" => ~HostMismatch(record, f.candidate, f.hardware)
      BY <1>1 DEF ProfileMismatch
<1>3. /\ ValidSources(record)
      /\ record.observations # {}
      /\ \A o \in record.observations : ObservationAgrees(record, o)
      /\ record.mode = "split" =>
            /\ record.allocation.id = record.id
            /\ record.allocation.device.model + record.allocation.host.model > 0
      BY <1>1 DEF ValidProfileRecord
<1>4. /\ record.named /\ record.provenance # {} /\ record.scope.target # None
      /\ \A source \in record.provenance : source.valid /\ source.attributed
      BY <1>3 DEF ValidSources
<1>5. /\ p.mode = record.mode /\ p.allocation = record.allocation
      /\ p.provenance = record.provenance
      /\ p.binding.candidate = record.scope.candidate
      /\ p.binding.sha256 = record.scope.sha256
      /\ p.binding.target = record.scope.target
      /\ p.binding.runtime = record.scope.runtime
      /\ p.binding.accelerator = IF record.mode = "split" THEN record.scope.accelerator ELSE None
      /\ p.runPath = IF record.mode = "split" THEN record.runPath ELSE "cpu"
      BY DEF BoundProfile
<1> HIDE DEF p
<1>6. PICK o \in record.observations : ObservationAgrees(record, o)
      BY <1>3
<1>7. CASE record.mode = "split"
  <2>1. p.binding.accelerator = FirstAccelerator(f.hardware)
        BY <1>2, <1>5, <1>7 DEF SplitMismatch, FirstAccelerator
  <2>2. record.allocation.device.model \in Int /\ record.allocation.host.model \in Int
        BY <1>6, <1>7, PoolsAreSizes DEF ObservationAgrees
  <2>3. ~(p.allocation.device.model + p.allocation.host.model <= 0)
        BY <1>3, <1>5, <1>7, <2>2
  <2>4. ProfileNamed(p)
        BY <1>3, <1>4, <1>5, <1>7 DEF ProfileNamed, TypedRecord
  <2>5. f.hardware.unified = "no" /\ ~RunPathContradicts(p.runPath, f.candidate.gpuLayers)
        BY <1>2, <1>5, <1>7 DEF SplitMismatch
  <2> QED
      BY <1>1, <1>2, <1>4, <1>5, <1>7, <2>1, <2>3, <2>4, <2>5 DEF SoundProfile, ProfileIsOfCandidate
<1>8. CASE record.mode = "host"
  <2>1. p.binding.accelerator = None /\ f.hardware.accelerators = <<>> /\ f.candidate.backend = "cpu"
        BY <1>2, <1>5, <1>8 DEF HostMismatch
  <2>2. ProfileNamed(p)
        BY <1>5, <1>6, <1>8, ArtifactsAreNamed DEF ProfileNamed, ObservationAgrees
  <2> QED
      BY <1>1, <1>2, <1>4, <1>5, <1>8, <2>1, <2>2
      DEF SoundProfile, ProfileIsOfCandidate, FirstAccelerator
<1> QED
    BY <1>7, <1>8 DEF TypedRecord

(* And one of its observations is of the candidate's context length, which *)
(* its runtime names.                                                      *)
LEMMA AdmittedProfileIsObserved ==
    ASSUME NEW record, NEW manifest, NEW f, TypedRecord(record),
           AdmitFitProfile(record, manifest, f).kind = "ok"
    PROVE  ObservedProfile(AdmitFitProfile(record, manifest, f).value, record, f)
<1>1. /\ AdmitFitProfile(record, manifest, f).value = BoundProfile(record)
      /\ ~ProfileMismatch(record, f.candidate, f.hardware)
      /\ ValidProfileRecord(record)
      BY DEF AdmitFitProfile, Blocked
<1>2. record.scope.runtime.context = f.candidate.context
      BY <1>1 DEF ProfileMismatch, SameRuntime, RuntimeFields
<1>3. \E o \in record.observations : o.tokens = f.candidate.context /\ ObservationAgrees(record, o)
      BY <1>1, <1>2 DEF ValidProfileRecord
<1> QED
    BY <1>1, <1>3 DEF ObservedProfile, BoundProfile, TypedRecord

(* And a policy that is admitted is sound for the profile it is for.       *)
LEMMA AdmittedPolicyIsSound ==
    ASSUME NEW record, NEW manifest, NEW f, NEW p,
           AdmitCapacityPolicy(record, manifest, f.hardware, p.runPath).kind = "ok"
    PROVE  SoundPolicy(AdmitCapacityPolicy(record, manifest, f.hardware, p.runPath).value, p, f)
BY DEF AdmitCapacityPolicy, Blocked, SoundPolicy

-----------------------------------------------------------------------------
(* index.ts, part by part: for a sound profile and policy no part refuses  *)
(* with one of the reasons that blame them.                                *)
Spared(reason) == reason # None => reason \notin ProfileRefusals

(* The identity checks.                                                    *)
LEMMA IdentitySpares ==
    ASSUME NEW asked, SoundProfile(asked.profile, asked)
    PROVE  Spared(IdentityFailure(asked))
<1> DEFINE shape == asked.profile
<1>1. /\ ProfileIsOfCandidate(shape, asked.candidate, asked.hardware)
      /\ ProfileNamed(shape)
      /\ shape.provenance # {}
      /\ \A source \in shape.provenance : source.valid /\ source.attributed
      /\ shape.mode # "host" => ~(shape.allocation.device.model + shape.allocation.host.model <= 0)
      /\ shape.binding.target = asked.hardware.target
      BY DEF SoundProfile
<1> HIDE DEF shape
<1> DEFINE checks == <<
          <<"fit.candidate-contract-invalid", ~asked.candidate.valid>>,
          <<"fit.compatibility-receipt-invalid", ~asked.receipt.valid>>,
          <<"fit.context-mismatch", asked.context # asked.candidate.context>>,
          <<"fit.compatibility-receipt-mismatch", ~ReceiptIsOfCandidate(asked.receipt, asked.candidate)>>,
          <<"fit.profile-binding-mismatch",
            ~ProfileIsOfCandidate(shape, asked.candidate, asked.hardware)>>,
          <<"fit.profile-provenance-missing",
            \/ ~ProfileNamed(shape)
            \/ shape.provenance = {}
            \/ \E p \in shape.provenance : ~p.valid \/ ~p.attributed>>,
          <<"fit.profile-allocation-invalid",
            /\ shape.mode # "host"
            /\ shape.allocation.device.model + shape.allocation.host.model <= 0>>,
          <<"fit.profile-hardware-scope-mismatch",
            /\ \E p \in shape.provenance : p.hardware = "exact"
            /\ shape.binding.target # asked.hardware.target>>,
          <<"fit.input-incomplete", ~asked.named \/ asked.context <= 0>> >>
<1>2. IdentityFailure(asked) = FirstReason(checks)
      BY DEF IdentityFailure, shape
<1>3. DOMAIN checks = 1..9
      OBVIOUS
<1>4. ~checks[5][2] /\ ~checks[6][2] /\ ~checks[7][2] /\ ~checks[8][2]
      BY <1>1
<1>5. \A k \in {1, 2, 3, 4, 9} : checks[k][1] \notin ProfileRefusals
      BY DEF ProfileRefusals
<1> HIDE DEF checks
<1>6. SUFFICES ASSUME FirstReason(checks) # None
               PROVE  FirstReason(checks) \notin ProfileRefusals
      BY <1>2 DEF Spared
<1>7. PICK k \in 1..9 : checks[k][2] /\ FirstReason(checks) = checks[k][1]
      BY <1>3, <1>6, FirstReasonApplies
<1> QED
    BY <1>4, <1>5, <1>7

(* A list of checks spares the profile and the policy if every check of it *)
(* that applies does.                                                      *)
LEMMA ChecksSpare ==
    ASSUME NEW checks, DOMAIN checks \subseteq Nat,
           \A k \in DOMAIN checks : checks[k][2] => Spared(checks[k][1])
    PROVE  Spared(FirstReason(checks))
BY FirstReasonApplies DEF Spared

(* The hardware checks, on a processor and on a card.                      *)
LEMMA HardwareSpares ==
    ASSUME NEW asked, SoundProfile(asked.profile, asked),
           SoundPolicy(asked.policy, asked.profile, asked)
    PROVE  \/ Spared(HardwareFailure(asked))
           \/ HardwareFailure(asked) = "fit.run-path-mismatch" /\ asked.candidate.backend = "cpu"
<1> DEFINE hardware == asked.hardware
           shared == FirstReason(<<
          <<"fit.hardware-contract-invalid", ~hardware.valid>>,
          <<"fit.hardware-incomplete", hardware.target = None>>,
          <<"fit.hardware-runtime-mismatch", hardware.os # asked.receipt.os>>,
          <<"fit.host-memory-unconfirmed",
            \/ hardware.ram \notin 1..MaxSafe
            \/ hardware.availableRam # None /\ hardware.availableRam > hardware.ram>> >>)
<1>1. Spared(shared)
  <2> DEFINE checks == <<
          <<"fit.hardware-contract-invalid", ~hardware.valid>>,
          <<"fit.hardware-incomplete", hardware.target = None>>,
          <<"fit.hardware-runtime-mismatch", hardware.os # asked.receipt.os>>,
          <<"fit.host-memory-unconfirmed",
            \/ hardware.ram \notin 1..MaxSafe
            \/ hardware.availableRam # None /\ hardware.availableRam > hardware.ram>> >>
  <2>1. DOMAIN checks = 1..4 /\ \A k \in 1..4 : checks[k][1] \notin ProfileRefusals
        BY DEF ProfileRefusals
  <2>2. shared = FirstReason(checks)
        OBVIOUS
  <2> HIDE DEF checks, shared
  <2> QED
      BY <2>1, <2>2, ChecksSpare DEF Spared
<1>2. CASE asked.profile.mode = "host"
  <2>1. /\ asked.candidate.backend = "cpu" /\ asked.hardware.accelerators = <<>>
        /\ asked.profile.runPath = "cpu" /\ asked.profile.binding.accelerator = None
        BY <1>2 DEF SoundProfile
  <2>2. asked.policy.deviceReserve = 0
        BY <2>1 DEF SoundPolicy, PolicyMismatch, ValidPolicyRecord
  <2> DEFINE checks == <<
        <<"fit.host-path-mismatch",
          \/ asked.candidate.backend # "cpu"
          \/ asked.profile.runPath # "cpu"
          \/ asked.profile.binding.accelerator # None
          \/ asked.hardware.accelerators # <<>>
          \/ asked.policy.deviceReserve # 0>>,
        <<"fit.memory-origin-unconfirmed", ~TrustedOrigin(asked.hardware.ramOrigin)>> >>
  <2>3. HostFailure(asked) = FirstReason(checks)
        BY DEF HostFailure
  <2>4. DOMAIN checks = 1..2 /\ ~checks[1][2] /\ checks[2][1] \notin ProfileRefusals
        BY <2>1, <2>2 DEF ProfileRefusals
  <2> HIDE DEF checks
  <2>5. Spared(HostFailure(asked))
        BY <2>3, <2>4, ChecksSpare DEF Spared
  <2> QED
      BY <1>1, <1>2, <2>5 DEF HardwareFailure
<1>3. CASE asked.profile.mode # "host"
  <2> DEFINE accelerator == asked.hardware.accelerators[1]
             checks == <<
        <<"fit.accelerator-selection-required",
          \/ accelerator.id = None
          \/ accelerator.count # 1
          \/ accelerator.kind # accelerator.vendor
          \/ accelerator.vendor = "cpu">>,
        <<"fit.device-memory-unconfirmed",
          accelerator.memory = None \/ accelerator.memory \notin 1..MaxSafe>>,
        <<"fit.backend-mismatch", accelerator.backend # asked.candidate.backend>>,
        <<"fit.run-path-mismatch",
          \/ RunPathContradicts(asked.profile.runPath, asked.candidate.gpuLayers)
          \/ asked.candidate.backend = "cpu">>,
        <<"fit.memory-origin-unconfirmed",
          ~TrustedOrigin(asked.hardware.deviceOrigin) \/ ~TrustedOrigin(asked.hardware.ramOrigin)>> >>
  <2>1. SplitFailure(asked, asked.hardware.accelerators[1]) = FirstReason(checks)
        BY DEF SplitFailure
  <2>2. DOMAIN checks = 1..5 /\ \A k \in {1, 2, 3, 5} : checks[k][1] \notin ProfileRefusals
        BY DEF ProfileRefusals
  <2>3. /\ asked.hardware.unified = "no"
        /\ ~RunPathContradicts(asked.profile.runPath, asked.candidate.gpuLayers)
        BY <1>3 DEF SoundProfile
  <2>4. checks[4][1] = "fit.run-path-mismatch" /\ (checks[4][2] => asked.candidate.backend = "cpu")
        BY <2>3
  <2> HIDE DEF checks
  <2>5. \/ Spared(SplitFailure(asked, asked.hardware.accelerators[1]))
        \/ /\ SplitFailure(asked, asked.hardware.accelerators[1]) = "fit.run-path-mismatch"
           /\ asked.candidate.backend = "cpu"
    <3> SUFFICES ASSUME FirstReason(checks) # None, FirstReason(checks) \in ProfileRefusals
                 PROVE  FirstReason(checks) = "fit.run-path-mismatch" /\ asked.candidate.backend = "cpu"
        BY <2>1 DEF Spared
    <3>1. PICK k \in 1..5 : checks[k][2] /\ FirstReason(checks) = checks[k][1]
          BY <2>2, FirstReasonApplies
    <3>2. k = 4
          BY <2>2, <3>1
    <3> QED
        BY <2>4, <3>1, <3>2
  <2>6. "fit.accelerator-selection-required" \notin ProfileRefusals
        BY DEF ProfileRefusals
  <2> HIDE DEF shared
  <2> QED
      BY <1>1, <1>3, <2>3, <2>5, <2>6 DEF HardwareFailure, Spared, shared
<1> QED
    BY <1>2, <1>3

(* The checks of the policy.                                               *)
LEMMA PolicySpares ==
    ASSUME NEW asked, SoundPolicy(asked.policy, asked.profile, asked)
    PROVE  Spared(PolicyFailure(asked))
<1> DEFINE reserve == asked.policy
           invalid ==
            \/ ~reserve.named
            \/ PolicyMismatch(reserve, asked.hardware, asked.profile.runPath)
            \/ ~NonNegative(reserve.deviceReserve) \/ ~NonNegative(reserve.hostReserve)
            \/ reserve.marginBps \notin 0..BasisPoints
            \/ reserve.basis # "confirmed-capacity-minus-reserve"
            \/ reserve.provenance = {}
            \/ \E p \in reserve.provenance : ~p.valid \/ ~p.attributed
           checks == << <<"fit.policy-invalid", invalid>>,
                        <<"fit.tight-policy-unapproved", reserve.tightBps # 0>> >>
<1>1. PolicyFailure(asked) = FirstReason(checks)
      BY DEF PolicyFailure
<1>2. /\ reserve.named /\ ~PolicyMismatch(reserve, asked.hardware, asked.profile.runPath)
      /\ NonNegative(reserve.deviceReserve) /\ NonNegative(reserve.hostReserve)
      /\ reserve.marginBps \in 0..BasisPoints
      /\ reserve.basis = "confirmed-capacity-minus-reserve"
      /\ reserve.provenance # {} /\ \A p \in reserve.provenance : p.valid /\ p.attributed
      /\ reserve.tightBps = 0
      BY DEF SoundPolicy, ValidPolicyRecord
<1>3. ~invalid
      BY <1>2
<1> HIDE DEF reserve, invalid
<1>4. DOMAIN checks = 1..2
      OBVIOUS
<1>5. ~checks[1][2]
      BY <1>3
<1>6. ~checks[2][2]
      BY <1>2
<1> HIDE DEF checks
<1> QED
    BY <1>1, <1>4, <1>5, <1>6, ChecksSpare DEF Spared

(* What the collection of evidence has refused so far blames neither.      *)
SparedCollection(c) ==
    /\ DOMAIN c = {"blocked", "fit", "prompt", "generation", "firstToken"}
    /\ Spared(c.blocked)

(* The checks of one channel of a throughput result.                       *)
LEMMA ChannelSpares ==
    ASSUME NEW component, NEW c
    PROVE  Spared(ChannelFailure(component, c))
<1> DEFINE invalid ==
              \E p \in component[c].provenance :
                 \/ ~p.valid \/ ~p.attributed \/ p.method # "estimate"
                 \/ p.interval = None \/ p.unit # ChannelUnit(c) \/ ~ValidRange(p.interval)
           mismatch ==
              /\ component[c].range # None
              /\ \A p \in component[c].provenance : p.interval # component[c].range
           checks == << <<"fit.performance-evidence-invalid", invalid>>,
                        <<"fit.performance-provenance-mismatch", mismatch>> >>
<1>1. ChannelFailure(component, c) = FirstReason(checks)
      BY DEF ChannelFailure
<1> HIDE DEF invalid, mismatch
<1>2. DOMAIN checks = 1..2 /\ \A k \in 1..2 : checks[k][1] \notin ProfileRefusals
      BY DEF ProfileRefusals
<1> HIDE DEF checks
<1> QED
    BY <1>1, <1>2, ChecksSpare DEF Spared

(* The checks of the throughput result.                                    *)
LEMMA ThroughputSpares ==
    ASSUME NEW asked
    PROVE  SparedCollection(Throughput(asked))
<1> DEFINE result == asked.throughput
           failed(c) == ChannelFailure(result, c) # None
           outOfRange == \E c \in Performance :
                            result[c].range # None /\ ~ValidRange(result[c].range)
           checks == << <<"fit.performance-range-invalid", outOfRange>>,
                        <<ChannelFailure(result, "prompt"), failed("prompt")>>,
                        <<ChannelFailure(result, "generation"), failed("generation")>>,
                        <<ChannelFailure(result, "firstToken"), failed("firstToken")>> >>
           refusals == << <<"fit.evidence-unsupported", result.kind = "unsupported">>,
                          <<"fit.evidence-identity-mismatch", ~IsOfInput(result, asked)>> >>
<1>1. Spared(ThroughputFailure(result))
  <2>1. ThroughputFailure(result) = FirstReason(checks)
        BY DEF ThroughputFailure
  <2> HIDE DEF outOfRange, failed, result
  <2>2. /\ DOMAIN checks = 1..4
        /\ checks[1][1] = "fit.performance-range-invalid"
        /\ checks[2][1] = ChannelFailure(result, "prompt")
        /\ checks[3][1] = ChannelFailure(result, "generation")
        /\ checks[4][1] = ChannelFailure(result, "firstToken")
        OBVIOUS
  <2>3. \A k \in 1..4 : Spared(checks[k][1])
        BY <2>2, ChannelSpares DEF Spared, ProfileRefusals
  <2> HIDE DEF checks
  <2> QED
      BY <2>1, <2>2, <2>3, ChecksSpare
<1>2. Spared(FirstReason(refusals))
  <2>1. DOMAIN refusals = 1..2 /\ \A k \in 1..2 : refusals[k][1] \notin ProfileRefusals
        BY DEF ProfileRefusals
  <2> HIDE DEF refusals
  <2> QED
      BY <2>1, ChecksSpare DEF Spared
<1> DEFINE nothing == [range |-> None, provenance |-> {}]
           empty == [blocked |-> None, fit |-> {}, prompt |-> nothing, generation |-> nothing,
                     firstToken |-> nothing]
           refusal == FirstReason(refusals)
<1>3. Throughput(asked) =
         IF result = None THEN empty
         ELSE IF refusal # None THEN [empty EXCEPT !.blocked = refusal]
         ELSE IF ThroughputFailure(result) # None
              THEN [empty EXCEPT !.blocked = ThroughputFailure(result)]
         ELSE [empty EXCEPT !.prompt = result.prompt, !.generation = result.generation,
                            !.firstToken = result.firstToken]
      BY DEF Throughput
<1> HIDE DEF result, refusal, nothing
<1>4. Spared(refusal)
      BY <1>2 DEF refusal
<1> HIDE DEF refusals
<1>5. CASE result = None
      BY <1>3, <1>5 DEF SparedCollection, Spared
<1>6. CASE result # None /\ refusal # None
      BY <1>3, <1>4, <1>6 DEF SparedCollection
<1>7. CASE result # None /\ refusal = None /\ ThroughputFailure(result) # None
      BY <1>1, <1>3, <1>7 DEF SparedCollection
<1>8. CASE result # None /\ refusal = None /\ ThroughputFailure(result) = None
      BY <1>3, <1>8 DEF SparedCollection, Spared
<1> QED
    BY <1>5, <1>6, <1>7, <1>8

(* The checks of one stored component.                                     *)
LEMMA NormalizedSpares ==
    ASSUME NEW component
    PROVE  Spared(NormalizedFailure(component))
<1> DEFINE invalid ==
              \/ component.provenance = {}
              \/ \E p \in component.provenance : ~p.valid \/ ~p.attributed
              \/ UnitOf(component.metric) = None
              \/ component.claim = "preference"
              \/ \E p \in component.provenance :
                   \/ p.method = "preference"
                   \/ p.interval # None /\ (p.unit # UnitOf(component.metric) \/ ~ValidRange(p.interval))
           conflict == Cardinality({p.interval : p \in ExactMeasurements(component.provenance)}) > 1
           checks == << <<"fit.performance-evidence-invalid", invalid>>,
                        <<"fit.evidence-conflict", conflict>> >>
<1>1. NormalizedFailure(component) = FirstReason(checks)
      BY DEF NormalizedFailure
<1> HIDE DEF invalid, conflict
<1>2. DOMAIN checks = 1..2 /\ \A k \in 1..2 : checks[k][1] \notin ProfileRefusals
      BY DEF ProfileRefusals
<1> HIDE DEF checks
<1> QED
    BY <1>1, <1>2, ChecksSpare DEF Spared

(* A record is refused for its own sake, and taken only into a channel.    *)
LEMMA RecordSpares ==
    ASSUME NEW collected, NEW result, NEW asked
    PROVE  /\ Spared(RecordRefusal(collected, result, asked))
           /\ RecordRefusal(collected, result, asked) = None => result.metric \in DOMAIN ChannelOf
<1> DEFINE next == PreferredRange(result.provenance)
           conflict ==
            /\ result.metric \in DOMAIN ChannelOf \ {"fit-memory"}
            /\ next # None
            /\ PreferredRange(collected[ChannelOf[result.metric]].provenance) \notin {None, next}
           failure == NormalizedFailure(result)
           foreign == ~IsOfInput(result, asked)
           forbidden == result.metric \notin DOMAIN ChannelOf
           checks == << <<"fit.evidence-unsupported", result.kind = "unsupported">>,
                        <<"fit.evidence-identity-mismatch", foreign>>,
                        <<"fit.evidence-channel-forbidden", forbidden>>,
                        <<failure, failure # None>>,
                        <<"fit.evidence-conflict", conflict>> >>
<1>1. RecordRefusal(collected, result, asked) = FirstReason(checks)
      BY DEF RecordRefusal
<1>2. Spared(failure)
      BY NormalizedSpares
<1> HIDE DEF conflict, failure, foreign, forbidden
<1>3. /\ DOMAIN checks = 1..5
      /\ checks[1][1] = "fit.evidence-unsupported"
      /\ checks[2][1] = "fit.evidence-identity-mismatch"
      /\ checks[3][1] = "fit.evidence-channel-forbidden"
      /\ checks[4][1] = failure
      /\ checks[5][1] = "fit.evidence-conflict"
      OBVIOUS
<1>4. checks[4][2] => failure # None
      OBVIOUS
<1>5. checks[3][2] <=> forbidden
      BY DEF forbidden
<1> HIDE DEF checks
<1>6. \A k \in 1..5 : Spared(checks[k][1])
      BY <1>2, <1>3 DEF Spared, ProfileRefusals
<1>7. \A k \in 1..5 : checks[k][2] => checks[k][1] # None
  <2>1. \A k \in {1, 2, 3, 5} : checks[k][1] # None
        BY <1>3, RecordReasonsAssumption
  <2>2. checks[4][2] => checks[4][1] # None
        BY <1>3, <1>4
  <2> QED
      BY <2>1, <2>2
<1>8. Spared(FirstReason(checks))
      BY <1>3, <1>6, ChecksSpare
<1>9. ASSUME FirstReason(checks) = None
      PROVE  ~checks[3][2]
      BY <1>3, <1>7, <1>9, NoReason
<1> QED
    BY <1>1, <1>5, <1>8, <1>9 DEF forbidden

(* Nothing is blamed by the next record.                                   *)
LEMMA AddSpares ==
    ASSUME NEW collected, NEW result, NEW asked, SparedCollection(collected)
    PROVE  SparedCollection(AddNormalizedEvidence(collected, result, asked))
<1> DEFINE refusal == RecordRefusal(collected, result, asked)
           channel == ChannelOf[result.metric]
<1>1. Spared(refusal) /\ (refusal = None => result.metric \in DOMAIN ChannelOf)
      BY RecordSpares
<1>2. refusal = None => channel \in {"fit", "prompt", "generation", "firstToken"}
      BY <1>1 DEF ChannelOf
<1> HIDE DEF refusal, channel
<1> DEFINE added == [collected EXCEPT ![channel] =
                       [range |-> IF PreferredRange(result.provenance) # None
                                  THEN PreferredRange(result.provenance) ELSE @.range,
                        provenance |-> @.provenance \cup result.provenance]]
           grown == [collected EXCEPT !.fit = @ \cup result.provenance]
           refused == [collected EXCEPT !.blocked = refusal]
<1>3. AddNormalizedEvidence(collected, result, asked) =
         IF collected.blocked # None THEN collected
         ELSE IF refusal # None THEN refused
         ELSE IF channel = "fit" THEN grown ELSE added
      BY DEF AddNormalizedEvidence, refusal, channel
<1>4. SparedCollection(refused)
      BY <1>1 DEF SparedCollection
<1>5. SparedCollection(grown)
      BY DEF SparedCollection
<1>6. refusal = None => SparedCollection(added)
      BY <1>2 DEF SparedCollection
<1> QED
    BY <1>3, <1>4, <1>5, <1>6

(* Nor by all of them together: one after another.                         *)
LEMMA EvidenceSpares ==
    ASSUME NEW asked, Len(asked.records) \in Nat
    PROVE  Spared(CollectEvidence(asked).blocked)
<1> DEFINE Collects(f, n) ==
              f = [k \in 0..n |-> IF k = 0 THEN Throughput(asked)
                                  ELSE AddNormalizedEvidence(f[k - 1], asked.records[k], asked)]
           Collectable == {n \in Nat : \E f : Collects(f, n)}
<1>1. 0 \in Collectable
  <2>1. Collects([k \in 0..0 |-> Throughput(asked)], 0)
        OBVIOUS
  <2> QED
      BY <2>1
<1>2. ASSUME NEW n \in Nat, n \in Collectable
      PROVE  n + 1 \in Collectable
  <2>1. PICK f : Collects(f, n)
        BY <1>2
  <2> DEFINE g == [k \in 0..(n + 1) |->
                     IF k <= n THEN f[k]
                     ELSE AddNormalizedEvidence(f[n], asked.records[n + 1], asked)]
  <2>2. \A k \in 0..(n + 1) :
           g[k] = IF k = 0 THEN Throughput(asked)
                  ELSE AddNormalizedEvidence(g[k - 1], asked.records[k], asked)
    <3> SUFFICES ASSUME NEW k \in 0..(n + 1)
                 PROVE  g[k] = IF k = 0 THEN Throughput(asked)
                               ELSE AddNormalizedEvidence(g[k - 1], asked.records[k], asked)
        OBVIOUS
    <3>1. CASE k = 0
          BY <2>1, <3>1
    <3>2. CASE k \in 1..n
      <4>1. k - 1 \in 0..n /\ k \in 0..n
            BY <3>2
      <4>2. g[k] = f[k] /\ g[k - 1] = f[k - 1]
            BY <3>2, <4>1
      <4> QED
          BY <2>1, <3>2, <4>1, <4>2
    <3>3. CASE k = n + 1
      <4>1. g[k] = AddNormalizedEvidence(f[n], asked.records[k], asked) /\ g[k - 1] = f[n]
            BY <3>3
      <4> QED
          BY <3>3, <4>1
    <3> QED
        BY <3>1, <3>2, <3>3
  <2>3. Collects(g, n + 1)
    <3> DEFINE h == [k \in 0..(n + 1) |->
                       IF k = 0 THEN Throughput(asked)
                       ELSE AddNormalizedEvidence(g[k - 1], asked.records[k], asked)]
    <3>1. DOMAIN g = 0..(n + 1) /\ DOMAIN h = 0..(n + 1)
          OBVIOUS
    <3>2. \A k \in 0..(n + 1) : g[k] = h[k]
          BY <2>2
    <3>3. g = h
      <4> HIDE DEF g
      <4>1. g = [k \in 0..(n + 1) |-> g[k]]
            BY <3>1 DEF g
      <4> QED
          BY <3>2, <4>1
    <3> QED
        BY <3>3
  <2> HIDE DEF g
  <2>4. \E h : Collects(h, n + 1)
        BY <2>3
  <2> HIDE DEF Collects
  <2> QED
      BY <2>4
<1>3. Nat \subseteq Collectable
  <2> HIDE DEF Collectable
  <2> QED
      BY <1>1, <1>2, Inductive DEF Collectable
<1> DEFINE n == Len(asked.records)
<1>4. \E f : Collects(f, n)
      BY <1>3
<1> DEFINE c == CHOOSE f : Collects(f, n)
<1>5. Collects(c, n) /\ CollectEvidence(asked) = c[n]
      BY <1>4 DEF CollectEvidence
<1> HIDE DEF c
<1> DEFINE Spares == {k \in Nat : k \in 0..n => SparedCollection(c[k])}
<1>6. 0 \in Spares
      BY <1>5, ThroughputSpares
<1>7. ASSUME NEW k \in Nat, k \in Spares
      PROVE  k + 1 \in Spares
      BY <1>5, <1>7, AddSpares
<1>8. Nat \subseteq Spares
  <2> HIDE DEF Spares
  <2> QED
      BY <1>6, <1>7, Inductive DEF Spares
<1>9. n \in Spares /\ n \in 0..n
      BY <1>8
<1> HIDE DEF Collects
<1> QED
    BY <1>5, <1>9 DEF SparedCollection

-----------------------------------------------------------------------------
(* When the arithmetic throws.  Scaled sizes are numbers.                  *)
LEMMA ScaledIsNumber ==
    ASSUME NEW value \in Int, NEW numerator \in Int, NEW denominator \in Nat \ {0}
    PROVE  Scale(value, numerator, denominator) \in Int
<1>1. value * numerator \in Int
      OBVIOUS
<1>2. \A n \in Int : (n + denominator - 1) \div denominator \in Int
      OBVIOUS
<1> QED
    BY <1>1, <1>2 DEF Scale

(* What a pool requires is its bytes with what is kept free beside it.     *)
LEMMA RequiredIsClaimed ==
    ASSUME NEW pool, NEW physical, NEW reserve, NEW margin, NEW context, NEW observed,
           SamePool(observed, FitPool(pool, MaxSafe, 0, 0, context))
    PROVE  FitPool(pool, physical, reserve, margin, context).required = Claimed(observed, reserve, margin)
BY DEF SamePool, FitPool, Claimed, PoolBytes

(* And it is a number if the sizes are.                                    *)
LEMMA RequiredIsNumber ==
    ASSUME NEW pool, NEW physical, NEW reserve \in Int, NEW margin \in Int, NEW context \in Int,
           ValidPool(pool)
    PROVE  FitPool(pool, physical, reserve, margin, context).required \in Int
<1>1. /\ pool.model \in Int /\ pool.compute \in Int /\ pool.context \in Int
      /\ pool.computeContext \in Int /\ pool.reference \in Nat \ {0}
      BY MaxSafeAssumption DEF ValidPool, NonNegative, Positive
<1>2. /\ Scale(pool.context, context, pool.reference) \in Int
      /\ Scale(pool.computeContext, context, pool.reference) \in Int
      BY <1>1, ScaledIsNumber
<1> DEFINE workload == pool.model + Scale(pool.context, context, pool.reference)
                          + (pool.compute + Scale(pool.computeContext, context, pool.reference))
<1>3. workload \in Int
      BY <1>1, <1>2
<1>4. FitPool(pool, physical, reserve, margin, context).required
         = workload + reserve + Scale(workload, margin, BasisPoints)
      BY DEF FitPool
<1> HIDE DEF workload
<1>5. Scale(workload, margin, BasisPoints) \in Int
      BY <1>3, ScaledIsNumber DEF BasisPoints
<1> QED
    BY <1>3, <1>4, <1>5

(* A split that agrees with an observation throws on real hardware only    *)
(* when what a pool claims is beyond the exact integers.                   *)
LEMMA SplitThrowsBeyond ==
    ASSUME NEW record, NEW o, NEW hardware,
           record.mode = "split", ObservationAgrees(record, o), ValidPoolHardware(hardware),
           FitMemoryPools(record.allocation, hardware, o.tokens).thrown
    PROVE  BeyondExactIntegers(o, hardware)
<1> DEFINE device(h) == FitPool(record.allocation.device, h.device, h.deviceReserve, h.marginBps, o.tokens)
           host(h) == FitPool(record.allocation.host, h.host, h.hostReserve, h.marginBps, o.tokens)
           tried == FitMemoryPools(record.allocation, AllRam, o.tokens)
<1>1. /\ ~tried.thrown /\ o.device # None
      /\ SamePool(o.device, tried.device) /\ SamePool(o.host, tried.host)
      BY DEF ObservationAgrees
<1>2. /\ Positive(record.allocation.maxContext) /\ Positive(o.tokens)
      /\ ValidPool(record.allocation.device) /\ ValidPool(record.allocation.host)
      /\ tried.device = device(AllRam) /\ tried.host = host(AllRam)
      BY <1>1 DEF FitMemoryPools, Thrown
<1>3. /\ device(AllRam) = FitPool(record.allocation.device, MaxSafe, 0, 0, o.tokens)
      /\ host(AllRam) = FitPool(record.allocation.host, MaxSafe, 0, 0, o.tokens)
      BY DEF AllRam
<1>4. ~(device(hardware).required <= MaxSafe) \/ ~(host(hardware).required <= MaxSafe)
      BY <1>2 DEF FitMemoryPools
<1>5. /\ hardware.deviceReserve \in Int /\ hardware.hostReserve \in Int
      /\ hardware.marginBps \in Int /\ o.tokens \in Int
  <2>1. /\ \A n : Positive(n) => n \in Int
        /\ \A n : NonNegative(n) => n \in Int
        /\ \A n \in 0..BasisPoints : n \in Int
        BY MaxSafeAssumption DEF Positive, NonNegative, BasisPoints
  <2> QED
      BY <1>2, <2>1 DEF ValidPoolHardware
<1>6. device(hardware).required \in Int /\ host(hardware).required \in Int
      BY <1>2, <1>5, RequiredIsNumber
<1>7. /\ device(hardware).required = Claimed(o.device, hardware.deviceReserve, hardware.marginBps)
      /\ host(hardware).required = Claimed(o.host, hardware.hostReserve, hardware.marginBps)
  <2>1. /\ SamePool(o.device, FitPool(record.allocation.device, MaxSafe, 0, 0, o.tokens))
        /\ SamePool(o.host, FitPool(record.allocation.host, MaxSafe, 0, 0, o.tokens))
        BY <1>1, <1>2, <1>3
  <2> QED
      BY <2>1, RequiredIsClaimed
<1> HIDE DEF device, host
<1> QED
    BY <1>1, <1>4, <1>6, <1>7, MaxSafeAssumption DEF BeyondExactIntegers

(* Of the profiles of a quantization, when there is one.                   *)
LEMMA ChosenProfile ==
    ASSUME NEW profiles, NEW quantization, Cardinality(Profiles(profiles, quantization)) = 1
    PROVE  (CHOOSE p \in Profiles(profiles, quantization) : TRUE) \in profiles
<1>1. Profiles(profiles, quantization) # {}
      BY FS_EmptySet
<1>2. (CHOOSE p \in Profiles(profiles, quantization) : TRUE) \in Profiles(profiles, quantization)
      BY <1>1
<1> QED
    BY <1>2 DEF Profiles

(* What fit computes for an artifact.                                      *)
CacheBytes(artifact, chosen, context) ==
    LET key == CHOOSE p \in Profiles(artifact.key, chosen.key) : TRUE
        value == CHOOSE p \in Profiles(artifact.value, chosen.value) : TRUE
    IN  Scale(key.bytes, context, key.reference) + Scale(value.bytes, context, value.reference)

ArtifactBytes(artifact, chosen, context) ==
    artifact.weights + CacheBytes(artifact, chosen, context) + artifact.compute

Computable(artifact, chosen, context) ==
    /\ ValidArtifact(artifact) /\ Positive(context)
    /\ Cardinality(Profiles(artifact.key, chosen.key)) = 1
    /\ Cardinality(Profiles(artifact.value, chosen.value)) = 1

(* Its pool, when it returns.                                              *)
LEMMA FitReturns ==
    ASSUME NEW artifact, NEW hardware, NEW context, NEW chosen, NEW result,
           result = Fit(artifact, hardware, context, chosen), ~result.thrown
    PROVE  /\ Computable(artifact, chosen, context)
           /\ result.host.model = artifact.weights
           /\ result.host.context = CacheBytes(artifact, chosen, context)
           /\ result.host.compute = artifact.compute
BY DEF Fit, Thrown, Computable, CacheBytes

(* Why it throws, when nothing is wrong with what it is given.             *)
LEMMA FitThrows ==
    ASSUME NEW artifact, NEW hardware, NEW context, NEW chosen,
           Computable(artifact, chosen, context), ValidHostHardware(hardware),
           Fit(artifact, hardware, context, chosen).thrown
    PROVE  LET bytes == ArtifactBytes(artifact, chosen, context)
           IN  bytes + hardware.osReserve + hardware.displayReserve
                  + Scale(bytes, hardware.marginBps, BasisPoints) > MaxSafe
BY DEF Fit, Computable, ArtifactBytes, CacheBytes

(* The sizes of a computable artifact are numbers.                         *)
LEMMA ArtifactBytesIsNumber ==
    ASSUME NEW artifact, NEW chosen, NEW context, Computable(artifact, chosen, context)
    PROVE  ArtifactBytes(artifact, chosen, context) \in Int
<1> DEFINE key == CHOOSE p \in Profiles(artifact.key, chosen.key) : TRUE
           value == CHOOSE p \in Profiles(artifact.value, chosen.value) : TRUE
<1>1. key \in artifact.key /\ value \in artifact.value
      BY ChosenProfile DEF Computable
<1>2. CacheBytes(artifact, chosen, context)
         = Scale(key.bytes, context, key.reference) + Scale(value.bytes, context, value.reference)
      BY DEF CacheBytes
<1> HIDE DEF key, value
<1>3. \A n : Positive(n) => n \in Nat \ {0}
      BY MaxSafeAssumption DEF Positive
<1>4. /\ key.bytes \in Int /\ key.reference \in Nat \ {0}
      /\ value.bytes \in Int /\ value.reference \in Nat \ {0}
      /\ context \in Int /\ artifact.weights \in Int
      BY <1>1, <1>3 DEF Computable, ValidArtifact
<1>5. artifact.compute \in Int
      BY MaxSafeAssumption DEF Computable, ValidArtifact, NonNegative
<1>6. /\ Scale(key.bytes, context, key.reference) \in Int
      /\ Scale(value.bytes, context, value.reference) \in Int
      BY <1>4, ScaledIsNumber
<1> QED
    BY <1>2, <1>4, <1>5, <1>6 DEF ArtifactBytes

(* So does an artifact in one pool.                                        *)
LEMMA HostThrowsBeyond ==
    ASSUME NEW record, NEW o, NEW hardware, NEW reserves,
           record.mode = "host", ObservationAgrees(record, o), ValidHostHardware(hardware),
           hardware.osReserve = reserves.hostReserve, hardware.displayReserve = 0,
           hardware.marginBps = reserves.marginBps,
           Fit(record.allocation.artifact, hardware, o.tokens, record.allocation.cache).thrown
    PROVE  BeyondExactIntegers(o, reserves)
<1> DEFINE artifact == record.allocation.artifact
           chosen == record.allocation.cache
           bytes == ArtifactBytes(artifact, chosen, o.tokens)
           tried == Fit(artifact,
                        [physical |-> MaxSafe, osReserve |-> 0, displayReserve |-> 0, marginBps |-> 0],
                        o.tokens, chosen)
<1>1. ~tried.thrown /\ SamePool(o.host, tried.host)
      BY DEF ObservationAgrees
<1>2. /\ Computable(artifact, chosen, o.tokens)
      /\ tried.host.model = artifact.weights
      /\ tried.host.context = CacheBytes(artifact, chosen, o.tokens)
      /\ tried.host.compute = artifact.compute
      BY <1>1, FitReturns
<1> HIDE DEF tried
<1>3. PoolBytes(o.host) = bytes
      BY <1>1, <1>2 DEF SamePool, PoolBytes, ArtifactBytes
<1>4. bytes + hardware.osReserve + hardware.displayReserve
         + Scale(bytes, hardware.marginBps, BasisPoints) > MaxSafe
      BY <1>2, FitThrows
<1>5. bytes \in Int
      BY <1>2, ArtifactBytesIsNumber
<1> HIDE DEF artifact, chosen, bytes
<1>6. hardware.osReserve \in Int /\ hardware.marginBps \in Int
  <2>1. /\ \A n : NonNegative(n) => n \in Int
        /\ \A n \in 0..BasisPoints : n \in Int
        BY MaxSafeAssumption DEF NonNegative, BasisPoints
  <2> QED
      BY <2>1 DEF ValidHostHardware
<1>7. Scale(bytes, hardware.marginBps, BasisPoints) \in Int
  <2>1. BasisPoints \in Nat \ {0}
        BY DEF BasisPoints
  <2> QED
      BY <1>5, <1>6, <2>1, ScaledIsNumber, Zenon
<1>8. Claimed(o.host, reserves.hostReserve, reserves.marginBps)
         = bytes + hardware.osReserve + Scale(bytes, hardware.marginBps, BasisPoints)
      BY <1>3 DEF Claimed
<1>9. Claimed(o.host, reserves.hostReserve, reserves.marginBps) > MaxSafe
      BY <1>4, <1>5, <1>6, <1>7, <1>8
<1> QED
    BY <1>9 DEF BeyondExactIntegers

(* Hardware that is not refused has memory.                                *)
LEMMA HardwareHasMemory ==
    ASSUME NEW asked, HardwareFailure(asked) = None
    PROVE  /\ asked.hardware.ram \in 1..MaxSafe
           /\ asked.profile.mode # "host" => asked.hardware.accelerators[1].memory \in 1..MaxSafe
<1> DEFINE hardware == asked.hardware
           checks == <<
          <<"fit.hardware-contract-invalid", ~hardware.valid>>,
          <<"fit.hardware-incomplete", hardware.target = None>>,
          <<"fit.hardware-runtime-mismatch", hardware.os # asked.receipt.os>>,
          <<"fit.host-memory-unconfirmed",
            \/ hardware.ram \notin 1..MaxSafe
            \/ hardware.availableRam # None /\ hardware.availableRam > hardware.ram>> >>
<1>1. FirstReason(checks) = None
      BY DEF HardwareFailure
<1>2. DOMAIN checks = 1..4 /\ \A k \in 1..4 : checks[k][1] # None
      BY HardwareReasonsAssumption
<1>3. checks[4][2] <=> \/ hardware.ram \notin 1..MaxSafe
                       \/ hardware.availableRam # None /\ hardware.availableRam > hardware.ram
      BY Zenon
<1> HIDE DEF checks
<1>4. ~checks[4][2]
      BY <1>1, <1>2, NoReason
<1>5. hardware.ram \in 1..MaxSafe
      BY <1>3, <1>4
<1>6. ASSUME asked.profile.mode # "host"
      PROVE  hardware.accelerators[1].memory \in 1..MaxSafe
  <2> DEFINE accelerator == hardware.accelerators[1]
             refusals == <<
        <<"fit.accelerator-selection-required",
          \/ accelerator.id = None
          \/ accelerator.count # 1
          \/ accelerator.kind # accelerator.vendor
          \/ accelerator.vendor = "cpu">>,
        <<"fit.device-memory-unconfirmed",
          accelerator.memory = None \/ accelerator.memory \notin 1..MaxSafe>>,
        <<"fit.backend-mismatch", accelerator.backend # asked.candidate.backend>>,
        <<"fit.run-path-mismatch",
          \/ RunPathContradicts(asked.profile.runPath, asked.candidate.gpuLayers)
          \/ asked.candidate.backend = "cpu">>,
        <<"fit.memory-origin-unconfirmed",
          ~TrustedOrigin(hardware.deviceOrigin) \/ ~TrustedOrigin(hardware.ramOrigin)>> >>
  <2>1. SplitFailure(asked, hardware.accelerators[1]) = None
        BY <1>6, HardwareReasonsAssumption DEF HardwareFailure
  <2>2. FirstReason(refusals) = None
        BY <2>1 DEF SplitFailure
  <2>3. DOMAIN refusals = 1..5 /\ \A k \in 1..5 : refusals[k][1] # None
        BY HardwareReasonsAssumption
  <2>4. refusals[2][2] <=> accelerator.memory = None \/ accelerator.memory \notin 1..MaxSafe
        BY Zenon
  <2> HIDE DEF refusals
  <2>5. ~refusals[2][2]
        BY <2>2, <2>3, NoReason
  <2> QED
      BY <2>4, <2>5
<1> QED
    BY <1>5, <1>6

(* So that for a sound policy, on hardware that is not refused, an         *)
(* observed profile throws only beyond the exact integers.                 *)
LEMMA ObservedProfileThrowsBeyond ==
    ASSUME NEW asked, NEW record, ObservedProfile(asked.profile, record, asked),
           asked.context = asked.candidate.context, ValidPolicyRecord(asked.policy),
           HardwareFailure(asked) = None,
           IF asked.profile.mode = "host" THEN HostFit(asked).thrown ELSE SplitFit(asked).thrown
    PROVE  \E o \in record.observations :
              o.tokens = asked.candidate.context /\ BeyondExactIntegers(o, asked.policy)
<1>1. /\ asked.profile.mode \in {"split", "host"} /\ asked.profile.mode = record.mode
      /\ asked.profile.allocation = record.allocation
      BY DEF ObservedProfile
<1>2. PICK o \in record.observations : o.tokens = asked.candidate.context /\ ObservationAgrees(record, o)
      BY DEF ObservedProfile
<1>3. /\ NonNegative(asked.policy.deviceReserve) /\ NonNegative(asked.policy.hostReserve)
      /\ asked.policy.marginBps \in 0..BasisPoints
      BY DEF ValidPolicyRecord
<1>4. CASE record.mode = "host"
  <2> DEFINE pool == [physical |-> asked.hardware.ram, osReserve |-> asked.policy.hostReserve,
                      displayReserve |-> 0, marginBps |-> asked.policy.marginBps]
  <2>1. /\ pool.physical = asked.hardware.ram /\ pool.osReserve = asked.policy.hostReserve
        /\ pool.displayReserve = 0 /\ pool.marginBps = asked.policy.marginBps
        OBVIOUS
  <2>2. HostFit(asked).thrown
        BY <1>1, <1>4
  <2>3. Fit(record.allocation.artifact, pool, o.tokens, record.allocation.cache).thrown
        BY <1>1, <1>2, <2>2 DEF HostFit
  <2> HIDE DEF pool
  <2>4. ValidHostHardware(pool)
        BY <1>3, <2>1, HardwareHasMemory, MaxSafeAssumption DEF ValidHostHardware, Positive, NonNegative
  <2>5. BeyondExactIntegers(o, asked.policy)
        BY <1>2, <1>4, <2>1, <2>3, <2>4, HostThrowsBeyond
  <2> QED
      BY <1>2, <2>5
<1>5. CASE record.mode = "split"
  <2> DEFINE pools ==
        [device |-> asked.hardware.accelerators[1].memory, host |-> asked.hardware.ram,
         deviceReserve |-> asked.policy.deviceReserve, hostReserve |-> asked.policy.hostReserve,
         marginBps |-> asked.policy.marginBps]
  <2>1. /\ pools.device = asked.hardware.accelerators[1].memory /\ pools.host = asked.hardware.ram
        /\ pools.deviceReserve = asked.policy.deviceReserve
        /\ pools.hostReserve = asked.policy.hostReserve /\ pools.marginBps = asked.policy.marginBps
        OBVIOUS
  <2>2. SplitFit(asked).thrown
        BY <1>1, <1>5
  <2>3. FitMemoryPools(record.allocation, pools, o.tokens).thrown
        BY <1>1, <1>2, <2>2 DEF SplitFit
  <2> HIDE DEF pools
  <2>4. ValidPoolHardware(pools)
        BY <1>1, <1>3, <1>5, <2>1, HardwareHasMemory DEF ValidPoolHardware, Positive
  <2>5. BeyondExactIntegers(o, pools)
        BY <1>5, <1>2, <2>3, <2>4, SplitThrowsBeyond
  <2>6. BeyondExactIntegers(o, asked.policy)
        BY <2>1, <2>5 DEF BeyondExactIntegers
  <2> QED
      BY <1>2, <2>6
<1> QED
    BY <1>1, <1>4, <1>5

(* The assessment of a sound profile and policy.                           *)
LEMMA AssessmentSpares ==
    ASSUME NEW asked, NEW record, SoundProfile(asked.profile, asked),
           ObservedProfile(asked.profile, record, asked), asked.context = asked.candidate.context,
           SoundPolicy(asked.policy, asked.profile, asked), Len(asked.records) \in Nat
    PROVE  \/ IsData(AssessFitEvidence(asked))
           \/ AssessFitEvidence(asked).reason \notin ProfileRefusals
           \/ /\ AssessFitEvidence(asked).reason = "fit.run-path-mismatch"
              /\ asked.candidate.backend = "cpu"
           \/ /\ AssessFitEvidence(asked).reason = "fit.profile-invalid"
              /\ \E o \in record.observations :
                    o.tokens = asked.candidate.context /\ BeyondExactIntegers(o, asked.policy)
<1> DEFINE result == IF asked.profile.mode = "host" THEN HostFit(asked) ELSE SplitFit(asked)
           beyond == \E o \in record.observations :
                        o.tokens = asked.candidate.context /\ BeyondExactIntegers(o, asked.policy)
           offPath == HardwareFailure(asked) = "fit.run-path-mismatch" /\ asked.candidate.backend = "cpu"
<1>1. /\ Spared(IdentityFailure(asked)) /\ (Spared(HardwareFailure(asked)) \/ offPath)
      /\ Spared(PolicyFailure(asked)) /\ Spared(CollectEvidence(asked).blocked)
      BY IdentitySpares, HardwareSpares, PolicySpares, EvidenceSpares
<1>2. HardwareFailure(asked) = None /\ result.thrown => beyond
      BY ObservedProfileThrowsBeyond DEF SoundPolicy
<1>3. "llmfit.binding.registry-crosswalk-unverified" \notin ProfileRefusals
      BY DEF ProfileRefusals
<1>4. \A r, evidence : IsData(Assessment(asked, r, evidence))
      BY DEF Assessment, IsData
<1>5. \A status, reason : Failure(status, reason).reason = reason
      BY DEF Failure
<1> DEFINE answer == AssessFitEvidence(asked)
           spared == \/ IsData(answer)
                     \/ answer.reason \notin ProfileRefusals
                     \/ answer.reason = "fit.run-path-mismatch" /\ asked.candidate.backend = "cpu"
                     \/ answer.reason = "fit.profile-invalid" /\ beyond
<1> SUFFICES spared
    OBVIOUS
<1>6. CASE IdentityFailure(asked) # None
  <2>1. answer.reason = IdentityFailure(asked)
        BY <1>5, <1>6 DEF AssessFitEvidence
  <2> QED
      BY <1>1, <1>6, <2>1 DEF Spared
<1>7. CASE IdentityFailure(asked) = None /\ HardwareFailure(asked) # None
  <2>1. answer.reason = HardwareFailure(asked)
        BY <1>5, <1>7 DEF AssessFitEvidence
  <2> QED
      BY <1>1, <1>7, <2>1 DEF Spared
<1>8. CASE /\ IdentityFailure(asked) = None /\ HardwareFailure(asked) = None
           /\ PolicyFailure(asked) # None
  <2>1. answer.reason = PolicyFailure(asked)
        BY <1>5, <1>8 DEF AssessFitEvidence
  <2> QED
      BY <1>1, <1>8, <2>1 DEF Spared
<1>9. CASE /\ IdentityFailure(asked) = None /\ HardwareFailure(asked) = None
           /\ PolicyFailure(asked) = None
  <2> HIDE DEF beyond, result
  <2>1. CASE result.thrown
    <3>1. answer.reason = "fit.profile-invalid"
          BY <1>5, <1>9, <2>1 DEF AssessFitEvidence, result
    <3> QED
        BY <1>2, <1>9, <2>1, <3>1
  <2>2. CASE ~result.thrown /\ CollectEvidence(asked).blocked # None
    <3>1. answer.reason = CollectEvidence(asked).blocked
          BY <1>5, <1>9, <2>2 DEF AssessFitEvidence, result
    <3> QED
        BY <1>1, <2>2, <3>1 DEF Spared
  <2>3. CASE ~result.thrown /\ CollectEvidence(asked).blocked = None
    <3>1. \/ answer.reason = "llmfit.binding.registry-crosswalk-unverified"
          \/ IsData(answer)
          BY <1>4, <1>5, <1>9, <2>3 DEF AssessFitEvidence, result
    <3> QED
        BY <1>3, <3>1
  <2> QED
      BY <2>1, <2>2, <2>3
<1> QED
    BY <1>6, <1>7, <1>8, <1>9

(* A record derived from a collection is one of the split mode.            *)
LEMMA ProposalIsTyped ==
    ASSUME NEW parcel, NEW trusted, parcel.id # None,
           DeriveProposedProfile(parcel, trusted).kind = "proposed-unreviewed"
    PROVE  TypedRecord(DeriveProposedProfile(parcel, trusted).record)
BY DEF DeriveProposedProfile, Blocked, ProposedRecord, TypedRecord

(* So is one derived from a receipt of the runner.                         *)
LEMMA CaptureProposalIsTyped ==
    ASSUME NEW capture, capture.id # None,
           DeriveProposedProfileFromRunnerCapture(capture).kind = "proposed-unreviewed"
    PROVE  TypedRecord(DeriveProposedProfileFromRunnerCapture(capture).record)
<1>1. ValidateRunnerFitProfileCapture(capture).kind = "ok"
      BY DEF DeriveProposedProfileFromRunnerCapture, ValidateRunnerFitProfileCapture, Blocked
<1>2. ValidateRunnerFitProfileCapture(capture).value = capture
      BY <1>1 DEF ValidateRunnerFitProfileCapture, Blocked
<1>3. DeriveProposedProfileFromRunnerCapture(capture)
         = DeriveProposedProfile(ToCollectionBundle(capture), TRUE)
      BY <1>1, <1>2 DEF DeriveProposedProfileFromRunnerCapture
<1>4. ToCollectionBundle(capture).id # None
      BY DEF ToCollectionBundle
<1> QED
    BY <1>3, <1>4, ProposalIsTyped

(* The stored evidence of a visit is adapted record by record.             *)
LEMMA AdaptedIsList ==
    ASSUME facts \in Visits
    PROVE  Len(Adapted) \in Nat
<1>1. facts.stored \in Seq(ToSet(facts.stored))
      BY VisitsAssumption
<1>2. DOMAIN facts.stored = 1..Len(facts.stored) /\ Len(facts.stored) \in Nat
      BY <1>1
<1> DEFINE adapt(k) == AdaptEvidenceRecord(facts.stored[k], facts.context)
           T == {adapt(k) : k \in 1..Len(facts.stored)}
<1>3. Adapted = [k \in 1..Len(facts.stored) |-> adapt(k)]
      BY <1>2 DEF Adapted
<1> HIDE DEF adapt
<1>4. Adapted \in [1..Len(facts.stored) -> T]
      BY <1>3
<1> HIDE DEF T
<1> QED
    BY <1>2, <1>4

-----------------------------------------------------------------------------
(* From the record to the assessment: each result is sound for the facts   *)
(* of the visit, which stay as they are.                                   *)
AssessingInv ==
    /\ facts \in Visits
    /\ Proposed => TypedRecord(proposal.record)
    /\ profile # None => facts.collection = None \/ Proposed
    /\ Admitted(profile) => SoundProfile(profile.value, facts)
    /\ Admitted(profile) => ObservedProfile(profile.value, Submitted, facts)
    /\ policy # None => Admitted(profile)
    /\ assessment # None => Admitted(policy)
    /\ Admitted(policy) => SoundPolicy(policy.value, profile.value, facts)
    /\ AdmittedRecordsAreAssessed

(* The calls of lib/assessment keep it, each for the part it writes, and   *)
(* nothing else of a visit touches any of it.                              *)
LEMMA AssessingIsInvariant == Spec => []AssessingInv
<1>1. Init => AssessingInv
      BY DEF Init, AssessingInv, Proposed, Admitted, AdmittedRecordsAreAssessed
<1>2. AssessingInv /\ [Next]_vars => AssessingInv'
  <2> SUFFICES ASSUME AssessingInv, [Next]_vars
               PROVE  AssessingInv'
      OBVIOUS
  <2>1. CASE DeriveRecord
    <3>1. facts.collection # None /\ facts.collection.id # None
          BY <2>1, VisitsAssumption DEF DeriveRecord, AssessingInv
    <3>2. Proposed' => TypedRecord(proposal'.record)
          BY <2>1, <3>1, ProposalIsTyped, CaptureProposalIsTyped DEF DeriveRecord, Proposed
    <3>3. profile = None /\ policy = None /\ UNCHANGED <<facts, profile, policy, assessment>>
          BY <2>1 DEF DeriveRecord, AssessingInv, Proposed, Admitted
    <3>4. assessment = None
          BY <3>3 DEF AssessingInv, Admitted
    <3> QED
        BY <3>2, <3>3, <3>4 DEF AssessingInv, Admitted, AdmittedRecordsAreAssessed
  <2>2. CASE AdmitProfile
    <3>1. TypedRecord(Submitted)
          BY VisitsAssumption DEF AssessingInv, TypedRecord, Submitted
    <3>2. /\ profile' = AdmitFitProfile(Submitted, facts.manifest, facts) /\ profile = None
          /\ facts.collection = None \/ Proposed
          BY <2>2 DEF AdmitProfile
    <3>3. Admitted(profile') => SoundProfile(profile'.value, facts)
          BY <3>1, <3>2, AdmittedProfileIsSound DEF Admitted
    <3>4. Admitted(profile') => ObservedProfile(profile'.value, Submitted, facts)
          BY <3>1, <3>2, AdmittedProfileIsObserved DEF Admitted
    <3>5. policy = None /\ assessment = None /\ UNCHANGED <<facts, proposal, policy, assessment>>
          BY <2>2, <3>2 DEF AdmitProfile, AssessingInv, Admitted
    <3>6. Proposed' = Proposed /\ Submitted' = Submitted
          BY <3>5 DEF Proposed, Submitted
    <3> QED
        BY <3>2, <3>3, <3>4, <3>5, <3>6 DEF AssessingInv, Admitted, AdmittedRecordsAreAssessed
  <2>3. CASE AdmitPolicy
    <3>1. /\ Admitted(profile) /\ UNCHANGED <<facts, proposal, profile, assessment>>
          /\ policy' = AdmitCapacityPolicy(facts.policyRecord, facts.manifest, facts.hardware,
                                           profile.value.runPath)
          BY <2>3 DEF AdmitPolicy
    <3>2. Admitted(policy') => SoundPolicy(policy'.value, profile.value, facts)
          BY <3>1, AdmittedPolicyIsSound DEF Admitted
    <3>3. policy = None /\ assessment = None
          BY <2>3 DEF AdmitPolicy, AssessingInv, Admitted
    <3>4. Proposed' = Proposed /\ Submitted' = Submitted
          BY <3>1 DEF Proposed, Submitted
    <3> QED
        BY <3>1, <3>2, <3>3, <3>4 DEF AssessingInv, Admitted, AdmittedRecordsAreAssessed
  <2>4. CASE Assess
    <3> DEFINE given ==
         [named |-> TRUE, id |-> facts.assessmentId, candidate |-> facts.candidate,
          receipt |-> facts.receipt, hardware |-> facts.hardware,
          context |-> facts.candidate.context,
          profile |-> profile.value, policy |-> policy.value,
          throughput |-> IF facts.prior = None THEN None
                         ELSE AdaptThroughputPrior(facts.prior, facts.context),
          records |-> Adapted, advisory |-> facts.advisory]
    <3>1. /\ assessment' = AssessFitEvidence(given)
          /\ Admitted(profile) /\ Admitted(policy)
          /\ UNCHANGED <<facts, proposal, profile, policy>>
          BY <2>4 DEF Assess
    <3>2. /\ given.profile = profile.value /\ given.policy = policy.value
          /\ given.candidate = facts.candidate /\ given.hardware = facts.hardware
          /\ given.records = Adapted /\ given.context = facts.candidate.context
          OBVIOUS
    <3> HIDE DEF given
    <3>3. SoundProfile(given.profile, given) /\ SoundPolicy(given.policy, given.profile, given)
          BY <3>1, <3>2 DEF AssessingInv, SoundProfile, SoundPolicy
    <3>4. ObservedProfile(given.profile, Submitted, given) /\ given.context = given.candidate.context
          BY <3>1, <3>2 DEF AssessingInv, ObservedProfile
    <3>5. Len(given.records) \in Nat
          BY <3>2, AdaptedIsList DEF AssessingInv
    <3>6. Proposed' = Proposed /\ Submitted' = Submitted
          BY <3>1 DEF Proposed, Submitted
    <3>7. AdmittedRecordsAreAssessed'
      <4>1. \/ IsData(assessment')
            \/ assessment'.reason \notin ProfileRefusals
            \/ assessment'.reason = "fit.run-path-mismatch" /\ facts.candidate.backend = "cpu"
            \/ /\ assessment'.reason = "fit.profile-invalid"
               /\ \E o \in Submitted.observations :
                     o.tokens = facts.candidate.context /\ BeyondExactIntegers(o, policy.value)
            BY <3>1, <3>2, <3>3, <3>4, <3>5, AssessmentSpares
      <4> QED
          BY <3>1, <3>6, <4>1 DEF AdmittedRecordsAreAssessed
    <3> QED
        BY <3>1, <3>6, <3>7 DEF AssessingInv, Admitted
  <2>5. CASE UNCHANGED <<facts, assessing>>
    <3>1. UNCHANGED <<facts, proposal, profile, policy, assessment>>
          BY <2>5 DEF assessing
    <3>2. Proposed' = Proposed /\ Submitted' = Submitted
          BY <3>1 DEF Proposed, Submitted
    <3> QED
        BY <3>1, <3>2 DEF AssessingInv, Admitted, AdmittedRecordsAreAssessed
  <2>6. [Next]_vars => \/ DeriveRecord \/ AdmitProfile \/ AdmitPolicy \/ Assess
                       \/ UNCHANGED <<facts, assessing>>
        BY DEF Next, vars, Compose, EditInput, FindConfigurations, UniverseLoaded, OpenDetail,
           HandOff, Export, Tick, InspectImport, ScanInventory, SelectArtifact, PreparePreview,
           EditPreparation, PlannerAnswers
  <2> QED
      BY <2>1, <2>2, <2>3, <2>4, <2>5, <2>6
<1> QED
    BY <1>1, <1>2, PTL DEF Spec

(* admission.ts and index.ts agree: whatever record and policy the first   *)
(* has admitted, whatever evidence is stored and whatever the prior, the   *)
(* second refuses for the profile's or the policy's sake only when the     *)
(* observed bytes, with reserve and margin, are beyond the exact integers, *)
(* or when a candidate of the processor stands beside a card.              *)
THEOREM AdmittedRecordsAreAssessedAlways == Spec => []AdmittedRecordsAreAssessed
<1>1. AssessingInv => AdmittedRecordsAreAssessed
      BY DEF AssessingInv
<1> QED
    BY <1>1, AssessingIsInvariant, PTL

-----------------------------------------------------------------------------
(* f holds what the first k steps from b lead to, for every k up to N.     *)
IsIteration(f, S, b, N, step) ==
    f \in [0..N -> S] /\ f[0] = b /\ \A k \in 1..N : f[k] = step[<<f[k - 1], k>>]

(* A step that is repeated over members of S has results, all in S.        *)
LEMMA Iterated ==
    ASSUME NEW S, NEW b \in S, NEW N \in Nat, NEW step \in [S \X (1..N) -> S]
    PROVE  \E f : IsIteration(f, S, b, N, step)
<1> DEFINE Goes(f, n) ==
              \A k \in 0..n : f[k] = IF k = 0 THEN b ELSE step[<<f[k - 1], k>>]
           Reached == {n \in Nat : n <= N => \E f \in [0..n -> S] : Goes(f, n)}
<1>1. 0 \in Reached
  <2>1. [k \in 0..0 |-> b] \in [0..0 -> S] /\ Goes([k \in 0..0 |-> b], 0)
        OBVIOUS
  <2> QED
      BY <2>1
<1>2. ASSUME NEW n \in Nat, n \in Reached
      PROVE  n + 1 \in Reached
  <2> SUFFICES ASSUME n + 1 <= N
               PROVE  \E f \in [0..(n + 1) -> S] : Goes(f, n + 1)
      OBVIOUS
  <2>1. PICK f \in [0..n -> S] : Goes(f, n)
        BY <1>2
  <2> DEFINE g == [k \in 0..(n + 1) |-> IF k <= n THEN f[k] ELSE step[<<f[n], n + 1>>]]
  <2>2. f[n] \in S /\ n + 1 \in 1..N
        OBVIOUS
  <2>3. step[<<f[n], n + 1>>] \in S
        BY <2>2
  <2>4. g \in [0..(n + 1) -> S]
        BY <2>3
  <2>5. ASSUME NEW k \in 0..(n + 1)
        PROVE  g[k] = IF k = 0 THEN b ELSE step[<<g[k - 1], k>>]
    <3>1. CASE k = 0
      <4>1. g[0] = f[0] /\ 0 \in 0..n
            OBVIOUS
      <4> HIDE DEF g
      <4> QED
          BY <2>1, <3>1, <4>1
    <3>2. CASE k \in 1..n
      <4>1. k - 1 \in 0..n /\ k \in 0..n /\ g[k] = f[k] /\ g[k - 1] = f[k - 1]
            BY <3>2
      <4> QED
          BY <2>1, <3>2, <4>1
    <3>3. CASE k = n + 1
      <4>1. g[k] = step[<<f[n], k>>] /\ g[k - 1] = f[n] /\ k # 0
            BY <3>3
      <4> HIDE DEF g
      <4> QED
          BY <3>3, <4>1
    <3> QED
        BY <3>1, <3>2, <3>3
  <2> HIDE DEF g
  <2> QED
      BY <2>4, <2>5
<1>3. N \in Reached
  <2> HIDE DEF Reached
  <2> QED
      BY <1>1, <1>2, Inductive
<1>4. PICK f \in [0..N -> S] : Goes(f, N)
      BY <1>3
<1>5. f[0] = b /\ \A k \in 1..N : f[k] = step[<<f[k - 1], k>>]
  <2>1. 0 \in 0..N /\ \A k \in 1..N : k \in 0..N /\ k # 0
        OBVIOUS
  <2> QED
      BY <1>4, <2>1
<1> QED
    BY <1>4, <1>5 DEF IsIteration

-----------------------------------------------------------------------------
(* A sublist holds what stands at the places, and all of it.               *)
LEMMA SublistHolds ==
    ASSUME NEW s, NEW n \in Nat, NEW places \in SUBSET (1..n)
    PROVE  /\ Sublist(s, places) \in Seq({s[p] : p \in places})
           /\ \A p \in places : \E k \in DOMAIN Sublist(s, places) : Sublist(s, places)[k] = s[p]
<1> DEFINE upTo(p) == {q \in places : q <= p}
           m == Cardinality(places)
           rank == [p \in places |-> Cardinality(upTo(p))]
<1>1. IsFiniteSet(places) /\ m \in Nat
  <2>1. IsFiniteSet(1..n)
        BY FS_Interval
  <2>2. IsFiniteSet(places)
        BY <2>1, FS_Subset, Zenon
  <2> QED
      BY <2>2, FS_CardinalityType
<1>2. \A p \in places : IsFiniteSet(upTo(p)) /\ Cardinality(upTo(p)) \in Nat
      BY <1>1, FS_Subset, FS_CardinalityType
<1>3. \A p \in places : rank[p] \in 1..m
  <2> TAKE p \in places
  <2>1. Cardinality(upTo(p)) <= m
        BY <1>1, FS_Subset
  <2>2. p \in upTo(p)
        OBVIOUS
  <2>3. Cardinality(upTo(p)) # 0
        BY <1>2, <2>2, FS_EmptySet
  <2> QED
      BY <1>1, <1>2, <2>1, <2>3
<1>4. ASSUME NEW p \in places, NEW q \in places, p < q
      PROVE  rank[p] # rank[q]
  <2>1. upTo(p) \in SUBSET upTo(q) /\ q \in upTo(q) /\ q \notin upTo(p)
    <3>1. p \in Nat /\ q \in Nat /\ \A x \in places : x \in Nat
          OBVIOUS
    <3>2. \A x \in places : x <= p => x <= q
          BY <1>4, <3>1
    <3>3. q <= q /\ ~(q <= p)
          BY <1>4, <3>1
    <3> QED
        BY <3>2, <3>3, Zenon
  <2>2. upTo(p) # upTo(q)
        BY <2>1
  <2> QED
      BY <1>2, <2>1, <2>2, FS_Subset
<1>5. rank \in Injection(places, 1..m)
  <2>1. \A p, q \in places : rank[p] = rank[q] => p = q
        BY <1>4
  <2> HIDE DEF rank
  <2>2. rank \in [places -> 1..m]
        BY <1>3 DEF rank
  <2> QED
      BY <2>1, <2>2 DEF Injection, IsInjective
<1>6. rank \in Surjection(places, 1..m)
  <2>1. IsFiniteSet(1..m) /\ Cardinality(1..m) = m
        BY <1>1, FS_Interval
  <2> HIDE DEF rank, m
  <2> QED
      BY <1>5, <2>1, FS_Injection DEF m
<1> DEFINE at(k) == CHOOSE p \in places : Cardinality({q \in places : q <= p}) = k
<1>7. \A k \in 1..m : at(k) \in places /\ rank[at(k)] = k
  <2> TAKE k \in 1..m
  <2>1. \E p \in places : rank[p] = k
        BY <1>6 DEF Surjection
  <2>2. \E p \in places : Cardinality({q \in places : q <= p}) = k
        BY <2>1
  <2> QED
      BY <2>2
<1>8. \A p \in places : rank[p] \in 1..m /\ at(rank[p]) = p
      BY <1>3, <1>5, <1>7 DEF Injection, IsInjective
<1> DEFINE t == Sublist(s, places)
<1>9. t = [k \in 1..m |-> s[at(k)]]
      BY DEF Sublist
<1> HIDE DEF at, m, rank, t
<1> DEFINE T == {s[p] : p \in places}
<1>10. \A k \in 1..m : s[at(k)] \in T
       BY <1>7
<1> HIDE DEF T
<1>11. t \in Seq(T)
       BY <1>1, <1>9, <1>10
<1>12. \A p \in places : rank[p] \in DOMAIN t /\ t[rank[p]] = s[p]
       BY <1>8, <1>9
<1> QED
    BY <1>11, <1>12 DEF T, t

(* The layers hold the candidates; the first one, exactly those that no    *)
(* candidate dominates.                                                    *)
LEMMA LayersHold ==
    ASSUME NEW X, NEW c \in Seq(X)
    PROVE  /\ EvidenceLayers(c) \in Seq(Seq(X))
           /\ Len(EvidenceLayers(c)) = Len(c)
           /\ c # <<>> =>
                 /\ \A k \in DOMAIN EvidenceLayers(c)[1] : \A j \in DOMAIN c :
                       ~EvidenceDominates(c[j], EvidenceLayers(c)[1][k])
                 /\ (\E i \in DOMAIN c : \A j \in DOMAIN c : ~EvidenceDominates(c[j], c[i]))
                       => EvidenceLayers(c)[1] # <<>>
<1> DEFINE N == Len(c)
           D == DOMAIN c
           S == SUBSET D
           Goes(f) == f = [n \in 0..N |-> IF n = 0 THEN D ELSE Dominated(c, f[n - 1])]
           step == [x \in S \X (1..N) |-> Dominated(c, x[1])]
<1>1. N \in Nat /\ D = 1..N
      OBVIOUS
<1>2. \A T \in S : Dominated(c, T) \in S
      BY DEF Dominated
<1>3. \E f : Goes(f)
  <2>1. D \in S /\ step \in [S \X (1..N) -> S]
        BY <1>2
  <2> HIDE DEF step, N, S, D
  <2>2. N \in Nat
        BY <1>1
  <2>3. PICK f : IsIteration(f, S, D, N, step)
        BY <2>1, <2>2, Iterated, Zenon
  <2>4. ASSUME NEW k \in 0..N
        PROVE  f[k] = IF k = 0 THEN D ELSE Dominated(c, f[k - 1])
    <3>1. CASE k = 0
          BY <2>3, <3>1 DEF IsIteration
    <3>2. CASE k \in 1..N
      <4>1. k - 1 \in 0..N /\ k # 0
            BY <2>2, <3>2
      <4>2. f[k - 1] \in S
            BY <2>3, <4>1 DEF IsIteration
      <4>3. f[k] = step[<<f[k - 1], k>>]
            BY <2>3, <3>2 DEF IsIteration
      <4>4. step[<<f[k - 1], k>>] = Dominated(c, f[k - 1])
            BY <3>2, <4>2 DEF step
      <4> QED
          BY <4>1, <4>3, <4>4
    <3> QED
        BY <2>2, <3>1, <3>2
  <2>5. f = [k \in 0..N |-> f[k]]
        BY <2>3 DEF IsIteration
  <2>6. Goes(f)
        BY <2>4, <2>5
  <2> QED
      BY <2>6
<1> DEFINE left == CHOOSE f : Goes(f)
<1>4. Goes(left)
      BY <1>3
<1>5. EvidenceLayers(c) = [n \in 1..N |-> Sublist(c, left[n - 1] \ left[n])]
      BY DEF EvidenceLayers
<1> HIDE DEF left
<1>6. left[0] = D
      BY <1>1, <1>4
<1>7. \A n \in Nat : n + 1 \in 0..N => left[n + 1] = Dominated(c, left[n])
      BY <1>1, <1>4
<1> HIDE DEF Goes, N
<1> DEFINE Within == {n \in Nat : n \in 0..N => left[n] \in S}
<1>8. Nat \subseteq Within
  <2>1. 0 \in Within
        BY <1>6
  <2>2. \A n \in Nat : n \in Within => n + 1 \in Within
        BY <1>1, <1>2, <1>7
  <2> HIDE DEF Within
  <2> QED
      BY <2>1, <2>2, Inductive
<1>9. \A n \in 0..N : left[n] \in S
      BY <1>1, <1>8
<1>10. ASSUME NEW places \in SUBSET (1..N)
       PROVE  Sublist(c, places) \in Seq(X)
  <2>1. Sublist(c, places) \in Seq({c[p] : p \in places})
        BY <1>1, SublistHolds
  <2>2. {c[p] : p \in places} \subseteq X
        BY <1>1 DEF N
  <2> QED
      BY <2>1, <2>2
<1>11. \A n \in 1..N : Sublist(c, left[n - 1] \ left[n]) \in Seq(X)
  <2> TAKE n \in 1..N
  <2>1. n - 1 \in 0..N
        BY <1>1
  <2>2. left[n - 1] \ left[n] \in SUBSET (1..N)
        BY <1>1, <1>9, <2>1
  <2> QED
      BY <1>10, <2>2
<1>12. EvidenceLayers(c) \in Seq(Seq(X)) /\ Len(EvidenceLayers(c)) = N
       BY <1>1, <1>5, <1>11
<1>13. ASSUME c # <<>>
       PROVE  /\ \A k \in DOMAIN EvidenceLayers(c)[1] : \A j \in DOMAIN c :
                    ~EvidenceDominates(c[j], EvidenceLayers(c)[1][k])
              /\ (\E i \in DOMAIN c : \A j \in DOMAIN c : ~EvidenceDominates(c[j], c[i]))
                       => EvidenceLayers(c)[1] # <<>>
  <2> DEFINE free == {i \in D : \A j \in D : ~EvidenceDominates(c[j], c[i])}
             t == Sublist(c, free)
  <2>1. 1 \in 1..N
        BY <1>13 DEF N
  <2>2. left[1] = Dominated(c, D)
    <3>1. 0 \in Nat /\ 0 + 1 = 1 /\ 0 + 1 \in 0..N
          BY <1>1, <2>1
    <3>2. left[0 + 1] = Dominated(c, left[0])
          BY <1>7, <3>1, Zenon
    <3> QED
        BY <1>6, <3>1, <3>2
  <2>3. left[0] \ left[1] = free
        BY <1>6, <2>2 DEF Dominated
  <2>4. EvidenceLayers(c)[1] = t
        BY <1>5, <2>1, <2>3
  <2>5. free \in SUBSET (1..N)
        BY <1>1
  <2>6. /\ t \in Seq({c[p] : p \in free})
        /\ \A p \in free : \E k \in DOMAIN t : t[k] = c[p]
        BY <1>1, <2>5, SublistHolds
  <2> HIDE DEF t
  <2>7. \A k \in DOMAIN t : \A j \in D : ~EvidenceDominates(c[j], t[k])
        BY <2>6
  <2>8. free # {} => t # <<>>
        BY <2>6
  <2> QED
      BY <2>4, <2>7, <2>8
<1> QED
    BY <1>12, <1>13 DEF N

(* The leading run of a list is one, of places of the list.                *)
LEMMA RunIsOfPlaces ==
    ASSUME NEW cmp, NEW n \in Nat \ {0}
    PROVE  LeadingRun(cmp, n) \in Seq(1..n) /\ Len(LeadingRun(cmp, n)) \in 1..n
<1> DEFINE descends == n > 1 /\ cmp[<<2, 1>>] < 0
           runs == {k \in 1..n : \A i \in 2..k : descends <=> cmp[<<i, i - 1>>] < 0}
           last == CHOOSE k \in runs : \A j \in runs : j <= k
           run == [i \in 1..last |-> i]
<1>1. 1 \in runs /\ runs \subseteq 1..n
  <2>1. 1 \in 1..n /\ 2..1 = {}
        OBVIOUS
  <2> QED
      BY <2>1
<1> HIDE DEF runs
<1>2. \E k \in runs : \A j \in runs : j <= k
  <2> DEFINE behind == {n - k : k \in runs}
  <2>1. behind \in SUBSET Nat /\ behind # {}
        BY <1>1
  <2>2. PICK m \in behind : \A j \in behind : m <= j
        BY <2>1, LeastOf
  <2>3. PICK k \in runs : m = n - k
        BY <2>2
  <2>4. \A j \in runs : n - k <= n - j
        BY <2>2, <2>3
  <2> QED
      BY <1>1, <2>4
<1>3. last \in 1..n
      BY <1>1, <1>2
<1> HIDE DEF last
<1>4. run \in Seq(1..n) /\ Len(run) = last
      BY <1>3
<1>5. Reverse(run) \in Seq(1..n) /\ Len(Reverse(run)) = last
  <2>1. Reverse(run) = [i \in 1..last |-> run[(last - i) + 1]]
    <3> HIDE DEF run
    <3> QED
        BY <1>4 DEF Reverse
  <2>2. \A i \in 1..last : run[(last - i) + 1] \in 1..n
        BY <1>3
  <2> HIDE DEF run
  <2> QED
      BY <1>3, <2>1, <2>2
<1>6. LeadingRun(cmp, n) = IF descends THEN Reverse(run) ELSE run
      BY DEF LeadingRun, last, runs
<1> QED
    BY <1>3, <1>4, <1>5, <1>6

(* The search ends at a place of the sorted list, or behind it.            *)
LEMMA PlaceIsInside ==
    ASSUME NEW cmp, NEW sorted, NEW pivot, Len(sorted) \in Nat
    PROVE  PlaceOf(cmp, sorted, pivot) \in 0..Len(sorted)
<1> DEFINE N == Len(sorted)
           S == {w \in (0..N) \X (0..N) : w[1] <= w[2]}
           b == <<0, N>>
           Goes(f) == f = [k \in 0..N |-> IF k = 0 THEN b ELSE Halved(cmp, sorted, pivot, f[k - 1])]
           step == [x \in S \X (1..N) |-> Halved(cmp, sorted, pivot, x[1])]
<1>1. N \in Nat
      OBVIOUS
<1>2. ASSUME NEW w \in S
      PROVE  Halved(cmp, sorted, pivot, w) \in S
  <2> DEFINE mid == (w[1] + w[2]) \div 2
  <2>1. w[1] \in 0..N /\ w[2] \in 0..N /\ w[1] <= w[2]
        OBVIOUS
  <2>2. w[1] # w[2] => mid \in 0..N /\ w[1] <= mid /\ mid + 1 <= w[2]
        BY <1>1, <2>1
  <2>3. w[1] # w[2] => <<w[1], mid>> \in S /\ <<mid + 1, w[2]>> \in S
        BY <1>1, <2>1, <2>2
  <2> QED
      BY <2>3 DEF Halved
<1>3. b \in S /\ step \in [S \X (1..N) -> S]
      BY <1>1, <1>2
<1> HIDE DEF N, S, b, step
<1>4. PICK f : IsIteration(f, S, b, N, step)
      BY <1>1, <1>3, Iterated, Zenon
<1>5. ASSUME NEW k \in 0..N
      PROVE  f[k] = IF k = 0 THEN b ELSE Halved(cmp, sorted, pivot, f[k - 1])
  <2>1. CASE k = 0
        BY <1>4, <2>1 DEF IsIteration
  <2>2. CASE k \in 1..N
    <3>1. k - 1 \in 0..N /\ k # 0
          BY <1>1, <2>2
    <3>2. f[k - 1] \in S
          BY <1>4, <3>1 DEF IsIteration
    <3>3. f[k] = step[<<f[k - 1], k>>]
          BY <1>4, <2>2 DEF IsIteration
    <3>4. step[<<f[k - 1], k>>] = Halved(cmp, sorted, pivot, f[k - 1])
          BY <2>2, <3>2 DEF step
    <3> QED
        BY <3>1, <3>3, <3>4
  <2> QED
      BY <1>1, <2>1, <2>2
<1>6. Goes(f)
  <2>1. f = [k \in 0..N |-> f[k]]
        BY <1>4 DEF IsIteration
  <2> QED
      BY <1>5, <2>1
<1> DEFINE window == CHOOSE g : Goes(g)
<1>7. Goes(window)
      BY <1>6
<1>8. PlaceOf(cmp, sorted, pivot) = window[N][1]
      BY DEF PlaceOf, N, b
<1> HIDE DEF window
<1> DEFINE Within == {n \in Nat : n \in 0..N => window[n] \in S}
<1>9. 0 \in Within
      BY <1>1, <1>3, <1>7
<1>10. ASSUME NEW n \in Nat, n \in Within, n + 1 \in 0..N
       PROVE  window[n + 1] \in S
  <2>1. n \in 0..N /\ n + 1 # 0 /\ (n + 1) - 1 = n
        BY <1>1, <1>10
  <2>2. window[n + 1] = Halved(cmp, sorted, pivot, window[n])
        BY <1>7, <1>10, <2>1
  <2> QED
      BY <1>2, <1>10, <2>1, <2>2
<1>11. N \in Within
  <2>1. \A n \in Nat : n \in Within => n + 1 \in Within
        BY <1>10
  <2> HIDE DEF Within
  <2> QED
      BY <1>1, <1>9, <2>1, Inductive
<1> QED
    BY <1>1, <1>8, <1>11 DEF S, N

(* An insertion makes a list of places longer by one.                      *)
LEMMA InsertionHolds ==
    ASSUME NEW T, NEW s \in Seq(T), NEW e \in T, NEW i \in 1..(Len(s) + 1)
    PROVE  InsertAt(s, i, e) \in Seq(T) /\ Len(InsertAt(s, i, e)) = Len(s) + 1
<1>1. SubSeq(s, 1, i - 1) \in Seq(T) /\ Len(SubSeq(s, 1, i - 1)) = i - 1
      BY SubSeqProperties
<1>2. SubSeq(s, i, Len(s)) \in Seq(T) /\ Len(SubSeq(s, i, Len(s))) = Len(s) + 1 - i
      BY SubSeqProperties
<1>3. <<e>> \in Seq(T) /\ Len(<<e>>) = 1
      OBVIOUS
<1> DEFINE front == SubSeq(s, 1, i - 1)
           back == SubSeq(s, i, Len(s))
<1>4. InsertAt(s, i, e) = (front \o <<e>>) \o back
      BY DEF InsertAt
<1> HIDE DEF front, back
<1>5. front \o <<e>> \in Seq(T) /\ Len(front \o <<e>>) = Len(front) + 1
      BY <1>1, <1>3, ConcatProperties DEF front
<1>6. /\ (front \o <<e>>) \o back \in Seq(T)
      /\ Len((front \o <<e>>) \o back) = Len(front \o <<e>>) + Len(back)
      BY <1>2, <1>5, ConcatProperties DEF back
<1>7. Len(front) = i - 1 /\ Len(back) = Len(s) + 1 - i
      BY <1>1, <1>2 DEF front, back
<1> QED
    BY <1>4, <1>5, <1>6, <1>7

(* Sorting picks a place of the list for every place of it.                *)
LEMMA SortingPicksPlaces ==
    ASSUME NEW cmp, NEW n \in Nat \ {0}
    PROVE  SortedPlaces(cmp, n) \in [1..n -> 1..n]
<1> DEFINE start == LeadingRun(cmp, n)
           S == {q \in Seq(1..n) : Len(q) >= Len(start)}
           Further(q, k) == IF k <= Len(start) THEN q ELSE InsertAt(q, PlaceOf(cmp, q, k) + 1, k)
           Goes(f) == f = [k \in 0..n |-> IF k = 0 THEN start ELSE
                                          IF k <= Len(start) THEN f[k - 1]
                                          ELSE InsertAt(f[k - 1], PlaceOf(cmp, f[k - 1], k) + 1, k)]
           step == [x \in S \X (1..n) |-> Further(x[1], x[2])]
<1>1. start \in Seq(1..n) /\ Len(start) \in 1..n
      BY RunIsOfPlaces
<1>2. ASSUME NEW q \in S, NEW k \in 1..n, k > Len(start)
      PROVE  Further(q, k) \in Seq(1..n) /\ Len(Further(q, k)) = Len(q) + 1
  <2>1. q \in Seq(1..n) /\ Len(q) \in Nat
        OBVIOUS
  <2>2. PlaceOf(cmp, q, k) \in 0..Len(q)
        BY <2>1, PlaceIsInside
  <2>3. PlaceOf(cmp, q, k) + 1 \in 1..(Len(q) + 1)
        BY <2>1, <2>2
  <2>4. InsertAt(q, PlaceOf(cmp, q, k) + 1, k) \in Seq(1..n)
        BY <2>1, <2>3, InsertionHolds, Zenon
  <2>5. Len(InsertAt(q, PlaceOf(cmp, q, k) + 1, k)) = Len(q) + 1
        BY <2>1, <2>3, InsertionHolds, Zenon
  <2>6. Further(q, k) = InsertAt(q, PlaceOf(cmp, q, k) + 1, k)
        BY <1>1, <1>2
  <2> QED
      BY <2>4, <2>5, <2>6
<1> HIDE DEF start
<1>3. start \in S /\ step \in [S \X (1..n) -> S]
  <2>1. ASSUME NEW q \in S, NEW k \in 1..n
        PROVE  Further(q, k) \in S
    <3>1. CASE k <= Len(start)
          BY <3>1
    <3>2. CASE k > Len(start)
      <4> HIDE DEF Further
      <4>1. Further(q, k) \in Seq(1..n) /\ Len(Further(q, k)) = Len(q) + 1
            BY <1>2, <3>2
      <4> QED
          BY <1>1, <4>1
    <3> QED
        BY <1>1, <3>1, <3>2
  <2> HIDE DEF Further, S
  <2>2. step \in [S \X (1..n) -> S]
        BY <2>1
  <2>3. start \in S
        BY <1>1 DEF S
  <2> QED
      BY <2>2, <2>3
<1> HIDE DEF S, step
<1>4. PICK f : IsIteration(f, S, start, n, step)
  <2>1. n \in Nat
        OBVIOUS
  <2> QED
      BY <1>3, <2>1, Iterated, Zenon
<1>5. ASSUME NEW k \in 0..n
      PROVE  f[k] = IF k = 0 THEN start ELSE IF k <= Len(start) THEN f[k - 1]
                                             ELSE InsertAt(f[k - 1], PlaceOf(cmp, f[k - 1], k) + 1, k)
  <2>1. CASE k = 0
        BY <1>4, <2>1 DEF IsIteration
  <2>2. CASE k \in 1..n
    <3>1. k - 1 \in 0..n /\ k # 0
          BY <2>2
    <3>2. f[k - 1] \in S
          BY <1>4, <3>1 DEF IsIteration
    <3>3. f[k] = step[<<f[k - 1], k>>]
          BY <1>4, <2>2 DEF IsIteration
    <3>4. step[<<f[k - 1], k>>] = Further(f[k - 1], k)
          BY <2>2, <3>2 DEF step
    <3> QED
        BY <3>1, <3>3, <3>4
  <2> QED
      BY <2>1, <2>2
<1>6. Goes(f)
  <2>1. f = [k \in 0..n |-> f[k]]
        BY <1>4 DEF IsIteration
  <2> QED
      BY <1>5, <2>1
<1> DEFINE sorted == CHOOSE g : Goes(g)
<1>7. Goes(sorted)
      BY <1>6
<1>8. SortedPlaces(cmp, n) = sorted[n]
      BY DEF SortedPlaces, start
<1>9. /\ sorted[0] = start
      /\ \A k \in Nat : k + 1 \in 0..n => sorted[k + 1] = Further(sorted[k], k + 1)
  <2>1. 0 \in 0..n /\ \A k \in Nat : k + 1 # 0 /\ (k + 1) - 1 = k
        OBVIOUS
  <2> HIDE DEF sorted
  <2> QED
      BY <1>7, <2>1
<1> HIDE DEF sorted, Goes
<1> DEFINE Long(k) == IF k <= Len(start) THEN Len(start) ELSE k
           Right == {k \in Nat : k \in 0..n => sorted[k] \in S /\ Len(sorted[k]) = Long(k)}
<1>10. 0 \in Right
       BY <1>1, <1>3, <1>9
<1>11. ASSUME NEW k \in Nat, k \in Right, k + 1 \in 0..n
       PROVE  sorted[k + 1] \in S /\ Len(sorted[k + 1]) = Long(k + 1)
  <2>1. k \in 0..n /\ k + 1 \in 1..n
        BY <1>11
  <2>2. sorted[k] \in S /\ Len(sorted[k]) = Long(k)
        BY <1>11, <2>1
  <2>3. sorted[k + 1] = Further(sorted[k], k + 1)
        BY <1>9, <1>11
  <2>4. CASE k + 1 <= Len(start)
    <3>1. sorted[k + 1] = sorted[k] /\ k <= Len(start)
          BY <1>1, <2>3, <2>4
    <3> QED
        BY <2>2, <2>4, <3>1
  <2>5. CASE k + 1 > Len(start)
    <3> HIDE DEF Further
    <3>1. Further(sorted[k], k + 1) \in Seq(1..n) /\ Len(Further(sorted[k], k + 1)) = Len(sorted[k]) + 1
          BY <1>2, <2>1, <2>2, <2>5, Zenon
    <3>2. Len(sorted[k]) = k
          BY <1>1, <2>2, <2>5
    <3> QED
        BY <1>1, <2>3, <2>5, <3>1, <3>2 DEF S
  <2> QED
      BY <1>1, <2>4, <2>5
<1>12. n \in Right
  <2>1. \A k \in Nat : k \in Right => k + 1 \in Right
        BY <1>11
  <2> HIDE DEF Right
  <2> QED
      BY <1>10, <2>1, Inductive
<1>13. sorted[n] \in Seq(1..n) /\ Len(sorted[n]) = n
       BY <1>1, <1>12 DEF S
<1> HIDE DEF Right
<1> QED
    BY <1>8, <1>13

(* Lists laid end to end hold their members; the first comes first.        *)
LEMMA FlatteningHolds ==
    ASSUME NEW X, NEW q \in Seq(Seq(X))
    PROVE  /\ FlattenSeq(q) \in Seq(X)
           /\ q # <<>> /\ q[1] # <<>> => FlattenSeq(q) # <<>> /\ FlattenSeq(q)[1] = q[1][1]
<1>1. CASE q = <<>>
      BY <1>1 DEF FlattenSeq
<1>2. CASE q # <<>>
  <2> DEFINE N == Len(q)
             S == IF q[1] = <<>> THEN Seq(X) ELSE {t \in Seq(X) : t # <<>> /\ t[1] = q[1][1]}
             M == N - 1
             b == q[1]
             Goes(f) == f = [i \in 1..N |-> IF i = 1 THEN q[i] ELSE f[i - 1] \o q[i]]
             step == [x \in S \X (1..M) |-> x[1] \o q[x[2] + 1]]
  <2>1. N \in Nat /\ N # 0 /\ M \in Nat /\ q[1] \in Seq(X)
        BY <1>2
  <2>2. ASSUME NEW t \in S, NEW k \in 1..M
        PROVE  t \o q[k + 1] \in S
    <3>1. t \in Seq(X) /\ q[k + 1] \in Seq(X)
          BY <2>1
    <3>2. t \o q[k + 1] \in Seq(X)
          BY <3>1
    <3>3. t # <<>> => t \o q[k + 1] # <<>> /\ (t \o q[k + 1])[1] = t[1]
          BY <3>1
    <3> QED
        BY <3>2, <3>3
  <2>3. b \in S /\ step \in [S \X (1..M) -> S]
    <3>1. b \in S
          BY <2>1
    <3> HIDE DEF S
    <3>2. step \in [S \X (1..M) -> S]
          BY <2>2
    <3> QED
        BY <3>1, <3>2
  <2> HIDE DEF S, step, M, b
  <2>4. PICK f : IsIteration(f, S, b, M, step)
        BY <2>1, <2>3, Iterated, Zenon
  <2> DEFINE g == [i \in 1..N |-> f[i - 1]]
  <2>5. ASSUME NEW i \in 1..N
        PROVE  /\ g[i] \in S
               /\ f[i - 1] = IF i = 1 THEN q[i] ELSE g[i - 1] \o q[i]
    <3>1. i - 1 \in 0..M
          BY <2>1 DEF M
    <3>2. g[i] \in S
          BY <2>4, <3>1 DEF IsIteration
    <3>3. CASE i = 1
          BY <2>4, <3>2, <3>3 DEF IsIteration, b
    <3>4. CASE i # 1
      <4> DEFINE k == i - 1
      <4>1. k \in 1..M /\ k - 1 \in 0..M /\ k + 1 = i /\ i - 1 \in 1..N
            BY <2>1, <3>4 DEF M
      <4>2. f[k - 1] \in S /\ f[k] = step[<<f[k - 1], k>>]
            BY <2>4, <4>1 DEF IsIteration
      <4>3. step[<<f[k - 1], k>>] = f[k - 1] \o q[k + 1]
            BY <4>1, <4>2 DEF step
      <4>4. g[i - 1] = f[k - 1]
            BY <4>1
      <4> HIDE DEF g
      <4> QED
          BY <3>2, <3>4, <4>1, <4>2, <4>3, <4>4
    <3> QED
        BY <3>3, <3>4
  <2>6. Goes(g)
    <3>1. g = [i \in 1..N |-> f[i - 1]]
          OBVIOUS
    <3> HIDE DEF g
    <3> QED
        BY <2>5, <3>1
  <2> HIDE DEF g
  <2> DEFINE flat == CHOOSE h : Goes(h)
  <2>7. Goes(flat)
        BY <2>6
  <2>8. FlattenSeq(q) = flat[N]
        BY <2>1 DEF FlattenSeq
  <2>9. /\ flat[1] = b
        /\ \A k \in Nat : k + 1 \in 1..M => flat[(k + 1) + 1] = flat[k + 1] \o q[(k + 1) + 1]
    <3>1. /\ 1 \in 1..N
          /\ \A k \in Nat : k + 1 \in 1..M =>
                /\ (k + 1) + 1 \in 1..N /\ (k + 1) + 1 # 1
                /\ ((k + 1) + 1) - 1 = k + 1
          BY <2>1 DEF M
    <3> HIDE DEF flat
    <3>2. flat[1] = b
          BY <2>7, <3>1 DEF b
    <3>3. ASSUME NEW k \in Nat, k + 1 \in 1..M
          PROVE  flat[(k + 1) + 1] = flat[k + 1] \o q[(k + 1) + 1]
          BY <2>7, <3>1, <3>3
    <3> QED
        BY <3>2, <3>3
  <2> HIDE DEF flat, Goes
  <2> DEFINE Within == {k \in Nat : k \in 0..M => flat[k + 1] \in S}
  <2>10. 0 \in Within
         BY <2>3, <2>9
  <2>11. ASSUME NEW k \in Nat, k \in Within, k + 1 \in 0..M
         PROVE  flat[(k + 1) + 1] \in S
    <3>1. k + 1 \in 1..M /\ k \in 0..M
          BY <2>1, <2>11
    <3>2. flat[k + 1] \in S
          BY <2>11, <3>1
    <3> QED
        BY <2>2, <2>9, <3>1, <3>2
  <2>12. M \in Within
    <3>1. \A k \in Nat : k \in Within => k + 1 \in Within
          BY <2>11
    <3> HIDE DEF Within
    <3> QED
        BY <2>1, <2>10, <3>1, Inductive
  <2>13. flat[N] \in S
    <3>1. M + 1 = N /\ M \in 0..M
          BY <2>1 DEF M
    <3> QED
        BY <2>12, <3>1
  <2> HIDE DEF Within
  <2> QED
      BY <1>2, <2>8, <2>13 DEF S
<1> QED
    BY <1>1, <1>2

(* An order holds the candidates, and opens with one that no candidate     *)
(* dominates, if there is one.                                             *)
LEMMA OrderingHolds ==
    ASSUME NEW X, NEW c \in Seq(X), NEW request
    PROVE  /\ OrderRepresentatives(c, request) \in Seq(X)
           /\ (\E i \in DOMAIN c : \A j \in DOMAIN c : ~EvidenceDominates(c[j], c[i])) =>
                 /\ OrderRepresentatives(c, request) # <<>>
                 /\ \A j \in DOMAIN c :
                       ~EvidenceDominates(c[j], OrderRepresentatives(c, request)[1])
<1> DEFINE layers == EvidenceLayers(c)
           cmp(s) == [p \in (DOMAIN s) \X (DOMAIN s) |-> OrderOf(s[p[1]], s[p[2]], request)]
           inOrder(s) == [k \in DOMAIN s |-> s[SortedPlaces(cmp(s), Len(s))[k]]]
           ordered == [k \in DOMAIN layers |-> inOrder(layers[k])]
<1>1. layers \in Seq(Seq(X)) /\ Len(layers) = Len(c)
      BY LayersHold
<1>2. OrderRepresentatives(c, request) = FlattenSeq(ordered)
      BY DEF OrderRepresentatives, SortedBy
<1>3. ASSUME NEW s \in Seq(X)
      PROVE  /\ inOrder(s) \in Seq(X)
             /\ s # <<>> => inOrder(s) # <<>> /\ \E k \in DOMAIN s : inOrder(s)[1] = s[k]
  <2> HIDE DEF cmp
  <2>1. CASE s = <<>>
        BY <2>1
  <2>2. CASE s # <<>>
    <3>1. Len(s) \in Nat \ {0} /\ DOMAIN s = 1..Len(s)
          BY <2>2
    <3>2. SortedPlaces(cmp(s), Len(s)) \in [1..Len(s) -> 1..Len(s)]
          BY <3>1, SortingPicksPlaces
    <3> DEFINE places == SortedPlaces(cmp(s), Len(s))
    <3>3. inOrder(s) = [k \in 1..Len(s) |-> s[places[k]]]
          BY <3>1
    <3> HIDE DEF places
    <3>4. \A k \in 1..Len(s) : places[k] \in 1..Len(s) /\ s[places[k]] \in X
          BY <3>1, <3>2 DEF places
    <3> HIDE DEF inOrder
    <3>5. inOrder(s) \in Seq(X)
          BY <3>1, <3>3, <3>4
    <3>6. 1 \in 1..Len(s)
          BY <3>1
    <3>7. inOrder(s) # <<>> /\ inOrder(s)[1] = s[places[1]]
          BY <3>1, <3>3, <3>6
    <3> QED
        BY <3>1, <3>4, <3>5, <3>6, <3>7
  <2> QED
      BY <2>1, <2>2
<1> HIDE DEF layers, inOrder
<1>4. ordered \in Seq(Seq(X)) /\ Len(ordered) = Len(c)
  <2>1. DOMAIN layers = 1..Len(c) /\ Len(c) \in Nat
        BY <1>1
  <2>2. \A k \in DOMAIN layers : layers[k] \in Seq(X)
        BY <1>1
  <2>3. \A k \in 1..Len(c) : inOrder(layers[k]) \in Seq(X)
        BY <1>3, <2>1, <2>2
  <2> QED
      BY <2>1, <2>3
<1>5. OrderRepresentatives(c, request) \in Seq(X)
      BY <1>2, <1>4, FlatteningHolds
<1>6. ASSUME \E i \in DOMAIN c : \A j \in DOMAIN c : ~EvidenceDominates(c[j], c[i])
      PROVE  /\ OrderRepresentatives(c, request) # <<>>
             /\ \A j \in DOMAIN c :
                   ~EvidenceDominates(c[j], OrderRepresentatives(c, request)[1])
  <2>1. c # <<>>
        BY <1>6
  <2>2. /\ layers[1] # <<>>
        /\ \A k \in DOMAIN layers[1] : \A j \in DOMAIN c : ~EvidenceDominates(c[j], layers[1][k])
        BY <1>6, <2>1, LayersHold DEF layers
  <2>3. 1 \in DOMAIN layers /\ layers[1] \in Seq(X) /\ ordered # <<>>
        BY <1>1, <1>4, <2>1
  <2>4. ordered[1] = inOrder(layers[1])
        BY <2>3
  <2>5. ordered[1] # <<>> /\ \E k \in DOMAIN layers[1] : ordered[1][1] = layers[1][k]
        BY <1>3, <2>2, <2>3, <2>4
  <2> HIDE DEF ordered
  <2>6. FlattenSeq(ordered) # <<>> /\ FlattenSeq(ordered)[1] = ordered[1][1]
        BY <1>4, <2>3, <2>5, FlatteningHolds
  <2> QED
      BY <1>2, <2>2, <2>5, <2>6
<1> QED
    BY <1>5, <1>6

-----------------------------------------------------------------------------
(* The channels that anything may be known by.                             *)
Channels ==
    Metrics \cup {"fit_memory", "prompt_throughput", "generation_throughput", "time_to_first_token"}

(* What an admitted entry supports is among them, and so can be counted.   *)
LEMMA SupportIsFinite ==
    ASSUME NEW entry, NEW universe, ValidCandidateEntry(entry, universe)
    PROVE  IsFiniteSet(SupportedChannels(entry)) /\ Cardinality(SupportedChannels(entry)) \in Nat
<1>1. IsFiniteSet(Channels)
  <2> DEFINE all == <<"fit-memory", "prompt-throughput", "generation-throughput",
                      "time-to-first-token", "task-latency", "stability", "energy-per-task",
                      "task-success", "operator-intervention-rate", "response-preference",
                      "experience-preference", "fit_memory", "prompt_throughput",
                      "generation_throughput", "time_to_first_token">>
  <2>1. all \in Seq(Channels) /\ Len(all) = 15
        BY DEF Channels, Metrics
  <2>2. /\ all[1] = "fit-memory" /\ all[2] = "prompt-throughput"
        /\ all[3] = "generation-throughput" /\ all[4] = "time-to-first-token"
        /\ all[5] = "task-latency" /\ all[6] = "stability" /\ all[7] = "energy-per-task"
        /\ all[8] = "task-success" /\ all[9] = "operator-intervention-rate"
        /\ all[10] = "response-preference" /\ all[11] = "experience-preference"
        /\ all[12] = "fit_memory" /\ all[13] = "prompt_throughput"
        /\ all[14] = "generation_throughput" /\ all[15] = "time_to_first_token"
        OBVIOUS
  <2> HIDE DEF all
  <2>3. \A name \in Channels : \E n \in 1..15 : all[n] = name
        BY <2>2 DEF Channels, Metrics
  <2> QED
      BY <2>1, <2>3 DEF IsFiniteSet
<1>2. \A r \in entry.evidence : r.kind = "exact" => r.metric \in Metrics
      BY DEF ValidCandidateEntry, ValidEvidenceComponent
<1>3. SupportedChannels(entry) \subseteq Channels
      BY <1>2 DEF SupportedChannels, Held, Channels
<1> QED
    BY <1>1, <1>3, FS_Subset, FS_CardinalityType

(* Among candidates that can be compared one is dominated by none.         *)
LEMMA SomeIsUndominated ==
    ASSUME NEW c, NEW n \in Nat \ {0}, DOMAIN c = 1..n,
           \A i \in 1..n : Cardinality(SupportedChannels(c[i])) \in Nat
    PROVE  \E i \in DOMAIN c : \A j \in DOMAIN c : ~EvidenceDominates(c[j], c[i])
<1> DEFINE size(i) == Cardinality(SupportedChannels(c[i]))
           Found == {k \in Nat : k + 1 \in 1..n =>
                                    \E i \in 1..n : \A j \in 1..(k + 1) : size(j) <= size(i)}
<1>1. \A i \in 1..n : size(i) \in Nat
      OBVIOUS
<1> HIDE DEF size
<1>2. 0 \in Found
  <2>1. 1 \in 1..n /\ \A j \in 1..(0 + 1) : j = 1
        OBVIOUS
  <2>2. size(1) <= size(1)
        BY <1>1, <2>1
  <2> QED
      BY <2>1, <2>2
<1>3. ASSUME NEW k \in Nat, k \in Found, (k + 1) + 1 \in 1..n
      PROVE  \E i \in 1..n : \A j \in 1..((k + 1) + 1) : size(j) <= size(i)
  <2> DEFINE new == (k + 1) + 1
  <2>1. PICK i \in 1..n : \A j \in 1..(k + 1) : size(j) <= size(i)
        BY <1>3
  <2>2. \A j \in 1..new : j \in 1..n /\ (j \in 1..(k + 1) \/ j = new)
        BY <1>3
  <2>3. new \in 1..n
        BY <1>3
  <2> HIDE DEF new
  <2>4. CASE size(new) <= size(i)
        BY <2>1, <2>2, <2>4 DEF new
  <2>5. CASE size(i) < size(new)
    <3>1. \A j \in 1..(k + 1) : size(j) <= size(new)
      <4>1. \A j \in 1..(k + 1) : j \in 1..n
            BY <1>3
      <4> QED
          BY <1>1, <2>1, <2>3, <2>5, <4>1, SMTT(30)
    <3>2. size(new) <= size(new)
          BY <1>1, <2>3
    <3> QED
        BY <2>2, <2>3, <3>1, <3>2 DEF new
  <2> QED
      BY <1>1, <2>3, <2>4, <2>5
<1>4. \E i \in 1..n : \A j \in 1..n : size(j) <= size(i)
  <2>1. \A k \in Nat : k \in Found => k + 1 \in Found
    <3> SUFFICES ASSUME NEW k \in Nat, k \in Found
                 PROVE  k + 1 \in Found
        OBVIOUS
    <3>1. (k + 1) + 1 \in 1..n => \E i \in 1..n : \A j \in 1..((k + 1) + 1) : size(j) <= size(i)
          BY <1>3, Zenon
    <3>2. k + 1 \in Nat
          OBVIOUS
    <3> QED
        BY <3>1, <3>2, Zenon
  <2> HIDE DEF Found
  <2>2. n - 1 \in Found
    <3>1. n - 1 \in Nat
          OBVIOUS
    <3>2. Nat \subseteq Found
          BY <1>2, <2>1, Inductive, Zenon
    <3> QED
        BY <3>1, <3>2
  <2>3. (n - 1) + 1 = n /\ (n - 1) + 1 \in 1..n
        OBVIOUS
  <2> QED
      BY <2>2, <2>3 DEF Found
<1>5. PICK i \in 1..n : \A j \in 1..n : size(j) <= size(i)
      BY <1>4
<1>6. \A j \in 1..n : ~(size(j) > size(i))
      BY <1>1, <1>5
<1> QED
    BY <1>6 DEF EvidenceDominates, size

(* A family is represented by a candidate of it that none of it dominates. *)
LEMMA RepresentativesHold ==
    ASSUME NEW X, NEW c \in Seq(X), NEW request,
           \A x \in X : Cardinality(SupportedChannels(x)) \in Nat
    PROVE  LET chosen == ChooseFamilyRepresentatives(c, request)
           IN  /\ chosen \in Seq(X)
               /\ \A k \in DOMAIN chosen : \A j \in DOMAIN c :
                     c[j].candidate.family = chosen[k].candidate.family =>
                        ~EvidenceDominates(c[j], chosen[k])
<1> DEFINE familyOf(i) == c[i].candidate.family
           opens == {i \in DOMAIN c : \A j \in 1..(i - 1) : familyOf(j) # familyOf(i)}
           ofFamily(first) == Sublist(c, {i \in DOMAIN c : familyOf(i) = first.candidate.family})
           firsts == Sublist(c, opens)
           chosen == [k \in DOMAIN firsts |-> OrderRepresentatives(ofFamily(firsts[k]), request)[1]]
<1>1. ChooseFamilyRepresentatives(c, request) = chosen
      BY DEF ChooseFamilyRepresentatives
<1>2. firsts \in Seq({c[p] : p \in opens})
  <2>1. Len(c) \in Nat /\ opens \in SUBSET (1..Len(c))
        OBVIOUS
  <2> HIDE DEF opens
  <2> QED
      BY <2>1, SublistHolds
<1>3. ASSUME NEW p \in DOMAIN c
      PROVE  LET first == OrderRepresentatives(ofFamily(c[p]), request)[1]
             IN  /\ first \in X
                 /\ \A j \in DOMAIN c : familyOf(j) = first.candidate.family =>
                                           ~EvidenceDominates(c[j], first)
  <2> DEFINE places == {i \in DOMAIN c : familyOf(i) = familyOf(p)}
             F == {c[i] : i \in places}
             t == Sublist(c, places)
  <2>1. Len(c) \in Nat /\ places \in SUBSET (1..Len(c)) /\ p \in places
        OBVIOUS
  <2>2. F \subseteq X
        OBVIOUS
  <2>3. ofFamily(c[p]) = t
        OBVIOUS
  <2> HIDE DEF places
  <2>4. /\ t \in Seq(F)
        /\ \A i \in places : \E k \in DOMAIN t : t[k] = c[i]
        BY <2>1, SublistHolds
  <2> HIDE DEF t, F
  <2>5. Len(t) \in Nat \ {0} /\ DOMAIN t = 1..Len(t)
        BY <2>1, <2>4
  <2>6. \A i \in 1..Len(t) : Cardinality(SupportedChannels(t[i])) \in Nat
    <3>1. \A i \in 1..Len(t) : t[i] \in X
          BY <2>2, <2>4
    <3> QED
        BY <3>1
  <2>7. \E i \in DOMAIN t : \A j \in DOMAIN t : ~EvidenceDominates(t[j], t[i])
        BY <2>5, <2>6, SomeIsUndominated, Zenon
  <2> DEFINE first == OrderRepresentatives(t, request)[1]
  <2>8. OrderRepresentatives(t, request) \in Seq(F) /\ OrderRepresentatives(t, request) # <<>>
        BY <2>4, <2>7, OrderingHolds
  <2>9. first \in F
        BY <2>8
  <2>10. \A j \in DOMAIN t : ~EvidenceDominates(t[j], first)
         BY <2>4, <2>7, OrderingHolds
  <2>11. first.candidate.family = familyOf(p)
         BY <2>9 DEF F, places
  <2> HIDE DEF first
  <2>12. \A j \in DOMAIN c : familyOf(j) = first.candidate.family => ~EvidenceDominates(c[j], first)
         BY <2>4, <2>10, <2>11 DEF places
  <2> QED
      BY <2>2, <2>3, <2>9, <2>12 DEF first
<1> HIDE DEF firsts, ofFamily
<1>4. \A k \in DOMAIN firsts : \E p \in DOMAIN c : firsts[k] = c[p]
  <2>1. opens \subseteq DOMAIN c
        OBVIOUS
  <2> HIDE DEF opens
  <2>2. \A k \in DOMAIN firsts : firsts[k] \in {c[p] : p \in opens}
        BY <1>2
  <2> QED
      BY <2>1, <2>2
<1>5. ASSUME NEW k \in DOMAIN firsts
      PROVE  /\ chosen[k] \in X
             /\ \A j \in DOMAIN c : familyOf(j) = chosen[k].candidate.family =>
                                           ~EvidenceDominates(c[j], chosen[k])
  <2>1. PICK p \in DOMAIN c : firsts[k] = c[p]
        BY <1>4
  <2>2. chosen[k] = OrderRepresentatives(ofFamily(c[p]), request)[1]
        BY <2>1
  <2> HIDE DEF chosen
  <2> QED
      BY <1>3, <2>2
<1>6. DOMAIN firsts = 1..Len(firsts) /\ Len(firsts) \in Nat
      BY <1>2
<1>7. DOMAIN chosen = DOMAIN firsts
      OBVIOUS
<1>8. chosen \in Seq(X)
      BY <1>5, <1>6
<1> HIDE DEF chosen
<1> QED
    BY <1>1, <1>5, <1>7, <1>8

(* What may be shown of a universe.                                        *)
Eligible(request, universe) ==
    {entry \in ToSet(universe.entries) : Classified(entry, request).disposition = "eligible"}

(* A candidate of which no other of its family is known better.            *)
Undominated(entry, request, universe) ==
    \A other \in Eligible(request, universe) :
       other.candidate.family = entry.candidate.family => ~EvidenceDominates(other, entry)

(* What rules a candidate out is among the reasons.                        *)
LEMMA ReasonsNameWhatFails ==
    ASSUME NEW entry, NEW request
    PROVE  LET reasons == HardConstraintReasons(entry, request)
           IN  /\ entry.assessment.fit = "does-not-fit" => "fit_does_not_fit" \in reasons
               /\ entry.assessment.fit = "unknown" => "fit_unknown" \in reasons
               /\ entry.assessment.fit = "tight" => "fit_tight_unapproved" \in reasons
               /\ entry.candidate.context # request.context => "context_mismatch" \in reasons
               /\ request.installedOnly /\ entry.eligibility.installed = "unknown" =>
                     "installed_state_unknown" \in reasons
               /\ request.forcedRuntime # None => "forced_runtime_semantics_unresolved" \in reasons
               /\ (\E need \in request.needs : entry.eligibility.capabilities[need] = "unknown") =>
                     "capability_unknown" \in reasons
<1> DEFINE reasons == HardConstraintReasons(entry, request)
           a == entry.assessment
           needs(support) == {need \in request.needs : entry.eligibility.capabilities[need] = support}
           conditions ==
             [fit_does_not_fit |-> a.fit = "does-not-fit",
              fit_unknown |-> a.fit = "unknown",
              fit_tight_unapproved |-> a.fit = "tight",
              hardware_mismatch |-> a.target # request.target,
              context_mismatch |-> entry.candidate.context # request.context,
              cpu_offload_disallowed |-> ~request.cpuOffload /\ a.runPath = "cpu-offload",
              not_installed |-> request.installedOnly /\ entry.eligibility.installed = "no",
              installed_state_unknown |->
                  request.installedOnly /\ entry.eligibility.installed = "unknown",
              forced_runtime_semantics_unresolved |-> request.forcedRuntime # None,
              artifact_too_large |->
                  request.maximumBytes # None /\ entry.candidate.bytes > request.maximumBytes,
              capability_unsupported |-> needs("no") # {},
              capability_unknown |-> needs("unknown") # {}]
<1>1. reasons = {name \in DOMAIN conditions : conditions[name]}
      BY DEF HardConstraintReasons, Held
<1>2. /\ {"fit_does_not_fit", "fit_unknown", "fit_tight_unapproved", "context_mismatch",
          "installed_state_unknown", "forced_runtime_semantics_unresolved", "capability_unknown"}
            \subseteq DOMAIN conditions
      /\ entry.assessment.fit = "does-not-fit" => conditions["fit_does_not_fit"]
      /\ entry.assessment.fit = "unknown" => conditions["fit_unknown"]
      /\ entry.assessment.fit = "tight" => conditions["fit_tight_unapproved"]
      /\ entry.candidate.context # request.context => conditions["context_mismatch"]
      /\ request.installedOnly /\ entry.eligibility.installed = "unknown" =>
            conditions["installed_state_unknown"]
      /\ request.forcedRuntime # None => conditions["forced_runtime_semantics_unresolved"]
      /\ needs("unknown") # {} => conditions["capability_unknown"]
      OBVIOUS
<1>3. (\E need \in request.needs : entry.eligibility.capabilities[need] = "unknown") =>
         needs("unknown") # {}
      OBVIOUS
<1> HIDE DEF conditions, needs
<1> QED
    BY <1>1, <1>2, <1>3

(* What is eligible is a candidate that was judged to fit.                 *)
LEMMA EligibleEntriesFit ==
    ASSUME NEW request, NEW universe, NEW entry \in Eligible(request, universe),
           ValidEntry(entry, universe)
    PROVE  /\ entry.kind = "candidate" /\ ValidCandidateEntry(entry, universe)
           /\ IsDataAssessment(entry.assessment) /\ entry.assessment.fit = "good"
           /\ entry.candidate.context = request.context
<1>1. Classified(entry, request).disposition = "eligible"
      BY DEF Eligible
<1>2. entry.kind # "upstream-gap" /\ IsDataAssessment(entry.assessment)
      BY <1>1 DEF Classified, InitialRow
<1>3. entry.kind = "candidate" /\ ValidCandidateEntry(entry, universe)
      BY <1>2 DEF ValidEntry
<1>4. HardConstraintReasons(entry, request) = {}
      BY <1>1, <1>2 DEF Classified
<1>5. /\ entry.assessment.fit \notin {"does-not-fit", "unknown", "tight"}
      /\ entry.candidate.context = request.context
      BY <1>4, ReasonsNameWhatFails
<1>6. entry.assessment.fit \in {"good", "tight", "does-not-fit", "unknown"}
      BY <1>2, <1>3 DEF ValidCandidateEntry, ValidAssessment
<1> QED
    BY <1>2, <1>3, <1>5, <1>6

(* What is ordered is eligible, and represents its family.                 *)
LEMMA OrderedIsEligible ==
    ASSUME NEW request, NEW universe, universe.entries \in Seq(ToSet(universe.entries)),
           \A entry \in ToSet(universe.entries) : ValidEntry(entry, universe)
    PROVE  /\ Ordered(request, universe) \in Seq(Eligible(request, universe))
           /\ \A k \in DOMAIN Ordered(request, universe) :
                 Undominated(Ordered(request, universe)[k], request, universe)
<1> DEFINE entries == universe.entries
           Y == Eligible(request, universe)
           places == {i \in DOMAIN entries : Classified(entries[i], request).disposition = "eligible"}
           c == Sublist(entries, places)
           chosen == ChooseFamilyRepresentatives(c, request)
<1>1. Y = {entries[i] : i \in places}
      BY DEF Eligible, ToSet
<1>2. Len(entries) \in Nat /\ places \in SUBSET (1..Len(entries))
      OBVIOUS
<1>3. Ordered(request, universe) = OrderRepresentatives(chosen, request)
      BY DEF Ordered
<1> HIDE DEF entries, places
<1>4. /\ c \in Seq(Y)
      /\ \A y \in Y : \E k \in DOMAIN c : c[k] = y
  <2>1. /\ c \in Seq({entries[i] : i \in places})
        /\ \A i \in places : \E k \in DOMAIN c : c[k] = entries[i]
        BY <1>2, SublistHolds
  <2> HIDE DEF c, Y
  <2>2. c \in Seq(Y)
        BY <1>1, <2>1
  <2>3. \A y \in Y : \E i \in places : y = entries[i]
        BY <1>1
  <2> QED
      BY <2>1, <2>2, <2>3
<1>5. \A y \in Y : Cardinality(SupportedChannels(y)) \in Nat
  <2> TAKE y \in Y
  <2>1. ValidEntry(y, universe)
        BY DEF Eligible
  <2>2. ValidCandidateEntry(y, universe)
        BY <2>1, EligibleEntriesFit
  <2> QED
      BY <2>2, SupportIsFinite
<1> HIDE DEF c, Y
<1>6. /\ chosen \in Seq(Y)
      /\ \A k \in DOMAIN chosen : \A j \in DOMAIN c :
            c[j].candidate.family = chosen[k].candidate.family => ~EvidenceDominates(c[j], chosen[k])
      BY <1>4, <1>5, RepresentativesHold
<1> HIDE DEF chosen
<1> DEFINE X == {y \in Y : Undominated(y, request, universe)}
<1>7. \A k \in DOMAIN chosen : chosen[k] \in X
      BY <1>4, <1>6 DEF Undominated, Y
<1>8. chosen \in Seq(X)
      BY <1>6, <1>7
<1>9. OrderRepresentatives(chosen, request) \in Seq(X)
      BY <1>8, OrderingHolds
<1> QED
    BY <1>3, <1>9 DEF Y

-----------------------------------------------------------------------------
(* What the finder has evaluated.  A session keeps a universe only if it   *)
(* was valid, and then its portfolio is the one of that universe.          *)
FoundFor(content, request) ==
    /\ content.portfolio = Shown(request, content.universe)
    /\ request.status = "ok"
    /\ content.universe.target = request.target
    /\ IsInjective([i \in DOMAIN content.universe.entries |-> content.universe.entries[i].artifact])
    /\ \A i \in DOMAIN content.universe.entries :
          ValidEntry(content.universe.entries[i], content.universe)

(* Whatever the port answers, and whatever the caller's policy says by     *)
(* then.                                                                   *)
LEMMA SessionsAreFound ==
    ASSUME NEW request, NEW hardware, NEW rules, NEW answer,
           SessionOf(request, hardware, rules, answer).content.universe # None
    PROVE  LET content == SessionOf(request, hardware, rules, answer).content
           IN  FoundFor(content, request) /\ content.universe = AdmittedUniverse(answer.universe)
<1> DEFINE found == SessionOf(request, hardware, rules, answer)
           admitted == AdmittedUniverse(answer.universe)
           portfolio == BuildRecommendationPortfolio(request, admitted, rules)
<1>1. \A status, reason : FailedSession(status, reason).content.universe = None
      BY DEF FailedSession, Sealed
<1>2. found = EvaluatedSession(request, hardware, admitted, portfolio)
      BY <1>1, Zenon DEF SessionOf
<1> HIDE DEF found, admitted, portfolio
<1>3. IsData(portfolio) /\ found.content.universe = admitted /\ found.content.portfolio = portfolio
      BY <1>2 DEF EvaluatedSession, Sealed, found
<1>4. \A ledger : ~IsData(BlockedPortfolio(ledger))
      BY DEF BlockedPortfolio, IsData
<1>5. portfolio = Shown(request, admitted) /\ ValidInput(request, admitted, rules)
      BY <1>3, <1>4 DEF BuildRecommendationPortfolio, portfolio
<1> QED
    BY <1>3, <1>5 DEF FoundFor, ValidInput, found, admitted

(* The entries are a list, in which the id of a candidate names one        *)
(* artifact.                                                               *)
Listed(universe) ==
    /\ universe.entries \in Seq(ToSet(universe.entries))
    /\ \A i, j \in DOMAIN universe.entries :
          /\ universe.entries[i].kind = "candidate" /\ universe.entries[j].kind = "candidate"
          /\ universe.entries[i].candidate.candidate = universe.entries[j].candidate.candidate
          => universe.entries[i].candidate.artifact = universe.entries[j].candidate.artifact

(* So is what the port answers, since neither placing the entries nor      *)
(* admitting them touches a candidate.                                     *)
LEMMA AnswersAreListed ==
    ASSUME facts \in Visits, NEW provider \in Providers(facts.reach)
    PROVE  Listed(AdmittedUniverse(AnswerOf(provider).universe))
<1> DEFINE others == provider.neighbours
           known == {facts.candidate} \cup
                    {n.candidate : n \in {n \in ToSet(others) : n.kind = "candidate"}}
           listed == <<AssessedEntry>> \o others
           place(artifact) == CHOOSE k \in DOMAIN provider.catalog : provider.catalog[k] = artifact
           placed(k) == [listed[k] EXCEPT !.position = place(listed[k].artifact) - 1]
           admitted(k) == IF placed(k).kind = "candidate"
                          THEN AdmitPortfolioCandidateEntry(placed(k)) ELSE placed(k)
           universe == AdmittedUniverse(AnswerOf(provider).universe)
<1>1. /\ others \in Seq(ToSet(others))
      /\ \A n \in ToSet(others) :
            "kind" \in DOMAIN n /\ (n.kind = "candidate" => "candidate" \in DOMAIN n)
      /\ \A a, b \in known : a.candidate = b.candidate => a.artifact = b.artifact
      BY ProvidersAssumption
<1>2. /\ Len(others) \in Nat /\ DOMAIN listed = 1..(1 + Len(others))
      /\ \A k \in DOMAIN listed : listed[k] = AssessedEntry \/ listed[k] \in ToSet(others)
  <2>1. Len(others) \in Nat /\ DOMAIN others = 1..Len(others)
        BY <1>1
  <2>2. \A k \in 1..(1 + Len(others)) :
           listed[k] = IF k = 1 THEN AssessedEntry ELSE others[k - 1]
        BY <1>1
  <2>3. \A k \in 1..(1 + Len(others)) : k # 1 => k - 1 \in DOMAIN others
        BY <2>1
  <2>4. DOMAIN listed = 1..(1 + Len(others))
        BY <1>1
  <2> HIDE DEF listed, others
  <2> QED
      BY <2>1, <2>2, <2>3, <2>4 DEF ToSet
<1>3. AnswerOf(provider).universe.entries = [k \in DOMAIN listed |-> placed(k)]
      BY DEF AnswerOf
<1>4. "entries" \in DOMAIN AnswerOf(provider).universe
      BY DEF AnswerOf
<1> HIDE DEF listed, known, others, place
<1>5. universe.entries = [k \in DOMAIN listed |-> admitted(k)]
      BY <1>3, <1>4 DEF AdmittedUniverse
<1>6. ASSUME NEW k \in DOMAIN listed
      PROVE  /\ admitted(k).kind = listed[k].kind
             /\ listed[k].kind = "candidate" =>
                   /\ admitted(k).candidate = listed[k].candidate
                   /\ listed[k].candidate \in known
  <2>1. /\ "kind" \in DOMAIN AssessedEntry /\ "candidate" \in DOMAIN AssessedEntry
        /\ AssessedEntry.candidate = facts.candidate
        BY DEF AssessedEntry
  <2>2. /\ "kind" \in DOMAIN listed[k]
        /\ listed[k].kind = "candidate" => "candidate" \in DOMAIN listed[k]
        BY <1>1, <1>2, <2>1
  <2>3. listed[k].kind = "candidate" => listed[k].candidate \in known
        BY <1>2, <2>1 DEF known
  <2>4. /\ placed(k).kind = listed[k].kind /\ DOMAIN placed(k) = DOMAIN listed[k]
        /\ listed[k].kind = "candidate" => placed(k).candidate = listed[k].candidate
        BY <2>2
  <2> HIDE DEF placed
  <2>5. /\ admitted(k).kind = placed(k).kind
        /\ listed[k].kind = "candidate" => admitted(k).candidate = placed(k).candidate
        BY <2>2, <2>4 DEF AdmitPortfolioCandidateEntry
  <2> QED
      BY <2>3, <2>4, <2>5
<1> HIDE DEF admitted, universe
<1>7. universe.entries \in Seq(ToSet(universe.entries))
  <2> DEFINE n == 1 + Len(others)
             T == {admitted(k) : k \in 1..n}
  <2>1. n \in Nat /\ universe.entries = [k \in 1..n |-> admitted(k)]
        BY <1>2, <1>5
  <2> HIDE DEF n
  <2>2. ToSet(universe.entries) = T
        BY <2>1 DEF ToSet
  <2>3. \A k \in 1..n : admitted(k) \in T
        OBVIOUS
  <2> HIDE DEF T
  <2> QED
      BY <2>1, <2>2, <2>3
<1>8. ASSUME NEW i \in DOMAIN universe.entries, NEW j \in DOMAIN universe.entries,
             universe.entries[i].kind = "candidate", universe.entries[j].kind = "candidate",
             universe.entries[i].candidate.candidate = universe.entries[j].candidate.candidate
      PROVE  universe.entries[i].candidate.artifact = universe.entries[j].candidate.artifact
  <2>1. /\ i \in DOMAIN listed /\ j \in DOMAIN listed
        /\ universe.entries[i] = admitted(i) /\ universe.entries[j] = admitted(j)
        BY <1>5
  <2> QED
      BY <1>1, <1>6, <1>8, <2>1
<1> QED
    BY <1>7, <1>8 DEF Listed, universe

(* A row that leaves nothing open is of an entry about which nothing is:   *)
(* it was assessed, and none of the reasons that say that something is not *)
(* known was found.                                                        *)
LEMMA SettledRowsLeaveNothingOpen ==
    ASSUME NEW entry, NEW universe, NEW request, ValidEntry(entry, universe),
           Classified(entry, request).disposition \notin {"upstream-gap", "unsupported"}
    PROVE  NothingOpen(entry, request)
<1> DEFINE reasons == HardConstraintReasons(entry, request)
<1>1. entry.kind = "candidate" /\ IsDataAssessment(entry.assessment)
      BY DEF ValidEntry, Classified, InitialRow
<1>2. reasons \cap CoverageReasons = {}
      BY <1>1 DEF Classified
<1>3. entry.assessment.fit \in {"good", "tight", "does-not-fit", "unknown"}
      BY <1>1 DEF ValidEntry, ValidCandidateEntry, ValidAssessment
<1>4. /\ entry.assessment.fit \notin {"unknown", "tight"}
      /\ request.forcedRuntime = None
      /\ request.installedOnly => entry.eligibility.installed # "unknown"
      /\ \A need \in request.needs : entry.eligibility.capabilities[need] # "unknown"
      BY <1>2, ReasonsNameWhatFails DEF CoverageReasons
<1> QED
    BY <1>1, <1>3, <1>4 DEF NothingOpen, IsDataAssessment, IsData

(* Every evaluation that was returned is found for its request.            *)
EvaluatedInv == \A e \in evaluated : FoundFor(e.session, e.request) /\ Listed(e.session.universe)

(* Only an answer of the port adds one.                                    *)
LEMMA EvaluatedIsInvariant == Spec => []EvaluatedInv
<1>1. Init => EvaluatedInv
      BY DEF Init, EvaluatedInv
<1>2. AssessingInv /\ EvaluatedInv /\ [Next]_vars => EvaluatedInv'
  <2> SUFFICES ASSUME AssessingInv, EvaluatedInv, [Next]_vars
               PROVE  EvaluatedInv'
      OBVIOUS
  <2>1. ASSUME NEW provider \in Providers(facts.reach), UniverseLoaded(provider)
        PROVE  EvaluatedInv'
    <3> DEFINE found == SessionOf(pending.request, pending.hardware, input.policy, AnswerOf(provider))
               e == [request |-> pending.request, hardware |-> pending.hardware,
                     session |-> found.content]
    <3>1. evaluated' = IF found.content.universe = None THEN evaluated ELSE evaluated \cup {e}
          BY <2>1 DEF UniverseLoaded
    <3>2. found.content.universe # None =>
             FoundFor(e.session, e.request) /\ Listed(e.session.universe)
          BY SessionsAreFound, AnswersAreListed DEF AssessingInv
    <3> HIDE DEF e, found
    <3> QED
        BY <3>1, <3>2 DEF EvaluatedInv
  <2>2. CASE UNCHANGED evaluated
        BY <2>2 DEF EvaluatedInv
  <2>3. \/ \E provider \in Providers(facts.reach) : UniverseLoaded(provider)
        \/ UNCHANGED evaluated
        BY DEF Next, vars, asking, exporting, importing, previewing, DeriveRecord, AdmitProfile,
           AdmitPolicy, Assess, Compose, EditInput, FindConfigurations, OpenDetail, HandOff,
           Export, Tick, InspectImport, ScanInventory, SelectArtifact, PreparePreview,
           EditPreparation, PlannerAnswers
  <2> QED
      BY <2>1, <2>2, <2>3
<1> QED
    BY <1>1, <1>2, AssessingIsInvariant, PTL DEF Spec

(* "Nothing fits" is never said where something is not known.              *)
THEOREM NothingFitsIsKnownAlways == Spec => []NothingFitsIsKnown
<1>1. ASSUME NEW e \in evaluated, FoundFor(e.session, e.request),
             e.session.portfolio.outcome = "nothing-fits"
      PROVE  /\ e.session.universe.entries # <<>>
             /\ \A entry \in ToSet(e.session.universe.entries) : NothingOpen(entry, e.request)
  <2> DEFINE universe == e.session.universe
             request == e.request
             ordered == Ordered(request, universe)
             ledger == Ledger(request, universe, ordered)
  <2>1. Outcome(universe, ledger, SelectedOf(ordered)) = "nothing-fits"
        BY <1>1 DEF FoundFor, Shown, EnvelopeOf, Envelope
  <2>2. ~CoverageGap(universe, ledger)
        BY <2>1 DEF Outcome
  <2>3. ASSUME NEW i \in DOMAIN universe.entries
        PROVE  NothingOpen(universe.entries[i], request)
    <3>1. i \in DOMAIN ledger /\ ledger[i].disposition \notin {"upstream-gap", "unsupported"}
          BY <2>2 DEF CoverageGap, Ledger
    <3> DEFINE entry == universe.entries[i]
    <3>2. Classified(entry, request).disposition # "eligible" => ledger[i] = Classified(entry, request)
          BY DEF Ledger
    <3> HIDE DEF ledger
    <3>3. Classified(entry, request).disposition \notin {"upstream-gap", "unsupported"}
          BY <3>1, <3>2
    <3>4. ValidEntry(entry, universe)
          BY <1>1 DEF FoundFor
    <3> QED
        BY <3>3, <3>4, SettledRowsLeaveNothingOpen
  <2> QED
      BY <2>2, <2>3 DEF CoverageGap, ToSet
<1>2. EvaluatedInv => NothingFitsIsKnown
      BY <1>1 DEF EvaluatedInv, NothingFitsIsKnown
<1> QED
    BY <1>2, EvaluatedIsInvariant, PTL

(* What a portfolio shows are eligible entries of the universe, each       *)
(* undominated in its family.                                              *)
LEMMA ItemsAreOfEligibleEntries ==
    ASSUME NEW content, NEW request, FoundFor(content, request), Listed(content.universe),
           NEW item \in content.portfolio.items
    PROVE  \E entry \in Eligible(request, content.universe) :
              ToPortfolioItem(entry) = item /\ Undominated(entry, request, content.universe)
<1> DEFINE universe == content.universe
           ordered == Ordered(request, universe)
<1>1. content.portfolio.items = {ToPortfolioItem(entry) : entry \in SelectedOf(ordered)}
      BY DEF FoundFor, Shown, EnvelopeOf, Envelope
<1>2. PICK k \in DOMAIN ordered : item = ToPortfolioItem(ordered[k])
      BY <1>1 DEF SelectedOf
<1>3. \A entry \in ToSet(universe.entries) : ValidEntry(entry, universe)
      BY DEF FoundFor, ToSet
<1>4. /\ ordered \in Seq(Eligible(request, universe))
      /\ Undominated(ordered[k], request, universe)
      BY <1>2, <1>3, OrderedIsEligible DEF Listed
<1> QED
    BY <1>2, <1>4

(* Whatever the request's priority, a family is represented by one that is *)
(* known best.                                                             *)
THEOREM RepresentativesAreUndominatedAlways == Spec => []RepresentativesAreUndominated
<1>1. ASSUME NEW e \in evaluated, FoundFor(e.session, e.request), Listed(e.session.universe),
             NEW item \in e.session.portfolio.items
      PROVE  \E entry \in Eligible(e.request, e.session.universe) :
                ToPortfolioItem(entry) = item /\ Undominated(entry, e.request, e.session.universe)
      BY <1>1, ItemsAreOfEligibleEntries
<1>2. EvaluatedInv => RepresentativesAreUndominated
      BY <1>1 DEF EvaluatedInv, RepresentativesAreUndominated, Eligible, Undominated
<1> QED
    BY <1>2, EvaluatedIsInvariant, PTL

-----------------------------------------------------------------------------
(* From the request to the bundle.  The context length the task asks for.  *)
Asks == DeriveTaskContext(facts.question.context).tokens

(* Every request that is on its way asks for it.                           *)
RequestsInv ==
    /\ input # None =>
          /\ {"request", "hardware", "policy"} \subseteq DOMAIN input
          /\ input.request.status = "ok" =>
                {"status", "context"} \subseteq DOMAIN input.request /\ input.request.context = Asks
    /\ pending # None /\ pending.request.status = "ok" => pending.request.context = Asks
    /\ \A e \in evaluated : e.request.context = Asks

(* A request without an error is a compiled one.                           *)
LEMMA CompiledRequestsAsk ==
    ASSUME NEW question, CompileRecommendationRequest(question).status = "ok"
    PROVE  /\ {"status", "context"} \subseteq DOMAIN CompileRecommendationRequest(question)
           /\ CompileRecommendationRequest(question).context
                 = DeriveTaskContext(question.context).tokens
<1> DEFINE context == DeriveTaskContext(question.context)
<1>1. \A reason : NoRequest(reason).status # "ok"
      BY DEF NoRequest
<1>2. CompileRecommendationRequest(question) = CompiledRequest(question, context)
      BY <1>1 DEF CompileRecommendationRequest
<1> HIDE DEF context
<1> QED
    BY <1>2 DEF CompiledRequest, context

(* The caller's edits, before or during a call, leave the length alone.    *)
LEMMA RequestsAreInvariant == Spec => []RequestsInv
<1>1. Init => RequestsInv
      BY DEF Init, RequestsInv
<1>2. EvaluatedInv' /\ RequestsInv /\ [Next]_vars => RequestsInv'
  <2> SUFFICES ASSUME EvaluatedInv', RequestsInv, [Next]_vars
               PROVE  RequestsInv'
      OBVIOUS
  <2>1. CASE Compose
    <3> DEFINE request == CompileRecommendationRequest(facts.question)
               given == [request |-> request, hardware |-> facts.hardware,
                         policy |-> [exact |-> TRUE, version |-> 1, named |-> TRUE]]
    <3>1. input' = given /\ UNCHANGED <<facts, pending, evaluated>>
          BY <2>1 DEF Compose
    <3>2. request.status = "ok" =>
             {"status", "context"} \subseteq DOMAIN request /\ request.context = Asks
          BY CompiledRequestsAsk DEF Asks
    <3> HIDE DEF request
    <3>3. given.request = request /\ {"request", "hardware", "policy"} \subseteq DOMAIN given
          OBVIOUS
    <3> HIDE DEF given
    <3> QED
        BY <3>1, <3>2, <3>3 DEF RequestsInv, Asks
  <2>2. ASSUME NEW edit \in Edits, EditInput(edit)
        PROVE  RequestsInv'
    <3>1. /\ input # None /\ input.request.status = "ok"
          /\ UNCHANGED <<facts, pending, evaluated>>
          BY <2>2 DEF EditInput
    <3>2. /\ {"request", "hardware", "policy"} \subseteq DOMAIN input
          /\ {"status", "context"} \subseteq DOMAIN input.request /\ input.request.context = Asks
          BY <3>1 DEF RequestsInv
    <3>3. \/ input' = [input EXCEPT !.request.priority = "lightest"]
          \/ input' = [input EXCEPT !.hardware.ram = @ + 1]
          \/ input' = [input EXCEPT !.policy.named = FALSE]
          BY <2>2, Zenon DEF EditInput
    <3>4. DOMAIN input' = DOMAIN input
          BY <3>3
    <3>5. DOMAIN input'.request = DOMAIN input.request /\ input'.request.context = Asks
          BY <3>2, <3>3
    <3> QED
        BY <3>1, <3>2, <3>4, <3>5 DEF RequestsInv, Asks
  <2>3. CASE FindConfigurations
    <3>1. /\ pending' = [request |-> input.request, hardware |-> input.hardware] \/ UNCHANGED pending
          /\ input # None /\ UNCHANGED <<facts, input, evaluated>>
          BY <2>3 DEF FindConfigurations
    <3> QED
        BY <3>1 DEF RequestsInv, Asks
  <2>4. ASSUME NEW provider \in Providers(facts.reach), UniverseLoaded(provider)
        PROVE  RequestsInv'
    <3> DEFINE found == SessionOf(pending.request, pending.hardware, input.policy, AnswerOf(provider))
               e == [request |-> pending.request, hardware |-> pending.hardware,
                     session |-> found.content]
    <3>1. /\ evaluated' = IF found.content.universe = None THEN evaluated ELSE evaluated \cup {e}
          /\ pending # None /\ pending' = None /\ UNCHANGED <<facts, input>>
          BY <2>4 DEF UniverseLoaded
    <3>2. e.request = pending.request
          OBVIOUS
    <3> HIDE DEF e, found
    <3>3. e \in evaluated' => pending.request.status = "ok"
          BY <3>2 DEF EvaluatedInv, FoundFor
    <3>4. \A x \in evaluated' : x.request.context = Asks
          BY <3>1, <3>2, <3>3 DEF RequestsInv
    <3> QED
        BY <3>1, <3>4 DEF RequestsInv, Asks
  <2>5. CASE UNCHANGED <<facts, input, pending, evaluated>>
        BY <2>5 DEF RequestsInv, Asks
  <2>6. \/ Compose \/ FindConfigurations \/ \E edit \in Edits : EditInput(edit)
        \/ \E provider \in Providers(facts.reach) : UniverseLoaded(provider)
        \/ UNCHANGED <<facts, input, pending, evaluated>>
        BY DEF Next, vars, asking, exporting, importing, previewing, DeriveRecord, AdmitProfile,
           AdmitPolicy, Assess, OpenDetail, HandOff, Export, Tick, InspectImport, ScanInventory,
           SelectArtifact, PreparePreview, EditPreparation, PlannerAnswers
  <2> QED
      BY <2>1, <2>2, <2>3, <2>4, <2>5, <2>6
<1> QED
    BY <1>1, <1>2, EvaluatedIsInvariant, PTL DEF Spec

-----------------------------------------------------------------------------
(* A copy of a branded object is known to be one.                          *)
LEMMA CopiesAreKnown ==
    ASSUME NEW object, "brand" \in DOMAIN object
    PROVE  ~Intact(Copied(object))
<1>1. Copied(object).brand = {}
      BY DEF Copied
<1> QED
    BY <1>1 DEF Intact

(* The item is the one of an entry that could be shown, and was.           *)
DetailsEntry(content, request, item, entry) ==
    /\ entry \in Eligible(request, content.universe)
    /\ ToPortfolioItem(entry) = item
    /\ item \in content.portfolio.items

(* The entry that is looked up is the one that was shown: no other entry   *)
(* of the universe has the id of its candidate.                            *)
LEMMA FirstEntryIsTheOneShown ==
    ASSUME NEW content, NEW request, FoundFor(content, request), Listed(content.universe),
           NEW item \in content.portfolio.items
    PROVE  DetailsEntry(content, request, item, FirstEntry(content.universe, item.candidate))
<1> DEFINE universe == content.universe
           entries == universe.entries
           places == EntriesOf(universe, item.candidate)
<1>1. PICK entry \in Eligible(request, universe) : ToPortfolioItem(entry) = item
      BY ItemsAreOfEligibleEntries
<1>2. PICK i \in DOMAIN entries : entries[i] = entry
      BY <1>1 DEF Eligible, ToSet
<1>3. \A k \in DOMAIN entries : ValidEntry(entries[k], universe)
      BY DEF FoundFor
<1>4. entry.kind = "candidate" /\ entry.candidate.candidate = item.candidate
      BY <1>1, <1>2, <1>3, EligibleEntriesFit DEF ToPortfolioItem
<1>5. i \in places
      BY <1>2, <1>4 DEF EntriesOf
<1>6. ASSUME NEW j \in places
      PROVE  j = i
  <2>1. /\ j \in DOMAIN entries /\ entries[j].kind = "candidate"
        /\ entries[j].candidate.candidate = item.candidate
        BY DEF EntriesOf
  <2>2. entries[j].candidate.artifact = entries[i].candidate.artifact
        BY <1>2, <1>4, <2>1 DEF Listed
  <2>3. /\ entries[j].artifact = entries[j].candidate.artifact
        /\ entries[i].artifact = entries[i].candidate.artifact
        BY <1>2, <1>3, <1>4, <2>1 DEF ValidEntry, ValidCandidateEntry
  <2> DEFINE ids == [k \in DOMAIN entries |-> entries[k].artifact]
  <2>4. \A a, b \in DOMAIN ids : ids[a] = ids[b] => a = b
        BY DEF FoundFor, IsInjective
  <2> QED
      BY <2>1, <2>2, <2>3, <2>4
<1>7. i \in Nat
  <2>1. entries \in Seq(ToSet(entries))
        BY DEF Listed
  <2> QED
      BY <2>1
<1> HIDE DEF places
<1>8. FirstEntry(universe, item.candidate) = entries[i]
  <2>1. places = {i}
        BY <1>5, <1>6
  <2>2. (CHOOSE k \in places : \A j \in places : k <= j) = i
        BY <1>7, <2>1
  <2> QED
      BY <2>2 DEF FirstEntry, places
<1> QED
    BY <1>1, <1>2, <1>8 DEF DetailsEntry

(* A detail that is no refusal is of an item that is shown.                *)
LEMMA DetailsAreOfShownEntries ==
    ASSUME NEW object, NEW candidate, NEW request, FoundFor(object.content, request),
           Listed(object.content.universe), Intact(GetExactConfigurationDetail(object, candidate))
    PROVE  LET detailed == GetExactConfigurationDetail(object, candidate)
           IN  \E item \in object.content.portfolio.items,
                  entry \in Eligible(request, object.content.universe) :
                  /\ DetailsEntry(object.content, request, item, entry)
                  /\ detailed.binding = object.binding
                  /\ detailed.content.candidate = entry.candidate
                  /\ detailed.content.assessment = entry.assessment
                  /\ detailed.content.receipt = entry.receipt
<1> DEFINE content == object.content
           items == {item \in content.portfolio.items : item.candidate = candidate}
           item == CHOOSE item \in items : TRUE
           entry == FirstEntry(content.universe, item.candidate)
<1>1. \A status, reason : ~Intact(Unsealed(Refusal(status, reason)))
      BY DEF Intact, Unsealed
<1>2. items # {} /\ GetExactConfigurationDetail(object, candidate) = DetailOf(object, item)
      BY <1>1 DEF GetExactConfigurationDetail
<1>3. item \in content.portfolio.items
      BY <1>2
<1> HIDE DEF item
<1>4. DetailsEntry(content, request, item, entry)
      BY <1>3, FirstEntryIsTheOneShown
<1>5. /\ DetailOf(object, item).binding = object.binding
      /\ DetailOf(object, item).content.candidate = entry.candidate
      /\ DetailOf(object, item).content.assessment = entry.assessment
      /\ DetailOf(object, item).content.receipt = entry.receipt
      BY DEF DetailOf, Sealed
<1> HIDE DEF entry
<1> QED
    BY <1>2, <1>3, <1>4, <1>5 DEF DetailsEntry

(* A handoff that is no refusal is of an intact detail, for the request    *)
(* and the hardware that it was found for.                                 *)
LEMMA HandoffsAreOfDetails ==
    ASSUME NEW given, Intact(CreateRunnerHandoff(given))
    PROVE  /\ Intact(given.detail)
           /\ given.detail.binding = [request |-> given.request, hardware |-> given.hardware]
           /\ CreateRunnerHandoff(given) = Sealed(HandoffContent(given), given.detail.content)
<1>1. \A status, reason : ~Intact(Unsealed(Refusal(status, reason)))
      BY DEF Intact, Unsealed
<1> QED
    BY <1>1 DEF CreateRunnerHandoff

(* A bundle that is no refusal is of an intact handoff of the detail.      *)
LEMMA BundlesAreOfHandoffs ==
    ASSUME NEW given, NEW details, IsData(CreateRunnerImportBundle(given, details))
    PROVE  /\ Intact(given) /\ given.binding = details.content
           /\ BundleContract(CreateRunnerImportBundle(given, details).data)
           /\ CreateRunnerImportBundle(given, details).data
                 = Hashed([handoff |-> given.content.data, receipt |-> details.content.receipt,
                           hash |-> None])
<1> DEFINE data == Hashed([handoff |-> given.content.data, receipt |-> details.content.receipt,
                           hash |-> None])
<1>1. \A reason : ~IsData(Refusal("blocked", reason))
      BY DEF IsData, Refusal
<1> HIDE DEF data
<1>2. /\ ImportBundleInput(given, details) /\ BundleContract(data)
      /\ CreateRunnerImportBundle(given, details) = [status |-> given.content.status, data |-> data]
      BY <1>1 DEF CreateRunnerImportBundle, data
<1> QED
    BY <1>2 DEF ImportBundleInput, data

(* A session with a universe remembers what it was asked for.              *)
LEMMA SessionsAreBound ==
    ASSUME NEW request, NEW hardware, NEW rules, NEW answer
    PROVE  LET found == SessionOf(request, hardware, rules, answer)
           IN  /\ "brand" \in DOMAIN found
               /\ found.content.universe # None =>
                     found.binding = [request |-> request, hardware |-> hardware]
<1> DEFINE found == SessionOf(request, hardware, rules, answer)
           admitted == AdmittedUniverse(answer.universe)
           portfolio == BuildRecommendationPortfolio(request, admitted, rules)
<1>1. \A status, reason : /\ FailedSession(status, reason).content.universe = None
                          /\ "brand" \in DOMAIN FailedSession(status, reason)
      BY DEF FailedSession, Sealed
<1> DEFINE Failed(x) == x.content.universe = None /\ "brand" \in DOMAIN x
<1>2. Failed(found) \/ found = EvaluatedSession(request, hardware, admitted, portfolio)
      BY <1>1, Zenon DEF SessionOf
<1> HIDE DEF found, admitted, portfolio
<1> QED
    BY <1>2 DEF EvaluatedSession, Sealed, found

(* A detail is an object.                                                  *)
LEMMA DetailsAreObjects ==
    ASSUME NEW given, NEW candidate
    PROVE  "brand" \in DOMAIN GetExactConfigurationDetail(given, candidate)
<1>1. \A status, reason : "brand" \in DOMAIN Unsealed(Refusal(status, reason))
      BY DEF Unsealed
<1>2. \A item : "brand" \in DOMAIN DetailOf(given, item)
      BY DEF DetailOf, Sealed
<1> QED
    BY <1>1, <1>2 DEF GetExactConfigurationDetail

(* It is intact only if its session was, with a universe to look it up in. *)
LEMMA DetailsAreOfSessions ==
    ASSUME NEW given, NEW candidate, Intact(GetExactConfigurationDetail(given, candidate))
    PROVE  Intact(given) /\ given.content.universe # None
<1>1. \A status, reason : ~Intact(Unsealed(Refusal(status, reason)))
      BY DEF Intact, Unsealed
<1> QED
    BY <1>1 DEF GetExactConfigurationDetail

(* A handoff is an object.                                                 *)
LEMMA HandoffsAreObjects ==
    ASSUME NEW given
    PROVE  "brand" \in DOMAIN CreateRunnerHandoff(given)
<1>1. /\ \A status, reason : "brand" \in DOMAIN Unsealed(Refusal(status, reason))
      /\ "brand" \in DOMAIN Sealed(HandoffContent(given), given.detail.content)
      BY DEF Unsealed, Sealed
<1> QED
    BY <1>1 DEF CreateRunnerHandoff

(* The entry was shown in the evaluation.                                  *)
ShownIn(e, entry) ==
    /\ entry \in Eligible(e.request, e.session.universe)
    /\ ToPortfolioItem(entry) \in e.session.portfolio.items

(* The session is of the evaluation.                                       *)
SessionOfOne(given, e) ==
    e.session = given.content /\ given.binding = [request |-> e.request, hardware |-> e.hardware]

(* The detail, the handoff, the bundle are of one evaluation, and of one   *)
(* entry that was shown in it.                                             *)
DetailOfOne(given, e, entry) ==
    /\ ShownIn(e, entry)
    /\ given.binding = [request |-> e.request, hardware |-> e.hardware]
    /\ given.content.candidate = entry.candidate
    /\ given.content.assessment = entry.assessment
    /\ given.content.receipt = entry.receipt

DataOfOne(data, e, entry) ==
    /\ ShownIn(e, entry)
    /\ data.request = e.request /\ data.hardware = e.hardware
    /\ data.candidate = entry.candidate /\ data.assessment = entry.assessment
    /\ {"created", "expires"} \subseteq DOMAIN data
    /\ data.created \in Nat /\ data.expires \in Int

HandoffOfOne(given, e, entry) ==
    DataOfOne(given.content.data, e, entry) /\ given.binding.receipt = entry.receipt

BundleOfOne(data, e, entry) ==
    /\ DataOfOne(data.handoff, e, entry) /\ data.receipt = entry.receipt
    /\ "handoff" \in DOMAIN data /\ HandoffContract(data.handoff)

(* Of an evaluation that the finder has returned.                          *)
SessionInv ==
    /\ now \in Nat
    /\ session # None =>
          /\ "brand" \in DOMAIN session
          /\ session.content.universe # None => \E e \in evaluated : SessionOfOne(session, e)
DetailInv ==
    detail # None =>
       /\ "brand" \in DOMAIN detail
       /\ Intact(detail) =>
             \E e \in evaluated : \E entry \in ToSet(e.session.universe.entries) :
                DetailOfOne(detail, e, entry)
HandoffInv ==
    handoff # None =>
       /\ "brand" \in DOMAIN handoff
       /\ Intact(handoff) =>
             \E e \in evaluated : \E entry \in ToSet(e.session.universe.entries) :
                HandoffOfOne(handoff, e, entry)
BundleInv ==
    bundle # None /\ IsData(bundle) =>
       \E e \in evaluated : \E entry \in ToSet(e.session.universe.entries) :
          BundleOfOne(bundle.data, e, entry)
ExportInv == SessionInv /\ DetailInv /\ HandoffInv /\ BundleInv

(* What was evaluated stays so, and what is of an evaluation with it.      *)
LEMMA EvaluationsStay ==
    ASSUME ExportInv, evaluated \subseteq evaluated', UNCHANGED <<detail, handoff, bundle>>
    PROVE  DetailInv' /\ HandoffInv' /\ BundleInv'
<1>1. DetailInv'
      BY DEF ExportInv, DetailInv
<1>2. HandoffInv'
      BY DEF ExportInv, HandoffInv
<1>3. BundleInv'
      BY DEF ExportInv, BundleInv
<1> QED
    BY <1>1, <1>2, <1>3

(* Each call takes only intact objects, and hands their origin on.         *)
LEMMA ExportIsInvariant == Spec => []ExportInv
<1>1. Init => ExportInv
      BY DEF Init, ExportInv, SessionInv, DetailInv, HandoffInv, BundleInv
<1>2. EvaluatedInv /\ ExportInv /\ [Next]_vars => ExportInv'
  <2> SUFFICES ASSUME EvaluatedInv, ExportInv, [Next]_vars
               PROVE  ExportInv'
      OBVIOUS
  <2>1. CASE FindConfigurations
    <3> DEFINE failed == FailedSession("blocked", "orchestrator.finder-input-invalid")
    <3>1. (session' = failed \/ UNCHANGED session) /\ UNCHANGED <<evaluated, detail, handoff, bundle, now>>
          BY <2>1 DEF FindConfigurations
    <3>2. "brand" \in DOMAIN failed /\ failed.content.universe = None
          BY DEF FailedSession, Sealed
    <3> HIDE DEF failed
    <3>3. SessionInv'
          BY <3>1, <3>2 DEF ExportInv, SessionInv
    <3> QED
        BY <3>1, <3>3, EvaluationsStay DEF ExportInv
  <2>2. ASSUME NEW provider \in Providers(facts.reach), UniverseLoaded(provider)
        PROVE  ExportInv'
    <3> DEFINE found == SessionOf(pending.request, pending.hardware, input.policy, AnswerOf(provider))
               e == [request |-> pending.request, hardware |-> pending.hardware,
                     session |-> found.content]
    <3>1. /\ session' = found
          /\ evaluated' = IF found.content.universe = None THEN evaluated ELSE evaluated \cup {e}
          /\ UNCHANGED <<detail, handoff, bundle, now>>
          BY <2>2 DEF UniverseLoaded
    <3>2. /\ "brand" \in DOMAIN found
          /\ found.content.universe # None =>
                found.binding = [request |-> pending.request, hardware |-> pending.hardware]
          BY SessionsAreBound
    <3>3. /\ e.session = found.content
          /\ e.request = pending.request /\ e.hardware = pending.hardware
          OBVIOUS
    <3> HIDE DEF e, found
    <3>4. evaluated \subseteq evaluated'
          BY <3>1
    <3>5. found.content.universe # None => e \in evaluated' /\ SessionOfOne(found, e)
          BY <3>1, <3>2, <3>3 DEF SessionOfOne
    <3>6. SessionInv'
          BY <3>1, <3>2, <3>5 DEF ExportInv, SessionInv
    <3> QED
        BY <3>1, <3>4, <3>6, EvaluationsStay DEF ExportInv
  <2>3. ASSUME NEW candidate \in Candidates, OpenDetail(candidate)
        PROVE  ExportInv'
    <3>1. PICK given \in {session, Copied(session)} :
                  detail' = GetExactConfigurationDetail(given, candidate)
          BY <2>3 DEF OpenDetail
    <3>2. /\ session # None /\ "brand" \in DOMAIN session
          /\ UNCHANGED <<evaluated, session, handoff, bundle, now>>
          BY <2>3 DEF OpenDetail, asking, ExportInv, SessionInv
    <3>3. Intact(given) => given = session
          BY <3>1, <3>2, CopiesAreKnown
    <3>4. "brand" \in DOMAIN detail'
          BY <3>1, DetailsAreObjects
    <3>5. ASSUME Intact(detail')
          PROVE  \E e \in evaluated : \E entry \in ToSet(e.session.universe.entries) :
                    DetailOfOne(detail', e, entry)
      <4>1. given = session /\ session.content.universe # None
            BY <3>1, <3>3, <3>5, DetailsAreOfSessions
      <4>2. PICK e \in evaluated : SessionOfOne(session, e)
            BY <3>2, <4>1 DEF ExportInv, SessionInv
      <4>3. FoundFor(session.content, e.request) /\ Listed(session.content.universe)
            BY <4>2 DEF EvaluatedInv, SessionOfOne
      <4>4. PICK item \in session.content.portfolio.items,
                 entry \in Eligible(e.request, session.content.universe) :
               /\ DetailsEntry(session.content, e.request, item, entry)
               /\ detail'.binding = session.binding
               /\ detail'.content.candidate = entry.candidate
               /\ detail'.content.assessment = entry.assessment
               /\ detail'.content.receipt = entry.receipt
            BY <3>1, <3>5, <4>1, <4>3, DetailsAreOfShownEntries
      <4>5. DetailOfOne(detail', e, entry)
            BY <4>2, <4>4 DEF DetailOfOne, ShownIn, DetailsEntry, SessionOfOne
      <4> QED
          BY <4>2, <4>5 DEF DetailOfOne, ShownIn, Eligible
    <3>6. DetailInv'
          BY <3>2, <3>4, <3>5 DEF DetailInv
    <3> QED
        BY <3>2, <3>6 DEF ExportInv, SessionInv, HandoffInv, BundleInv
  <2>4. CASE HandOff
    <3> DEFINE of(given) == [detail |-> given, now |-> now, request |-> input.request,
                             hardware |-> input.hardware]
    <3>1. /\ detail # None
          /\ \E given \in {detail, Copied(detail)} : handoff' = CreateRunnerHandoff(of(given))
          /\ UNCHANGED <<evaluated, session, detail, bundle, now>>
          BY <2>4 DEF HandOff, asking
    <3>2. PICK given \in {detail, Copied(detail)} : handoff' = CreateRunnerHandoff(of(given))
          BY <3>1
    <3>3. Intact(given) => given = detail
          BY <3>1, <3>2, CopiesAreKnown DEF ExportInv, DetailInv
    <3>4. "brand" \in DOMAIN handoff'
          BY <3>2, HandoffsAreObjects
    <3>5. ASSUME Intact(handoff')
          PROVE  \E e \in evaluated : \E entry \in ToSet(e.session.universe.entries) :
                    HandoffOfOne(handoff', e, entry)
      <4>1. /\ Intact(of(given).detail)
            /\ of(given).detail.binding = [request |-> of(given).request, hardware |-> of(given).hardware]
            /\ handoff' = Sealed(HandoffContent(of(given)), of(given).detail.content)
            BY <3>2, <3>5, HandoffsAreOfDetails
      <4>2. given = detail
            BY <3>3, <4>1
      <4>3. PICK e \in evaluated : \E entry \in ToSet(e.session.universe.entries) :
                                      DetailOfOne(detail, e, entry)
            BY <3>1, <4>1, <4>2 DEF ExportInv, DetailInv
      <4>4. PICK entry \in ToSet(e.session.universe.entries) : DetailOfOne(detail, e, entry)
            BY <4>3
      <4>5. input.request = e.request /\ input.hardware = e.hardware
            BY <4>1, <4>2, <4>4 DEF DetailOfOne
      <4> DEFINE data == handoff'.content.data
      <4>6. /\ data.created = now /\ data.expires = now + Lifetime
            /\ data.request = input.request /\ data.hardware = input.hardware
            /\ data.candidate = detail.content.candidate
            /\ data.assessment = detail.content.assessment
            /\ {"created", "expires"} \subseteq DOMAIN data
            /\ handoff'.binding = detail.content
            BY <4>1, <4>2 DEF HandoffContent, Hashed, Sealed
      <4> HIDE DEF data
      <4>7. now \in Nat /\ now + Lifetime \in Int
            BY TimeAssumption DEF ExportInv, SessionInv
      <4>8. DataOfOne(data, e, entry) /\ handoff'.binding.receipt = entry.receipt
            BY <4>4, <4>5, <4>6, <4>7 DEF DetailOfOne, DataOfOne
      <4> QED
          BY <4>8 DEF HandoffOfOne, data
    <3>6. HandoffInv'
          BY <3>1, <3>4, <3>5 DEF HandoffInv
    <3> QED
        BY <3>1, <3>6 DEF ExportInv, SessionInv, DetailInv, BundleInv
  <2>5. CASE Export
    <3>1. /\ handoff # None
          /\ UNCHANGED <<evaluated, session, detail, handoff, now>>
          BY <2>5 DEF Export, asking
    <3>2. PICK given \in {handoff, Copied(handoff)} : bundle' = CreateRunnerImportBundle(given, detail)
          BY <2>5 DEF Export
    <3>3. Intact(given) => given = handoff
          BY <3>1, <3>2, CopiesAreKnown DEF ExportInv, HandoffInv
    <3>4. ASSUME IsData(bundle')
          PROVE  \E e \in evaluated : \E entry \in ToSet(e.session.universe.entries) :
                    BundleOfOne(bundle'.data, e, entry)
      <4>1. /\ Intact(given) /\ given.binding = detail.content /\ BundleContract(bundle'.data)
            /\ bundle'.data = Hashed([handoff |-> given.content.data,
                                      receipt |-> detail.content.receipt, hash |-> None])
            BY <3>2, <3>4, BundlesAreOfHandoffs
      <4>2. PICK e \in evaluated : \E entry \in ToSet(e.session.universe.entries) :
                                      HandoffOfOne(handoff, e, entry)
            BY <3>1, <3>3, <4>1 DEF ExportInv, HandoffInv
      <4>3. PICK entry \in ToSet(e.session.universe.entries) : HandoffOfOne(handoff, e, entry)
            BY <4>2
      <4>4. /\ bundle'.data.handoff = handoff.content.data
            /\ bundle'.data.receipt = handoff.binding.receipt
            /\ "handoff" \in DOMAIN bundle'.data
            BY <3>3, <4>1 DEF Hashed
      <4>5. HandoffContract(bundle'.data.handoff)
            BY <4>1 DEF BundleContract
      <4>6. BundleOfOne(bundle'.data, e, entry)
            BY <4>3, <4>4, <4>5 DEF HandoffOfOne, BundleOfOne
      <4> QED
          BY <4>6
    <3>5. BundleInv'
          BY <3>1, <3>4 DEF BundleInv
    <3> QED
        BY <3>1, <3>5 DEF ExportInv, SessionInv, DetailInv, HandoffInv
  <2>6. CASE Tick
    <3>1. now' = now + 1 /\ UNCHANGED <<evaluated, session, detail, handoff, bundle>>
          BY <2>6 DEF Tick, asking, exporting
    <3>2. SessionInv'
          BY <3>1 DEF ExportInv, SessionInv
    <3> QED
        BY <3>1, <3>2, EvaluationsStay DEF ExportInv
  <2>7. CASE UNCHANGED <<evaluated, exporting, now>>
        BY <2>7 DEF exporting, ExportInv, SessionInv, DetailInv, HandoffInv, BundleInv
  <2>8. \/ FindConfigurations \/ HandOff \/ Export \/ Tick
        \/ \E provider \in Providers(facts.reach) : UniverseLoaded(provider)
        \/ \E candidate \in Candidates : OpenDetail(candidate)
        \/ UNCHANGED <<evaluated, exporting, now>>
        BY DEF Next, vars, asking, importing, previewing, DeriveRecord, AdmitProfile,
           AdmitPolicy, Assess, Compose, EditInput, InspectImport, ScanInventory,
           SelectArtifact, PreparePreview, EditPreparation, PlannerAnswers
  <2> QED
      BY <2>1, <2>2, <2>3, <2>4, <2>5, <2>6, <2>7, <2>8
<1> QED
    BY <1>1, <1>2, EvaluatedIsInvariant, PTL DEF Spec

(* The bundle of an evaluation is of what was judged to fit in it.         *)
LEMMA BundlesAreEvaluated ==
    ASSUME EvaluatedInv, RequestsInv, ExportInv, bundle # None, IsData(bundle)
    PROVE  /\ Evaluations(bundle.data.handoff, bundle.data.receipt) # {}
           /\ bundle.data.handoff.assessment.fit = "good"
           /\ bundle.data.handoff.candidate.context = Asks
<1> DEFINE data == bundle.data
<1>1. PICK e \in evaluated : \E entry \in ToSet(e.session.universe.entries) :
                                BundleOfOne(data, e, entry)
      BY DEF ExportInv, BundleInv
<1>2. PICK entry \in ToSet(e.session.universe.entries) : BundleOfOne(data, e, entry)
      BY <1>1
<1> HIDE DEF data
<1>3. FoundFor(e.session, e.request) /\ e.request.context = Asks
      BY DEF EvaluatedInv, RequestsInv
<1>4. ValidEntry(entry, e.session.universe)
      BY <1>3 DEF FoundFor, ToSet
<1>5. ShownIn(e, entry)
      BY <1>2 DEF BundleOfOne, DataOfOne
<1>6. /\ entry.kind = "candidate" /\ entry.assessment.fit = "good"
      /\ entry.candidate.context = Asks
      BY <1>3, <1>4, <1>5, EligibleEntriesFit DEF ShownIn
<1>7. e \in Evaluations(data.handoff, data.receipt)
      BY <1>2, <1>5, <1>6 DEF Evaluations, BundleOfOne, DataOfOne, ShownIn
<1> QED
    BY <1>2, <1>6, <1>7 DEF BundleOfOne, DataOfOne, data

(* What is exported was judged together and shown, however the caller's    *)
(* objects changed and whatever copies were passed.                        *)
THEOREM BundlesBindOneEvaluationAlways == Spec => []BundlesBindOneEvaluation
<1>1. EvaluatedInv /\ RequestsInv /\ ExportInv => BundlesBindOneEvaluation
      BY BundlesAreEvaluated DEF BundlesBindOneEvaluation, Asks
<1> QED
    BY <1>1, EvaluatedIsInvariant, RequestsAreInvariant, ExportIsInvariant, PTL

-----------------------------------------------------------------------------
(* From the file to the plan.  An inspection that is no refusal is of the  *)
(* exported bundle itself: a file that was changed on its way breaks the   *)
(* contract of the bundle.                                                 *)
LEMMA InspectionsAreOfTheBundle ==
    ASSUME ExportInv, bundle # None, IsData(bundle), NEW file \in Files, NEW intent,
           Intact(InspectRunnerImportBundle(file, now, intent))
    PROVE  LET content == InspectRunnerImportBundle(file, now, intent).content
           IN  /\ content.bundle = bundle.data
               /\ content.canImport => (content.expired => content.intent = "confirm-expired-import")
<1>1. \A reason : ~Intact(BlockedInspection(reason))
      BY DEF BlockedInspection, Intact, Unsealed
<1>2. /\ file.wellFormed /\ BundleContract(file.data)
      /\ InspectRunnerImportBundle(file, now, intent) = Inspection(file, now, intent)
      BY <1>1 DEF InspectRunnerImportBundle
<1>3. file.data = bundle.data \/ file.data = [bundle.data EXCEPT !.handoff.expires = @ + 1]
      BY DEF Files
<1> DEFINE handoffs == bundle.data.handoff
<1>4. /\ "handoff" \in DOMAIN bundle.data /\ {"created", "expires"} \subseteq DOMAIN handoffs
      /\ handoffs.created \in Nat /\ handoffs.expires \in Int
      /\ handoffs.expires - handoffs.created = Lifetime
      BY DEF ExportInv, BundleInv, BundleOfOne, DataOfOne, HandoffContract
<1>5. ASSUME file.data = [bundle.data EXCEPT !.handoff.expires = @ + 1]
      PROVE  FALSE
  <2>1. file.data.handoff = [handoffs EXCEPT !.expires = @ + 1]
        BY <1>4, <1>5
  <2>2. file.data.handoff.expires = handoffs.expires + 1
        BY <1>4, <2>1
  <2>3. file.data.handoff.created = handoffs.created
        BY <1>4, <2>1
  <2>4. file.data.handoff.expires - file.data.handoff.created = Lifetime
        BY <1>2 DEF BundleContract, HandoffContract
  <2> QED
      BY <1>4, <2>2, <2>3, <2>4, TimeAssumption
<1>6. file.data = bundle.data
      BY <1>3, <1>5
<1> DEFINE expired == now >= file.data.handoff.expires
           content == [status |-> "accepted", bundle |-> file.data, expired |-> expired,
                       intent |-> intent, canImport |-> ~expired \/ intent = "confirm-expired-import"]
<1>7. InspectRunnerImportBundle(file, now, intent).content = content
      BY <1>2 DEF Inspection, Sealed
<1>8. /\ content.bundle = bundle.data
      /\ content.canImport => (content.expired => content.intent = "confirm-expired-import")
      BY <1>6
<1> HIDE DEF content
<1> QED
    BY <1>7, <1>8

(* A selection that is no refusal is of a verified finding of the scan.    *)
Finding(content, scanned) ==
    \E a \in scanned.artifacts :
       a.path = content.path /\ a.resolution = "verified" /\ a.sha256 = content.sha256

(* The path of the selection is the one that was asked for.                *)
LEMMA SelectionsAreFindings ==
    ASSUME NEW given, NEW path, Intact(SelectVerifiedInventoryArtifact(given, path))
    PROVE  /\ Intact(given)
           /\ Finding(SelectVerifiedInventoryArtifact(given, path).content, given.content)
<1> DEFINE matches == {a \in given.content.artifacts : a.path = path}
           artifact == CHOOSE a \in matches : TRUE
<1>1. \A status, reason : ~Intact(Unsealed(Refusal(status, reason)))
      BY DEF Intact, Unsealed
<1>2. /\ Intact(given) /\ matches # {} /\ artifact.resolution = "verified"
      /\ SelectVerifiedInventoryArtifact(given, path) = SelectionOf(artifact)
      BY <1>1 DEF SelectVerifiedInventoryArtifact
<1>3. artifact \in given.content.artifacts
      BY <1>2
<1> HIDE DEF artifact
<1>4. /\ SelectionOf(artifact).content.path = artifact.path
      /\ SelectionOf(artifact).content.sha256 = artifact.sha256
      BY DEF SelectionOf, Sealed
<1> QED
    BY <1>2, <1>3, <1>4 DEF Finding

(* The runner's objects.                                                   *)
LEMMA RunnersAreObjects ==
    ASSUME NEW file, NEW intent, NEW store, NEW given, NEW path
    PROVE  /\ "brand" \in DOMAIN InspectRunnerImportBundle(file, now, intent)
           /\ "brand" \in DOMAIN ScannedSession(store)
           /\ "brand" \in DOMAIN SelectVerifiedInventoryArtifact(given, path)
<1>1. /\ \A content : "brand" \in DOMAIN Unsealed(content)
      /\ \A content, binding : "brand" \in DOMAIN Sealed(content, binding)
      BY DEF Unsealed, Sealed
<1>2. "brand" \in DOMAIN InspectRunnerImportBundle(file, now, intent)
      BY <1>1 DEF InspectRunnerImportBundle, BlockedInspection, Inspection
<1>3. "brand" \in DOMAIN ScannedSession(store)
      BY <1>1, Zenon DEF ScannedSession
<1>4. "brand" \in DOMAIN SelectVerifiedInventoryArtifact(given, path)
      BY <1>1 DEF SelectVerifiedInventoryArtifact, SelectionOf
<1> QED
    BY <1>2, <1>3, <1>4

(* What was imported is the exported bundle, what was selected a finding   *)
(* of the only scan, and both stay once the planner was asked.             *)
Exported == bundle # None /\ IsData(bundle)

ImportInv ==
    inspection # None \/ inventory # None =>
       /\ Exported /\ "brand" \in DOMAIN inspection
       /\ Intact(inspection) =>
             /\ inspection.content.bundle = bundle.data
             /\ inspection.content.canImport =>
                   (inspection.content.expired => inspection.content.intent = "confirm-expired-import")
SelectionInv ==
    /\ inventory # None => "brand" \in DOMAIN inventory
    /\ selection # None =>
          /\ inventory # None /\ "brand" \in DOMAIN selection
          /\ Intact(selection) => Finding(selection.content, inventory.content)
PlanningInv ==
    planning # None =>
       /\ Exported /\ selection # None
       /\ planning.import.bundle = bundle.data
       /\ planning.import.expired => planning.import.intent = "confirm-expired-import"
       /\ Finding(planning.selection, inventory.content)
       /\ planning.selection.sha256 = bundle.data.handoff.candidate.sha256
PreviewInv ==
    preview # None /\ preview.status = "ok" =>
       /\ planning # None
       /\ PlanBindsRequest(preview.plan, preparation, planning.import.bundle, planning.selection)
PreparingInv == ImportInv /\ SelectionInv /\ PlanningInv /\ PreviewInv

(* The planner is asked only for what may be imported, and matches.        *)
LEMMA UnrefusedPreviewsMatch ==
    ASSUME NEW asked, NEW givenImport, NEW givenSelection,
           PreviewRefusal(asked, givenImport, givenSelection) = None
    PROVE  /\ Intact(givenImport) /\ givenImport.content.canImport /\ Intact(givenSelection)
           /\ givenSelection.content.sha256 = givenImport.content.bundle.handoff.candidate.sha256
<1>1. /\ "action-invalid" # None /\ "import-not-allowed" # None /\ "inventory-not-intact" # None
      /\ "preparation-invalid" # None /\ "inventory-drift" # None
      BY PreviewReasonsAssumption
<1>2. /\ IsImportAllowedByInspection(givenImport) /\ Intact(givenSelection)
      /\ CandidateMatchesInventory(givenImport.content.bundle.handoff.candidate, givenSelection.content)
      BY <1>1 DEF PreviewRefusal
<1> QED
    BY <1>2 DEF IsImportAllowedByInspection, CandidateMatchesInventory

(* A preview without an error shows a plan that binds the request.         *)
LEMMA ShownPlansBind ==
    ASSUME NEW answer, NEW given, NEW bundled, NEW selected, answer.status # "ok",
           PreviewOf(answer, given, bundled, selected).status = "ok"
    PROVE  PlanBindsRequest(PreviewOf(answer, given, bundled, selected).plan, given, bundled, selected)
<1> DEFINE shown == PreviewOf(answer, given, bundled, selected)
<1>1. \A status, reason : Refusal(status, reason).status = status
      BY DEF Refusal
<1>2. /\ Refusal("error", "port-failed").status # "ok" /\ Refusal("error", "port-invalid").status # "ok"
      /\ Refusal(answer.status, answer.reason).status # "ok"
      /\ Refusal("blocked", "plan-binding-invalid").status # "ok"
      BY <1>1
<1>3. \/ shown.status # "ok"
      \/ /\ shown = [status |-> "ok", plan |-> answer.plan]
         /\ PlanBindsRequest(answer.plan, given, bundled, selected)
      BY <1>2, Zenon DEF PreviewOf
<1>4. shown = [status |-> "ok", plan |-> answer.plan] => shown.plan = answer.plan
      OBVIOUS
<1> HIDE DEF shown
<1> QED
    BY <1>3, <1>4 DEF shown

(* The steps of the runner keep it, each for the object it makes.          *)
LEMMA PreparingIsInvariant == Spec => []PreparingInv
<1>1. Init => PreparingInv
      BY DEF Init, PreparingInv, ImportInv, SelectionInv, PlanningInv, PreviewInv
<1>2. ExportInv /\ PreparingInv /\ [Next]_vars => PreparingInv'
  <2> SUFFICES ASSUME ExportInv, PreparingInv, [Next]_vars
               PROVE  PreparingInv'
      OBVIOUS
  <2>1. CASE Export
    <3>1. inspection = None /\ inventory = None /\ selection = None /\ planning = None
          BY <2>1 DEF Export, PreparingInv, ImportInv, SelectionInv, PlanningInv, Exported
    <3>2. UNCHANGED <<importing, previewing>>
          BY <2>1 DEF Export
    <3> QED
        BY <3>1, <3>2 DEF importing, previewing, PreparingInv, ImportInv, SelectionInv, PlanningInv,
           PreviewInv
  <2>2. ASSUME NEW intent, InspectImport(intent)
        PROVE  PreparingInv'
    <3>1. PICK file \in Files : inspection' = InspectRunnerImportBundle(file, now, intent)
          BY <2>2 DEF InspectImport
    <3>2. /\ Exported /\ planning = None
          /\ UNCHANGED <<bundle, inventory, selection, preparation, planning, preview>>
          BY <2>2 DEF InspectImport, Exported, exporting, previewing
    <3>3. "brand" \in DOMAIN inspection'
          BY <3>1, RunnersAreObjects
    <3>4. Intact(inspection') =>
             /\ inspection'.content.bundle = bundle.data
             /\ inspection'.content.canImport =>
                   (inspection'.content.expired => inspection'.content.intent = "confirm-expired-import")
          BY <3>1, <3>2, InspectionsAreOfTheBundle DEF Exported
    <3>5. ImportInv'
          BY <3>2, <3>3, <3>4 DEF ImportInv, Exported
    <3> QED
        BY <3>2, <3>5 DEF PreparingInv, SelectionInv, PlanningInv, PreviewInv
  <2>3. ASSUME NEW store, ScanInventory(store)
        PROVE  PreparingInv'
    <3>1. /\ inspection # None /\ inventory = None /\ inventory' = ScannedSession(store)
          /\ UNCHANGED <<bundle, inspection, selection, preparation, planning, preview>>
          BY <2>3 DEF ScanInventory, exporting, previewing
    <3>2. "brand" \in DOMAIN inventory'
          BY <3>1, RunnersAreObjects
    <3>3. selection = None /\ planning = None
          BY <3>1 DEF PreparingInv, SelectionInv, PlanningInv
    <3> QED
        BY <3>1, <3>2, <3>3 DEF PreparingInv, ImportInv, SelectionInv, PlanningInv, PreviewInv, Exported
  <2>4. ASSUME NEW path, SelectArtifact(path)
        PROVE  PreparingInv'
    <3>1. /\ inventory # None /\ selection = None
          /\ UNCHANGED <<bundle, inspection, inventory, preparation, planning, preview>>
          BY <2>4 DEF SelectArtifact, exporting, previewing
    <3>2. PICK given \in {inventory, Copied(inventory)} :
                  selection' = SelectVerifiedInventoryArtifact(given, path)
          BY <2>4 DEF SelectArtifact
    <3>3. "brand" \in DOMAIN selection'
          BY <3>2, RunnersAreObjects
    <3>4. Intact(given) => given = inventory
          BY <3>1, <3>2, CopiesAreKnown DEF PreparingInv, SelectionInv
    <3>5. Intact(selection') => Finding(selection'.content, inventory.content)
          BY <3>2, <3>4, SelectionsAreFindings
    <3>6. SelectionInv'
          BY <3>1, <3>3, <3>5 DEF PreparingInv, SelectionInv
    <3>7. planning = None
          BY <3>1 DEF PreparingInv, PlanningInv
    <3> QED
        BY <3>1, <3>6, <3>7 DEF PreparingInv, ImportInv, PlanningInv, PreviewInv, Exported
  <2>5. ASSUME NEW asked, PreparePreview(asked)
        PROVE  PreparingInv'
    <3>1. /\ selection # None /\ planning = None /\ preview = None
          /\ UNCHANGED <<bundle, inspection, inventory, selection>>
          BY <2>5 DEF PreparePreview, exporting, importing
    <3>2. PICK givenImport \in {inspection, Copied(inspection)},
               givenSelection \in {selection, Copied(selection)} :
             LET refusal == PreviewRefusal(asked, givenImport, givenSelection)
             IN  IF refusal # None
                 THEN /\ preview' = Refusal("blocked", refusal)
                      /\ UNCHANGED <<preparation, planning>>
                 ELSE /\ preparation' = asked
                      /\ planning' = [request |-> PlannerRequest(asked, givenImport, givenSelection),
                                      import |-> givenImport.content,
                                      selection |-> givenSelection.content]
                      /\ UNCHANGED preview
          BY <2>5 DEF PreparePreview
    <3>3. CASE PreviewRefusal(asked, givenImport, givenSelection) # None
      <4>1. preview'.status # "ok" /\ UNCHANGED planning
            BY <3>2, <3>3 DEF Refusal
      <4> QED
          BY <3>1, <4>1 DEF PreparingInv, ImportInv, SelectionInv, PlanningInv, PreviewInv, Exported
    <3>4. CASE PreviewRefusal(asked, givenImport, givenSelection) = None
      <4>1. /\ Intact(givenImport) /\ givenImport.content.canImport /\ Intact(givenSelection)
            /\ givenSelection.content.sha256 = givenImport.content.bundle.handoff.candidate.sha256
            BY <3>4, UnrefusedPreviewsMatch
      <4>2. givenImport = inspection /\ givenSelection = selection
            BY <3>1, <4>1, CopiesAreKnown DEF PreparingInv, ImportInv, SelectionInv
      <4>3. /\ planning'.import = inspection.content /\ planning'.selection = selection.content
            /\ UNCHANGED preview
            BY <3>2, <3>4, <4>2
      <4>4. /\ Exported /\ inspection.content.bundle = bundle.data
            /\ inspection.content.expired => inspection.content.intent = "confirm-expired-import"
            /\ Finding(selection.content, inventory.content)
            BY <3>1, <4>1, <4>2 DEF PreparingInv, ImportInv, SelectionInv
      <4>5. PlanningInv'
            BY <3>1, <4>1, <4>2, <4>3, <4>4 DEF PlanningInv, Exported
      <4> QED
          BY <3>1, <4>3, <4>5 DEF PreparingInv, ImportInv, SelectionInv, PreviewInv, Exported
    <3> QED
        BY <3>3, <3>4
  <2>6. ASSUME NEW asked, EditPreparation(asked)
        PROVE  PreparingInv'
    <3>1. /\ preview = None
          /\ UNCHANGED <<bundle, inspection, inventory, selection, planning, preview>>
          BY <2>6 DEF EditPreparation, exporting, importing
    <3> QED
        BY <3>1 DEF PreparingInv, ImportInv, SelectionInv, PlanningInv, PreviewInv, Exported
  <2>7. ASSUME NEW planner, PlannerAnswers(planner)
        PROVE  PreparingInv'
    <3> DEFINE answer == [kind |-> planner.kind, status |-> "blocked", reason |-> "planner",
                          plan |-> PlanOf(planning.request, planner)]
    <3>1. /\ planning # None
          /\ preview' = PreviewOf(answer, preparation, planning.import.bundle, planning.selection)
          /\ UNCHANGED <<bundle, inspection, inventory, selection, preparation, planning>>
          BY <2>7 DEF PlannerAnswers, exporting, importing
    <3>2. answer.status # "ok"
          OBVIOUS
    <3> HIDE DEF answer
    <3>3. preview'.status = "ok" =>
             PlanBindsRequest(preview'.plan, preparation, planning.import.bundle, planning.selection)
          BY <3>1, <3>2, ShownPlansBind
    <3>4. PreviewInv'
          BY <3>1, <3>3 DEF PreviewInv
    <3> QED
        BY <3>1, <3>4 DEF PreparingInv, ImportInv, SelectionInv, PlanningInv, Exported
  <2>8. CASE UNCHANGED <<bundle, importing, previewing>>
        BY <2>8 DEF importing, previewing, PreparingInv, ImportInv, SelectionInv, PlanningInv,
           PreviewInv, Exported
  <2>9. \/ Export
        \/ \E intent : InspectImport(intent)
        \/ \E store : ScanInventory(store)
        \/ \E path : SelectArtifact(path)
        \/ \E asked : PreparePreview(asked)
        \/ \E asked : EditPreparation(asked)
        \/ \E planner : PlannerAnswers(planner)
        \/ UNCHANGED <<bundle, importing, previewing>>
        BY DEF Next, vars, asking, exporting, DeriveRecord, AdmitProfile, AdmitPolicy, Assess,
           Compose, EditInput, FindConfigurations, UniverseLoaded, OpenDetail, HandOff, Tick
  <2> QED
      BY <2>1, <2>2, <2>3, <2>4, <2>5, <2>6, <2>7, <2>8, <2>9
<1> QED
    BY <1>1, <1>2, ExportIsInvariant, PTL DEF Spec

(* A plan that is previewed goes back to what was judged and shown, and to *)
(* a verified finding of the scan that is the judged artifact, even if the *)
(* caller's preview input changed while the planner worked.                *)
THEOREM PreparedPlansTraceBackAlways == Spec => []PreparedPlansTraceBack
<1>1. ASSUME EvaluatedInv, RequestsInv, ExportInv, PreparingInv,
             preview # None, preview.status = "ok"
      PROVE  LET plan == preview.plan
                 bundled == planning.import.bundle
             IN  /\ Evaluations(bundled.handoff, bundled.receipt) # {}
                 /\ plan.candidate = bundled.handoff.candidate.candidate
                 /\ plan.target = bundled.handoff.hardware.target
                 /\ \A part \in Asked(preparation) :
                       \E a \in inventory.content.artifacts :
                          /\ a.path = plan[part].path /\ a.resolution = "verified"
                          /\ a.sha256 = plan[part].sha256
                          /\ a.sha256 = bundled.handoff.candidate.sha256
                 /\ planning.import.expired => planning.import.intent = "confirm-expired-import"
  <2> DEFINE plan == preview.plan
  <2>1. /\ planning # None
        /\ PlanBindsRequest(plan, preparation, planning.import.bundle, planning.selection)
        BY <1>1 DEF PreparingInv, PreviewInv
  <2>2. /\ Exported /\ planning.import.bundle = bundle.data
        /\ planning.import.expired => planning.import.intent = "confirm-expired-import"
        /\ Finding(planning.selection, inventory.content)
        /\ planning.selection.sha256 = bundle.data.handoff.candidate.sha256
        BY <1>1, <2>1 DEF PreparingInv, PlanningInv
  <2>3. Evaluations(bundle.data.handoff, bundle.data.receipt) # {}
        BY <1>1, <2>2, BundlesAreEvaluated DEF Exported
  <2> HIDE DEF plan
  <2>4. /\ plan.candidate = bundle.data.handoff.candidate.candidate
        /\ plan.target = bundle.data.handoff.hardware.target
        /\ \A part \in Asked(preparation) :
              /\ plan[part].path = planning.selection.path
              /\ plan[part].sha256 = planning.selection.sha256
        BY <2>1, <2>2 DEF PlanBindsRequest
  <2>5. \A part \in Asked(preparation) :
           \E a \in inventory.content.artifacts :
              /\ a.path = plan[part].path /\ a.resolution = "verified"
              /\ a.sha256 = plan[part].sha256 /\ a.sha256 = bundle.data.handoff.candidate.sha256
        BY <2>2, <2>4 DEF Finding
  <2> QED
      BY <2>2, <2>3, <2>4, <2>5 DEF plan
<1>2. EvaluatedInv /\ RequestsInv /\ ExportInv /\ PreparingInv => PreparedPlansTraceBack
      BY <1>1 DEF PreparedPlansTraceBack
<1> QED
    BY <1>2, EvaluatedIsInvariant, RequestsAreInvariant, ExportIsInvariant, PreparingIsInvariant, PTL

-----------------------------------------------------------------------------
(* How many of the contexts S are no longer than c.                        *)
RankIn(S, c) == Cardinality({d \in S : d.tokens <= c.tokens})

(* Contexts of different lengths have the ranks from one to their number,  *)
(* each one of them, and the last is that of the longest.                  *)
LEMMA RanksAreNumbers ==
    ASSUME NEW S, IsFiniteSet(S), \A c \in S : c.tokens \in Nat,
           \A c, d \in S : c.tokens = d.tokens => c = d
    PROVE  /\ \A c \in S : RankIn(S, c) \in 1..Cardinality(S)
           /\ \A c, d \in S : RankIn(S, c) = RankIn(S, d) => c = d
           /\ \A k \in 1..Cardinality(S) : \E c \in S : RankIn(S, c) = k
           /\ \A c, d \in S : RankIn(S, c) = Cardinality(S) => d.tokens <= c.tokens
<1> DEFINE below(c) == {d \in S : d.tokens <= c.tokens}
           n == Cardinality(S)
<1>1. n \in Nat
      BY FS_CardinalityType
<1>2. \A c : RankIn(S, c) = Cardinality(below(c))
      BY DEF RankIn
<1>3. \A c \in S : c \in below(c) /\ below(c) \in SUBSET S
      OBVIOUS
<1>4. \A c \in S : c.tokens <= c.tokens
      OBVIOUS
<1>5. ASSUME NEW c \in S
      PROVE  IsFiniteSet(below(c)) /\ RankIn(S, c) \in 1..n
  <2>1. IsFiniteSet(below(c)) /\ Cardinality(below(c)) <= n
        BY <1>3, FS_Subset
  <2>2. Cardinality(below(c)) \in Nat /\ Cardinality(below(c)) # 0
        BY <1>3, <2>1, FS_CardinalityType, FS_EmptySet
  <2> QED
      BY <1>1, <1>2, <2>1, <2>2
<1>6. ASSUME NEW c \in S, NEW d \in S, c.tokens < d.tokens
      PROVE  RankIn(S, c) < RankIn(S, d)
  <2>1. below(c) \in SUBSET below(d) /\ d \in below(d) /\ d \notin below(c)
        BY <1>6
  <2>2. Cardinality(below(c)) <= Cardinality(below(d)) /\ Cardinality(below(d)) # Cardinality(below(c))
        BY <1>5, <2>1, FS_Subset
  <2>3. Cardinality(below(c)) \in Nat /\ Cardinality(below(d)) \in Nat
        BY <1>5, FS_CardinalityType
  <2> QED
      BY <1>2, <2>2, <2>3
<1>7. \A c, d \in S : RankIn(S, c) = RankIn(S, d) => c = d
  <2> SUFFICES ASSUME NEW c \in S, NEW d \in S, RankIn(S, c) = RankIn(S, d), c # d
               PROVE  FALSE
      OBVIOUS
  <2>1. RankIn(S, c) \in Nat
    <3>1. RankIn(S, c) \in 1..n
          BY <1>5
    <3> HIDE DEF n
    <3> QED
        BY <1>1, <3>1
  <2>2. c.tokens < d.tokens \/ d.tokens < c.tokens
        OBVIOUS
  <2> QED
      BY <1>6, <2>1, <2>2
<1>8. \A k \in 1..n : \E c \in S : RankIn(S, c) = k
  <2> DEFINE f == [c \in S |-> RankIn(S, c)]
  <2>1. f \in Injection(S, 1..n)
        BY <1>5, <1>7 DEF Injection, IsInjective
  <2>2. IsFiniteSet(1..n) /\ Cardinality(1..n) = n
        BY <1>1, FS_Interval
  <2> HIDE DEF f
  <2>3. f \in Surjection(S, 1..n)
        BY <2>1, <2>2, FS_Injection
  <2> QED
      BY <2>3 DEF Surjection, f
<1>9. \A c, d \in S : RankIn(S, c) = n => d.tokens <= c.tokens
  <2> SUFFICES ASSUME NEW c \in S, NEW d \in S, RankIn(S, c) = n
               PROVE  d \in below(c)
      OBVIOUS
  <2> QED
      BY <1>2, <1>3, FS_Subset
<1> QED
    BY <1>5, <1>7, <1>8, <1>9

(* A list that names nothing twice has as many members as places.          *)
LEMMA PlacesAreMembers ==
    ASSUME NEW n \in Nat, NEW f, \A i, j \in 1..n : f[i] = f[j] => i = j,
           NEW T, \A k \in 1..n : f[k] \in T, \A t \in T : \E k \in 1..n : t = f[k]
    PROVE  IsFiniteSet(T) /\ Cardinality(T) = n
<1> DEFINE g == [k \in 1..n |-> f[k]]
<1>1. IsFiniteSet(1..n) /\ Cardinality(1..n) = n
      BY FS_Interval
<1>2. g \in Bijection(1..n, T)
      BY DEF Bijection, Injection, Surjection, IsInjective
<1> HIDE DEF g
<1>3. ExistsBijection(1..n, T)
      BY <1>2 DEF ExistsBijection
<1> QED
    BY <1>1, <1>3, FS_Bijection

(* The n contexts of a list, each once and the longest last.               *)
SortsByLength(sorted, n, contexts) ==
    /\ n \in Nat
    /\ DOMAIN sorted = 1..n
    /\ Len(sorted) = n
    /\ \A k \in 1..n : sorted[k] \in ToSet(contexts)
    /\ \A c \in ToSet(contexts) : \E k \in 1..n : c = sorted[k]
    /\ \A i, j \in 1..n : sorted[i].tokens = sorted[j].tokens => i = j
    /\ \A k \in 1..n : sorted[k].tokens <= sorted[n].tokens

(* That is what the contexts by their lengths are.                         *)
LEMMA ByLengthSorts ==
    ASSUME NEW contexts, contexts \in Seq(ToSet(contexts)), DistinctContexts(contexts),
           NEW sorted, sorted = ByLength(contexts), NEW n, n = Len(contexts)
    PROVE  SortsByLength(sorted, n, contexts)
<1> DEFINE S == ToSet(contexts)
<1>1. n \in Nat /\ DOMAIN contexts = 1..n /\ S = {contexts[k] : k \in 1..n}
      BY DEF ToSet
<1>2. \A d \in S : d.tokens \in Nat
      BY MaxSafeAssumption DEF DistinctContexts, Positive
<1>3. \A i, j \in 1..n : contexts[i].tokens = contexts[j].tokens => i = j
      BY <1>1, Zenon DEF DistinctContexts
<1>4. \A d, e \in S : d.tokens = e.tokens => d = e
      BY <1>1, <1>3
<1>5. \A i, j \in 1..n : contexts[i] = contexts[j] => i = j
      BY <1>3
<1>6. IsFiniteSet(S) /\ Cardinality(S) = n
  <2>1. \A k \in 1..n : contexts[k] \in S
        BY <1>1
  <2>2. \A d \in S : \E k \in 1..n : d = contexts[k]
        BY <1>1
  <2> HIDE DEF S
  <2> QED
      BY <1>1, <1>5, <2>1, <2>2, PlacesAreMembers
<1>7. sorted = [k \in 1..n |-> CHOOSE d \in S : RankIn(S, d) = k]
      BY <1>1 DEF ByLength, RankIn
<1>8. /\ \A d \in S : RankIn(S, d) \in 1..n
      /\ \A d, e \in S : RankIn(S, d) = RankIn(S, e) => d = e
      /\ \A k \in 1..n : \E d \in S : RankIn(S, d) = k
      /\ \A d, e \in S : RankIn(S, d) = n => e.tokens <= d.tokens
      BY <1>2, <1>4, <1>6, RanksAreNumbers
<1> HIDE DEF S
<1>9. \A k \in 1..n : sorted[k] \in S /\ RankIn(S, sorted[k]) = k
      BY <1>7, <1>8
<1>10. \A d \in S : \E k \in 1..n : d = sorted[k]
       BY <1>8, <1>9
<1>11. \A i, j \in 1..n : sorted[i].tokens = sorted[j].tokens => i = j
       BY <1>4, <1>9
<1>12. \A k \in 1..n : sorted[k].tokens <= sorted[n].tokens
  <2> SUFFICES ASSUME NEW k \in 1..n
               PROVE  sorted[k].tokens <= sorted[n].tokens
      OBVIOUS
  <2>1. n \in 1..n
        BY <1>1
  <2> QED
      BY <1>8, <1>9, <2>1
<1>13. DOMAIN sorted = 1..n /\ Len(sorted) = n
  <2>1. sorted \in [1..n -> S]
        BY <1>7, <1>9
  <2>2. n \in Nat /\ DOMAIN sorted = 1..n
        BY <1>1, <1>7
  <2>3. sorted \in Seq(S)
        BY <2>1, <2>2, SeqDef
  <2> QED
      BY <2>2, <2>3, LenProperties
<1> QED
    BY <1>1, <1>9, <1>10, <1>11, <1>12, <1>13 DEF S, SortsByLength

(* What fitMemoryPools computes for the pool at this length, on a machine  *)
(* of all the memory there can be, is what was observed.                   *)
Reproduces(pool, observed, tokens) ==
    LET result == FitPool(pool, MaxSafe, 0, 0, tokens)
    IN  SamePool(observed, result) /\ result.required = PoolBytes(observed)

(* A pool that is derived reproduces every observation it is derived from. *)
LEMMA DerivedPoolReproduces ==
    ASSUME NEW seen, NEW n \in Nat \ {0}, DOMAIN seen = 1..n, DerivePool(seen) # None,
           \A k \in 1..n : Positive(seen[k].tokens) /\ NonNegativePool(seen[k].pool)
    PROVE  /\ ValidPool(DerivePool(seen)) /\ DerivePool(seen).model = seen[1].pool.model
           /\ \A k \in 1..n : seen[k].pool.model = seen[1].pool.model
           /\ \A k \in 1..n : Reproduces(DerivePool(seen), seen[k].pool, seen[k].tokens)
<1> DEFINE pool == LinearPool(seen)
<1>1. DerivePool(seen) = pool /\ TwoContextsAgree(seen)
      BY DEF DerivePool
<1>2. \A k \in 1..n :
         /\ Scale(pool.context, seen[k].tokens, pool.reference) = seen[k].pool.context
         /\ pool.compute + Scale(pool.computeContext, seen[k].tokens, pool.reference)
               = seen[k].pool.compute
      BY DEF DerivePool
<1>3. \A k \in 1..n : seen[k].pool.model = seen[1].pool.model
      BY <1>1 DEF TwoContextsAgree
<1>4. NonNegative(pool.computeContext) /\ pool.compute >= 0
      BY <1>1 DEF TwoContextsAgree
<1>5. /\ pool.model = seen[1].pool.model /\ pool.context = seen[1].pool.context
      /\ pool.reference = seen[1].tokens
      /\ pool.compute = seen[1].pool.compute - pool.computeContext
      BY DEF LinearPool
<1> HIDE DEF pool
<1>6. 1 \in 1..n
      OBVIOUS
<1>7. \A k \in 1..n : /\ seen[k].pool.model \in 0..MaxSafe /\ seen[k].pool.context \in 0..MaxSafe
                      /\ seen[k].pool.compute \in 0..MaxSafe
      BY DEF NonNegativePool, NonNegative
<1>8. ValidPool(pool)
  <2>1. NonNegative(pool.model) /\ NonNegative(pool.context) /\ Positive(pool.reference)
        BY <1>5, <1>6, <1>7 DEF NonNegative
  <2>2. NonNegative(pool.compute)
        BY <1>4, <1>5, <1>6, <1>7, MaxSafeAssumption DEF NonNegative
  <2> QED
      BY <1>4, <2>1, <2>2 DEF ValidPool
<1>9. ASSUME NEW k \in 1..n
      PROVE  Reproduces(pool, seen[k].pool, seen[k].tokens)
  <2> DEFINE o == seen[k].pool
             result == FitPool(pool, MaxSafe, 0, 0, seen[k].tokens)
             workload == o.model + o.context + o.compute
  <2>1. /\ result.model = o.model /\ result.context = o.context /\ result.compute = o.compute
        BY <1>2, <1>3, <1>5 DEF FitPool
  <2>2. result.required = workload + 0 + Scale(workload, 0, BasisPoints)
        BY <1>2, <1>3, <1>5 DEF FitPool
  <2>3. workload \in Nat
        BY <1>7, MaxSafeAssumption
  <2> HIDE DEF workload
  <2>4. Scale(workload, 0, BasisPoints) = 0
        BY <2>3 DEF Scale, BasisPoints
  <2>5. result.required = workload
        BY <2>2, <2>3, <2>4
  <2> HIDE DEF result
  <2> QED
      BY <2>1, <2>5 DEF Reproduces, SamePool, PoolBytes, workload, result
<1> QED
    BY <1>1, <1>3, <1>5, <1>8, <1>9

(* A record of two valid pools agrees with an observation they reproduce,  *)
(* of bytes that are exact integers.                                       *)
LEMMA ReproducedObservationAgrees ==
    ASSUME NEW record, NEW o, record.mode = "split",
           Positive(record.allocation.maxContext), Positive(o.tokens),
           ValidPool(record.allocation.device), ValidPool(record.allocation.host),
           Reproduces(record.allocation.device, o.device, o.tokens),
           Reproduces(record.allocation.host, o.host, o.tokens),
           o.device # None, PoolBytes(o.device) <= MaxSafe, PoolBytes(o.host) <= MaxSafe
    PROVE  ObservationAgrees(record, o)
<1> DEFINE device == FitPool(record.allocation.device, MaxSafe, 0, 0, o.tokens)
           host == FitPool(record.allocation.host, MaxSafe, 0, 0, o.tokens)
           result == FitMemoryPools(record.allocation, AllRam, o.tokens)
<1>1. device.required <= MaxSafe /\ host.required <= MaxSafe
      BY DEF Reproduces
<1>2. SamePool(o.device, device) /\ SamePool(o.host, host)
      BY DEF Reproduces
<1>3. ValidPoolHardware(AllRam)
      BY MaxSafeAssumption DEF ValidPoolHardware, AllRam, Positive, NonNegative, BasisPoints
<1>4. /\ AllRam.device = MaxSafe /\ AllRam.host = MaxSafe /\ AllRam.deviceReserve = 0
      /\ AllRam.hostReserve = 0 /\ AllRam.marginBps = 0
      BY DEF AllRam
<1>5. ~result.thrown /\ result.device = device /\ result.host = host
  <2> HIDE DEF device, host
  <2> QED
      BY <1>1, <1>3, <1>4 DEF FitMemoryPools, device, host
<1> HIDE DEF device, host, result
<1> QED
    BY <1>2, <1>5 DEF ObservationAgrees, result

(* A list of contexts, each with a list of attempts.                       *)
ListedContexts(contexts) ==
    /\ contexts \in Seq(ToSet(contexts))
    /\ \A c \in ToSet(contexts) : c.attempts \in Seq(ToSet(c.attempts))

(* Attempts of which none is reported were all completed, so that the      *)
(* first of each context has seen both pools.                              *)
LEMMA FirstAttemptsHavePools ==
    ASSUME NEW contexts, ListedContexts(contexts), ValidContexts(contexts),
           AttemptsIssue(contexts) = None
    PROVE  \A c \in ToSet(contexts) :
              /\ Positive(c.tokens)
              /\ NonNegativePool(c.attempts[1].device) /\ NonNegativePool(c.attempts[1].host)
<1> DEFINE incomplete(c) == \E a \in ToSet(c.attempts) : a.status # "completed"
           disagrees(c) == \E a \in ToSet(c.attempts) :
                              a.device # c.attempts[1].device \/ a.host # c.attempts[1].host
           faulty == {k \in DOMAIN contexts : incomplete(contexts[k]) \/ disagrees(contexts[k])}
<1>1. faulty = {}
      BY AttemptReasonsAssumption DEF AttemptsIssue
<1>2. \A k \in DOMAIN contexts : ~incomplete(contexts[k])
      BY <1>1
<1>3. ASSUME NEW c \in ToSet(contexts)
      PROVE  /\ Positive(c.tokens)
             /\ NonNegativePool(c.attempts[1].device) /\ NonNegativePool(c.attempts[1].host)
  <2>1. \A a \in ToSet(c.attempts) : a.status = "completed"
        BY <1>2 DEF ToSet
  <2>2. /\ Positive(c.tokens) /\ Len(c.attempts) >= 2
        /\ \A a \in ToSet(c.attempts) : ValidAttempt(a)
        BY DEF ValidContexts, DistinctContexts
  <2>3. c.attempts \in Seq(ToSet(c.attempts))
        BY DEF ListedContexts
  <2>4. 1 \in 1..Len(c.attempts)
        BY <2>2, <2>3, LenProperties
  <2>5. c.attempts[1] \in ToSet(c.attempts)
        BY <2>3, <2>4, ElementOfSeq
  <2> QED
      BY <2>1, <2>2, <2>5 DEF ValidAttempt
<1> QED
    BY <1>3

(* What the contexts of a list held in one of the pools.                   *)
SeenIn(contexts, part) ==
    [k \in DOMAIN contexts |-> [tokens |-> contexts[k].tokens, pool |-> contexts[k].attempts[1][part]]]

(* What is proposed is the record of the two derived pools, of a bundle    *)
(* that is valid and whose attempts agree.                                 *)
LEMMA ProposalsAreDerived ==
    ASSUME NEW parcel, NEW trusted,
           DeriveProposedProfile(parcel, trusted).kind = "proposed-unreviewed"
    PROVE  LET sorted == ByLength(parcel.contexts)
           IN  /\ ValidateCollectionBundle(parcel).kind = "ok"
               /\ AttemptsIssue(parcel.contexts) = None
               /\ DerivePool(SeenIn(sorted, "device")) # None
               /\ DerivePool(SeenIn(sorted, "host")) # None
               /\ DeriveProposedProfile(parcel, trusted).record
                     = ProposedRecord(parcel, sorted, DerivePool(SeenIn(sorted, "device")),
                                      DerivePool(SeenIn(sorted, "host")))
<1>1. ValidateCollectionBundle(parcel).kind \in {"ok", "blocked"}
      BY DEF ValidateCollectionBundle, Blocked
<1>2. ValidateCollectionBundle(parcel).kind # "blocked"
      BY DEF DeriveProposedProfile
<1> QED
    BY <1>1, <1>2 DEF DeriveProposedProfile, SeenIn, Blocked

(* What a valid bundle is.                                                 *)
LEMMA ValidBundles ==
    ASSUME NEW parcel, ValidateCollectionBundle(parcel).kind = "ok"
    PROVE  /\ ValidProducers(parcel) /\ ValidContexts(parcel.contexts) /\ OneAccelerator(parcel)
           /\ parcel.candidate.context \in Lengths(parcel) /\ Cardinality(Lengths(parcel)) >= 2
BY DEF ValidateCollectionBundle, Blocked

(* The pools that a record was observed with.                              *)
ObservedPools(record) == UNION {{o.device, o.host} : o \in record.observations}

(* A pool derived from what the contexts held reproduces it as well.       *)
LEMMA SeenPoolReproduces ==
    ASSUME NEW contexts, NEW part, NEW n \in Nat \ {0}, DOMAIN contexts = 1..n,
           NEW pool, pool = DerivePool(SeenIn(contexts, part)), pool # None,
           \A k \in 1..n : Positive(contexts[k].tokens) /\ NonNegativePool(contexts[k].attempts[1][part])
    PROVE  /\ ValidPool(pool)
           /\ \A k \in 1..n : contexts[k].attempts[1][part].model = pool.model
           /\ \A k \in 1..n : Reproduces(pool, contexts[k].attempts[1][part], contexts[k].tokens)
<1> DEFINE seen == SeenIn(contexts, part)
<1>1. DOMAIN seen = 1..n
      BY DEF SeenIn
<1>2. \A k \in 1..n : /\ seen[k].tokens = contexts[k].tokens
                      /\ seen[k].pool = contexts[k].attempts[1][part]
      BY DEF SeenIn
<1>3. pool = DerivePool(seen)
      OBVIOUS
<1> HIDE DEF seen
<1>4. \A k \in 1..n : Positive(seen[k].tokens) /\ NonNegativePool(seen[k].pool)
      BY <1>2
<1>5. /\ ValidPool(pool) /\ pool.model = seen[1].pool.model
      /\ \A k \in 1..n : seen[k].pool.model = seen[1].pool.model
      /\ \A k \in 1..n : Reproduces(pool, seen[k].pool, seen[k].tokens)
      BY <1>1, <1>3, <1>4, DerivedPoolReproduces
<1> QED
    BY <1>2, <1>5

(* The observation of a proposed record at its k-th context.               *)
Reading(sorted, k) ==
    [id |-> k, tokens |-> sorted[k].tokens, stamped |-> TRUE,
     device |-> sorted[k].attempts[1].device, host |-> sorted[k].attempts[1].host]

Readings(sorted, n) == {Reading(sorted, k) : k \in 1..n}

LengthsOf(readings) == {o.tokens : o \in readings}

(* Its parts.                                                              *)
LEMMA ReadingsAre ==
    ASSUME NEW sorted, NEW k
    PROVE  /\ Reading(sorted, k).id = k /\ Reading(sorted, k).tokens = sorted[k].tokens
           /\ Reading(sorted, k).stamped
           /\ Reading(sorted, k).device = sorted[k].attempts[1]["device"]
           /\ Reading(sorted, k).host = sorted[k].attempts[1]["host"]
BY DEF Reading

(* There is one observation for each length, and no length but the         *)
(* contexts'.                                                              *)
LEMMA ReadingsAreOfLengths ==
    ASSUME NEW sorted, NEW n, NEW contexts, SortsByLength(sorted, n, contexts)
    PROVE  /\ LengthsOf(Readings(sorted, n)) = {c.tokens : c \in ToSet(contexts)}
           /\ Cardinality(LengthsOf(Readings(sorted, n))) = n
           /\ Cardinality(Readings(sorted, n)) = n
           /\ \A t \in LengthsOf(Readings(sorted, n)) : t <= sorted[n].tokens
<1> DEFINE readings == Readings(sorted, n)
           lengths == LengthsOf(readings)
           S == ToSet(contexts)
           C == {c.tokens : c \in S}
<1>1. n \in Nat
      BY DEF SortsByLength
<1>2. \A t : t \in lengths <=> \E k \in 1..n : t = sorted[k].tokens
  <2>1. \A t : t \in lengths <=> \E k \in 1..n : t = Reading(sorted, k).tokens
        BY DEF LengthsOf, Readings
  <2> QED
      BY <2>1, ReadingsAre
<1>3. \A o : o \in readings <=> \E k \in 1..n : o = Reading(sorted, k)
      BY DEF Readings
<1> HIDE DEF readings, lengths
<1>4. lengths = C
  <2>1. /\ \A k \in 1..n : sorted[k] \in S
        /\ \A c \in S : \E k \in 1..n : c = sorted[k]
        BY DEF SortsByLength
  <2> HIDE DEF S
  <2>2. \A t : t \in C <=> \E c \in S : t = c.tokens
        OBVIOUS
  <2> HIDE DEF C
  <2>3. \A t : t \in C => t \in lengths
        BY <1>2, <2>1, <2>2
  <2>4. \A t : t \in lengths => t \in C
        BY <1>2, <2>1, <2>2
  <2> QED
      BY <2>3, <2>4
<1>5. Cardinality(lengths) = n
  <2> DEFINE f == [k \in 1..n |-> sorted[k].tokens]
  <2>1. \A k \in 1..n : f[k] = sorted[k].tokens
        OBVIOUS
  <2>2. \A i, j \in 1..n : f[i] = f[j] => i = j
        BY DEF SortsByLength
  <2> HIDE DEF f
  <2>3. \A k \in 1..n : f[k] \in lengths
        BY <1>2, <2>1
  <2>4. \A t \in lengths : \E k \in 1..n : t = f[k]
        BY <1>2, <2>1
  <2> QED
      BY <1>1, <2>2, <2>3, <2>4, PlacesAreMembers
<1>6. Cardinality(readings) = n
  <2> DEFINE f == [k \in 1..n |-> Reading(sorted, k)]
  <2>1. \A k \in 1..n : f[k] = Reading(sorted, k)
        OBVIOUS
  <2> HIDE DEF f
  <2>2. \A i, j \in 1..n : f[i] = f[j] => i = j
        BY <2>1, ReadingsAre
  <2> QED
      BY <1>1, <1>3, <2>1, <2>2, PlacesAreMembers
<1>7. \A t \in lengths : t <= sorted[n].tokens
      BY <1>2 DEF SortsByLength
<1> QED
    BY <1>4, <1>5, <1>6, <1>7 DEF readings, lengths

(* A record of two pools that reproduce a reading agrees with it.          *)
LEMMA ReadingAgrees ==
    ASSUME NEW record, NEW o, record.mode = "split",
           Positive(record.allocation.maxContext), Positive(o.tokens),
           NonNegativePool(o.device), NonNegativePool(o.host),
           ValidPool(record.allocation.device), ValidPool(record.allocation.host),
           Reproduces(record.allocation.device, o.device, o.tokens),
           Reproduces(record.allocation.host, o.host, o.tokens),
           ~(PoolBytes(o.device) > MaxSafe), ~(PoolBytes(o.host) > MaxSafe)
    PROVE  ObservationAgrees(record, o)
<1>1. \A pool : NonNegativePool(pool) => PoolBytes(pool) \in Int /\ pool # None
      BY MaxSafeAssumption DEF NonNegativePool, NonNegative, PoolBytes
<1>2. PoolBytes(o.device) <= MaxSafe /\ PoolBytes(o.host) <= MaxSafe /\ o.device # None
      BY <1>1, MaxSafeAssumption
<1> QED
    BY <1>2, ReproducedObservationAgrees

(* The contexts of a bundle, and the pools derived from them.              *)
DerivedFrom(contexts, sorted, n, device, host) ==
    /\ SortsByLength(sorted, n, contexts) /\ n >= 1
    /\ \A k \in 1..n : /\ Positive(sorted[k].tokens)
                       /\ NonNegativePool(sorted[k].attempts[1]["device"])
                       /\ NonNegativePool(sorted[k].attempts[1]["host"])
    /\ device = DerivePool(SeenIn(sorted, "device")) /\ device # None
    /\ host = DerivePool(SeenIn(sorted, "host")) /\ host # None

(* A valid bundle whose attempts agree has such contexts.                  *)
LEMMA BundlesAreDerivedFrom ==
    ASSUME NEW contexts, ListedContexts(contexts), ValidContexts(contexts),
           AttemptsIssue(contexts) = None,
           NEW sorted, sorted = ByLength(contexts),
           NEW device, device = DerivePool(SeenIn(sorted, "device")), device # None,
           NEW host, host = DerivePool(SeenIn(sorted, "host")), host # None
    PROVE  DerivedFrom(contexts, sorted, Len(contexts), device, host)
<1>1. contexts \in Seq(ToSet(contexts)) /\ DistinctContexts(contexts) /\ contexts # <<>>
      BY DEF ListedContexts, ValidContexts
<1> DEFINE n == Len(contexts)
<1>2. SortsByLength(sorted, n, contexts)
      BY <1>1, ByLengthSorts
<1>3. n >= 1
      BY <1>1, EmptySeq
<1> HIDE DEF n
<1>4. \A k \in 1..n : sorted[k] \in ToSet(contexts)
      BY <1>2 DEF SortsByLength
<1>5. \A k \in 1..n : /\ Positive(sorted[k].tokens)
                      /\ NonNegativePool(sorted[k].attempts[1]["device"])
                      /\ NonNegativePool(sorted[k].attempts[1]["host"])
      BY <1>4, FirstAttemptsHavePools
<1> QED
    BY <1>2, <1>3, <1>5 DEF DerivedFrom, n

(* A split record of derived pools agrees with each of its readings, and   *)
(* holds a model if one was seen.                                          *)
LEMMA DerivedRecordAgrees ==
    ASSUME NEW contexts, NEW sorted, NEW n, NEW device, NEW host,
           DerivedFrom(contexts, sorted, n, device, host),
           NEW record, record.mode = "split", record.observations = Readings(sorted, n),
           record.allocation.maxContext = sorted[n].tokens,
           record.allocation.device = device, record.allocation.host = host,
           \E pool \in ObservedPools(record) : pool.model # 0,
           \A pool \in ObservedPools(record) : ~(PoolBytes(pool) > MaxSafe)
    PROVE  /\ \A o \in record.observations : ObservationAgrees(record, o)
           /\ device.model + host.model > 0
<1>1. n \in Nat \ {0} /\ DOMAIN sorted = 1..n /\ n \in 1..n
      BY DEF DerivedFrom, SortsByLength
<1>2. \A k \in 1..n : /\ Positive(sorted[k].tokens)
                      /\ NonNegativePool(sorted[k].attempts[1]["device"])
                      /\ NonNegativePool(sorted[k].attempts[1]["host"])
      BY DEF DerivedFrom
<1>3. /\ ValidPool(device)
      /\ \A k \in 1..n : sorted[k].attempts[1]["device"].model = device.model
      /\ \A k \in 1..n : Reproduces(device, sorted[k].attempts[1]["device"], sorted[k].tokens)
  <2>1. device = DerivePool(SeenIn(sorted, "device")) /\ device # None
        BY DEF DerivedFrom
  <2> QED
      BY <1>1, <1>2, <2>1, SeenPoolReproduces
<1>4. /\ ValidPool(host)
      /\ \A k \in 1..n : sorted[k].attempts[1]["host"].model = host.model
      /\ \A k \in 1..n : Reproduces(host, sorted[k].attempts[1]["host"], sorted[k].tokens)
  <2>1. host = DerivePool(SeenIn(sorted, "host")) /\ host # None
        BY DEF DerivedFrom
  <2> QED
      BY <1>1, <1>2, <2>1, SeenPoolReproduces
<1>5. \A o \in record.observations : \E k \in 1..n : o = Reading(sorted, k)
      BY DEF Readings
<1>6. ASSUME NEW o \in record.observations
      PROVE  /\ ObservationAgrees(record, o)
             /\ o.device.model = device.model /\ o.host.model = host.model
  <2>1. PICK k \in 1..n : o = Reading(sorted, k)
        BY <1>5
  <2>2. /\ o.tokens = sorted[k].tokens /\ o.device = sorted[k].attempts[1]["device"]
        /\ o.host = sorted[k].attempts[1]["host"]
        BY <2>1, ReadingsAre
  <2>3. /\ Positive(record.allocation.maxContext) /\ Positive(o.tokens)
        /\ NonNegativePool(o.device) /\ NonNegativePool(o.host)
        BY <1>1, <1>2, <2>2
  <2>4. /\ Reproduces(device, o.device, o.tokens) /\ Reproduces(host, o.host, o.tokens)
        /\ o.device.model = device.model /\ o.host.model = host.model
        BY <1>3, <1>4, <2>2
  <2>5. o.device \in ObservedPools(record) /\ o.host \in ObservedPools(record)
        BY DEF ObservedPools
  <2>6. ~(PoolBytes(o.device) > MaxSafe) /\ ~(PoolBytes(o.host) > MaxSafe)
        BY <2>5
  <2> QED
      BY <1>3, <1>4, <2>3, <2>4, <2>6, ReadingAgrees
<1>7. device.model + host.model > 0
  <2>1. device.model \in Nat /\ host.model \in Nat
        BY <1>3, <1>4, MaxSafeAssumption DEF ValidPool, NonNegative
  <2>2. PICK o \in record.observations : o.device.model # 0 \/ o.host.model # 0
        BY DEF ObservedPools
  <2> QED
      BY <1>6, <2>1, <2>2
<1> QED
    BY <1>6, <1>7

(* The parts of a proposed record.                                         *)
IsProposed(record, parcel, sorted, n, device, host) ==
    /\ record.version = 1 /\ record.missing = {} /\ record.unknown = {} /\ record.named
    /\ record.mode = "split" /\ record.runPath = "gpu"
    /\ record.scope.candidate = parcel.candidate.candidate
    /\ record.scope.sha256 = parcel.candidate.sha256
    /\ record.scope.target = parcel.hardware.target
    /\ record.scope.accelerator = parcel.hardware.accelerators[1].id
    /\ \A f \in RuntimeFields : record.scope.runtime[f] = parcel.candidate[f]
    /\ record.allocation.id = record.id
    /\ record.allocation.maxContext = sorted[n].tokens
    /\ record.allocation.device = device /\ record.allocation.host = host
    /\ record.observations = Readings(sorted, n)
    /\ \E source : /\ record.provenance = {source}
                   /\ source.valid /\ source.attributed /\ source.method = "measurement"
                   /\ source.hardware = "exact" /\ source.configuration = "exact"

(* The record that is made of n contexts has these parts.                  *)
LEMMA ProposedRecordIsProposed ==
    ASSUME NEW parcel, NEW sorted, NEW n, DOMAIN sorted = 1..n, Len(sorted) = n,
           NEW device, NEW host, NEW record, record = ProposedRecord(parcel, sorted, device, host)
    PROVE  IsProposed(record, parcel, sorted, n, device, host)
<1>1. record.observations = Readings(sorted, n)
      BY DEF ProposedRecord, Readings, Reading
<1>2. \E source : /\ record.provenance = {source}
                  /\ source.valid /\ source.attributed /\ source.method = "measurement"
                  /\ source.hardware = "exact" /\ source.configuration = "exact"
  <2> DEFINE source == [source |-> parcel.tool.id, valid |-> TRUE, attributed |-> TRUE,
                        method |-> "measurement", hardware |-> "exact",
                        configuration |-> "exact", task |-> None, interval |-> None,
                        unit |-> None, eligible |-> TRUE]
  <2>1. record.provenance = {source}
        BY DEF ProposedRecord
  <2>2. /\ source.valid /\ source.attributed /\ source.method = "measurement"
        /\ source.hardware = "exact" /\ source.configuration = "exact"
        OBVIOUS
  <2> HIDE DEF source
  <2> QED
      BY <2>1, <2>2
<1>3. /\ record.version = 1 /\ record.missing = {} /\ record.unknown = {} /\ record.named
      /\ record.mode = "split" /\ record.runPath = "gpu"
      /\ record.scope.candidate = parcel.candidate.candidate
      /\ record.scope.sha256 = parcel.candidate.sha256
      /\ record.scope.target = parcel.hardware.target
      /\ record.scope.accelerator = parcel.hardware.accelerators[1].id
      /\ \A f \in RuntimeFields : record.scope.runtime[f] = parcel.candidate[f]
      /\ record.allocation.id = record.id
      /\ record.allocation.maxContext = sorted[n].tokens
      /\ record.allocation.device = device /\ record.allocation.host = host
      BY DEF ProposedRecord
<1> QED
    BY <1>1, <1>2, <1>3 DEF IsProposed

(* What is derived from a collection of lists, on a named target, is a     *)
(* valid record, if some pool holds a model and all bytes are exact        *)
(* integers.                                                               *)
LEMMA DerivedRecordIsValid ==
    ASSUME NEW parcel, NEW trusted, ListedContexts(parcel.contexts), parcel.hardware.target # None,
           DeriveProposedProfile(parcel, trusted).kind = "proposed-unreviewed",
           NEW record, record = DeriveProposedProfile(parcel, trusted).record,
           \E pool \in ObservedPools(record) : pool.model # 0,
           \A pool \in ObservedPools(record) : ~(PoolBytes(pool) > MaxSafe)
    PROVE  ValidProfileRecord(record)
<1> DEFINE sorted == ByLength(parcel.contexts)
           n == Len(parcel.contexts)
           device == DerivePool(SeenIn(sorted, "device"))
           host == DerivePool(SeenIn(sorted, "host"))
           lengths == LengthsOf(record.observations)
<1>1. /\ ValidateCollectionBundle(parcel).kind = "ok"
      /\ AttemptsIssue(parcel.contexts) = None
      /\ device # None /\ host # None
      /\ record = ProposedRecord(parcel, sorted, device, host)
      BY ProposalsAreDerived
<1>2. /\ ValidContexts(parcel.contexts)
      /\ parcel.candidate.context \in Lengths(parcel) /\ Cardinality(Lengths(parcel)) >= 2
      BY <1>1, ValidBundles
<1>3. DerivedFrom(parcel.contexts, sorted, n, device, host)
      BY <1>1, <1>2, BundlesAreDerivedFrom
<1> HIDE DEF sorted, n, device, host
<1>4. /\ SortsByLength(sorted, n, parcel.contexts) /\ n >= 1
      /\ \A k \in 1..n : Positive(sorted[k].tokens)
      BY <1>3 DEF DerivedFrom
<1>5. n \in Nat /\ DOMAIN sorted = 1..n /\ Len(sorted) = n
      BY <1>4 DEF SortsByLength
<1>6. IsProposed(record, parcel, sorted, n, device, host)
      BY <1>1, <1>5, ProposedRecordIsProposed
<1>7. /\ record.missing = {} /\ record.named
      /\ record.mode = "split" /\ record.runPath = "gpu"
      /\ record.scope.target = parcel.hardware.target
      /\ \A f \in RuntimeFields : record.scope.runtime[f] = parcel.candidate[f]
      /\ record.allocation.id = record.id
      /\ record.allocation.maxContext = sorted[n].tokens
      /\ record.allocation.device = device /\ record.allocation.host = host
      /\ record.observations = Readings(sorted, n)
      BY <1>6 DEF IsProposed
<1>8. ValidSources(record)
      BY <1>6 DEF IsProposed, ValidSources
<1>9. /\ lengths = Lengths(parcel) /\ Cardinality(lengths) = n
      /\ Cardinality(record.observations) = n
      /\ \A t \in lengths : t <= sorted[n].tokens
      BY <1>4, <1>7, ReadingsAreOfLengths DEF Lengths
<1>10. /\ \A o \in record.observations : ObservationAgrees(record, o)
       /\ device.model + host.model > 0
       BY <1>3, <1>7, DerivedRecordAgrees
<1>11. \A o : o \in record.observations <=> \E k \in 1..n : o = Reading(sorted, k)
       BY <1>7 DEF Readings
<1>12. \A o \in record.observations : o.tokens > 0 /\ o.stamped
  <2> SUFFICES ASSUME NEW k \in 1..n
               PROVE  Reading(sorted, k).tokens > 0 /\ Reading(sorted, k).stamped
      BY <1>11
  <2> QED
      BY <1>4, ReadingsAre, MaxSafeAssumption DEF Positive
<1>13. record.observations # {} /\ sorted[n].tokens \in lengths
  <2>1. n \in 1..n
        BY <1>4, <1>5
  <2>2. Reading(sorted, n) \in record.observations /\ Reading(sorted, n).tokens = sorted[n].tokens
        BY <1>11, <2>1, ReadingsAre
  <2> QED
      BY <2>2 DEF LengthsOf
<1>14. MaxContextOf(record) = sorted[n].tokens
       BY <1>7 DEF MaxContextOf
<1>15. /\ Cardinality(lengths) = Cardinality(record.observations)
       /\ record.scope.runtime.context \in lengths /\ Cardinality(lengths) >= 2
  <2>1. "context" \in RuntimeFields
        BY DEF RuntimeFields
  <2> QED
      BY <1>2, <1>7, <1>9, <2>1
<1>16. lengths = {o.tokens : o \in record.observations}
       BY DEF LengthsOf
<1>17. /\ record.runPath \in {"gpu", "cpu-offload"}
       /\ record.allocation.device.model + record.allocation.host.model > 0
       BY <1>7, <1>10
<1> HIDE DEF lengths
<1>18. /\ MaxContextOf(record) \in lengths
       /\ \A tokens \in lengths : tokens <= MaxContextOf(record)
       BY <1>9, <1>13, <1>14
<1> QED
    BY <1>7, <1>8, <1>10, <1>12, <1>13, <1>15, <1>16, <1>17, <1>18 DEF ValidProfileRecord

(* The facts of a visit are those that were collected.                     *)
CollectedFacts(f, parcel) ==
    f.candidate = parcel.candidate /\ f.receipt = parcel.receipt /\ f.hardware = parcel.hardware

(* A derived record is about the configuration of its collection.          *)
LEMMA DerivedRecordMatches ==
    ASSUME NEW parcel, NEW trusted, ListedContexts(parcel.contexts),
           DeriveProposedProfile(parcel, trusted).kind = "proposed-unreviewed",
           NEW record, record = DeriveProposedProfile(parcel, trusted).record,
           NEW f, CollectedFacts(f, parcel)
    PROVE  /\ ValidProducers(parcel) /\ record.missing = {} /\ record.unknown = {}
           /\ ~ProfileMismatch(record, f.candidate, f.hardware)
<1> DEFINE sorted == ByLength(parcel.contexts)
           n == Len(parcel.contexts)
           device == DerivePool(SeenIn(sorted, "device"))
           host == DerivePool(SeenIn(sorted, "host"))
<1>1. /\ ValidateCollectionBundle(parcel).kind = "ok"
      /\ AttemptsIssue(parcel.contexts) = None
      /\ device # None /\ host # None
      /\ record = ProposedRecord(parcel, sorted, device, host)
      BY ProposalsAreDerived
<1>2. ValidProducers(parcel) /\ ValidContexts(parcel.contexts) /\ OneAccelerator(parcel)
      BY <1>1, ValidBundles
<1>3. DerivedFrom(parcel.contexts, sorted, n, device, host)
      BY <1>1, <1>2, BundlesAreDerivedFrom
<1> HIDE DEF sorted, n, device, host
<1>4. DOMAIN sorted = 1..n /\ Len(sorted) = n
      BY <1>3 DEF DerivedFrom, SortsByLength
<1>5. IsProposed(record, parcel, sorted, n, device, host)
      BY <1>1, <1>4, ProposedRecordIsProposed
<1>6. /\ record.version = 1 /\ record.missing = {} /\ record.unknown = {}
      /\ record.mode = "split" /\ record.runPath = "gpu"
      /\ record.scope.candidate = parcel.candidate.candidate
      /\ record.scope.sha256 = parcel.candidate.sha256
      /\ record.scope.target = parcel.hardware.target
      /\ record.scope.accelerator = parcel.hardware.accelerators[1].id
      /\ \A field \in RuntimeFields : record.scope.runtime[field] = parcel.candidate[field]
      BY <1>5 DEF IsProposed
<1>7. SameRuntime(record.scope.runtime, f.candidate)
      BY <1>6 DEF SameRuntime, CollectedFacts
<1>8. ~SplitMismatch(record, f.candidate, f.hardware)
      BY <1>2, <1>6 DEF SplitMismatch, RunPathContradicts, OneAccelerator, CollectedFacts
<1> QED
    BY <1>2, <1>6, <1>7, <1>8 DEF ProfileMismatch, CollectedFacts

(* So a reviewed one is admitted.                                          *)
LEMMA DerivedRecordIsAdmitted ==
    ASSUME NEW parcel, NEW trusted, ListedContexts(parcel.contexts), parcel.hardware.target # None,
           DeriveProposedProfile(parcel, trusted).kind = "proposed-unreviewed",
           NEW record, record = DeriveProposedProfile(parcel, trusted).record,
           NEW f, CollectedFacts(f, parcel), NEW manifest
    PROVE  LET result == AdmitFitProfile(record, manifest, f)
           IN  \/ result.kind = "ok"
               \/ ~ReviewedRecord(manifest, "fit-profile", record, "reviewed")
               \/ result.reason = "fit-profile.compatibility-receipt-mismatch"
               \/ \A pool \in ObservedPools(record) : pool.model = 0
               \/ \E pool \in ObservedPools(record) : PoolBytes(pool) > MaxSafe
<1> SUFFICES ASSUME \E pool \in ObservedPools(record) : pool.model # 0,
                    \A pool \in ObservedPools(record) : ~(PoolBytes(pool) > MaxSafe),
                    ReviewedRecord(manifest, "fit-profile", record, "reviewed")
             PROVE  \/ AdmitFitProfile(record, manifest, f).kind = "ok"
                    \/ AdmitFitProfile(record, manifest, f).reason
                          = "fit-profile.compatibility-receipt-mismatch"
    OBVIOUS
<1>1. ValidProfileRecord(record)
      BY DerivedRecordIsValid
<1>2. /\ ValidProducers(parcel) /\ record.missing = {} /\ record.unknown = {}
      /\ ~ProfileMismatch(record, f.candidate, f.hardware)
      BY DerivedRecordMatches
<1>3. f.candidate.valid /\ f.receipt.valid /\ f.hardware.valid
      BY <1>2 DEF ValidProducers, CollectedFacts
<1>4. ProducerIssue(f) \in {None, "fit-profile.compatibility-receipt-mismatch"}
  <2> DEFINE mismatch == \E field \in AdmissionReceiptFields :
                            f.receipt.target[field] # f.candidate[field]
             invalid == ~(f.candidate.valid /\ f.receipt.valid /\ f.hardware.valid)
             checks == << <<"fit-profile.producer-invalid", invalid>>,
                          <<"fit-profile.compatibility-receipt-mismatch", mismatch>> >>
  <2>1. ProducerIssue(f) = FirstReason(checks)
        BY DEF ProducerIssue
  <2>2. ~invalid
        BY <1>3
  <2> HIDE DEF mismatch, invalid
  <2>3. DOMAIN checks = {1, 2} /\ checks[2][1] = "fit-profile.compatibility-receipt-mismatch"
        OBVIOUS
  <2>4. ~checks[1][2]
        BY <2>2
  <2> HIDE DEF checks
  <2> QED
      BY <2>1, <2>3, <2>4, FirstReasonApplies
<1>5. MissingProfilePaths(record) = {} /\ StrictProfileRecordIssues(record) = {}
      BY <1>2 DEF MissingProfilePaths, StrictProfileRecordIssues
<1>6. ProducerIssue(f) # None =>
         AdmitFitProfile(record, manifest, f).reason = "fit-profile.compatibility-receipt-mismatch"
      BY <1>4 DEF AdmitFitProfile, Blocked
<1>7. ProducerIssue(f) = None => AdmitFitProfile(record, manifest, f).kind = "ok"
      BY <1>1, <1>2, <1>5 DEF AdmitFitProfile
<1> QED
    BY <1>6, <1>7

(* What is derived from a collection: a receipt of the runner, or a bundle *)
(* of raw attempts.                                                        *)
Derivation(collection) ==
    IF collection.contract = "runner-fit-profile-capture"
    THEN DeriveProposedProfileFromRunnerCapture(collection)
    ELSE DeriveProposedProfile(collection, FALSE)

(* A reviewed record that is derived from the collection of a visit is     *)
(* admitted for the facts it was collected of.                             *)
LEMMA DerivationIsAdmitted ==
    ASSUME NEW collection, ListedContexts(collection.contexts), collection.hardware.target # None,
           Derivation(collection).kind = "proposed-unreviewed",
           NEW record, record = Derivation(collection).record,
           NEW f, CollectedFacts(f, collection), NEW manifest
    PROVE  LET result == AdmitFitProfile(record, manifest, f)
           IN  \/ result.kind = "ok"
               \/ ~ReviewedRecord(manifest, "fit-profile", record, "reviewed")
               \/ result.reason = "fit-profile.compatibility-receipt-mismatch"
               \/ \A pool \in ObservedPools(record) : pool.model = 0
               \/ \E pool \in ObservedPools(record) : PoolBytes(pool) > MaxSafe
<1>1. CASE collection.contract # "runner-fit-profile-capture"
  <2>1. Derivation(collection) = DeriveProposedProfile(collection, FALSE)
        BY <1>1 DEF Derivation
  <2> QED
      BY <2>1, DerivedRecordIsAdmitted
<1>2. CASE collection.contract = "runner-fit-profile-capture"
  <2> DEFINE parcel == ToCollectionBundle(collection)
  <2>1. Derivation(collection) = DeriveProposedProfileFromRunnerCapture(collection)
        BY <1>2 DEF Derivation
  <2>2. ValidateRunnerFitProfileCapture(collection).kind = "ok"
        BY <2>1 DEF DeriveProposedProfileFromRunnerCapture, ValidateRunnerFitProfileCapture, Blocked
  <2>3. ValidateRunnerFitProfileCapture(collection).value = collection
        BY <2>2 DEF ValidateRunnerFitProfileCapture, Blocked
  <2>4. Derivation(collection) = DeriveProposedProfile(parcel, TRUE)
        BY <2>1, <2>2, <2>3 DEF DeriveProposedProfileFromRunnerCapture
  <2>5. /\ parcel.contexts = collection.contexts /\ parcel.hardware = collection.hardware
        /\ parcel.candidate = collection.candidate /\ parcel.receipt = collection.receipt
        BY DEF ToCollectionBundle
  <2> HIDE DEF parcel
  <2>6. CollectedFacts(f, parcel)
        BY <2>5 DEF CollectedFacts
  <2> QED
      BY <2>4, <2>5, <2>6, DerivedRecordIsAdmitted
<1> QED
    BY <1>1, <1>2

-----------------------------------------------------------------------------
(* A proposal is the derivation from the collection of this visit, and the *)
(* profile of a visit with a collection is the admission's answer to it.   *)
DerivingInv ==
    /\ facts \in Visits
    /\ proposal # None => facts.collection # None /\ proposal = Derivation(facts.collection)
    /\ profile # None /\ facts.collection # None =>
          Proposed /\ profile = AdmitFitProfile(proposal.record, facts.manifest, facts)

(* The derivation and the admission keep it, and nothing else of a visit   *)
(* touches any of it: a record is derived once, and only before it is      *)
(* admitted.                                                               *)
LEMMA DerivingIsInvariant == Spec => []DerivingInv
<1>1. Init => DerivingInv
      BY DEF Init, DerivingInv
<1>2. DerivingInv /\ [Next]_vars => DerivingInv'
  <2> SUFFICES ASSUME DerivingInv, [Next]_vars
               PROVE  DerivingInv'
      OBVIOUS
  <2>1. CASE DeriveRecord
    <3>1. /\ facts.collection # None /\ proposal = None
          /\ proposal' = Derivation(facts.collection)
          /\ facts' = facts /\ profile' = profile
          BY <2>1 DEF DeriveRecord, Derivation
    <3>2. profile = None
          BY <3>1 DEF DerivingInv, Proposed
    <3> QED
        BY <3>1, <3>2 DEF DerivingInv
  <2>2. CASE AdmitProfile
    <3>1. /\ profile = None /\ (facts.collection = None \/ Proposed)
          /\ profile' = AdmitFitProfile(IF Proposed THEN proposal.record ELSE facts.record,
                                        facts.manifest, facts)
          /\ facts' = facts /\ proposal' = proposal
          BY <2>2 DEF AdmitProfile, Submitted
    <3>2. Proposed' <=> Proposed
          BY <3>1 DEF Proposed
    <3> QED
        BY <3>1, <3>2 DEF DerivingInv
  <2>3. CASE UNCHANGED <<facts, proposal, profile>>
        BY <2>3 DEF DerivingInv, Proposed
  <2>4. [Next]_vars => \/ DeriveRecord \/ AdmitProfile \/ UNCHANGED <<facts, proposal, profile>>
        BY DEF Next, vars, assessing, AdmitPolicy, Assess, Compose, EditInput, FindConfigurations,
           UniverseLoaded, OpenDetail, HandOff, Export, Tick, InspectImport, ScanInventory,
           SelectArtifact, PreparePreview, EditPreparation, PlannerAnswers
  <2> QED
      BY <2>1, <2>2, <2>3, <2>4
<1> QED
    BY <1>1, <1>2, PTL DEF Spec

(* What is derived from a collection of the judged configuration, once     *)
(* reviewed, is admitted, for any number of contexts in any order: the     *)
(* line through the two shortest gives back every observation in           *)
(* admission.ts's own arithmetic.                                          *)
THEOREM DerivedRecordsAreAdmittedAlways == Spec => []DerivedRecordsAreAdmitted
<1>1. DerivingInv => DerivedRecordsAreAdmitted
  <2> SUFFICES ASSUME DerivingInv, Proposed, profile # None,
                      CollectedFacts(facts, facts.collection)
               PROVE  \/ profile.kind = "ok"
                      \/ ~ReviewedRecord(facts.manifest, "fit-profile", proposal.record, "reviewed")
                      \/ profile.reason = "fit-profile.compatibility-receipt-mismatch"
                      \/ \A pool \in ObservedPools(proposal.record) : pool.model = 0
                      \/ \E pool \in ObservedPools(proposal.record) : PoolBytes(pool) > MaxSafe
      BY DEF DerivedRecordsAreAdmitted, ObservedPools, CollectedFacts, Admitted
  <2>1. /\ facts.collection # None /\ proposal = Derivation(facts.collection)
        /\ proposal.kind = "proposed-unreviewed"
        /\ profile = AdmitFitProfile(proposal.record, facts.manifest, facts)
        BY DEF DerivingInv, Proposed
  <2>2. facts.collection.hardware.target # None /\ ListedContexts(facts.collection.contexts)
        BY <2>1, VisitsAssumption DEF DerivingInv, ListedContexts
  <2> QED
      BY <2>1, <2>2, DerivationIsAdmitted
<1> QED
    BY <1>1, DerivingIsInvariant, PTL
=============================================================================
