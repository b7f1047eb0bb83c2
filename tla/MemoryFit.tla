----------------------------- MODULE MemoryFit -----------------------------
(***************************************************************************)
(* lib/fit: how many bytes a configuration needs at a context length, in   *)
(* one pool of memory (fit) or split over device and host                  *)
(* (fitMemoryPools).  Sizes are exact integers; a result above MaxSafe,    *)
(* Number.MAX_SAFE_INTEGER, throws, and so does an input that is no size.  *)
(* All summands are non-negative, so that some intermediate sum exceeds    *)
(* MaxSafe exactly when the total does.                                    *)
(***************************************************************************)
EXTENDS Verdicts, FiniteSets

CONSTANT MaxSafe

ASSUME MaxSafeAssumption == MaxSafe \in Nat \ {0}

Thrown == [thrown |-> TRUE]
Positive(n) == n \in 1..MaxSafe
NonNegative(n) == n \in 0..MaxSafe

BasisPoints == 10000

(* value * numerator / denominator, rounded up.                            *)
Scale(value, numerator, denominator) ==
    (value * numerator + denominator - 1) \div denominator

-----------------------------------------------------------------------------
FitPool(pool, physical, reserve, marginBps, context) ==
    LET contextBytes == Scale(pool.context, context, pool.reference)
        computeBytes == pool.compute + Scale(pool.computeContext, context, pool.reference)
        workload == pool.model + contextBytes + computeBytes
        margin == Scale(workload, marginBps, BasisPoints)
        required == workload + reserve + margin
    IN  [model |-> pool.model, context |-> contextBytes, compute |-> computeBytes,
         reserve |-> reserve, margin |-> margin, required |-> required,
         available |-> physical, fits |-> required <= physical]

ValidPool(pool) ==
    /\ \A size \in {pool.model, pool.compute, pool.context, pool.computeContext} : NonNegative(size)
    /\ Positive(pool.reference)

ValidPoolHardware(hardware) ==
    /\ Positive(hardware.device) /\ Positive(hardware.host)
    /\ NonNegative(hardware.deviceReserve) /\ NonNegative(hardware.hostReserve)
    /\ hardware.marginBps \in 0..BasisPoints

FitMemoryPools(profile, hardware, context) ==
    LET device == FitPool(profile.device, hardware.device, hardware.deviceReserve, hardware.marginBps, context)
        host == FitPool(profile.host, hardware.host, hardware.hostReserve, hardware.marginBps, context)
        reasons == Held([context_limit |-> context > profile.maxContext,
                         device_pool |-> ~device.fits,
                         host_pool |-> ~host.fits])
    IN  IF /\ Positive(profile.maxContext) /\ Positive(context)
           /\ ValidPoolHardware(hardware)
           /\ ValidPool(profile.device) /\ ValidPool(profile.host)
           /\ device.required <= MaxSafe /\ host.required <= MaxSafe
        THEN [thrown |-> FALSE, fits |-> reasons = {}, device |-> device, host |-> host,
              reasons |-> reasons]
        ELSE Thrown

-----------------------------------------------------------------------------
Profiles(profiles, quantization) == {p \in profiles : p.quantization = quantization}

ValidArtifact(artifact) ==
    /\ artifact.named
    /\ Positive(artifact.weights) /\ Positive(artifact.maxContext) /\ NonNegative(artifact.compute)
    /\ artifact.key # {} /\ artifact.value # {}
    /\ \A p \in artifact.key \cup artifact.value : Positive(p.reference) /\ Positive(p.bytes)

ValidHostHardware(hardware) ==
    /\ Positive(hardware.physical)
    /\ NonNegative(hardware.osReserve) /\ NonNegative(hardware.displayReserve)
    /\ hardware.marginBps \in 0..BasisPoints

(* One pool; the key and the value cache each need exactly one profile of  *)
(* their quantization.                                                     *)
Fit(artifact, hardware, context, selection) ==
    LET keys == Profiles(artifact.key, selection.key)
        values == Profiles(artifact.value, selection.value)
        scaled(p) == Scale(p.bytes, context, p.reference)
        cache == scaled(CHOOSE p \in keys : TRUE) + scaled(CHOOSE p \in values : TRUE)
        workload == artifact.weights + cache + artifact.compute
        margin == Scale(workload, hardware.marginBps, BasisPoints)
        required == workload + hardware.osReserve + hardware.displayReserve + margin
        reasons == Held([context_limit |-> context > artifact.maxContext,
                         host_pool |-> required > hardware.physical])
    IN  IF ~ValidArtifact(artifact) \/ ~ValidHostHardware(hardware) \/ ~Positive(context) THEN Thrown
        ELSE IF Cardinality(keys) # 1 \/ Cardinality(values) # 1 THEN Thrown
        ELSE IF required > MaxSafe THEN Thrown
        ELSE [thrown |-> FALSE, fits |-> reasons = {}, reasons |-> reasons,
              host |-> [model |-> artifact.weights, context |-> cache, compute |-> artifact.compute,
                        reserve |-> hardware.osReserve + hardware.displayReserve,
                        margin |-> margin, required |-> required,
                        available |-> hardware.physical, fits |-> required <= hardware.physical]]
=============================================================================
