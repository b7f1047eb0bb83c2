------------------------------ MODULE MCFinder ------------------------------
(***************************************************************************)
(* Visits that start from one good configuration, on a card or on a        *)
(* processor, and from each way in which one fact of it departs.           *)
(***************************************************************************)
EXTENDS Finder

-----------------------------------------------------------------------------
(* A good configuration.                                                   *)
Gpu ==
    [valid |-> TRUE, candidate |-> "c1", artifact |-> "a1", sha256 |-> "h1", bytes |-> 10,
     quantization |-> "q4", family |-> "f1", context |-> 2,
     runtimeId |-> "r1", product |-> "lc", engine |-> "lc", build |-> "b1", backend |-> "cuda",
     gpuLayers |-> "all", settings |-> "s"]
Cpu == [Gpu EXCEPT !.backend = "cpu", !.gpuLayers = "zero"]

ReceiptOf(candidate) ==
    [valid |-> TRUE, policy |-> "m-e.compatibility/1", decision |-> "admitted", os |-> "windows",
     exactBuild |-> None, target |-> [f \in ReceiptFields |-> candidate[f]],
     assertion |-> [f \in {"artifact", "product", "engine"} |-> candidate[f]]]

Card ==
    [id |-> "gpu0", count |-> 1, kind |-> "nvidia", vendor |-> "nvidia", memory |-> 30,
     backend |-> "cuda"]
Machine(accelerators) ==
    [valid |-> TRUE, status |-> "ok", target |-> "t1", os |-> "windows", ram |-> 40,
     availableRam |-> None, unified |-> "no", accelerators |-> accelerators,
     ramOrigin |-> "detected", deviceOrigin |-> "confirmed"]

Source(method, hardware, configuration) ==
    [source |-> "lab", valid |-> TRUE, attributed |-> TRUE, method |-> method,
     hardware |-> hardware, configuration |-> configuration, task |-> None, interval |-> None,
     unit |-> "bytes", eligible |-> TRUE]

Scope(candidate, accelerator) ==
    [candidate |-> candidate.candidate, sha256 |-> candidate.sha256, target |-> "t1",
     accelerator |-> accelerator, runtime |-> RuntimeOf(candidate)]

(* A record of allocation facts: what was observed at one and two units of *)
(* context, the longest it is good for.                                    *)
Pool(model, context) ==
    [model |-> model, compute |-> 1, context |-> context, computeContext |-> 0, reference |-> 1]
Seen(model, context) == [model |-> model, context |-> context, compute |-> 1]
Record(mode, candidate, accelerator, allocation, observations, runPath) ==
    [version |-> 1, missing |-> {}, unknown |-> {}, named |-> TRUE, id |-> "p1", edition |-> 1,
     content |-> "k1", mode |-> mode, scope |-> Scope(candidate, accelerator), runPath |-> runPath,
     allocation |-> allocation, observations |-> observations,
     provenance |-> {Source("measurement", "exact", "exact")}]

SplitAllocation == [id |-> "p1", maxContext |-> 2, device |-> Pool(10, 3), host |-> Pool(4, 0)]
SplitSeen(n) ==
    [id |-> n, tokens |-> n, stamped |-> TRUE, device |-> Seen(10, 3 * n), host |-> Seen(4, 0)]
SplitRecord == Record("split", Gpu, "gpu0", SplitAllocation, {SplitSeen(1), SplitSeen(2)}, "gpu")

Cache(n) == {[id |-> n, quantization |-> "f16", reference |-> 1, bytes |-> 1]}
HostAllocation ==
    [id |-> "p1", cache |-> [key |-> "f16", value |-> "f16"],
     artifact |-> [named |-> TRUE, weights |-> 12, maxContext |-> 2, compute |-> 1,
                   key |-> Cache(1), value |-> Cache(2)]]
HostSeen(n) ==
    [id |-> n, tokens |-> n, stamped |-> TRUE, device |-> None, host |-> Seen(12, 2 * n)]
HostRecord == Record("host", Cpu, None, HostAllocation, {HostSeen(1), HostSeen(2)}, "cpu")

PolicyRecord(runPath, deviceReserve) ==
    [version |-> 1, missing |-> {}, unknown |-> {}, named |-> TRUE, id |-> "y1", edition |-> 1,
     content |-> "k2", basis |-> "confirmed-capacity-minus-reserve",
     deviceReserve |-> deviceReserve, hostReserve |-> 8, marginBps |-> 1000, tightBps |-> 0,
     approved |-> TRUE, provenance |-> {Source("imported", "not-applicable", "not-applicable")},
     binding |-> [target |-> "t1", os |-> "windows", runPath |-> runPath]]

Reviewed(n, kind, id, status, content) ==
    [n |-> n, kind |-> kind, id |-> id, edition |-> 1, status |-> status, sha256 |-> content]
Manifest ==
    [exact |-> TRUE, valid |-> TRUE,
     entries |-> {Reviewed(1, "fit-profile", "p1", "reviewed", "k1"),
                  Reviewed(2, "capacity-policy", "y1", "owner-approved", "k2")}]

-----------------------------------------------------------------------------
(* Stored evidence and a throughput prior.                                 *)
Identity == [valid |-> TRUE, sha256 |-> "h1", build |-> "b1", settings |-> "s"]
Stored(id, metric, unit, low, high) ==
    [id |-> id, metric |-> metric, method |-> "measurement", unit |-> unit,
     interval |-> <<low, high>>, samples |-> 3, stamped |-> TRUE, links |-> {id},
     hardware |-> "exact", fingerprint |-> "m1", group |-> None, configuration |-> "exact",
     identity |-> Identity, source |-> "personal", taskPackVersion |-> None]
Generation == Stored("e1", "generation-throughput", "tokens-per-second", 20, 24)
Prior ==
    [valid |-> TRUE, accelerator |-> "gpu0", acceleratorFamily |-> "ada", family |-> "f1",
     sizeBand |-> "small", ranges |-> [prompt |-> <<90, 110>>, generation |-> <<10, 30>>,
                                       firstToken |-> <<100, 200>>],
     runtime |-> [quantization |-> "q4", product |-> "lc", engine |-> "lc", backend |-> "cuda",
                  commit |-> "b1", version |-> "v1"]]
Context ==
    [candidate |-> "c1", target |-> "t1", identity |-> Identity, fingerprint |-> "m1",
     group |-> "g1", hardware |-> "exact", configuration |-> "compatible",
     accelerator |-> "gpu0", acceleratorFamily |-> "ada", family |-> "f1", sizeBand |-> "small",
     runtime |-> [quantization |-> "q4", product |-> "lc", engine |-> "lc", backend |-> "cuda",
                  build |-> "b1"]]

Asking(priority, installedOnly, needs, scope) ==
    [plain |-> TRUE, id |-> "q1", target |-> "t1", style |-> "interactive", needs |-> needs,
     attributed |-> TRUE, settled |-> TRUE, priority |-> priority, cpuOffload |-> TRUE,
     installedOnly |-> installedOnly, forcedRuntime |-> None, maximumBytes |-> None,
     context |-> [exact |-> TRUE, version |-> 1, mode |-> "novice",
                  task |-> [exact |-> TRUE, family |-> "coding", scope |-> scope]]]
Question == Asking("speed", TRUE, <<"vision">>, "single_file")

Facts(candidate, hardware, record, policyRecord) ==
    [candidate |-> candidate, receipt |-> ReceiptOf(candidate), hardware |-> hardware,
     collection |-> None, record |-> record, policyRecord |-> policyRecord, manifest |-> Manifest,
     stored |-> <<Generation>>, prior |-> None, context |-> Context, advisory |-> "none",
     assessmentId |-> "s1", familiarity |-> None,
     eligibility |-> [installed |-> "yes", capabilities |-> [need \in Needs |-> "yes"]],
     question |-> Question, reach |-> "assessed"]

Split == Facts(Gpu, Machine(<<Card>>), SplitRecord, PolicyRecord("gpu", 4))
Host == [Facts(Cpu, Machine(<<>>), HostRecord, PolicyRecord("cpu", 0)) EXCEPT !.stored = <<>>]

-----------------------------------------------------------------------------
(* One fact that is not as it should be.                                   *)
DepartedFacts(v) ==
    {[v EXCEPT !.candidate.valid = FALSE], [v EXCEPT !.candidate.context = 1],
     [v EXCEPT !.candidate.gpuLayers = "some"],
     [v EXCEPT !.receipt.valid = FALSE], [v EXCEPT !.receipt.decision = "refused"],
     [v EXCEPT !.receipt.os = "linux"], [v EXCEPT !.receipt.exactBuild = "b2"],
     [v EXCEPT !.receipt.target.backend = "vulkan"], [v EXCEPT !.receipt.target.quantization = "q8"],
     [v EXCEPT !.hardware.valid = FALSE], [v EXCEPT !.hardware.target = "t2"],
     [v EXCEPT !.hardware.os = "linux"], [v EXCEPT !.hardware.unified = "yes"],
     [v EXCEPT !.hardware.accelerators = <<Card, [Card EXCEPT !.id = "gpu1"]>>],
     [v EXCEPT !.hardware.ramOrigin = "assumed"], [v EXCEPT !.hardware.ram = 20],
     [v EXCEPT !.hardware.availableRam = 41], [v EXCEPT !.hardware.deviceOrigin = "assumed"],
     [v EXCEPT !.advisory = "ok"]}

DepartedRecord(v) ==
    {[v EXCEPT !.record = r] : r \in
       LET w == v.record
           p == CHOOSE p \in w.provenance : TRUE
       IN  {[w EXCEPT !.missing = {"tool"}], [w EXCEPT !.missing = {"observation"}],
            [w EXCEPT !.unknown = {"runtime"}], [w EXCEPT !.named = FALSE],
            [w EXCEPT !.edition = 2], [w EXCEPT !.content = "k3"],
            [w EXCEPT !.scope.target = None], [w EXCEPT !.scope.target = "t2"],
            [w EXCEPT !.scope.sha256 = "h2"], [w EXCEPT !.scope.runtime.build = "b2"],
            [w EXCEPT !.provenance = {}],
            [w EXCEPT !.provenance = {[p EXCEPT !.hardware = "calibrated-neighbor"]}],
            [w EXCEPT !.provenance = {[p EXCEPT !.attributed = FALSE]}],
            [w EXCEPT !.observations = {o \in @ : o.id = 2}],
            [w EXCEPT !.observations = {[o EXCEPT !.tokens = 2] : o \in @}],
            [w EXCEPT !.observations = {[o EXCEPT !.host.context = @ + 1] : o \in @}]}}

(* Up to the last that the exact integers hold beside the observed bytes   *)
(* and their margin, on a processor and on a card, and one more.           *)
HostReserves == {81, 82, 94, 95}

DepartedPolicy(v) ==
    {[v EXCEPT !.policyRecord = r] : r \in
       LET w == v.policyRecord
       IN  {[w EXCEPT !.missing = {"approval"}], [w EXCEPT !.unknown = {"binding"}], [w EXCEPT !.approved = FALSE],
            [w EXCEPT !.tightBps = 500], [w EXCEPT !.deviceReserve = 25], [w EXCEPT !.content = "k3"],
            [w EXCEPT !.deviceReserve = 98],
            [w EXCEPT !.marginBps = 10000], [w EXCEPT !.marginBps = 10001],
            [w EXCEPT !.binding.os = "linux"], [w EXCEPT !.binding.runPath = "cpu-offload"]}
           \cup {[w EXCEPT !.hostReserve = n] : n \in HostReserves}}
    \cup {[v EXCEPT !.manifest.entries = {e \in @ : e.n = 1}],
          [v EXCEPT !.manifest.entries = @ \cup {[e EXCEPT !.n = 3] : e \in @}]}

DepartedCard(v) ==
    {[v EXCEPT !.hardware.accelerators = <<c>>] : c \in
       {[Card EXCEPT !.id = "gpu1"], [Card EXCEPT !.count = 2], [Card EXCEPT !.kind = "other"],
        [Card EXCEPT !.memory = None], [Card EXCEPT !.memory = 15], [Card EXCEPT !.memory = 24],
        [Card EXCEPT !.backend = "vulkan"]}}
    \cup {[v EXCEPT !.record.runPath = "cpu-offload", !.candidate.gpuLayers = "some",
                    !.record.scope.runtime.gpuLayers = "some",
                    !.policyRecord.binding.runPath = "cpu-offload"],
          [v EXCEPT !.record.allocation.maxContext = 1],
          [v EXCEPT !.hardware.accelerators[1].backend = "cpu", !.candidate.backend = "cpu",
                    !.receipt.target.backend = "cpu", !.record.scope.runtime.backend = "cpu"],
          [v EXCEPT !.record.allocation.device.model = 11]}

-----------------------------------------------------------------------------
(* Collections: attempts at contexts of the candidate's length and of four *)
(* times it, and each way in which one of them departs.                    *)
Attempts(tokens, n, device, host) ==
    [tokens |-> tokens,
     attempts |-> [k \in 1..n |-> [id |-> <<tokens, k>>, status |-> "completed",
                                   device |-> device, host |-> host]]]
Bytes(model, context, compute) == [model |-> model, context |-> context, compute |-> compute]
TwoContexts(n, short, long, host) == <<Attempts(2, n, short, host), Attempts(8, n, long, host)>>

(* With the bindings and the hash of its content.                          *)
Bound(body) ==
    [body EXCEPT !.bindings = [f \in DOMAIN @ |-> IF f \in {"artifact", "selected"} THEN body.candidate.sha256
                                                  ELSE body[f]]]
Receipted(body) == body @@ ("contentHash" :> body)

CaptureBody(contexts) ==
    [contract |-> "runner-fit-profile-capture", exact |-> TRUE, formed |-> TRUE, version |-> 1,
     id |-> "p1", edition |-> 1,
     consent |-> [action |-> "capture-fit-profile", acknowledged |-> TRUE, serving |-> FALSE,
                  recommendation |-> FALSE],
     candidate |-> Gpu, receipt |-> ReceiptOf(Gpu), hardware |-> Machine(<<Card>>),
     bindings |-> [f \in {"candidate", "receipt", "hardware", "artifact", "selected"} |-> "h1"],
     artifact |-> [sha256 |-> "h1", bytes |-> 10],
     tool |-> [id |-> "llama-fit-params", protocol |-> "llama-cpp-version-v1"],
     protocol |-> "llama-fit-params-memory-breakdown-v1", argv |-> <<"-c", "{contextTokens}">>,
     runPath |-> "gpu", contexts |-> contexts]

Grown == TwoContexts(3, Bytes(10, 6, 2), Bytes(10, 24, 5), Bytes(4, 0, 1))
GoodBody == CaptureBody(Grown)

(* Pools as they may have been observed.                                   *)
ObservedContexts ==
    {TwoContexts(3, Bytes(model, 6, short), Bytes(model, context, long), Bytes(host, 0, 1)) :
       model \in {0, 10}, host \in {0, 4}, context \in {24, 25}, short \in {1, 2}, long \in {1, 2, 5, 6, 8}}
    \cup {TwoContexts(3, Bytes(10, 6, 1), Bytes(11, 24, 1), Bytes(4, 0, 1)),
          TwoContexts(3, Bytes(90, 6, 1), Bytes(90, 24, 1), Bytes(4, 0, 1))}

DepartedBodies ==
    LET g == GoodBody
    IN  {[g EXCEPT !.exact = FALSE], [g EXCEPT !.consent.serving = TRUE],
         [g EXCEPT !.consent.acknowledged = FALSE], [g EXCEPT !.receipt.valid = FALSE],
         [g EXCEPT !.tool.id = "other"], [g EXCEPT !.argv = <<"{contextTokens}", "-c">>],
         [g EXCEPT !.argv = @ \o @], [g EXCEPT !.artifact.bytes = 9], [g EXCEPT !.runPath = "cpu"],
         [g EXCEPT !.contexts = TwoContexts(2, Bytes(10, 6, 2), Bytes(10, 24, 5), Bytes(4, 0, 1))],
         [g EXCEPT !.contexts = Reverse(@)], [g EXCEPT !.contexts[2].tokens = 4],
         [g EXCEPT !.contexts[1].attempts[2].id = <<8, 1>>],
         [g EXCEPT !.contexts[1].attempts[2].status = "failed"],
         [g EXCEPT !.contexts[2].attempts[3].device.compute = 8],
         [g EXCEPT !.receipt.target.candidate = "c2"], [g EXCEPT !.receipt.target.backend = "vulkan"],
         [g EXCEPT !.hardware.unified = "yes"], [g EXCEPT !.candidate.gpuLayers = "some"],
         [g EXCEPT !.hardware.accelerators = <<[Card EXCEPT !.memory = None]>>],
         [g EXCEPT !.hardware.accelerators = <<[Card EXCEPT !.id = None]>>],
         [g EXCEPT !.hardware.accelerators = <<Card, [Card EXCEPT !.id = "gpu1"]>>],
         [g EXCEPT !.hardware.accelerators = <<[Card EXCEPT !.backend = "vulkan"]>>]}

Captures ==
    {Receipted(Bound(body)) : body \in DepartedBodies \cup {CaptureBody(c) : c \in ObservedContexts}}
    \cup {[Receipted(Bound(GoodBody)) EXCEPT !.id = "p2"], Receipted([Bound(GoodBody) EXCEPT !.bindings.hardware = Machine(<<>>)])}

BundleOf(classification, contexts) ==
    [ToCollectionBundle(Bound(CaptureBody(contexts))) EXCEPT !.classification = classification]
Synthetic == BundleOf("synthetic-machinery-only", TwoContexts(2, Bytes(10, 6, 2), Bytes(10, 24, 5), Bytes(4, 0, 1)))
Failed == [id |-> <<8, 0>>, status |-> "failed", device |-> None, host |-> None]

(* A third context may lie on the line of the two shortest, or off it.     *)
Bundles ==
    {Synthetic, [Synthetic EXCEPT !.classification = "local-measurement"],
     [Synthetic EXCEPT !.classification = "other"], [Synthetic EXCEPT !.contexts = Reverse(@)],
     [Synthetic EXCEPT !.contexts = <<@[1]>>], [Synthetic EXCEPT !.contexts = <<@[2]>>],
     [Synthetic EXCEPT !.contexts[2].attempts[1] = Failed],
     [Synthetic EXCEPT !.contexts[2].attempts[2].host.compute = 2],
     [Synthetic EXCEPT !.contexts[1].attempts = <<@[1]>>]}
    \cup {[Synthetic EXCEPT !.contexts = <<Attempts(tokens, 2, Bytes(10, 3 * tokens, compute), Bytes(4, 0, 1))>> \o @] :
             tokens \in {3, 5, 12}, compute \in {3, 4, 7}}

Measured(collection) ==
    [Split EXCEPT !.collection = collection, !.candidate = collection.candidate,
                  !.receipt = collection.receipt, !.hardware = collection.hardware,
                  !.manifest.entries = {Reviewed(1, "fit-profile", "p1", "reviewed", "derived"),
                                        Reviewed(2, "capacity-policy", "y1", "owner-approved", "k2")}]

Collected ==
    {Measured(c) : c \in Captures \cup Bundles}
    \cup {[Measured(Synthetic) EXCEPT !.hardware.target = "t2"],
          [Measured(Synthetic) EXCEPT !.manifest = Manifest]}

(* What may have been stored about the configuration.                      *)
Evidence(v) ==
    {[v EXCEPT !.stored = s] : s \in
       {<<>>, <<Generation, Stored("e2", "generation-throughput", "tokens-per-second", 18, 22)>>,
        <<Stored("e2", "fit-memory", "bytes", 14, 16), Generation>>,
        <<Stored("e2", "task-success", "probability", 60, 70)>>,
        <<[Generation EXCEPT !.interval = <<24, 20>>]>>,
        <<[Generation EXCEPT !.fingerprint = "m2"]>>,
        <<[Generation EXCEPT !.source = "community", !.hardware = "coarse-bucket", !.group = "g1"]>>,
        <<[Generation EXCEPT !.method = "estimate", !.taskPackVersion = "1"]>>,
        <<Stored("e2", "prompt-throughput", "tokens-per-second", 90, 99), Generation,
          Stored("e3", "time-to-first-token", "milliseconds", 5, 7)>>}}
    \cup {[v EXCEPT !.prior = p] : p \in
            {Prior, [Prior EXCEPT !.family = "f2"], [Prior EXCEPT !.runtime.commit = "b2"],
             [Prior EXCEPT !.ranges.prompt = <<9, 3>>]}}

-----------------------------------------------------------------------------
(* Entries beside the assessed one, c1.                                    *)
Rate(range) ==
    [range |-> range,
     provenance |-> IF range = None THEN {}
                    ELSE {[Source("measurement", "exact", "exact") EXCEPT !.interval = range,
                            !.unit = "tokens-per-second"]}]
Neighbour(n, family, fit, generation, fitKnown) ==
    LET id == "c" \o ToString(n)
        candidate == [Gpu EXCEPT !.candidate = id, !.artifact = "a" \o ToString(n), !.sha256 = "h" \o ToString(n),
                                 !.runtimeId = "r" \o ToString(n), !.family = family]
    IN  [kind |-> "candidate", exact |-> TRUE, artifact |-> candidate.artifact,
         snapshot |-> "snapshot", position |-> 0, content |-> "entry", admittedAs |-> None,
         candidate |-> candidate, receipt |-> ReceiptOf(candidate),
         assessment |->
           [status |-> "partial", valid |-> TRUE, id |-> "s" \o ToString(n), candidate |-> id,
            target |-> "t1", fit |-> fit, runPath |-> "gpu", deviceBytes |-> 10 * n, hostBytes |-> 5,
            fitEvidence |-> IF fitKnown THEN {Source("measurement", "exact", "exact")} ELSE {},
            prompt |-> Rate(None), generation |-> Rate(generation), firstToken |-> Rate(None),
            blockingReasons |-> {}, missing |-> {"prompt"}],
         eligibility |-> [installed |-> "yes", capabilities |-> [need \in Needs |-> "yes"]],
         familiarity |-> None, evidence |-> {}]
Gap(n) ==
    [kind |-> "upstream-gap", exact |-> TRUE, artifact |-> "a" \o ToString(n),
     snapshot |-> "snapshot", position |-> 0, valid |-> TRUE, reason |-> "registry-gap"]

Given(neighbours, catalog) ==
    [kind |-> "universe", flaw |-> "none", neighbours |-> neighbours, catalog |-> catalog]
Alone == Given(<<>>, <<"a1">>)
NoAnswers == {[Alone EXCEPT !.kind = k] : k \in {"throws", "malformed", "unreadable", "failure"}}
Flawed == {[Alone EXCEPT !.flaw = f] : f \in {"request", "throws"}}
             \cup {[Alone EXCEPT !.catalog = <<"a1", "a2">>]}

Sibling == Neighbour(2, "f1", "good", <<28, 30>>, TRUE)
Pairs ==
    {Sibling, Neighbour(2, "f2", "good", None, TRUE), Gap(2),
     Neighbour(2, "f1", "good", <<30, 35>>, FALSE),
     [Sibling EXCEPT !.eligibility.installed = "unknown"],
     [Sibling EXCEPT !.eligibility.capabilities["vision"] = "unknown"],
     [Sibling EXCEPT !.eligibility.capabilities["vision"] = "no"],
     [Sibling EXCEPT !.assessment = [status |-> "blocked", reason |-> "fit.evidence-conflict", valid |-> TRUE]],
     [Sibling EXCEPT !.assessment.target = "t2"], [Sibling EXCEPT !.candidate.context = 4]}
     \cup {[Sibling EXCEPT !.assessment.fit = f] : f \in {"tight", "unknown", "does-not-fit"}}
Triples ==
    {<<Sibling, Neighbour(3, "f2", "good", <<40, 44>>, TRUE)>>,
     <<Neighbour(2, "f2", "good", None, FALSE), Neighbour(3, "f2", "good", <<26, 29>>, TRUE)>>,
     <<Neighbour(2, "f2", "does-not-fit", None, TRUE), Neighbour(3, "f3", "does-not-fit", None, TRUE)>>}

AllProviders(reach) ==
    IF reach = "previewed"
    THEN {Given(<<Sibling>>, <<"a1", "a2">>), Given(<<[Sibling EXCEPT !.assessment.fit = "unknown"]>>, <<"a1", "a2">>)}
    ELSE {Alone} \cup NoAnswers \cup Flawed
         \cup {Given(<<n>>, c) : n \in Pairs, c \in {<<"a1", "a2">>, <<"a2", "a1">>}}
         \cup {Given(t, <<"a1", "a2", "a3">>) : t \in Triples}

(* Three of a family whose rates overlap but for the first and the last,   *)
(* listed in the catalog from the last to the first.                       *)
ThreeRates(reach) ==
    {Given(<<Neighbour(2, "f2", "good", <<10, 12>>, TRUE), Neighbour(3, "f2", "good", <<7, 11>>, TRUE),
             Neighbour(4, "f2", "good", <<5, 8>>, TRUE)>>, <<"a4", "a3", "a2", "a1">>)}

-----------------------------------------------------------------------------
(* Visits that ask the finder.                                             *)
Found(v, questions) == {[v EXCEPT !.question = q, !.reach = "found"] : q \in questions}
Questions ==
    {Question, Asking("lightest", FALSE, <<>>, "single_file"),
     Asking("balanced", TRUE, <<"vision">>, "single_file")}
Unanswerable ==
    {Asking("speed", TRUE, <<>>, "poem"), Asking("speed", TRUE, <<"vision", "vision">>, "single_file"),
     Asking("speed", TRUE, <<>>, "repository"), [Question EXCEPT !.target = "t2"],
     [Question EXCEPT !.settled = FALSE],
     [Question EXCEPT !.context = [exact |-> TRUE, version |-> 1, mode |-> "expert-override",
         task |-> [exact |-> TRUE, family |-> "other", labelled |-> TRUE], tokens |-> 2]]}

ThreeRatesVisits == Found(Split, {Question})

TooSmall == [Split EXCEPT !.hardware.accelerators = <<[Card EXCEPT !.memory = 15]>>]

AllVisits ==
    {Split, Host}
    \cup UNION {DepartedFacts(v) \cup DepartedRecord(v) \cup DepartedPolicy(v) : v \in {Split, Host}}
    \cup DepartedCard(Split) \cup Evidence(Split) \cup Collected
    \cup Found(Split, Questions \cup Unanswerable) \cup Found(TooSmall, Questions)
    \cup {[Split EXCEPT !.reach = "previewed"], [Host EXCEPT !.reach = "previewed"]}

-----------------------------------------------------------------------------
(* The runner's side.                                                      *)
Finding(path, n, resolution) ==
    [path |-> path, sha256 |-> "h" \o ToString(n), bytes |-> 10, resolution |-> resolution,
     identity |-> [artifact |-> "a" \o ToString(n), sha256 |-> "h" \o ToString(n), bytes |-> 10,
                   quantization |-> "q4"]]
Store(artifacts) ==
    [kind |-> "data", status |-> "ok", snapshot |-> "registry", artifacts |-> artifacts]
AllStores ==
    {Store({Finding("p", 1, "verified"), Finding("q", 2, "verified"), Finding("r", 1, "candidateBySize")}),
     Store({[Finding("p", 1, "verified") EXCEPT !.sha256 = "h3"]}),
     [Store({}) EXCEPT !.kind = "throws"]}

Tool(part, build) ==
    [kind |-> part, name |-> ToolName[part], product |-> "lc", engine |-> "lc", build |-> build]
Part(part, runs) ==
    [exact |-> TRUE, id |-> part, runs |-> runs, preflight |-> "idle", tool |-> Tool(part, "b1")]
BothParts ==
    [exact |-> TRUE, id |-> "v1", benchmark |-> Part("benchmark", "asked"),
     quickCheck |-> Part("quickCheck", "asked"),
     confirmedHardware |-> [exact |-> TRUE, target |-> "t1", state |-> "ready"]]
AllPreparations ==
    {BothParts, [BothParts EXCEPT !.benchmark.runs = "other", !.quickCheck = None],
     [BothParts EXCEPT !.quickCheck.tool.build = "b2"]}

AllPlanners ==
    {[kind |-> "plan", flaw |-> f] : f \in {"none", "runs", "path", "candidate"}}
    \cup {[kind |-> k, flaw |-> "none"] : k \in {"throws", "malformed", "failure"}}
=============================================================================
