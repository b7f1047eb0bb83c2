------------------------- MODULE MCExecutionProtocol -------------------------
(* One good plan of each protocol, and every plan that differs from it in  *)
(* one or two places: each field at its limits, one past them and missing. *)
EXTENDS ChildArguments

(* A program whose path holds a backslash that no quote follows.           *)
ProgramPath == <<"letter", "backslash", "letter">>

Checks == [check \in {"json-schema", "format-constraints", "fact-preservation"} |->
              IF check = "format-constraints" THEN 40 ELSE 60]

GoodRuntime ==
    [engineSupported |-> TRUE, noFlags |-> TRUE, backend |-> "cuda", context |-> 4, batch |-> 3,
     microBatch |-> 2, threads |-> 5, parallelism |-> 1, flash |-> "on", mmap |-> "off",
     layers |-> All, key |-> "f16", value |-> "q8_0", chatml |-> TRUE, samplerComplete |-> TRUE]

Values ==
    [engineSupported |-> BOOLEAN, noFlags |-> BOOLEAN,
     backend |-> {"cuda", "vulkan", "cpu", "other"}, context |-> {0, 1, 2, 4, 8, 9},
     batch |-> {None, 0, 1, 3, 6, 7}, microBatch |-> {None, 0, 1, 2, 3, 6, 7},
     threads |-> {None, 0, 1, 5, 6}, parallelism |-> {None, 1, 2},
     flash |-> Toggles \cup {"none"}, mmap |-> Toggles \cup {"none"},
     layers |-> {None, All, 0, 9, 10}, key |-> CacheTypes \cup {"other"},
     value |-> CacheTypes \cup {"other"}, chatml |-> BOOLEAN, samplerComplete |-> BOOLEAN]

Altered(r, field) == {[r EXCEPT ![field] = v] : v \in Values[field]}

Runtimes ==
    UNION {UNION {Altered(r, f) : r \in Altered(GoodRuntime, g)} :
              f \in DOMAIN Values, g \in DOMAIN Values}

Kinds == {<<>>, <<"generation">>, <<"prompt-processing", "generation">>,
          <<"generation", "prompt-processing", "stability">>,
          <<"prompt-processing", "generation", "generation">>,
          <<"prompt-processing", "generation", "memory">>}

CheckLists ==
    LET some == DOMAIN Checks \cup {"unknown"}
    IN  UNION {[1..n -> some] : n \in 0..3}

BenchmarkPlan(r, w, m, k, ok) ==
    [protocol |-> "benchmark", identified |-> ok, artifact |-> "model", runtime |-> r,
     warmups |-> w, measured |-> m, kinds |-> k]
QuickCheckPlan(r, c, ok) ==
    [protocol |-> "quick-check", identified |-> ok, artifact |-> "model", runtime |-> r,
     checks |-> c]
CapturePlan(r, ok) ==
    [protocol |-> "capture", identified |-> ok, artifact |-> "model", runtime |-> r]

GoodKinds == <<"prompt-processing", "generation">>

SpawningPlan == BenchmarkPlan(GoodRuntime, 1, 2, GoodKinds, TRUE)

AllPlans ==
    {BenchmarkPlan(r, 1, 2, GoodKinds, TRUE) : r \in Runtimes}
    \cup {BenchmarkPlan(GoodRuntime, w, m, k, ok) :
             w \in 0..3, m \in 0..4, k \in Kinds, ok \in BOOLEAN}
    \cup {QuickCheckPlan(r, <<"json-schema">>, TRUE) : r \in Runtimes}
    \cup {QuickCheckPlan(GoodRuntime, c, ok) : c \in CheckLists, ok \in BOOLEAN}
    \cup {CapturePlan(r, ok) : r \in Runtimes, ok \in BOOLEAN}
=============================================================================
