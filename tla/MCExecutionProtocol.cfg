SPECIFICATION ChildSpec
CONSTANTS
    Spawning <- SpawningPlan
    Executable <- ProgramPath
    MaxLine = 20
    MaxArguments = 2
    MaxUnits = 3
    Plans <- AllPlans
    FixedChecks <- Checks
    PromptTokens = 5
    GenerationTokens = 1
    MaxWarmups = 2
    MaxMeasured = 3
    MaxTotal = 4
    MinContext = 2
    MaxContext = 8
    MaxBatch = 6
    MaxThreads = 5
    MaxLayers = 9
    MaxCaptureContext = 32
    Repetitions = 3
INVARIANTS
    ResolvedPlansCross
    TheConfirmedRuntimeRuns
    ArgumentsArrive
    LinesFit
\* Behind the last line, or a refusal, nothing is left to do.
CHECK_DEADLOCK FALSE
