SPECIFICATION FairSpec
CONSTANTS
    gpu = gpu
    b1 = b1
    NoBuild = NoBuild
    NoSubplan = NoSubplan
    NoRecord = NoRecord
    NoObservation = NoObservation
    Refused = Refused
    Backends = {gpu}
    Builds = {b1}
    Plans <- AllPlans
    BenchmarkOutputs <- ModelOutputs
    QuickOutputs <- ModelChecks
    MaxId = 2
    MaxConfirmations = 2
INVARIANTS
    OneWorker
    RegistriesAgree
    StopReachesTheWorker
    RetainedCountsMatchTheResult
    LoadEvidenceSurvives
PROPERTIES
    NothingBeginsBehindAStop
    ProgressIsNeverRefused
    KeepsThePromise
    EveryRunEnds
\* The last confirmation is spent, the last run has ended.
CHECK_DEADLOCK FALSE
