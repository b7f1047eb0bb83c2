SPECIFICATION Spec
CONSTANTS
    NoObservation = NoObservation
    Refused = Refused
    Plans <- ModelPlans
    BenchmarkOutputs <- ModelOutputs
    QuickOutputs <- ModelChecks
INVARIANTS
    NormalizationAcceptsTheRun
    CompletedIsTheWholePlan
    LoadIsObservedOfAcceptedReports
PROPERTY
    AdmittedPrefixSurvives
\* A run of children ends.
CHECK_DEADLOCK FALSE
