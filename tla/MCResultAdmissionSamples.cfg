SPECIFICATION Spec
CONSTANTS
    NoObservation = NoObservation
    Refused = Refused
    Plans <- ModelPlans
    BenchmarkOutputs <- ModelOutputs
    QuickOutputs <- ModelChecks
INVARIANT
    OnlyAcceptedReportsLeaveSamples
CHECK_DEADLOCK FALSE
