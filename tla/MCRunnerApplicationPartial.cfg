SPECIFICATION Spec
CONSTANTS
    left = left
    right = right
    NoObservation = NoObservation
    Refused = Refused
    Clicks = {left, right}
    Sections <- TestedSections
    Inventories <- OneScan
    Plans <- OnePlan
    Contexts <- TwoContexts
    WorkerResults <- AllResults
    MaxSequence = 2
INVARIANT
    RetainedObservationsStayVisible
CHECK_DEADLOCK FALSE
