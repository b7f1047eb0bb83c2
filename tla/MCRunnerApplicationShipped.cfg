SPECIFICATION Spec
CONSTANTS
    left = left
    right = right
    NoObservation = NoObservation
    Refused = Refused
    Clicks = {left, right}
    Sections <- ShippedSections
    Inventories <- OneScan
    Plans <- OnePlan
    Contexts <- TwoContexts
    WorkerResults <- AllResults
    MaxSequence = 2
INVARIANT
    CheckedProgramsCanBeUsed
CHECK_DEADLOCK FALSE
