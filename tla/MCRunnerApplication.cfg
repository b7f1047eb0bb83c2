SPECIFICATION FairSpec
CONSTANTS
    left = left
    right = right
    NoObservation = NoObservation
    Refused = Refused
    Clicks = {left, right}
    Sections <- TestedSections
    Inventories <- OneScan
    Plans <- OnePlan
    Contexts <- TwoContexts
    WorkerResults <- AllResults
    MaxSequence = 2
INVARIANTS
    SetupStepsDoNotOverlap
    AResultStaysShown
    CompletedRunsAreShown
PROPERTIES
    SnapshotsNeverGoBack
    EveryRunIsSettled
\* A page that shows a result, or a receipt, offers no further step.
CHECK_DEADLOCK FALSE
