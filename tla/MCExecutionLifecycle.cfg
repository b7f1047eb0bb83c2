CONSTANTS
    gpu = gpu
    b1 = b1
    b2 = b2
    NoBuild = NoBuild
    NoSubplan = NoSubplan
    NoRecord = NoRecord
    Plans <- AllPlans
    Backends = {gpu}
    Builds = {b1, b2}
    Updates <- AllUpdates
    ResultStatuses = {"completed", "failed"}
    MaxId = 2
    MaxSequence = 3
SPECIFICATION Spec
INVARIANTS
    TypeOK
    EventsReplayToSnapshot
    CompletedHasMatchingLoad
    TerminalRecordAgrees
    OneLiveRun
    AuthorizationIsSpentOnce
PROPERTIES
    TerminalIsFinal
    SnapshotsOnlyAdvance
    KeepsThePromise
\* A terminal execution takes no step; the bounds stop the rest.
CHECK_DEADLOCK FALSE
