SPECIFICATION Spec
CONSTANTS
    Streams <- BothStreams
    Limit = 1
    MaxWritten = 2
INVARIANTS
    NothingRunsBehindTheCall
    OutcomeIsEarned
PROPERTY
    EveryCallReturns
\* Behind the call nothing is left to happen.
CHECK_DEADLOCK FALSE
