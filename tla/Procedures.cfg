SPECIFICATION FairSpec

CONSTANTS
    InitialBufferSize = 1
    MaxContinuations = 3
    Executors = {0, 1}
    Failures = {"frame"}
    MaxCount = 2

INVARIANTS BuiltAsRequested BlocksReturned LoopsComplete OutcomeHonest UnwoundOnce
PROPERTIES JobsEnd
