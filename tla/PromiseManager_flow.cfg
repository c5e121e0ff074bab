SPECIFICATION FairSpec
CONSTANTS
    c1 = c1
    c2 = c2
    w1 = w1
    w2 = w2
    NoThread = NoThread
    MaxHandles = 3
    Dependencies <- Joins
    Clients = {c1}
    Workers = {w1, w2}
    MaxCallbacks = 0
    MaxContinuations = 1
    Failures = {}
INVARIANTS
    TypeOK
    ReleasesOwed
PROPERTIES
    ImplementsTaskFlow
    TaskFlowLive
