SPECIFICATION FairSpec
CONSTANTS
    c1 = c1
    c2 = c2
    w1 = w1
    w2 = w2
    NoThread = NoThread
    MaxHandles = 2
    Dependencies <- Refused
    Clients = {c1, c2}
    Workers = {w1, w2}
    MaxCallbacks = 1
    MaxContinuations = 2
    Failures = {"deque"}
INVARIANTS
    RefCountExact
    NoUseAfterFree
    CallbacksOnce
    NoLeak
PROPERTIES
    AwaitReturns
