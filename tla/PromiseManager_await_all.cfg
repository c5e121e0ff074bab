SPECIFICATION FairSpec
CONSTANTS
    c1 = c1
    c2 = c2
    w1 = w1
    w2 = w2
    NoThread = NoThread
    MaxHandles = 1
    Dependencies <- Single
    Clients = {c1, c2}
    Workers = {w1}
    MaxCallbacks = 0
    MaxContinuations = 2
    Failures = {}
PROPERTIES
    AwaitAllReturns
