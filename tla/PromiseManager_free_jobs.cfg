SPECIFICATION Spec
CONSTANTS
    c1 = c1
    c2 = c2
    w1 = w1
    w2 = w2
    NoThread = NoThread
    MaxHandles = 2
    Dependencies <- Chain
    Clients = {c1}
    Workers = {w1}
    MaxCallbacks = 0
    MaxContinuations = 2
    Failures = {}
INVARIANTS
    NoPhantomJobs
