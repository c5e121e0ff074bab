SPECIFICATION FairSpec
CONSTANTS
    r1 = r1
    r2 = r2
    a = a
    b = b
    c1 = c1
    c2 = c2
    NoJob = NoJob
    NumExecutors = 2
    Jobs = {r1, a, b}
    Roots = {r1}
    Procedure <- Errors
    Clients = {c1}
    DependencyErrors = {FALSE, TRUE}
    Failures = {"executor", "frame", "deque"}
    SizeMax = 7
INVARIANTS
    AssertionsHold
    FramesReleased
    ErrorsReachRoot
    ErrorsHaveCause
    RepeatedForReason
PROPERTIES
    InvokedCompletes
    ShutdownCompletes
