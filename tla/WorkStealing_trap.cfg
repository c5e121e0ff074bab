SPECIFICATION Spec
CONSTANTS
    r1 = r1
    r2 = r2
    a = a
    b = b
    c1 = c1
    c2 = c2
    NoJob = NoJob
    NumExecutors = 2
    Jobs = {r1, a}
    Roots = {r1}
    Procedure <- Traps
    Clients = {c1}
    DependencyErrors = {FALSE}
    Failures = {}
    SizeMax = 7
INVARIANTS
    TrapRecovers
