SPECIFICATION Spec
CONSTANTS
    r1 = r1
    r2 = r2
    a = a
    b = b
    c1 = c1
    c2 = c2
    NoJob = NoJob
    NumExecutors = 2
    Jobs = {r1, r2, a, b}
    Roots = {r1, r2}
    Procedure <- Nested
    Clients = {c1, c2}
    DependencyErrors = {FALSE}
    Failures = {"deque"}
    SizeMax = 7
SYMMETRY JobSymmetry
INVARIANTS
    TypeOK
    OneOwner
    JoinCount
    ChildrenEndFirst
    OwnerRecorded
    DestroyStatusHonest
    FreeCountConserved
    NoSleepingOnWork
