SPECIFICATION Spec

CONSTANTS
    a = a
    b = b
    p = p
    q = q
    Elements = {a, b}
    Nothing = Nothing
    Uninitialized = Uninitialized
    InitialSize = 2
    MaxBufferSize = 8
    Keys <- Handles
    Values = {p, q}
    Null = Null
    Untouched = Untouched
    InitialTableSize = 1
    RehashNum = 1
    RehashDen = 1
    MaxTableSize = 7

CONSTRAINT OneAtATime

INVARIANTS DequeTypeOK BlocksOwned
PROPERTIES ImplementsJobQueue ImplementsPromiseTable
