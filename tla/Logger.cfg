SPECIFICATION Spec

CONSTANTS
    t1 = t1
    t2 = t2
    Threads = {t1, t2}
    First = t1
    MaxCalls = 3
    FailingAllocations = TRUE
    NumBlocks = 12
    NoBlock = NoBlock

INVARIANTS TypeOK RingsConsistent NoUseAfterDestroy NothingStranded NothingLeaked
PROPERTIES TakenInOrder
