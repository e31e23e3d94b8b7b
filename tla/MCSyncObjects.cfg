CONSTANTS
    Threads = {t1, t2, t3}
    LatchCounter = LatchCounter
    SemaphoreCounter = SemaphoreCounter
    Addresses = {LatchCounter, SemaphoreCounter}
    NoThread = NoThread
    Api_level = "has_srwlock"
    MaxSpurious = 0
    Expected = 2
    Desired = 0
    MaxOps = 3
SPECIFICATION FairSpec
INVARIANT NobodyStranded
PROPERTY EveryCallReturns
