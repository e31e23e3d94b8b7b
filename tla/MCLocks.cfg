\* The five kinds of locks, with three threads, and two for the mutex and for
\* std::lock on three locks; MaxOps bounds the calls of _Lock_and_load, the other
\* bounds those on the mutexes.
CONSTANTS
    Threads = {t1, t2, t3}
    Pair = {t1, t2}
    Clients = {t1, t2, t3}
    Cell = Cell
    Addresses = {Cell}
    NoThread = NoThread
    Api_level = "has_wait_on_address"
    MaxSpurious = 0
    Pointers = {p1, p2}
    InitPointer = p1
    MaxOps = 4
    MutexTypes = {{}, {"try"}, {"try", "recursive"}, {"timed"}}
    MutexOps = 5
    TimedOps = 4
    SharedOps = 3
    LockOps = 3
    LockCount = 3
    MaxLocked = 2
    Max_readers = 2
SPECIFICATION MCSpec
INVARIANTS Exclusive NobodyStranded MutexesExclusive WaitersHandedOn AllOrNothing
PROPERTIES ContractSpec CallsReturn
CHECK_DEADLOCK FALSE
