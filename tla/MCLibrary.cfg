CONSTANTS
    Callers = {t1, t2, t3}
    Requests = {"acquire", "set_srwlock", "set_wait_on_address"}
    Available = TRUE
    TwoThreads = {"t1", "t2"}
    ExitMutexes = {"m1", "m2", "m3", "m4"}
    Nitems = 2
    MaxBlocks = 2
    Hosts = {"Exe", "Dll", "Unknown"}
    Heap = {"h1", "h2"}
    Images = {"A"}
    MaxThrows = 2
    MaxImps = 3
    LocaleNames = {"de"}
    MaxOthers = 1
    MaxPath = 4
    JobSlots = {"e1", "e2", "e3"}
    MaxWrites = 4
    MaxDepth = 2
    Nats = 2
    MaxObjects = 2
    Buffers = {"b1", "b2"}
    MaxMade = 2
    Movers = {"t1"}
    MaxPending = 2
SPECIFICATION MCSpec
INVARIANTS
    LevelSettled
    ExitsAnnounced
    ExitWaits
    ReferencesCounted
    FilesTrue
    CommandsRun
    OutputComplete
PROPERTIES
    EmittedOnce
    NumbersAgree
    ArithmeticExact
    VectorsAgree
    TextsAgree
CHECK_DEADLOCK FALSE
