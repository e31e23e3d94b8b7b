CONSTANTS
    Threads = {"t1"}
    Heap = {"h1"}
    Images = {"A", "B"}
    MaxThrows = 1
SPECIFICATION Spec
INVARIANT HoldsThrown
CHECK_DEADLOCK FALSE
