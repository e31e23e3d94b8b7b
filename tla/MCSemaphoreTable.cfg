CONSTANTS
    Threads = {t1, t2, t3}
    Addresses = {Counter}
    Counter = Counter
    NoThread = NoThread
    Api_level = "has_srwlock"
    MaxSpurious = 0
    Desired = 0
    Least_max_value = 2
    MaxOps = 4
SPECIFICATION Spec
INVARIANT EnoughWoken
