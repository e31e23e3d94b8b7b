CONSTANTS
    Threads = {t1, t2, t3}
    Addresses = {Counter}
    Counter = Counter
    NoThread = NoThread
    Api_level = "has_wait_on_address"
    MaxSpurious = 1
    Desired = 0
    Least_max_value = 2
    MaxOps = 4
SPECIFICATION FairSpec
INVARIANTS TypeOK WaitingCounted EnoughWoken
PROPERTIES EveryCallReturns
