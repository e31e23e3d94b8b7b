CONSTANTS
    Threads = {t1, t2, t3}
    Addresses = {Current}
    CurrentAddress = Current
    NoThread = NoThread
    Api_level = "has_srwlock"
    MaxSpurious = 0
    ForOthers = FALSE
    MaxArrivals = 4
SPECIFICATION FairBarrier
INVARIANTS OneCompletion ExpectsTheRest
PROPERTIES NoEarlyReturn WaitReturns
