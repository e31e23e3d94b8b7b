CONSTANTS
    Threads = {t1, t2}
    Addresses = {Current}
    CurrentAddress = Current
    NoThread = NoThread
    Api_level = "has_wait_on_address"
    MaxSpurious = 0
    ForOthers = TRUE
    MaxArrivals = 4
SPECIFICATION FairBarrier
PROPERTY WaitReturns
