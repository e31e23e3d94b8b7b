CONSTANTS
    Threads = {t1, t2, t3}
    Addresses = {a, b}
    NoThread = NoThread
    Api_level = "has_srwlock"
    MaxSpurious = 1
    Values = {0, 1}
    InitValue = 0
    MaxOps = 4
SPECIFICATION FairSpec
INVARIANTS EntryIntegrity NoMissedWake
PROPERTIES ContractSpec ChangedWaitReturns
