CONSTANTS
    Threads = {t1, t2}
    Objects = {c1, c2, c3}
    Null = Null
    SourceOwners = {t1}
    MaxOps = 5
    Ops = {"wait", "wait_until", "wait_stop", "wait_until_stop"}
    MaxSpurious = 1
    Kinds = {"promise", "packaged_task", "deferred", "task"}
    MaxCalls = 1
SPECIFICATION MCSpec
INVARIANTS ListIntegrity EveryoneCalled CountsOwners OneResult
PROPERTIES DestroyWaits EveryCallReturns
CHECK_DEADLOCK FALSE
