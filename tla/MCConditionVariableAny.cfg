CONSTANTS
    Waiters = {w1, w2}
    Ops = {"wait", "wait_until_stop"}
    MaxSpurious = 0
SPECIFICATION FairSpec
PROPERTY TimedWaitsReturn
CHECK_DEADLOCK FALSE
