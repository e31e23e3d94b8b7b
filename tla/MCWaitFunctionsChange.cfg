CONSTANTS
    Callers = {t1, t2}
    Requests = {"acquire", "set_srwlock"}
    Available = TRUE
SPECIFICATION LevelSpec
PROPERTY LevelIsFinal
