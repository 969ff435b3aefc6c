SPECIFICATION FairSpec
CONSTANTS
    t1 = t1
    t2 = t2
    t3 = t3
    Thread = {t1, t2}
    Calls = {"lock", "leaf"}
    Faults = {}
    MaxCalls = 2
PROPERTIES
    PanicStopCompletes
CHECK_DEADLOCK FALSE
