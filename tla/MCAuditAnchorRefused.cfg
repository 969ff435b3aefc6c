SPECIFICATION Spec
CONSTANTS
    t1 = t1
    t2 = t2
    t3 = t3
    Thread = {t1, t2}
    DebugAsserts = FALSE
    Faults = {}
    MaxRows = 4
INVARIANTS
    RestingAnchorVerifies
