SPECIFICATION Spec
CONSTANTS
    t1 = t1
    t2 = t2
    t3 = t3
    Thread = {t1, t2}
    Calls = {"unlock", "lock"}
    Faults = {}
    MaxCalls = 3
INVARIANTS
    IssuerOnlyWhileUnlocked
