SPECIFICATION FairSpec
CONSTANTS
    t1 = t1
    t2 = t2
    t3 = t3
    Thread = {t1, t2}
    Calls = {"unlock", "lock", "put", "get", "initCa", "leaf"}
    Faults = {"crash", "io"}
    MaxCalls = 4
INVARIANTS
    CertHasKey
    RestAgrees
PROPERTIES
    SealsOnlyUnlocked
    PanicStopUnlessNested
