SPECIFICATION Spec
CONSTANTS
    t1 = t1
    t2 = t2
    d1 = d1
    d2 = d2
    Thread = {t1, t2}
    Daemon = {d1, d2}
    Name = {"n"}
    Faults = {"crash", "io", "expiry"}
    MaxCalls = 6
SYMMETRY Symmetry
INVARIANTS
    OkIsDurable
    SecretsStayReadable
    OpensAfterInit
PROPERTIES
    StoreSpec
