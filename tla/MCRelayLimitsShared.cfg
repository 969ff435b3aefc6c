SPECIFICATION GateSpec
CONSTANTS
    t1 = t1
    t2 = t2
    Thread = {t1, t2}
    Sec = 2
    Window = 3
    ClockSkew = 2
    MaxTtl = 3
    PolicyTtl = 2
    Requested <- Lifetimes
    Bytes = {1, 2}
    Settings <- AllSettings
    MaxTime = 6
    GateTtl = 2
SYMMETRY Symmetry
INVARIANTS
    PresenceIsRecent
    NoUseAfterExpiry
    WithinBudget
    TwoWindowsWorth
