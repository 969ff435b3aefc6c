SPECIFICATION DaemonSpec
CONSTANTS
    t1 = t1
    t2 = t2
    b1 = b1
    b2 = b2
    p1 = p1
    p2 = p2
    Thread = {t1, t2}
    Token = {b1, b2}
    Calls = {"mint", "revoke", "revokeBearer", "swap", "lock", "unlock"}
    Faults = {"crash", "io", "usb"}
    MaxCalls = 6
    Host <- Hosts
    Scopes <- Policies
    Process = {p1, p2}
    Home = p1
SYMMETRY Symmetry
VIEW View
INVARIANTS
    RevokedNeverSent
    KeyToItsProvider
    NoLeafWhenBarred
    ServerIsReachable
PROPERTIES
    KeyOnlyUnlocked
