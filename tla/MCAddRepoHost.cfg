SPECIFICATION AddSpec
CONSTANTS
    p1 = p1
    p2 = p2
    a = a
    b = b
    s1 = s1
    s2 = s2
    u1 = u1
    u2 = u2
    n1 = n1
    n2 = n2
    Proc = {p1, p2}
    Component = {a, b, s1, s2}
    Slug = {s1, s2}
    Url = {u1, u2}
    Name = {n1, n2}
    Prefix = {}
    Scenes <- Hosts
    MaxCommits = 2
CHECK_DEADLOCK FALSE
INVARIANTS
    AllTypesOK
    UserKept
    ReportsAreTrue
    BuildsAsAsked
PROPERTIES
    NoStepOversteps
