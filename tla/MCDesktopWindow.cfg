SPECIFICATION DesktopSpec
CONSTANTS
    N = 2
    Requires <- Chain
    MaxActs = 2
CHECK_DEADLOCK FALSE
INVARIANTS
    DesktopTypeOK
    RowsAreHonest
    SleepsSafely
PROPERTIES
    BusyClears
    SamplerEnds
