SPECIFICATION EnvSpec
CONSTANT N = 3
VIEW View
INVARIANTS
    EnvTypeOK
    ResetIsHonest
    GraphIsRight
    GuardsHold
    HookAccounted
PROPERTIES
    RunKeepsToPlan
