SPECIFICATION Spec
CONSTANTS
    Source = {A, B}
    Wild = {B}
    Name = {x}
    Target = {1, 2}
    UserServers <- Beforehand
    MaxRev = 2
    MaxChanges = 3
    MaxFaults = 1
    A = A
    B = B
INVARIANTS
    CacheNeverWrong
    TwoCleanSyncsSettle
PROPERTIES
    KeptWhileAsked
    LostOnlyIfTracked
