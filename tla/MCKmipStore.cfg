CONSTANTS
    k1 = k1
    k2 = k2
    Keys = {k1, k2}
    MaxWrites = 4
    MaxCrashes = 2
    MaxFaults = 2
    MaxRollbacks = 1
    MaxProbes = 0
SPECIFICATION FairSpec
INVARIANTS
    TypeOK
    Reopens
PROPERTIES
    ImplementsKeyService
    ComesBack
CHECK_DEADLOCK FALSE
