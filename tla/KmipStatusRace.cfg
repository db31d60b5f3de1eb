CONSTANTS
    k1 = k1
    k2 = k2
    Keys = {k1, k2}
    MaxWrites = 4
    MaxCrashes = 2
    MaxFaults = 0
    MaxRollbacks = 0
    MaxProbes = 1
SPECIFICATION StatusSpec
INVARIANT Reopens
CHECK_DEADLOCK FALSE
