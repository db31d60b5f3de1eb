CONSTANTS
    f1 = f1
    f2 = f2
    a = a
    b = b
    t = t
    o1 = o1
    o2 = o2
    Forms = {f1, f2}
    Files = {a, b}
    Media = {a, b}
    FilesOf <- PairFiles
    Size <- PairSize
    Owner <- TwoOwners
    MaxSessions = 2
    MaxPerOwner = 2
    MaxReserved = 2
    MaxTries = 1
    MaxForeign = 1
    MaxRestarts = 1
SPECIFICATION Spec
PROPERTIES
    ConsentKept
    FailureRestores
CHECK_DEADLOCK FALSE
