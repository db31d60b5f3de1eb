CONSTANTS
    f1 = f1
    f2 = f2
    a = a
    b = b
    t = t
    o1 = o1
    o2 = o2
    Forms = {f1}
    Files = {a, t}
    Media = {a}
    FilesOf <- OneForm
    Size <- OneFormSize
    Owner <- OneOwner
    MaxSessions = 2
    MaxPerOwner = 2
    MaxReserved = 3
    MaxTries = 2
    MaxForeign = 1
    MaxRestarts = 1
SPECIFICATION FairSpec
INVARIANTS
    TypeOK
    PublishedWhole
    RetriesAccepted
    ClaimedTogether
PROPERTY SessionsReleased
CHECK_DEADLOCK FALSE
