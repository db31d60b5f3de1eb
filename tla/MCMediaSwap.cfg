CONSTANTS
    t1 = t1
    t2 = t2
    Txn = {t1, t2}
    MaxFaults = 3
SPECIFICATION FairSpec
INVARIANTS
    TypeOK
    BackupJournalled
    StagingHeld
PROPERTIES
    CommittedStays
    SyncKeepsPrevious
    RecoveryEnds
CHECK_DEADLOCK FALSE
