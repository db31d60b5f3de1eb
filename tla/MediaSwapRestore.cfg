CONSTANTS
    t1 = t1
    t2 = t2
    Txn = {t1, t2}
    MaxFaults = 1
SPECIFICATION Spec
PROPERTY
    RecoveryRestoresPrevious
CHECK_DEADLOCK FALSE
