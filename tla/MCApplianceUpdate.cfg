CONSTANTS
    Plans <- AllPlans
    Photon = "photon_os"
    MaxAttempts = 3
    FaultKinds = {"crash", "reboot", "helper", "busy", "raise"}
    MaxFaults = 5
    Cancellable = TRUE
SPECIFICATION FairSpec
INVARIANTS
    TypeOK
    HeldWhileMutating
    OpensCleanOutsideGap
    NoReplay
    OneRestartAtATime
PROPERTIES
    RestorationFinal
    EventuallySettles
CHECK_DEADLOCK FALSE
