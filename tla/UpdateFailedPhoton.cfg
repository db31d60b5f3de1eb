CONSTANTS
    Plans <- AllPlans
    Photon = "photon_os"
    MaxAttempts = 1
    FaultKinds = {"raise"}
    MaxFaults = 1
    Cancellable = FALSE
SPECIFICATION Spec
INVARIANT FailedPhotonOwes
CHECK_DEADLOCK FALSE
