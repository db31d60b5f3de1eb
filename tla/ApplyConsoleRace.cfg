SPECIFICATION Spec
CONSTANTS
    Kinds = {"network"}
    Runners = {"web", "console"}
    RetryKinds = {}
    MaxJobs = 1
    MaxVersion = 1
    MaxCrashes = 1
    MaxFaults = 0
CHECK_DEADLOCK FALSE
INVARIANT AppliedIsRunning
