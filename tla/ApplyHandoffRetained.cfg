SPECIFICATION FairSpec
CONSTANTS
    Kinds = {"handoff"}
    Runners = {"web"}
    RetryKinds = {"handoff"}
    MaxJobs = 1
    MaxVersion = 1
    MaxCrashes = 1
    MaxFaults = 0
CHECK_DEADLOCK FALSE
PROPERTY RetriesRelease
