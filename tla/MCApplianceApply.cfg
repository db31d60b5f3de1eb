SPECIFICATION FairSpec
CONSTANTS
    Kinds = {"network", "publishing", "handoff"}
    Runners = {"web"}
    RetryKinds = {"network", "publishing"}
    MaxJobs = 2
    MaxVersion = 2
    MaxCrashes = 2
    MaxFaults = 2
CHECK_DEADLOCK FALSE
INVARIANTS TypeOK AppliedIsRunning RollbackOwned CommitNotUndone
PROPERTIES NetworkReleased RetriesReleaseOthers
