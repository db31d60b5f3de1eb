CONSTANTS
    j1 = j1
    j2 = j2
    j3 = j3
    j4 = j4
    s1 = s1
    s2 = s2
    Job = {j1, j2, j3, j4}
    Kind <- MixedKind
    Session = {s1, s2}
    Streams = 2
    MaxTasks = 2
    MaxFaults = 2
    NoJob = NoJob
SPECIFICATION FairSpec
INVARIANTS
    TypeOK
    IInv
    AtMostOneRunning
    ConfirmedReleasesOwned
    ReleasedOutsideGap
    OutcomeTruthful
PROPERTIES
    AcceptedStopHolds
    ResultPreserved
    EveryRequestDisposed
