CONSTANTS
    Client = {c1}
    Token = {t1, t2}
    NoToken = NoToken
    NumSteps = 2
    MaxReleases = 1
    MaxLogs = 1
    MaxCrashes = 1
    MaxTimeouts = 1
SPECIFICATION FairSpec
CHECK_DEADLOCK FALSE
INVARIANT SuccessMeansEveryStepRan
PROPERTY LockEventuallyFreed
