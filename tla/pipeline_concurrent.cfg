CONSTANTS
    Client = {c1, c2}
    Token = {t1, t2}
    NoToken = NoToken
    NumSteps = 1
    MaxReleases = 3
    MaxLogs = 2
    MaxCrashes = 0
    MaxTimeouts = 1
SPECIFICATION Spec
CONSTRAINT Bounds
SYMMETRY Symmetry
CHECK_DEADLOCK FALSE
INVARIANT DeployExclusive
INVARIANT PausedIsQuiescent
INVARIANT RolledBackWasReplaced
