CONSTANTS
    Client = {c1, c2}
    NumInstances = 2
    MaxBatches = 3
    MaxReleases = 4
    MaxFailures = 1
    SharedBatches = 2
SPECIFICATION AggSpec
CONSTRAINT Bounds
SYMMETRY Symmetry
CHECK_DEADLOCK FALSE
INVARIANT RollingBackHasReplacement
INVARIANT NoOrphanChild
INVARIANT SettledIsCounted
