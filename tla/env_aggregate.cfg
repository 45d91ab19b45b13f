CONSTANTS
    Client = {c1}
    NumInstances = 2
    MaxBatches = 2
    MaxReleases = 4
    MaxFailures = 0
SPECIFICATION Spec
CHECK_DEADLOCK FALSE
INVARIANT LastChildWritesFinal
