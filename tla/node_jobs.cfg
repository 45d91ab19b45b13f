CONSTANTS
    MaxJobs = 2
    MaxRestarts = 1
    MaxWrites = 2
    Sizes <- TwoOrFour
    NodeBytes = 3
    RowBytes = 4
    MarkerBytes = 1
    ErrorBytes = 1
SPECIFICATION FairSpec
CHECK_DEADLOCK FALSE
INVARIANT ReportIsConclusive
INVARIANT StoredOutputIsTail
PROPERTY ComesToRest
