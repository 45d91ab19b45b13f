CONSTANTS
    r1 = r1
    r2 = r2
    v1 = v1
    v2 = v2
    v3 = v3
    Admin = {a1, a2}
    Loop = Loop
    Route = {r1, r2}
    Release = {v1, v2, v3}
    Instance = {1, 2}
    Site <- Sites
    Request <- Requests
    None = None
    AnyHost = "*"
    MaxWrites = 4
    MaxRestarts = 0
SPECIFICATION RoutesSpec
SYMMETRY Symmetry
CHECK_DEADLOCK FALSE
INVARIANT HistoryKnowsCurrent
INVARIANT MostSpecificRoute
PROPERTY RollbackUndoesLastSwitch
PROPERTY ServesCommittedVersions
