CONSTANTS
    r1 = r1
    v1 = v1
    Admin = {a1}
    Loop = Loop
    Route = {r1}
    Release = {v1}
    Instance = {1}
    Site <- Sites
    Request <- Requests
    None = None
    AnyHost = "*"
    MaxWrites = 2
    MaxRestarts = 1
    Config = {c1, c2}
    Static <- StaticDomains
    Certifiable = {"h"}
    Unset = Unset
    MaxEdits = 2
SPECIFICATION FairSpec
CHECK_DEADLOCK FALSE
INVARIANT ManagedAreHanded
PROPERTY CacheCatchesUp
PROPERTY TLSCatchesUp
