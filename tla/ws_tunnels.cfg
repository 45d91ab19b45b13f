CONSTANTS
    Conn = {c1, c2}
    IP <- Addresses
    Route = {r1, r2}
    Instance = {i1}
    Leaving = i1
    None = None
    MaxTotal = 2
    MaxPerRoute = 1
    MaxPerIP = 2
    Burst = 3
    Rate = 1
    Cost = 2
    MaxTicks = 1
SPECIFICATION FairSpec
CHECK_DEADLOCK FALSE
INVARIANT SlotsAccounted
INVARIANT LimitsHold
INVARIANT DrainWaitsForTunnels
PROPERTY NothingHangs
