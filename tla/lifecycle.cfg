CONSTANTS
    Client = {c1, c2}
    Free = Free
    Instance <- One
    Selected <- One
    Machine <- One
    Host <- SharedHost
    MaxOps = 3
    MaxOutages = 1
    MaxRestarts = 1
SPECIFICATION FairSpec
CHECK_DEADLOCK FALSE
INVARIANT TypeOK
INVARIANT LifecycleExclusive
PROPERTY DeleteIsSafe
PROPERTY ProxyRestored
