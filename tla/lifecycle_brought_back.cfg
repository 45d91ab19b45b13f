CONSTANTS
    Client = {c1}
    Free = Free
    Instance <- Two
    Selected <- Two
    Machine <- One
    Host <- SharedHost
    MaxOps = 2
    MaxOutages = 0
    MaxRestarts = 0
SPECIFICATION Spec
CHECK_DEADLOCK FALSE
PROPERTY BroughtBackIsServed
