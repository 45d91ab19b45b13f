CONSTANTS
    Console = {c1, c2}
    App = {"a", "b"}
    Env = {"prod", "test", "other"}
    AppOf <- Apps
    Name = {"i", "j"}
    Port = {1, 2, 3}
    Key = {"k", "m"}
    Site = {"x", "y"}
    Save <- Requests
    None = None
    MaxRequests = 3
    MaxIntents = 1
SPECIFICATION Spec
SYMMETRY Consoles
CHECK_DEADLOCK FALSE
INVARIANT IntentStands
INVARIANT PortsUnique
INVARIANT RoutesNeedInstances
INVARIANT DeletedIsUnpinned
PROPERTY OtherRoutesUntouched
