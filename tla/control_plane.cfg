CONSTANTS
    SuccessThreshold = 1
    FailureThreshold = 2
    NoRow = NoRow
    MaxFlips = 2
    MaxManual = 1
    MaxStops = 1
    Durations = {0, 3}
    TickSeconds = 2
    NoRule = NoRule
    MaxChanges = 3
    MaxOperations = 3
    Machine = {1, 2}
    Ssh = {2}
    Upload = {u1, u2}
    Replacing = {u2}
    Raw = {u1}
    MaxSpread = 2
    Operator = {o1, o2}
    NoMachine = NoMachine
    MaxMachineOps = 3
    Envs = {1, 2}
    Prod = 1
    VarValue = {"v", "w"}
    Blank = Blank
    NoEnvRow = NoEnvRow
    EnvConfig = {"", "c"}
    MaxVarEdits = 2
    MaxRestarts = 1
SPECIFICATION FairSpec
CHECK_DEADLOCK FALSE
INVARIANT StatusHasProbes
INVARIANT WholeFilesOnly
INVARIANT RecordedWasThere
INVARIANT MachineAsAsked
INVARIANT RowSaysWhatWasTold
PROPERTY StatusConverges
PROPERTY AlertsFollowCondition
PROPERTY FilesVerified
PROPERTY BackfillKeepsProd
