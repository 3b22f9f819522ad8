SPECIFICATION Spec
CONSTANTS
    c1 = c1
    c2 = c2
    Calls = {c1, c2}
    Operations = {"names", "probe", "schema", "write"}
    MaxConcurrent = 2
    Descriptors <- OneDescriptor
    NoFile = NoFile
    NoEntry = NoEntry
    BadFile = BadFile
    Stopped = Stopped
    LongCalls = TRUE
    MaxVersions = 2
    MaxProcesses = 2
INVARIANTS NoCrossTalk ActiveMatchesConfig
SYMMETRY Symmetry
CHECK_DEADLOCK FALSE
