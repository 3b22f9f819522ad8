SPECIFICATION Spec
CONSTANTS
    c1 = c1
    c2 = c2
    Calls = {c1}
    Operations = {"read"}
    MaxConcurrent = 1
    Descriptors <- TwoDescriptors
    NoFile = NoFile
    NoEntry = NoEntry
    BadFile = BadFile
    Stopped = Stopped
    LongCalls = FALSE
    MaxVersions = 2
    MaxProcesses = 2
INVARIANTS ReadStaysRead
CHECK_DEADLOCK FALSE
