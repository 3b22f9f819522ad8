SPECIFICATION FacadeSpec
CONSTANTS
    c1 = c1
    c2 = c2
    Calls = {c1}
    Operations = {"probe", "preview", "read"}
    MaxConcurrent = 1
    Descriptors <- TwoDescriptors
    NoFile = NoFile
    NoEntry = NoEntry
    BadFile = BadFile
    Stopped = Stopped
    LongCalls = FALSE
    MaxVersions = 3
    MaxProcesses = 3
INVARIANTS TypeOK NoOrphans CalledAtMostOnce ProviderWorkOnRecord
CHECK_DEADLOCK FALSE
PROPERTIES OperationEnds
