SPECIFICATION Spec
CONSTANTS
    Directories <- MCDirectories
    Files <- MCFiles
    StateFile <- MCStateFile
    BackupOrder <- MCBackupOrder
    PlaceOrder <- MCPlaceOrder
    LegacyOrder <- MCLegacyOrder
    OwnedOrder <- MCOwnedOrder
    MaxAttempts = 2
INVARIANTS
    TypeOK
    NothingLost
    OnlyFreshFilesLeft
    SucceededIsComplete
CHECK_DEADLOCK FALSE
