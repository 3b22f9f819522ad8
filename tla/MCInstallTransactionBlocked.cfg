SPECIFICATION Spec
CONSTANTS
    Directories <- MCDirectories
    Files <- MCFiles
    StateFile <- MCStateFile
    BackupOrder <- MCBackupOrder
    PlaceOrder <- MCPlaceOrder
    LegacyOrder <- MCLegacyOrder
    OwnedOrder <- MCOwnedOrder
    MaxAttempts = 1
INVARIANTS
    RestoreNotBlocked
CHECK_DEADLOCK FALSE
