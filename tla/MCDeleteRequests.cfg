CONSTANTS
    b1 = b1
    b2 = b2
    backupNameKey = backupNameKey
    Backups <- MCBackups
    BackupNameLabel = backupNameKey
    MaxRequests <- MCMaxRequests
    NameLength <- MCNameLength
    Clients = {"fake", "apiserver"}
SPECIFICATION Spec
PROPERTY ListFindsRequestsOfBackup
\* A List of the 64-character backup through the fake panics, which ends
\* the program: no call follows it.
CHECK_DEADLOCK FALSE
