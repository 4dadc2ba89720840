CONSTANTS
    b1 = b1
    b2 = b2
    backupNameKey = backupNameKey
    Backups <- MCBackups
    BackupNameLabel = backupNameKey
    MaxRequests <- MCMaxRequests
    NameLength <- MCNameLength
    Clients = {"apiserver"}
SPECIFICATION Spec
PROPERTY CreateIsListed
