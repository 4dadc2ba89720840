CONSTANTS
    MaxFaults <- MCMaxFaults
    MaxCrashes <- MCMaxCrashes
SPECIFICATION Spec
INVARIANTS
    SnapshotKeptWhileExposing
    ExposedConsistent
    RollbackComplete
PROPERTIES
    CleanUpRemovesExposed
