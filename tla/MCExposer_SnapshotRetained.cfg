CONSTANTS
    MaxFaults <- MCMaxFaults
    MaxCrashes <- MCMaxCrashes
SPECIFICATION Spec
INVARIANT
    SnapshotRetained
