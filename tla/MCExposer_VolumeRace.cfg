CONSTANTS
    MaxFaults <- MCNoFaults
    MaxCrashes <- MCNoCrashes
SPECIFICATION Spec
PROPERTY
    CleanUpRemovesVolume
