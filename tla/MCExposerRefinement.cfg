CONSTANTS
    MaxFaults <- MCRefMaxFaults
    MaxCrashes <- MCRefMaxCrashes
SPECIFICATION Spec
PROPERTIES
    ImplementsAbs
