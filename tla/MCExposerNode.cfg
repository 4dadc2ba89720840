CONSTANTS
    MaxFaults <- MCNodeMaxFaults
    MaxCrashes <- MCNodeMaxCrashes
    MaxEvictions <- MCMaxEvictions
SPECIFICATION NodeSpec
PROPERTIES
    UnrecoverablePodAborts
