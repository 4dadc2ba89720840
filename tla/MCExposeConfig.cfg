CONSTANTS
    StorageClasses <- MCStorageClasses
    AccessModes <- MCAccessModes
    Sizes <- MCSizes
    NodeOSes <- MCNodeOSes
    MCNoSize = MCNoSize
    NoSize <- MCNoSize
SPECIFICATION Spec
INVARIANTS
    ReadOnlyOverride
    RelabelSkipOnlyReadOnly
