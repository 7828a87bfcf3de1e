CONSTANTS
    Sessions <- MCSessions
    Keys <- MCKeys
    Key <- MCKey
    Options <- MCOptions
    Inodes <- MCInodes
    MaxCalls = 2
    Empty = Empty
    None = None
    i1 = i1
    i2 = i2
    i3 = i3
SPECIFICATION Spec
SYMMETRY InodeSymmetry
INVARIANTS
    TypeOK
    HeldWhileInUse
    CheckedUnlinkHasKey
    StatusTellsTruth
    FailureLeavesLock
PROPERTY ImplementsDbLock
