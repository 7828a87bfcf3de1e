CONSTANTS
    Sessions <- MCSessions
    Keys <- MCKeys
    Key <- MCKey
    Options <- CheckedOptions
    Inodes <- MCInodes
    MaxCalls = 1
    Empty = Empty
    None = None
    i1 = i1
    i2 = i2
    i3 = i3
SPECIFICATION Spec
PROPERTY UnlockNeedsKey
