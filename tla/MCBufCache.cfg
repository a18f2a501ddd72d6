SPECIFICATION Spec
CONSTANTS
    Addr = {0, 1, 2}
    Val = {v1, v2}
    CSMaxCount = 2
INVARIANTS
    CleanMatches
PROPERTY ImplementsVirtualDisk
