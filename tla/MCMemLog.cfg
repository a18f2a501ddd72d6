SPECIFICATION Spec
CONSTANTS
    Addr = {a1, a2, a3}
    Val = {v1, v2}
    items_per_val = 1
    LogLen = 2
INVARIANTS
    AppliedBeforeTrunc
    ReadsNewest
PROPERTY ImplementsAtomicDisk
SYMMETRY Symmetry
