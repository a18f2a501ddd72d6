SPECIFICATION Spec
CONSTANTS
    Addr = {a1, a2}
    Val = {v1, v2}
    LogLen = 1
    MaxTxns = 2
INVARIANTS
    FlushNeverFails
    ReadsNewest
PROPERTY ImplementsDiskSet
SYMMETRY Symmetry
