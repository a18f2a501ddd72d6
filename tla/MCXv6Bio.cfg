SPECIFICATION Spec
CONSTANTS
    NBUF = 5
    LOGSIZE = 4
    MAXOPBLOCKS = 2
    Writer = {w}
    Reader = {r}
    Data = {s1, s2, s3}
    Val = {v1, v2}
INVARIANTS
    LatestKept
    LogComplete
    NeverPanics
SYMMETRY Symmetry
