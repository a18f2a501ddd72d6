CONSTANTS
    NINODES = 4
    NINODE = 3
    NFILE = 2
    DirPerBlock = 3
    MaxUnbalanced = 1
    Path <- Paths
SPECIFICATION Spec
VIEW View
INVARIANTS
    LinkCounts
    RefCounts
    CacheCoherent
    HandlesAlive
    OrphansHeld
    OnlyKnownPanics
PROPERTY ImplementsTree
