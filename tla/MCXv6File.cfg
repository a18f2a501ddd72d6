CONSTANTS
    Inum = {1, 2, 3}
    Block = {2, 3, 4, 5, 6, 7, 8, 9, 10, 11, 12, 13}
    LogBlock = {9, 10, 11, 12, 13}
    HostFiles <- Images
    BSIZE = 4
    NDIRECT = 1
    MAXOPBLOCKS = 6
    SECTOR = 1
    Offset = {0, 3}
    Length = {1, 10}
    MaxEnd = 13
SPECIFICATION Spec
VIEW View
INVARIANTS
    BlocksOwnedOnce
    LogBudget
    PanicsOnlyPastRoot
PROPERTY ImplementsByteFile
