CONSTANTS
    Inum = {1, 2}
    Block = {2, 3, 4, 5, 6, 7, 8, 9, 10, 11, 12, 13, 14, 15}
    LogBlock = {14, 15}
    HostFiles <- BigImages
    BSIZE = 2
    NDIRECT = 1
    MAXOPBLOCKS = 3
    SECTOR = 1
    Offset = {0}
    Length = {7}
    MaxEnd = 8
SPECIFICATION Spec
VIEW View
PROPERTY ImplementsByteFile
