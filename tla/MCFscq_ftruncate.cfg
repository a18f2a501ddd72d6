CONSTANTS
    NData = 8
    NInode = 4
    NDirect = 1
    NIndirect = 2
    BlockSize = 2
    LongName = longname
    LogLen = 5
    Byte = {1}
    Ranges <- MCRanges
    MaxJobs = 3
    MaxTxns = 2
    FreeName = {a, b}
    Temp = temp
    Tmp = tmp
SPECIFICATION SetFileSizeSpec
SYMMETRY Symmetry
INVARIANT FtruncateDone
CHECK_DEADLOCK FALSE
