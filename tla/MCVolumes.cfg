\* One client and one open file on disks whose chains and directories are laid out
\* in every order; on one disk two clients that share descriptors and load programs.
SPECIFICATION MCSpec
CONSTANTS
    Volumes <- MCVolumes
    SectorSize = 4
    FatEntrySize = 1
    DirEntrySize = 2
    MinClusters = 8
    U16 = 16
    U32 = 16
    Usize = 32
    Eoc = 15
    Strip <- MCStrip
    Upper <- MCUpper
    Callers = {c1, c2}
    Second = c2
    Paths <- MCPaths
    Counts = {0, 3, 9}
    Offsets <- MCOffsets
    MaxFd = 5
INVARIANTS
    LookupExact
    ReadsFileBytes
    StreamInOrder
    LoadsWholeFile
PROPERTIES
    CallsReturn
