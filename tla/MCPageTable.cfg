\* Two processes, a program with a segment of two pages that does not start at a
\* page and one of less than a page, and a window that overlaps a segment and
\* the stack, whose address is above the address space.
SPECIFICATION PtSpec
CONSTANTS
    Procs = {p1, p2}
    MaxPage = 44
    PageSize = 2
    TableLen = 2
    LEVELS = 3
    TRAMPOLINE = 6
    TRAPFRAME = 4
    KILLME = 2
    USER_STACK_START = 62
    KernelStack = 2
    Programs <- MCPrograms
    WindowSizes = {3}
    WindowAddrs = {10}
    MaxWindows = 1
    MaxLost = 4
    None = none
SYMMETRY MCSymmetry
CHECK_DEADLOCK FALSE
INVARIANTS
    TranslationExact
    MemoryPrivate
    NothingLeaks
    NoMappingToFreed
