\* Two user processes, fs_proc and the null process.
SPECIFICATION LockSpec
CONSTANTS
    Users = {u1, u2}
    FsProc = fs_proc
    Others = {null}
    Null = null
SYMMETRY Symmetry
INVARIANTS
    RealWriteExcludes
    FreezeIsExplained
