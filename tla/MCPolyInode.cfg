CONSTANTS
    Paths = {a, b}
    Threads = {t1, t2}
    MaxCalls = 6
    AnyRename = FALSE
    None = None
SPECIFICATION Spec
SYMMETRY Symmetry
INVARIANTS RefcountExact OneInodePerFile TableFinds NoFreedUse
CHECK_DEADLOCK FALSE
