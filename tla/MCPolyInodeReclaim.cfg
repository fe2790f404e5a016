CONSTANTS
    Paths = {a, b}
    Threads = {t1}
    MaxCalls = 6
    AnyRename = FALSE
    None = None
SPECIFICATION Spec
SYMMETRY Symmetry
INVARIANT LostAreUnlinked
CHECK_DEADLOCK FALSE
