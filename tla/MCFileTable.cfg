SPECIFICATION Spec
CONSTANTS
    t1 = t1
    t2 = t2
    Threads = {t1, t2}
    MaxFd = 5
    MaxOpens = 4
    None = None
SYMMETRY Symmetry
INVARIANTS FindsOwnFile RightFiles
CHECK_DEADLOCK FALSE
