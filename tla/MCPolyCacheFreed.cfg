CONSTANTS
    f1 = f1
    f2 = f2
    Nodes = {1, 2, 3}
    Files = {f1, f2}
    FileOf <- TwoFiles
    Users = {u1, u2}
    Flushers = {w1}
    IndexNr = 2
    QueueNr = 1
    FlushBegin = 1
    FlushEnd = 1
    Droppable = {f1}
    IOErrors = FALSE
    MaxOps = 3
    None = None
SPECIFICATION Spec
SYMMETRY Symmetry
INVARIANT NoUseAfterFree
