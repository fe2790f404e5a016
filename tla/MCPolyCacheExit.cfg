CONSTANTS
    f1 = f1
    f2 = f2
    Nodes = {1, 2, 3}
    Files = {f1, f2}
    FileOf <- TwoFiles
    Users = {u1}
    Flushers = {w1, w2}
    IndexNr = 2
    QueueNr = 2
    FlushBegin = 1
    FlushEnd = 1
    Droppable = {f1}
    IOErrors = FALSE
    MaxOps = 4
    None = None
SPECIFICATION Spec
SYMMETRY Symmetry
INVARIANT ExitDurable
PROPERTY KeepsData
