CONSTANTS
    f1 = f1
    f2 = f2
    Nodes = {1, 2, 3}
    Files = {f1, f2}
    FileOf <- TwoFiles
    Users = {u1, u2}
    Flushers = {w1, w2}
    IndexNr = 1
    QueueNr = 2
    FlushBegin = 1
    FlushEnd = 1
    Droppable = {f1}
    IOErrors = FALSE
    MaxOps = 3
    None = None
SPECIFICATION Spec
SYMMETRY Symmetry
INVARIANTS TypeOK SingleHome LastWriteKept CopyFresh EvictsBuffered NoLockCycle OneDispatcher
