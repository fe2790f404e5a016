CONSTANTS
    f1 = f1
    f2 = f2
    Nodes = {1, 2}
    Files = {f1}
    FileOf <- OneFile
    Users = {u1, u2}
    Flushers = {w1, w2}
    IndexNr = 2
    QueueNr = 2
    FlushBegin = 1
    FlushEnd = 1
    Droppable = {}
    IOErrors = FALSE
    MaxOps = 2
    None = None
SPECIFICATION FairSpec
INVARIANT AppendsFillOnce
PROPERTIES QueuedGetFlushed CallsReturn ExitEnds
