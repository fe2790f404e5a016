CONSTANTS
    Workers = {w1, w2, w3}
    Callers = {c1}
    Jobs = {j1, j2}
    NoJob = NoJob
SPECIFICATION FairSpec
INVARIANTS TypeOK NoLostWakeup WaitMeansDone
PROPERTIES ImplementsPool EveryJobRuns WaitReturns DestroyReturns
CHECK_DEADLOCK FALSE
