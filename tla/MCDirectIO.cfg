CONSTANTS
    Users = {u1, u2}
    NodeSize = 4
    IndexNr = 2
    Counts = {2, 6}
    Unit = 4
    Chunk = 2
    Roles <- Disciplined
    IOErrors = FALSE
    MaxOps = 3
    None = None
SPECIFICATION FairSpec
INVARIANTS TypeOK ExtentsDisjoint BufferInStep
PROPERTIES StoresFile AppendsAdd CallsReturn
