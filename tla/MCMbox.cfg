SPECIFICATION Spec
CONSTANTS
    t1 = t1
    t2 = t2
    t3 = t3
    NoThread = NoThread
    Threads <- MCThreads
    Idle = NoThread
    NPrio = 2
    Priority <- MCPriority
    Runqueues <- MCRunqueues
    Width = 3
    Size = 2
    Earlier = 6
    Readers = {t1, t2}
    Writers = {t2, t3}
    BlockingPuts = TRUE
    Handlers = TRUE
    MaxMsg = 6
INVARIANTS ListsExact WriterWaitsForRoom NothingLost
PROPERTY ImplementsFifo
CHECK_DEADLOCK FALSE
