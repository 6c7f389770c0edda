SPECIFICATION Spec
CONSTANTS
    t1 = t1
    t2 = t2
    t3 = t3
    NoThread = NoThread
    Threads <- MCThreads
    Idle = NoThread
    NPrio = 2
    Priority <- MCPriority
    Runqueues <- MCRunqueues
    Width = 3
    Size = 1
    Earlier = 0
    Readers = {t1}
    Writers = {t2, t3}
    BlockingPuts = TRUE
    Handlers = FALSE
    MaxMsg = 4
INVARIANT ReaderWaitsForNothing
CHECK_DEADLOCK FALSE
