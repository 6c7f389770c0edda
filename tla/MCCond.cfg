SPECIFICATION CondSpec
CONSTANTS
    t1 = t1
    t2 = t2
    t3 = t3
    m1 = m1
    NoThread = NoThread
    NoMutex = NoMutex
    MUTEX_LOCKED = MUTEX_LOCKED
    Threads <- MCThreads
    Idle = NoThread
    NPrio = 2
    Priority <- MCPriority
    Runqueues <- MCRunqueues
    Mutexes = {m1}
    PriorityInheritance = FALSE
    Uses <- AllUses
    Cancels = {}
    Signals = {}
    Exits = FALSE
INVARIANTS CondQueueExact NoLostSignal
CHECK_DEADLOCK FALSE
