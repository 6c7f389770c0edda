SPECIFICATION Spec
CONSTANTS
    t1 = t1
    t2 = t2
    t3 = t3
    m1 = m1
    m2 = m2
    NoThread = NoThread
    NoMutex = NoMutex
    MUTEX_LOCKED = MUTEX_LOCKED
    Threads <- MCThreads
    Idle = NoThread
    NPrio = 2
    Priority <- MCPriority
    Runqueues <- MCRunqueues
    Mutexes = {m1, m2}
    PriorityInheritance = TRUE
    Uses <- AllUses
    Cancels = {}
    Signals = {}
    Exits = FALSE
INVARIANTS StatusMatchesRunqueue
CHECK_DEADLOCK FALSE
