SPECIFICATION SemaSpec
CONSTANTS
    t1 = t1
    t2 = t2
    t3 = t3
    m1 = m1
    M = m1
    NoThread = NoThread
    NoMutex = NoMutex
    MUTEX_LOCKED = MUTEX_LOCKED
    Threads <- MCThreads
    Idle = NoThread
    NPrio = 2
    Priority <- MCPriority
    Runqueues <- MCRunqueues
    Mutexes = {m1}
    PriorityInheritance = FALSE
    Uses <- AllUses
    Cancels = {}
    Signals = {m1}
    Exits = TRUE
    UINT_MAX = 2
    Values = {0, 2}
    Timed = {t1, t2}
INVARIANTS NoLostPost DestroyPassedOn
CHECK_DEADLOCK FALSE
