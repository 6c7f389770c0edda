SPECIFICATION FairSpec
CONSTANTS
    t1 = t1
    t2 = t2
    t3 = t3
    m1 = m1
    m2 = m2
    NoThread = NoThread
    NoMutex = NoMutex
    MUTEX_LOCKED = MUTEX_LOCKED
    Threads <- MCThreads
    Idle = NoThread
    NPrio = 2
    Priority <- MCPriority
    Runqueues <- MCRunqueues
    Mutexes = {m1, m2}
    PriorityInheritance = FALSE
    Uses <- MCUses
    Cancels = {t3}
    Signals = {m2}
    Exits = TRUE
INVARIANTS MutualExclusion QueueExact
PROPERTIES NoOvertaking LockReturns
CHECK_DEADLOCK FALSE
