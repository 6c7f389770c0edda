SPECIFICATION RFairSpec
CONSTANTS
    t1 = t1
    t2 = t2
    t3 = t3
    m1 = m1
    M = m1
    NoThread = NoThread
    NoMutex = NoMutex
    MUTEX_LOCKED = MUTEX_LOCKED
    Threads <- MCThreads
    Idle = NoThread
    NPrio = 2
    Priority <- MCPriority
    Runqueues <- MCRunqueues
    Mutexes = {m1}
    PriorityInheritance = FALSE
    Uses <- AllUses
    Cancels = {t3}
    Signals = {}
    Exits = FALSE
    Refcounts = 4
    MaxNest = 3
INVARIANTS OneInside UnlockAssertions OwnerReadIsSound
PROPERTY RLockReturns
CHECK_DEADLOCK FALSE
