SPECIFICATION EventFairSpec
CONSTANTS
    t1 = t1
    t2 = t2
    NoThread = NoThread
    Threads <- MCThreads
    Idle = NoThread
    NPrio = 2
    Priority <- MCPriority
    Runqueues <- MCRunqueues
    NFlags = 2
    Masks <- MCMasks
    Owner = t1
    NQueues = 2
    Events = {e1, e2}
    NoEvent = NoEvent
INVARIANTS BlockedIsUnmet NoLostEvent NoLostWakeup
PROPERTIES ReturnsWhatItWaitedFor SatisfiedWaitReturns TimedWaitReturns
CHECK_DEADLOCK FALSE
