SPECIFICATION Spec
CONSTANTS
    t1 = t1
    t2 = t2
    t3 = t3
    NoThread = NoThread
    Isr = Isr
    Threads <- MCThreads
    Idle = NoThread
    NPrio = 2
    Priority <- MCPriority
    Runqueues <- MCRunqueues
    QueueSize = 1
    Queued = {t2}
    Exits = {t2}
    Sleepers = {t1}
    Links <- MCLinks
    Subscribers = {t1, t2}
    Types = {1}
    Posters = {t3, Isr}
    MaxMsg = 3
INVARIANTS HighestPriorityRuns ReceiverWaitsForNothing WaiterListsExact ReplyAnswersRequest
PROPERTIES InOrderOnce
CHECK_DEADLOCK FALSE
