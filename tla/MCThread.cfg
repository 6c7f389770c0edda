SPECIFICATION Spec
CONSTANTS
    t1 = t1
    t2 = t2
    t3 = t3
    NoThread = NoThread
    Threads <- TwoAndMain
    Idle = NoThread
    Main = t1
    MainPrio = 1
    NPrio = 3
    MaxPid = 2
    ChangeOthers = FALSE
INVARIANTS StatusMatchesRunqueue HighestPriorityRuns ThreadTableExact
PROPERTIES TerminatedStaysDown HighestGetsCpu
CHECK_DEADLOCK FALSE
