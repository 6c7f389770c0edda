SPECIFICATION Spec
CONSTANTS
    Timers = {t1, t2}
    None = None
    Width = 3
    MaxValue = 3
    Min = 1
    OnDemand = TRUE
    AdjustSet = 0
    AdjustStart = 1
    Intervals <- MCIntervals
    MaxUsers = 1
    MaxDelay = 1
INVARIANTS NeverEarly TargetsExact UsersExact
PROPERTY TimerFires
