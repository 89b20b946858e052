SPECIFICATION LiveSpec
CONSTANTS
    t1 = t1
    t2 = t2
    none = none
    Timers = {t1, t2}
    None = none
    Delays = {0, 1, 3}
    Durations = {1, 2}
    TimerPeriod = 2
    Width = 4
    MaxTime = 5
INVARIANTS
    TimerInv
PROPERTIES
    NeverEarly
    ExpiredTimerFires
