SPECIFICATION LiveSpec
CONSTANTS
    chk = chk
    gui = gui
    idle = idle
    key = key
    tmo = tmo
    g1 = g1
    g2 = g2
    app = app
    none = none
    App = app
    None = none
    Events = {chk, key, tmo, idle, gui}
    SignalType = {chk, idle, gui}
    WaitType = {key}
    NotifyTpl <- WaitTpl
    Group <- WaitGroup
    IdleEvent = idle
    Signals <- KeySignals
    Checks <- KeyChecks
    Closes <- Nobody
    Creates <- Nobody
    RaisesTo <- AppRaises
    WaitList <- WaitForKey
    InitSigs <- WaitSigs
    IsrSignals = {chk}
    LoadTwice = FALSE
    CloserOwns = TRUE
    UsersHold = TRUE
    MaxNest = 2
INVARIANTS
    EventInv
    Preemption
    LevelKept
PROPERTIES
    QueuedEventRuns
    WaitEnds
