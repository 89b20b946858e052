SPECIFICATION Spec
CONSTANTS
    chk = chk
    gui = gui
    idle = idle
    key = key
    tmo = tmo
    g1 = g1
    g2 = g2
    app = app
    none = none
    App = app
    None = none
    Events = {chk, g1, g2}
    SignalType = {chk, g1, g2}
    WaitType = {}
    NotifyTpl <- GroupTpl
    Group <- Groups
    IdleEvent = none
    Signals <- GroupSignals
    Checks <- Nobody
    Closes <- GroupCloses
    Creates <- GroupCreates
    RaisesTo <- AppRaises
    WaitList <- NoWait
    InitSigs <- GroupSigs
    IsrSignals = {chk}
    LoadTwice = FALSE
    CloserOwns = TRUE
    UsersHold = TRUE
    MaxNest = 2
INVARIANTS
    EventsKept
PROPERTIES
    ImplementsNotify
