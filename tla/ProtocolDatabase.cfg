CONSTANTS
    h1 = h1
    h2 = h2
    d1 = d1
    d2 = d2
    app = app
    ap2 = ap2
    r1 = r1
    none = none
    Handles = {h1, h2}
    Drivers = {d1, d2}
    Exclusive = {d2}
    Apps = {app, ap2}
    Regs = {r1}
    None = none
    Owned = TRUE
    Closes = TRUE
    MaxNest = 2
    MaxCalls = 5

SPECIFICATION Spec

INVARIANTS
    DatabaseInv
PROPERTIES
    NotUnderItsUsers
    AllSeen
    Returns
    ImplementsNotify
CHECK_DEADLOCK FALSE
