CONSTANTS
    N = 2
    Careful = TRUE
    AllEnabled = TRUE
    Prompt = TRUE
    Renews = FALSE

SPECIFICATION Spec

INVARIANTS
    MpInv
PROPERTIES
    SuccessMeansRan
    CallsReturn
    EventsSignaled
CHECK_DEADLOCK FALSE
