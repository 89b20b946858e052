SPECIFICATION Spec
CONSTANTS
    Children = {"button", "on", "off", "once", "s1", "s3", "s5", "tick"}
    child <- MCchild
    Base = "base"
    Plans <- MCPlans
    Commands = {"enable", "disable", "once"}
    Sleeps = {"S1", "S3", "S5"}
    Orphans = FALSE
    Torn = FALSE
    Capsule = TRUE
    EscapeCount = 5
    MaxEvents = 4
    MaxCalls = 2
INVARIANTS
    SmiInv
PROPERTIES
    CalledOnce
    HandledOnce
    Answered
CHECK_DEADLOCK FALSE
