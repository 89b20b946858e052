CONSTANTS
    N = 2
    Configs <- MCConfigs
    MaxSmi = 2
    MaxCalls = 2
    Timely = TRUE

SPECIFICATION Spec

INVARIANTS
    RendezvousInv
    NoNormalCode
PROPERTIES
    Leaves
    Served
CHECK_DEADLOCK FALSE
