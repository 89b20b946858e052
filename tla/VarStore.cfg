SPECIFICATION Spec
CONSTANTS
    n1 = n1
    n2 = n2
    v1 = v1
    v2 = v2
    v3 = v3
    none = none
    noreq = noreq
    Names = {n1, n2}
    Values = {v1, v2, v3}
    None = none
    NoReq = noreq
    Units <- Lengths
    StoreSize = 7
    HwErrSpace = 1
    MaxHwErr = 1
    MaxVariable = 2
    Reserved = 1
    Reentry = "safe"
    Repeated = FALSE
    MaxCrashes = 1
SYMMETRY Sym
INVARIANTS
    StoreInv
PROPERTIES
    ProgramsErased
    RefusedWhenFull
    ImplementsMap
