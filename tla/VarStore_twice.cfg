SPECIFICATION Spec
CONSTANTS
    n1 = n1
    n2 = n2
    v1 = v1
    v2 = v2
    v3 = v3
    none = none
    noreq = noreq
    Names = {n1, n2}
    Values = {v1, v2, v3}
    None = none
    NoReq = noreq
    Units <- Lengths
    StoreSize = 8
    HwErrSpace = 2
    MaxHwErr = 1
    MaxVariable = 2
    Reserved = 1
    Reentry = "none"
    Repeated = TRUE
    MaxCrashes = 2
SYMMETRY Sym
PROPERTIES
    ReclaimKeeps
