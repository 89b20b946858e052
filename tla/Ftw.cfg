SPECIFICATION Spec
CONSTANTS
    b1 = b1
    b2 = b2
    old = old
    new = new
    none = none
    erased = erased
    torn = torn
    Blocks = {b1, b2}
    Values = {old, new}
    None = none
    Erased = erased
    Torn = torn
    QueueSize = 4
    Allocs <- OneWrite
    Styles = {"allocate", "direct", "faulty"}
    Others = {"abort", "restart", "getlast"}
    MaxCrashes = 2
    MaxErrors = 1
INVARIANTS
    FtwInv
PROPERTIES
    EntryWrittenOnce
    AllocationKept
    ImplementsStore
    SuccessIsWritten
