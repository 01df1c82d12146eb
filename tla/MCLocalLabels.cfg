CONSTANTS
    SectionNames = {"CODE", "DATA"}
    SetDP <- MCNoDP
    AddrLimit = 64
    AllocStep = 4
    Programs <- MCPrograms
    Labels <- MCLabels
    First = "CODE"
    MaxPasses = 4
SPECIFICATION Spec
INVARIANTS
    BackrefNearest
    FwdrefNearest
    RefusalJustified
CHECK_DEADLOCK FALSE
