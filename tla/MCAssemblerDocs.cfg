CONSTANTS
    SectionNames = {"CODE", "DATA", "BSS"}
    First = "CODE"
    SetDP <- MCNoDP
    AddrLimit = 16
    PageSize = 8
    RelRange = 5
    AllocStep = 4
    Symbols = {"x", "y", "z"}
    NoSymbol = "none"
    MaxPasses = 6
    Programs <- DocumentedPrograms
SPECIFICATION Spec
INVARIANTS
    ConditionsResolved
    ExecAssembled
    SectionsDisjoint
CHECK_DEADLOCK FALSE
