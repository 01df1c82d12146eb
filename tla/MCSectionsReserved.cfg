CONSTANTS
    SectionNames = {"CODE", "DATA"}
    First = "CODE"
    SetDP <- MCNoDP
    AddrLimit = 4
    AllocStep = 2
    MaxPasses = 2
    MaxEmit = 2
    MaxOps = 3
    Addresses <- MCAddresses
    Counts <- MCCounts
SPECIFICATION ListSpec
INVARIANT ReservedListsNothing
CHECK_DEADLOCK FALSE
