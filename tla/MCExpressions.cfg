SPECIFICATION Spec
CONSTANTS
    CharRange = 128
    WordRange = 16384
    IntMin <- MCIntMin
    Names <- MCNames
    Defining <- MCDefining
    Passing <- MCPassing
    Tried <- MCTried
    Pc <- MCPc
    LocalLabel <- MCLocal
    RegisterText <- MCRegisterText
    MaxCalls = 1
    NoTrial <- MCNoTrial
CHECK_DEADLOCK FALSE
INVARIANTS
    TypesAsDocumented
    OperatorsObeyLaws
    Substitutable
    ReportsMatchValues
