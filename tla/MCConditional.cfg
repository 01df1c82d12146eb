CONSTANTS
    MaxLines = 9
    MaxDepth = 3
SPECIFICATION Spec
INVARIANTS
    TypeOK
    OneBranchEach
PROPERTY ImplementsCondSpec
CHECK_DEADLOCK FALSE
