CONSTANTS
    Sources <- MCSources
    Texts <- MCSplitTexts
    MaxDepth = 3
    MaxPasses = 2
SPECIFICATION Spec
INVARIANT FilesAsOne
CHECK_DEADLOCK FALSE
