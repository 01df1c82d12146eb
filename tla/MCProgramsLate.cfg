CONSTANTS
    Sources <- MCSources
    Texts <- MCLateTexts
    MaxDepth = 3
    MaxPasses = 2
SPECIFICATION Spec
INVARIANT PassesAlike
CHECK_DEADLOCK FALSE
