CONSTANTS
    Sources <- MCSources
    Texts <- MCTexts
    MaxDepth = 3
    MaxPasses = 2
SPECIFICATION Spec
INVARIANT AssertionsHold
CHECK_DEADLOCK FALSE
