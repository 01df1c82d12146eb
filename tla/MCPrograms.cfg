CONSTANTS
    Sources <- MCSources
    Texts <- MCTexts
    MaxDepth = 3
    MaxPasses = 2
SPECIFICATION FairSpec
INVARIANTS
    ContextsNest
    ArgumentsMatch
    BodiesAsWritten
    PassesAlike
PROPERTY Terminates
CHECK_DEADLOCK FALSE
