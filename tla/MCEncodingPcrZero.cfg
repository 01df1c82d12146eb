SPECIFICATION Spec
CONSTANTS
    CharRange = 256
    WordRange = 1073741824
    IntMin <- MCIntMin
    Isa6309 = TRUE
    Garbage <- MCGarbage
    Files <- MCFiles
    Lines <- MCLines
    Counters <- MCAfter
    Pages <- MCPages
    NoLine <- MCNoLine
CHECK_DEADLOCK FALSE
INVARIANT PcrReachesTarget
