CONSTANTS
    Inputs <- MCFullInputs
    Execs <- MCExecs
    Chunk = 2
    ByteRange = 8
    Byte <- MCByte
SPECIFICATION FairOutSpec
INVARIANT SizesAnnounced
CHECK_DEADLOCK FALSE
