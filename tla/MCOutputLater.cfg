CONSTANTS
    Inputs <- MCInputs
    Execs <- MCExecs
    Chunk = 2
    ByteRange = 8
    Byte <- MCByte
SPECIFICATION FairOutSpec
INVARIANT LaterOverwrites
CHECK_DEADLOCK FALSE
