CONSTANTS
    Inputs <- MCInputs
    Execs <- MCExecs
    Chunk = 2
    ByteRange = 8
    Byte <- MCByte
SPECIFICATION FairOutSpec
INVARIANTS
    BytesKept
    OverlapReported
    OutputMerged
    LoaderGetsBytes
    RecordsValid
PROPERTY Closes
CHECK_DEADLOCK FALSE
