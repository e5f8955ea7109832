SPECIFICATION Spec
CONSTANTS
    SECTORS = 3
    v = v
    w = w
    Data <- MCData
    ReadMax = 2
    WriteMax = 2
INVARIANTS
    ReadsTheDisk
    DiskAsWritten
PROPERTY
    CallsReturn
\* the driver polls for ever when the drive gives up (CallsReturn)
CHECK_DEADLOCK FALSE
