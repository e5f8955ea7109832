SPECIFICATION Spec
CONSTANTS
    EPS = 2
    FATSIZE = 12
    FATCOUNT = 2
    CACHE = 2
    UINT = 65536
    MaxUsed = 4
    MaxCount = 2
PROPERTY DeallocEndsChain
