SPECIFICATION Spec
CONSTANTS
    EPS = 2
    FATSIZE = 12
    FATCOUNT = 2
    CACHE = 1
    UINT = 65536
    MaxUsed = 4
    MaxCount = 2
INVARIANTS
    Coherent
    
    NothingFreeBehind
 
