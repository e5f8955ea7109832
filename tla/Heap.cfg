SPECIFICATION Spec
CONSTANTS
    SIZE = 31
    CTX = 1
    HDR = 4
    ALIGNMENT = 2
    Requests = {0, 1, 4, 7}
INVARIANTS
    BlocksTile
    LiveBacked
    NoFragments
