SPECIFICATION Spec
CONSTANTS
    FIRST = 1
    FOURMB = 4
    PHYSTOP = 9
    KTABLES = 1
    VPAGES = 5
    PGENTRIES = 3
    HEAP <- MCHeap
    GUARD <- MCGuard
    MaxHeld = 1
INVARIANTS
    TypeOK
    OneRole
    CountersHonest
    WalksSucceed
    RegionsStayMapped
 
