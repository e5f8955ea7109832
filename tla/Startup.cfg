CONSTANTS
    S = 4
    SPC = 2
    PerFat = 4
    FatSize = 4
    END = 99
    Images <- MCImages
    MemSize = 24
    MaxList = 2
    Vectors <- MCVectors
    Lines = {0, 1, 14}
    Faults = {6, 14}
    Ticks = 8
    Waits = {0, 1, 3, 7}
SPECIFICATION Spec
INVARIANTS KernelLoaded NoneAstray WaitsAsAsked
PROPERTIES KernelStarts RequestsServed WaitEnds
CHECK_DEADLOCK FALSE
