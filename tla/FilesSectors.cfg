SPECIFICATION Spec
CONSTANTS
    S = 2
    SPC = 2
    NC = 4
    DIRSLOTS = 2
    Names = {a, b}
    NoName = NoName
    Handles = {f}
    Values = {1}
    Calls <- AllCalls
    MaxSize = 5
    MaxCount = 3
    MaxMisuse = 1
SYMMETRY Alike
INVARIANT HandlesHonest
