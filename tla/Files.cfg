SPECIFICATION Spec
CONSTANTS
    S = 2
    SPC = 1
    NC = 5
    DIRSLOTS = 3
    Names = {a, b}
    NoName = NoName
    Handles = {f, g}
    Values = {1}
    Calls = {"write", "seek", "flush", "resize", "drop"}
    MaxSize = 3
    MaxCount = 2
    MaxMisuse = 1
SYMMETRY Alike
INVARIANTS
    ChainsApart
    ContentsKept
    NoStrayWrites
