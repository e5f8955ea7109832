SPECIFICATION Spec
CONSTANTS
    CAP = 3
    MaxKeys = 6
    LSHIFT = 42
    RSHIFT = 54
    Garbage = 7
    Codes <- AsciiCodes
    keyboard_us <- AsciiLayout
INVARIANTS
    TypeOK
    KeysAccountedFor
    ShiftBitMeansShiftHeld
PROPERTIES
    ReturnsInOrder
    EveryKeyArrives
    ImplementsKeyQueue
