SPECIFICATION Spec
CONSTANTS
    PATH_MAX = 8
    Letters = {"a"}
    ArgMax = 4
    Existing <- MCExisting
INVARIANTS
    ShellDirIsAsked
    ProgramDirIsAsked
