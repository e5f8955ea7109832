SPECIFICATION Spec
CONSTANTS
    PROGRAM_MAX_FILES = 3
    PAGES = 6
    Elfs <- MCElfs
    Names <- MCNames
    Kinds0 <- MCKinds0
INVARIANTS
    TypeOK
    PagesAccounted
    
    FilesApart
