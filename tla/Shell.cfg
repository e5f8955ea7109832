CONSTANTS
    SCREEN_WIDTH = 4
    SCREEN_HEIGHT = 3
    TAB_WIDTH = 2
    SHELL_MAX_CMD_LEN = 5
    SHELL_MAX_ARGS = 2
    Letters = {"c", "d", "x"}
    Dirs <- MCDirs
    Outputs <- MCOutputs
    MaxKeys = 7
SPECIFICATION Spec
INVARIANTS ScreenShowsLine ArgumentsAsTyped
CHECK_DEADLOCK FALSE
