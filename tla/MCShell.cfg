SPECIFICATION Spec
CONSTANTS
    KBD_BUFFER_SIZE = 3
    Keys <- MCKeys
    ExtKeys <- MCExtKeys
    SHELL_MAX_CMD_LEN = 4
    SHELL_MAX_ARGS = 3
INVARIANTS
    LineAsTyped
PROPERTIES
    EnterArrives
CHECK_DEADLOCK FALSE
