SPECIFICATION LinesSpec
CONSTANTS
    SHELL_MAX_CMD_LEN = 8
    SHELL_MAX_ARGS = 3
    MaxLen = 7
    Alphabet <- MCAlphabet
INVARIANTS
    ArgvStartsAtWords
    ParseInBounds
    NamesRunTheirHandler
