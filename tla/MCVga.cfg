SPECIFICATION Spec
CONSTANTS
    VGA_WIDTH = 2
    VGA_HEIGHT = 3
    Chars <- MCChars
    Messages <- MCMessages
    MaxText = 5
INVARIANTS
    ShowsTail
    CursorOnScreen
    PanicShown
CHECK_DEADLOCK FALSE
