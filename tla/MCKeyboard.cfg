SPECIFICATION Spec
CONSTANTS
    KBD_BUFFER_SIZE = 3
    Keys <- MCKeys
    ExtKeys <- MCExtKeys
INVARIANTS
    TestNotStale
    ModifiersNotStuck
    DropsOnlyWhenFull
PROPERTIES
    QueueSpec
    EveryCharRead
