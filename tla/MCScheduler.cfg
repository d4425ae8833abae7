SPECIFICATION Spec
CONSTANTS
    MAX_PROCESSES = 4
    SCHEDULER_TIME_SLICE = 2
    HeapContexts = 3
    TotalPages = 8
    CounterMod = 65536
INVARIANTS
    CreatedIntact
    FailsOnlyFirstOrFull
PROPERTIES
    ZombiesStay
    UnsetOnlyInCreate
    ReadyGetsChosen
CHECK_DEADLOCK FALSE
