SPECIFICATION SerialSpec
CONSTANTS
    TIMEOUT = 3
    FIFO = 2
    Bytes = {1, 2}
    Strings <- MCStrings
    MaxCalls = 3
    MaxArrived = 3
INVARIANTS
    ResultsMatchWire
PROPERTIES
    SendReturns
    AvailableMeansRead
CHECK_DEADLOCK FALSE
