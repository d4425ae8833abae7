SPECIFICATION Spec
CONSTANTS
    HeapSize = 128
    HEADER_SIZE = 12
    MIN_ALLOC_SIZE = 32
    SizeMod = 65536
    Requests <- MCRequests
    StrayPtrs <- MCStrayPtrs
INVARIANTS
    ChainTiles
    UsedMeansLive
    SearchComplete
PROPERTIES
    RegionsSpec
    KmallocReturns
