SPECIFICATION Spec
CONSTANTS
    TotalPages = 9
    Callers = {c1, c2}
    CounterMod = 65536
    StrayAddrs <- MCStrayAddrs
INVARIANTS
    CountersExact
    ExclusiveFrames
    OnlyPageZeroLeaks
PROPERTY
    FrameAllocatorSpec
