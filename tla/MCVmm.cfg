SPECIFICATION Spec
CONSTANTS
  PD_SIZE = 6
  PT_SIZE = 3
  KernelTables = 2
  higher_half_index = 4
  TableFrame = 3
  KernelFrames <- MCKernelFrames
  TotalPages = 7
  CounterMod = 65536
  MapPages <- MCMapPages
  MapFrames <- MCMapFrames
CHECK_DEADLOCK FALSE
INVARIANT MappingsKept
INVARIANT KernelMapped
INVARIANT StaleOnlyThroughAlias
INVARIANT FaultsOnlyOutOfReach
INVARIANT TablesOwned
