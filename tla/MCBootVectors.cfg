SPECIFICATION Spec
CONSTANTS
    Lines = {0, 1, 4}
    DriverLines = {1, 8}
    FirmwareBases <- MCFirmwareBases
    LoadedAsLinked = TRUE
    GdtAsDocumented = TRUE
INVARIANT IrqsReachHandlers
