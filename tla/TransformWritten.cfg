SPECIFICATION ArraySpec

CONSTANTS
    Inputs <- Base64ByWritten

PROPERTY
    WrittenIsRequiredSize

CHECK_DEADLOCK FALSE
