SPECIFICATION Spec
CONSTANTS
    Plain <- SmallPlain
    Hex <- SmallHex
    MaxUnits = 2
CHECK_DEADLOCK FALSE
INVARIANT NeverThrows
