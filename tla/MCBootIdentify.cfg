CONSTANTS
    Addrs = {0, 1, 2}
    InitrdLens <- MCInitrdLens
    TableCap = 3
SPECIFICATION Spec
INVARIANT IdentifyAsSpecified
CHECK_DEADLOCK FALSE
