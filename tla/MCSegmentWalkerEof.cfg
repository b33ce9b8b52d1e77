CONSTANTS
    PhyBlocks = 2
    PhyBlockSize = 512
    PtrsPerBlock = 3
    MaxCt = 1
    MaxImage = 18
    ComponentPtrs <- MCComponentPtrs
SPECIFICATION Spec
PROPERTY Terminates
CHECK_DEADLOCK FALSE
