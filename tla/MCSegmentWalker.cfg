CONSTANTS
    PhyBlocks = 2
    PhyBlockSize = 512
    PtrsPerBlock = 3
    MaxCt = 1
    MaxImage = 18
    ComponentPtrs <- MCComponentPtrs
SPECIFICATION Spec
INVARIANT TypeOK SlotInBounds
PROPERTY CopySpec
CHECK_DEADLOCK FALSE
