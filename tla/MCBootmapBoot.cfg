CONSTANTS
    Addrs = {0, 1, 2}
    InitrdLens <- MCInitrdLens
    ProgTableSize = 2
    UriPrograms <- MCUriPrograms
    Tables <- MCTables
    Stage3Set <- MCStage3Set
    ImageBytes = 512
    KernelHeader = 65536
SPECIFICATION Spec
INVARIANT TypeOK FdReleasedOnReturn KexecBootsIdentifiedObjects NodeOnlyOverUnit
\* An attempt ends: it returns an error or kexec boots the new kernel.
CHECK_DEADLOCK FALSE
