CONSTANTS
    Addrs = {0, 1, 2}
    InitrdLens <- MCWideInitrdLens
    ProgTableSize = 2
    UriPrograms <- MCUriPrograms
    Tables <- MCTables
    Stage3Set <- MCStage3Set
    ImageBytes = 512
    KernelHeader = 65536
SPECIFICATION Spec
INVARIANT KexecBootsIdentifiedObjects
\* An attempt ends: it returns an error or kexec boots the new kernel.
CHECK_DEADLOCK FALSE
