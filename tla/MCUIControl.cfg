\* Two clients, entries of two reads.
CONSTANTS
    N = 2
    K = 2
SPECIFICATION Spec
INVARIANTS
    TypeOK
PROPERTIES
    TimeoutEndsWait
    ChildrenEnd
\* userinterface returns: its final state has no successor.
CHECK_DEADLOCK FALSE
