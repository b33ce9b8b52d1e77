\* One client whose entry takes two reads.
CONSTANTS
    N = 1
    K = 2
SPECIFICATION Spec
INVARIANT
    NoSelectionDropped
\* userinterface returns: its final state has no successor.
CHECK_DEADLOCK FALSE
