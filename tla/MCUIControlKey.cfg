\* Two clients, entries of one read.
CONSTANTS
    N = 2
    K = 1
SPECIFICATION Spec
INVARIANT
    KeyStopsTimeout
\* userinterface returns: its final state has no successor.
CHECK_DEADLOCK FALSE
