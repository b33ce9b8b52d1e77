\* One client.
CONSTANTS
    N = 1
    K = 1
SPECIFICATION Spec
INVARIANT
    KillOnlyClients
\* userinterface returns: its final state has no successor.
CHECK_DEADLOCK FALSE
