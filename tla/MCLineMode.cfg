CONSTANTS
    Entries <- MCEntries
    BootDefault = 0
    MenuLines <- MCMenuLines
    MaxReads = 3
    OpenMayFail = TRUE
SPECIFICATION Spec
INVARIANT TypeOK LockedNeedsPassword SelectionAsMenu
\* The interface ends when it exits, is terminated, crashes or fails to
\* open its terminal, and at the bound on lines read.
CHECK_DEADLOCK FALSE
