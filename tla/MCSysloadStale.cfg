CONSTANTS
    Entries <- MCEntries
    CompFiles <- MCCompFiles
    MaxAttempts = 3
    ForkMayFail = TRUE
SPECIFICATION Spec
INVARIANT KexecOnlyFreshFiles
\* sysload stops when kexec, reboot or halt end the system, when it exits,
\* and at the bound on attempts.
CHECK_DEADLOCK FALSE
