CONSTANTS
    EntryChoices <- MCEntryChoices
    DefaultTokens <- MCDefaultTokens
    Timeouts <- MCTimeouts
    Passwords <- MCPasswords
    MaxEntries = 2
    MaxUis = 1
    MaxNest = 3
    MaxStatements = 8
    MAX_SYSTEM_DEPTH = 999
SPECIFICATION Spec
INVARIANT TypeOK DefaultUsable ClientSeesConfig
PROPERTY NestingRefined
\* sysload stops here in a client's menu, waiting for the timeout, or
\* exiting; what follows is modelled by UIControl and LineMode.
CHECK_DEADLOCK FALSE
