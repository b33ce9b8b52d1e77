CONSTANTS
    Argv <- MCCompLoadArgv
    Chunk = 2
    RemoteSize = 3
    NetFaults = FALSE
SPECIFICATION Spec
PROPERTY CopiesRemoteFile
\* cl_scp ends when main returns.
CHECK_DEADLOCK FALSE
