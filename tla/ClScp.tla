-------------------------------- MODULE ClScp --------------------------------
(***************************************************************************)
(* cl_scp (comploader/cl_scp.c), the loader module comp_load starts for    *)
(* scp:// URIs: decode the source URL, connect, open the local file,       *)
(* open the remote file, copy it in chunks of len bytes.                   *)
(*                                                                         *)
(* An argument is its class: "url" a string decode_parameters accepts,     *)
(* "path" a local path name.  The remote file is the byte positions        *)
(* 1..RemoteSize; the local file is the positions written to it.           *)
(***************************************************************************)
EXTENDS Integers, Sequences

CONSTANTS
    Argv,        \* <<argv[1], argv[2]>> as cl_scp is started
    Chunk,       \* len, the size of one sftp_read
    RemoteSize,  \* size of the remote file in bytes
    NetFaults    \* whether connect, open_remote and sftp_read may fail

ASSUME Chunk > 0 /\ RemoteSize \in Nat

VARIABLES
    pc,     \* the step of main
    local,  \* the local file: opened by open_local, and what was written
    pos,    \* bytes of the remote file read so far
    acc,    \* main's acc
    ret     \* main's return value, -1 while running

vars == <<pc, local, pos, acc, ret>>

Remote == [i \in 1..RemoteSize |-> i]

\* decode_parameters: only a string starting "scp://" with a '/' after the
\* host yields parameters.
Decodes(arg) == arg = "url"

\* open(name, O_WRONLY | O_CREAT | O_TRUNC): a URL is no path to a
\* directory that exists.
Opens(arg) == arg = "path"

TypeOK ==
    /\ pc \in {"decode", "connect", "open_local", "open_remote", "read", "done"}
    /\ local \in [opened : BOOLEAN, data : Seq(1..RemoteSize)]
    /\ pos \in 0..RemoteSize
    /\ acc \in -1..RemoteSize
    /\ ret \in {-1, 0, 1, 2, 3, 4}

Init ==
    /\ pc = "decode"
    /\ local = [opened |-> FALSE, data |-> <<>>]
    /\ pos = 0 /\ acc = 0 /\ ret = -1

\* argc is 3 here; decode_parameters(argv[1]) or return 1.
Decode ==
    /\ pc = "decode"
    /\ IF Decodes(Argv[1]) THEN pc' = "connect" /\ UNCHANGED ret
       ELSE pc' = "done" /\ ret' = 1
    /\ UNCHANGED <<local, pos, acc>>

\* connect_ssh: the session, authentication and the SFTP subsystem.
Connect ==
    /\ pc = "connect"
    /\ \/ pc' = "open_local" /\ UNCHANGED ret
       \/ NetFaults /\ pc' = "done" /\ ret' = 2
    /\ UNCHANGED <<local, pos, acc>>

OpenLocal ==
    /\ pc = "open_local"
    /\ IF Opens(Argv[2])
       THEN /\ local' = [opened |-> TRUE, data |-> <<>>]
            /\ pc' = "open_remote" /\ UNCHANGED ret
       ELSE pc' = "done" /\ ret' = 3 /\ UNCHANGED local
    /\ UNCHANGED <<pos, acc>>

OpenRemote ==
    /\ pc = "open_remote"
    /\ \/ pc' = "read" /\ UNCHANGED ret
       \/ NetFaults /\ pc' = "done" /\ ret' = 4
    /\ UNCHANGED <<local, pos, acc>>

\* One pass of the do-while loop.  sftp_read returns up to len bytes, 0 at
\* the end of the file, or -1 on error; write() is called only for -1,
\* where write(fd, buffer, (size_t)-1) fails and returns -1 too.  The loop
\* goes on while a full chunk came back; then main returns 0.
ReadChunk ==
    /\ pc = "read"
    /\ \E rcvd \in {IF RemoteSize - pos < Chunk THEN RemoteSize - pos ELSE Chunk}
                   \cup (IF NetFaults THEN {-1} ELSE {}) :
         /\ pos' = IF rcvd > 0 THEN pos + rcvd ELSE pos
         /\ acc' = acc + rcvd
         /\ UNCHANGED local
         /\ IF rcvd = Chunk THEN pc' = "read" /\ UNCHANGED ret
            ELSE pc' = "done" /\ ret' = 0

Next == Decode \/ Connect \/ OpenLocal \/ OpenRemote \/ ReadChunk

Spec == Init /\ [][Next]_vars /\ WF_vars(Next)

-----------------------------------------------------------------------------
\* comp_load's contract with its loader module: started for a reachable
\* remote file, the module eventually exits 0 with the local file a copy of
\* the remote one ("create a copy on a local filesystem", comp_load.c).
CopiesRemoteFile ==
    <>(pc = "done" /\ ret = 0 /\ local.opened /\ local.data = Remote)

=============================================================================
