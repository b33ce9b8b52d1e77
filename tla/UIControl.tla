----------------------------- MODULE UIControl -----------------------------
(***************************************************************************)
(* userinterface (src/core/ui_control.c): the sysload process forks one    *)
(* child per configured user interface, each writing its selected boot     *)
(* entry to a pipe as its stdout and then exiting, and waits in select()   *)
(* on the pipes for a complete entry, the SIGALRM of the timeout, or the   *)
(* SIGUSR1 a line-mode interface sends to stop the timeout.  Children are  *)
(* reaped by waitpid(WNOHANG) after every read; at the end every child     *)
(* still running gets SIGTERM, then SIGKILL.                               *)
(*                                                                         *)
(* Clients are numbered in fork order, which is also the order of their   *)
(* pipe descriptors.  A selection is K reads of CFG_STR_MAX_LEN bytes; a   *)
(* child prints it with stdio, so it reaches the pipe in one write when    *)
(* the child exits.  Child process states: "none" (not forked), "nofork"   *)
(* (fork returned -1), "running", "zombie", "reaped".                      *)
(***************************************************************************)
EXTENDS Naturals, FiniteSets, FiniteSetsExt

CONSTANTS
    N,      \* largest config->ui_count of the model
    K       \* reads of CFG_STR_MAX_LEN bytes a printed boot entry takes

ASSUME N \in Nat /\ K \in Nat \ {0}

Clients == 1..N

VARIABLES
    uiCount,      \* config->ui_count (input, at most N)
    timeoutSet,   \* config->timeout > 0 (input)
    defaultValid, \* config->boot_default indexes an entry (input)
    proc,         \* process state of each child
    exitOk,       \* WIFEXITED && WEXITSTATUS == 0, once it has exited
    written,      \* reads' worth of the entry the child has written
    readCnt,      \* reads' worth of it in u[i].collected_str
    keyed,        \* the child has sent SIGUSR1
    sig,          \* signal sent to the child: "none", "term" or "kill"
    ustat,        \* u[i].status
    ppc,          \* control point of userinterface
    forked,       \* children forked so far (loop index i)
    waitset,      \* read_fd_set built by build_waitset
    ready,        \* descriptors select reported and not yet serviced
    endtime,      \* the timeout select waits with is on
    alarmOn,      \* alarm() is armed
    rcvdSig,      \* rcvd_sig, written by default_sig_hdlr
    retval,       \* "none", "ok" (entry read), "default", "error"
    killAll       \* kill(-1, ...) has been called

inputs == <<uiCount, timeoutSet, defaultValid>>
child  == <<proc, exitOk, written, keyed>>
vars   == <<uiCount, timeoutSet, defaultValid, proc, exitOk, written, readCnt, keyed,
            sig, ustat, ppc, forked, waitset, ready, endtime, alarmOn,
            rcvdSig, retval, killAll>>

Cleanup == {"cleanup", "reap1", "sigkill", "reap2", "done"}

TypeOK ==
    /\ uiCount \in 0..N
    /\ timeoutSet \in BOOLEAN /\ defaultValid \in BOOLEAN
    /\ proc \in [Clients -> {"none", "nofork", "running", "zombie", "reaped"}]
    /\ exitOk \in [Clients -> BOOLEAN]
    /\ written \in [Clients -> 0..K]
    /\ readCnt \in [Clients -> 0..K]
    /\ \A i \in Clients : readCnt[i] <= written[i]
    /\ keyed \in [Clients -> BOOLEAN]
    /\ sig \in [Clients -> {"none", "term", "kill"}]
    /\ ustat \in [Clients -> {"running", "clean", "problem"}]
    /\ ppc \in {"start", "fork", "build", "select", "intr", "service", "check"} \cup Cleanup
    /\ forked \in 0..N
    /\ waitset \subseteq Clients /\ ready \subseteq Clients
    /\ endtime \in BOOLEAN /\ alarmOn \in BOOLEAN
    /\ rcvdSig \in {"none", "ALRM", "USR1"}
    /\ retval \in {"none", "ok", "default", "error"}
    /\ killAll \in BOOLEAN

\* A pipe is readable when it holds data or its write end is closed.
Readable(i) == written[i] > readCnt[i] \/ proc[i] \in {"zombie", "reaped"}

\* The entries remove_terminated_clients reaps: every zombie child.
ReapedProc == [i \in Clients |-> IF proc[i] = "zombie" THEN "reaped" ELSE proc[i]]

(***************************************************************************)
(* remove_terminated_clients: waitpid(WAIT_ANY, &status, WNOHANG) reaps    *)
(* every zombie and sets the status of its entry from its exit status.     *)
(* The loop ends when waitpid returns 0 (a child still runs) or -1 (none   *)
(* is left).  -1 is also the pid a failed fork leaves in u[i].pid, so that *)
(* entry then takes its status from the variable status: the status of the *)
(* last child reaped in the call, or 0, a clean exit.                      *)
(***************************************************************************)
Reap ==
    LET zombies  == {i \in Clients : proc[i] = "zombie"}
        Exit(i)  == IF exitOk[i] THEN "clean" ELSE "problem"
        noneLeft == \A i \in Clients : ReapedProc[i] # "running"
        last     == IF zombies = {} THEN {"clean"} ELSE {Exit(i) : i \in zombies}
    IN  /\ proc' = ReapedProc
        /\ \E st \in last :
              ustat' = [i \in Clients |->
                          CASE i \in zombies                   -> Exit(i)
                            [] proc[i] = "nofork" /\ noneLeft -> st
                            [] OTHER                          -> ustat[i]]

\* Fault variant of WaitSet: the kill(pid, 0) test dropped, every pipe of
\* a forked child is waited on, reaped ones included.
WaitSetAllPipes == {i \in Clients : proc[i] # "none"}

\* build_waitset: kill(pid, 0) succeeds for every child not yet reaped,
\* zombies included.
WaitSet == {i \in Clients : proc[i] \in {"running", "zombie"}}

\* The signal kill(u[i].pid, s) delivers to each child whose u[i].status is
\* UI_RUNNING; a pid of -1 (failed fork) signals every process.
Signalled(s) ==
    LET hit == {i \in Clients : ustat[i] = "running"}
        all == \E i \in hit : proc[i] = "nofork"
    IN  /\ sig' = [i \in Clients |->
                     IF (i \in hit \/ all) /\ proc[i] = "running" THEN s ELSE sig[i]]
        /\ killAll' = (killAll \/ all)

Init ==
    /\ uiCount \in 0..N
    /\ timeoutSet \in BOOLEAN
    /\ defaultValid \in BOOLEAN
    /\ proc = [i \in Clients |-> "none"]
    /\ exitOk = [i \in Clients |-> FALSE]
    /\ written = [i \in Clients |-> 0]
    /\ readCnt = [i \in Clients |-> 0]
    /\ keyed = [i \in Clients |-> FALSE]
    /\ sig = [i \in Clients |-> "none"]
    /\ ustat = [i \in Clients |-> "problem"]
    /\ ppc = "start"
    /\ forked = 0
    /\ waitset = {} /\ ready = {}
    /\ endtime = FALSE /\ alarmOn = FALSE
    /\ rcvdSig = "none"
    /\ retval = "none"
    /\ killAll = FALSE

(***************************************************************************)
(* Parent                                                                  *)
(***************************************************************************)

\* With no timeout and no user interface there is nothing to wait for.
Start ==
    /\ ppc = "start"
    /\ IF ~timeoutSet /\ uiCount = 0
       THEN ppc' = "cleanup" /\ retval' = "error"
       ELSE ppc' = "fork" /\ UNCHANGED retval
    /\ UNCHANGED <<inputs, child, readCnt, sig, ustat, forked, waitset, ready,
                   endtime, alarmOn, rcvdSig, killAll>>

(***************************************************************************)
(* One turn of the loop starting the clients: pipe() may fail; u[i].status *)
(* is set to UI_RUNNING before fork(), which may return -1 (kept as pid).  *)
(* Either failure goes to cleanup.  After the last fork the signal         *)
(* handlers are installed and endtime is set from the configuration.      *)
(***************************************************************************)
Fork ==
    /\ ppc = "fork"
    /\ LET i == forked + 1 IN
       IF i > uiCount
       THEN /\ ppc' = "build"
            /\ endtime' = timeoutSet
            /\ UNCHANGED <<proc, ustat, forked, retval>>
       ELSE \/ /\ ppc' = "cleanup" /\ retval' = "error"
               /\ UNCHANGED <<proc, ustat, forked, endtime>>
            \/ /\ ppc' = "cleanup" /\ retval' = "error"
               /\ proc' = [proc EXCEPT ![i] = "nofork"]
               /\ ustat' = [ustat EXCEPT ![i] = "running"]
               /\ UNCHANGED <<forked, endtime>>
            \/ /\ proc' = [proc EXCEPT ![i] = "running"]
               /\ ustat' = [ustat EXCEPT ![i] = "running"]
               /\ forked' = i
               /\ UNCHANGED <<ppc, retval, endtime>>
    /\ UNCHANGED <<inputs, exitOk, written, keyed, readCnt, sig, waitset, ready,
                   alarmOn, rcvdSig, killAll>>

\* Top of the wait loop: build_waitset, then ui_select arms alarm(endtime)
\* (alarm(0) cancels it) and blocks in select() without a timeout.
BuildWaitset ==
    /\ ppc = "build"
    /\ waitset' = WaitSet
    /\ alarmOn' = endtime
    /\ ppc' = "select"
    /\ UNCHANGED <<inputs, child, readCnt, sig, ustat, forked, ready, endtime,
                   rcvdSig, retval, killAll>>

\* select() returns the descriptors of the wait set that are readable.
SelectReturns ==
    /\ ppc = "select"
    /\ \E i \in waitset : Readable(i)
    /\ ready' = {i \in waitset : Readable(i)}
    /\ ppc' = "service"
    /\ UNCHANGED <<inputs, child, readCnt, sig, ustat, forked, waitset, endtime,
                   alarmOn, rcvdSig, retval, killAll>>

(***************************************************************************)
(* select() was interrupted (EINTR): after SIGUSR1 the timeout is switched *)
(* off and the loop goes on; otherwise it was the alarm and ui_timeout     *)
(* takes the default entry, if the configuration has a valid one.          *)
(***************************************************************************)
Interrupted ==
    /\ ppc = "intr"
    /\ IF rcvdSig = "USR1"
       THEN ppc' = "build" /\ endtime' = FALSE /\ UNCHANGED retval
       ELSE /\ ppc' = "cleanup"
            /\ retval' = IF defaultValid THEN "default" ELSE "error"
            /\ UNCHANGED endtime
    /\ UNCHANGED <<inputs, child, readCnt, sig, ustat, forked, waitset, ready,
                   alarmOn, rcvdSig, killAll>>

\* Fault variant of ReadClient: a read at end of file is counted as data.
ReadClientPastEof ==
    /\ ppc = "service"
    /\ ready # {}
    /\ LET i == Min(ready) IN readCnt' = [readCnt EXCEPT ![i] = @ + 1]
    /\ ppc' = "check"
    /\ UNCHANGED <<inputs, child, sig, ustat, forked, waitset, ready, endtime,
                   alarmOn, rcvdSig, retval, killAll>>

(***************************************************************************)
(* The service loop takes the ready descriptors in increasing order;       *)
(* check_input_from_client first calls read_from_client: one read() of at  *)
(* most CFG_STR_MAX_LEN bytes, appended to collected_str (0 at EOF).       *)
(***************************************************************************)
ReadClient ==
    /\ ppc = "service"
    /\ ready # {}
    /\ LET i == Min(ready)
       IN  readCnt' = [readCnt EXCEPT ![i] = IF written[i] > @ THEN @ + 1 ELSE @]
    /\ ppc' = "check"
    /\ UNCHANGED <<inputs, child, sig, ustat, forked, waitset, ready, endtime,
                   alarmOn, rcvdSig, retval, killAll>>

(***************************************************************************)
(* The rest of check_input_from_client: remove_terminated_clients, then a  *)
(* client that has exited cleanly has its collected input parsed, which    *)
(* succeeds for the complete entry; on success the loop is left for        *)
(* cleanup with CFG_RETURN_OK, otherwise the next ready descriptor is      *)
(* serviced, or the wait loop starts over.                                 *)
(***************************************************************************)
CheckClient ==
    /\ ppc = "check"
    /\ Reap
    /\ LET i == Min(ready) IN
       IF ustat'[i] = "clean" /\ readCnt[i] = K
       THEN ppc' = "cleanup" /\ retval' = "ok" /\ UNCHANGED ready
       ELSE /\ ready' = ready \ {i}
            /\ ppc' = IF ready' = {} THEN "build" ELSE "service"
            /\ UNCHANGED retval
    /\ UNCHANGED <<inputs, exitOk, written, keyed, readCnt, sig, forked,
                   waitset, endtime, alarmOn, rcvdSig, killAll>>

\* cleanup_and_return: SIGTERM to every client still UI_RUNNING.
TermClients ==
    /\ ppc = "cleanup"
    /\ Signalled("term")
    /\ ppc' = "reap1"
    /\ UNCHANGED <<inputs, child, readCnt, ustat, forked, waitset, ready,
                   endtime, alarmOn, rcvdSig, retval>>

\* remove_terminated_clients, then (if a client is still running) a wait
\* of UI_KILL_TIMEOUT seconds, during which children go on.
FirstReap ==
    /\ ppc = "reap1"
    /\ Reap
    /\ ppc' = "sigkill"
    /\ UNCHANGED <<inputs, exitOk, written, keyed, readCnt, sig, forked,
                   waitset, ready, endtime, alarmOn, rcvdSig, retval, killAll>>

\* Fault variant of KillClients: no SIGKILL after the SIGTERM.
KillClientsOmitted ==
    /\ ppc = "sigkill"
    /\ ppc' = "reap2"
    /\ UNCHANGED <<inputs, child, readCnt, sig, ustat, forked, waitset, ready,
                   endtime, alarmOn, rcvdSig, retval, killAll>>

\* SIGKILL to every client still UI_RUNNING.
KillClients ==
    /\ ppc = "sigkill"
    /\ Signalled("kill")
    /\ ppc' = "reap2"
    /\ UNCHANGED <<inputs, child, readCnt, ustat, forked, waitset, ready,
                   endtime, alarmOn, rcvdSig, retval>>

\* The last remove_terminated_clients; userinterface returns.
FinalReap ==
    /\ ppc = "reap2"
    /\ Reap
    /\ ppc' = "done"
    /\ UNCHANGED <<inputs, exitOk, written, keyed, readCnt, sig, forked,
                   waitset, ready, endtime, alarmOn, rcvdSig, retval, killAll>>

(***************************************************************************)
(* Clients and the alarm                                                   *)
(***************************************************************************)

\* A signal to sysload: default_sig_hdlr stores it in rcvd_sig; it ends a
\* select() in progress (EINTR) and is otherwise only recorded.
Deliver(s) ==
    /\ rcvdSig' = s
    /\ ppc' = IF ppc = "select" THEN "intr" ELSE ppc

(***************************************************************************)
(* ui_linemode sends SIGUSR1 to sysload for every line the user enters,    *)
(* before it prints the selected entry (ui_linemode.c).  The handler is    *)
(* installed after the fork loop.                                          *)
(***************************************************************************)
ChildKey(i) ==
    /\ proc[i] = "running"
    /\ written[i] = 0
    /\ ppc \notin {"start", "fork"}
    /\ keyed' = [keyed EXCEPT ![i] = TRUE]
    /\ Deliver("USR1")
    /\ UNCHANGED <<inputs, proc, exitOk, written, readCnt, sig, ustat, forked,
                   waitset, ready, endtime, alarmOn, retval, killAll>>

\* The user has chosen: cfg_bentry_print writes the entry to stdout, which
\* stdio flushes to the pipe on exit(0).
ChildSelect(i) ==
    /\ proc[i] = "running"
    /\ written[i] = 0
    /\ written' = [written EXCEPT ![i] = K]
    /\ UNCHANGED <<inputs, proc, exitOk, keyed, readCnt, sig, ustat, ppc,
                   forked, waitset, ready, endtime, alarmOn, rcvdSig, retval,
                   killAll>>

\* ... and the process exits with status 0 once the entry is written.
ChildFinish(i) ==
    /\ proc[i] = "running"
    /\ written[i] = K
    /\ proc' = [proc EXCEPT ![i] = "zombie"]
    /\ exitOk' = [exitOk EXCEPT ![i] = TRUE]
    /\ UNCHANGED <<inputs, written, keyed, readCnt, sig, ustat, ppc, forked,
                   waitset, ready, endtime, alarmOn, rcvdSig, retval, killAll>>

\* A client ends without a selection: exit(1) when the terminal cannot be
\* opened, exit(0) from the SIGINT/SIGQUIT handler, or a crash.
ChildQuit(i) ==
    /\ proc[i] = "running"
    /\ written[i] = 0
    /\ proc' = [proc EXCEPT ![i] = "zombie"]
    /\ exitOk' \in [Clients -> BOOLEAN]
    /\ \A j \in Clients \ {i} : exitOk'[j] = exitOk[j]
    /\ UNCHANGED <<inputs, written, keyed, readCnt, sig, ustat, ppc, forked,
                   waitset, ready, endtime, alarmOn, rcvdSig, retval, killAll>>

\* SIGTERM: ui_linemode's handler exits with 0; a client may also die of
\* it or, as far as sysload knows, ignore it.
ChildTerminated(i) ==
    /\ proc[i] = "running"
    /\ sig[i] = "term"
    /\ proc' = [proc EXCEPT ![i] = "zombie"]
    /\ exitOk' \in [Clients -> BOOLEAN]
    /\ \A j \in Clients \ {i} : exitOk'[j] = exitOk[j]
    /\ UNCHANGED <<inputs, written, keyed, readCnt, sig, ustat, ppc, forked,
                   waitset, ready, endtime, alarmOn, rcvdSig, retval, killAll>>

\* SIGKILL ends the process.
ChildKilled(i) ==
    /\ proc[i] = "running"
    /\ sig[i] = "kill"
    /\ proc' = [proc EXCEPT ![i] = "zombie"]
    /\ exitOk' = [exitOk EXCEPT ![i] = FALSE]
    /\ UNCHANGED <<inputs, written, keyed, readCnt, sig, ustat, ppc, forked,
                   waitset, ready, endtime, alarmOn, rcvdSig, retval, killAll>>

\* The alarm armed by ui_select goes off: SIGALRM.
AlarmFires ==
    /\ alarmOn
    /\ alarmOn' = FALSE
    /\ Deliver("ALRM")
    /\ UNCHANGED <<inputs, child, readCnt, sig, ustat, forked, waitset, ready,
                   endtime, retval, killAll>>

Parent ==
    \/ Start \/ Fork \/ BuildWaitset \/ SelectReturns \/ Interrupted
    \/ ReadClient \/ CheckClient
    \/ TermClients \/ FirstReap \/ KillClients \/ FinalReap

Child(i) ==
    \/ ChildKey(i) \/ ChildSelect(i) \/ ChildFinish(i) \/ ChildQuit(i)
    \/ ChildTerminated(i) \/ ChildKilled(i)

Next == Parent \/ AlarmFires \/ \E i \in Clients : Child(i)

(***************************************************************************)
(* sysload runs whenever it is not blocked; a child that has printed its   *)
(* entry reaches exit(), a SIGKILLed child dies, and an armed alarm goes   *)
(* off.  What users do, and whether a client honours SIGTERM, is not       *)
(* assumed.                                                                *)
(***************************************************************************)
Spec ==
    /\ Init /\ [][Next]_vars
    /\ WF_vars(Parent)
    /\ WF_vars(AlarmFires)
    /\ \A i \in Clients : WF_vars(ChildFinish(i)) /\ WF_vars(ChildKilled(i))

(***************************************************************************)
(* Properties                                                              *)
(***************************************************************************)

\* A client that printed its entry and exited cleanly is not reaped with
\* part of the entry still in its pipe while sysload waits for a choice:
\* remove_terminated_clients reaps every child, and build_waitset then
\* leaves the pipe of a reaped child out for good.
NoSelectionDropped ==
    \A i \in Clients :
        (proc[i] = "reaped" /\ exitOk[i] /\ readCnt[i] < written[i])
            => ppc \in Cleanup

\* Once sysload has taken a key press's SIGUSR1, it does not wait in
\* select() with the alarm armed: the key stops the timeout.
KeyStopsTimeout == (ppc = "select" /\ rcvdSig = "USR1") => ~alarmOn

\* cleanup_and_return signals only the clients: kill() is never called
\* with the pid -1 a failed fork leaves in u[i].pid.
KillOnlyClients == ~killAll

\* A user's choice is acted upon: once a client has written its entry,
\* userinterface returns (with it, the default or an error).
SelectionLeadsToReturn == \A i \in Clients : written[i] = K ~> ppc = "done"

\* After userinterface has returned, no client it started keeps running:
\* SIGKILL follows the SIGTERM a client may ignore.
ChildrenEnd == ppc = "done" ~> \A i \in Clients : proc[i] # "running"

\* The timeout ends the wait: unless a key press has stopped it, a
\* userinterface with config->timeout > 0 returns, whatever the clients do.
\* A SIGALRM that comes while sysload reads a pipe is only recorded; the
\* alarm(time_out) of the next ui_select re-arms it.
TimeoutEndsWait ==
    (timeoutSet /\ ppc = "build") ~> (ppc = "done" \/ \E i \in Clients : keyed[i])

\* When every client has ended without a choice, userinterface returns
\* instead of waiting in select() on an empty set (the intent of the
\* "nothing to do" test at its start).
ReturnsOnceClientsEnd ==
    (ppc \notin {"start", "fork"} /\ \A i \in Clients : proc[i] \in {"zombie", "reaped"})
        ~> ppc = "done"
=============================================================================
