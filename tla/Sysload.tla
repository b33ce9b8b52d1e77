------------------------------- MODULE Sysload -------------------------------
(***************************************************************************)
(* sysload's main loop (sysload.c main) composed with the loader dispatch  *)
(* (loader.c), the kernel boot and insfile boot methods, comp_load and the *)
(* files these leave in /tmp between two boot attempts.  The bootmap       *)
(* method is kept to the order in which it writes /tmp files and returns;  *)
(* BootmapBoot models its control in detail.  The user interface is one    *)
(* step that either fails or returns one of the configured boot entries;   *)
(* UIControl models it.                                                    *)
(*                                                                         *)
(* Data is abstracted to what the properties tell apart: a file in /tmp is *)
(* the number of the boot attempt that last created it (0: no file), a URI *)
(* is its class ("" unset, "bad" rejected by verify_uri_scheme, "scp"      *)
(* served by cl_scp, "good" served by a loader module outside this         *)
(* repository), and an insfile line is the facts identify_file votes on.   *)
(***************************************************************************)
EXTENDS Naturals, Sequences, SequencesExt

CONSTANTS
    Entries,      \* the boot entries userinterface() may return
    CompFiles,    \* /tmp/file_1, /tmp/file_2, ...: names by linecount
    MaxAttempts,  \* bound on the iterations of main's while (WORLD_EXISTS)
    ForkMayFail   \* whether fork() in comp_load may return -1

VARIABLES
    pc,        \* where sysload is: its main loop, a loader step, or gone
    hist,      \* hist[n]: the entry chosen in boot attempt n
    boot,      \* struct cfg_bentry boot of the current attempt
    tmp,       \* tmp[f]: attempt that last created /tmp file f, 0 if none
    lines,     \* insfile lines not read yet
    linecount, \* linecount of action_insfile_boot
    cmdFrom,   \* /tmp/parmfile.txt as compose_commandline read it, or 0
    loaded,    \* what the last successful kexec -l was given
    retval     \* main's retval

vars == <<pc, hist, boot, tmp, lines, linecount, cmdFrom, loaded, retval>>

attempt == Len(hist)

ImageFiles == {"kernel", "initrd", "parmfile"}
Files == ImageFiles \cup {"ins"} \cup ToSet(CompFiles)

UriClasses == {"", "bad", "scp", "good"}
Actions == {"kernel", "insfile", "bootmap", "reboot", "halt", "shell", "exit"}

\* Size classes identify_file tells apart: st_size > 512K, 4096 < st_size
\* <= 512K, st_size = 4, and the other sizes up to
\* SYSLOAD_MAX_KERNEL_CMDLINE.
Sizes == {"big", "mid", "four", "small"}
Addrs == {"0x0", "0x10480", "0x800000", "0x10414", "other"}
\* An insfile line: a comment (first character '*') or a file and its
\* load address, with the facts about the file identify_file looks at.
Comment == [kind |-> "comment"]
Lines == {Comment} \cup
         [kind : {"file"}, uri : UriClasses \ {""}, size : Sizes,
          gzip : BOOLEAN, printable : BOOLEAN, addr : Addrs]

NoLoad == [kernel |-> 0, initrd |-> 0, parm |-> 0, att |-> 0]

-----------------------------------------------------------------------------
(***************************************************************************)
(* comp_load(dest, uri): the set of [ok, file] it may end with, file being *)
(* what /tmp/dest is afterwards.  An invalid scheme fails before any fork. *)
(* cl_scp, started as execl(module, module, dest, uri), decodes its first  *)
(* argument, the local path, as the source URL and exits 1 before it opens *)
(* the destination (ClScp).  Another loader module may succeed, fail       *)
(* before creating dest, or fail after O_TRUNC created it.  When fork()    *)
(* returns -1 the parent reads EOF on both pipes and wait4(-1) finds no    *)
(* child, so ret is read uninitialized: either result, nothing written.    *)
(***************************************************************************)
CompLoad(f, uri) ==
    LET unchanged == [ok |-> FALSE, file |-> tmp[f]]
        loaded_ == CASE uri = "bad" -> {unchanged}
                     [] uri = "scp" -> {unchanged}
                     [] OTHER -> {[ok |-> TRUE, file |-> attempt], unchanged,
                                  [ok |-> FALSE, file |-> attempt]}
        forkFailed == IF ForkMayFail /\ uri # "bad"
                      THEN {[ok |-> b, file |-> tmp[f]] : b \in BOOLEAN}
                      ELSE {}
    IN  loaded_ \cup forkFailed

(***************************************************************************)
(* identify_file's votes for a line's file, in the order of enum           *)
(* ins_component_type, and its selection of the first type with the        *)
(* strictly highest vote above 0.                                          *)
(***************************************************************************)
InsTypes == <<"kernel", "initrd", "parmfile", "initrdsize", "other">>

AddrVote == [a \in Addrs |->
                CASE a = "0x0" -> "kernel" [] a = "0x10480" -> "parmfile"
                  [] a = "0x800000" -> "initrd" [] a = "0x10414" -> "initrdsize"
                  [] OTHER -> "other"]

Votes(l) ==
    [t \in ToSet(InsTypes) |->
        (IF l.size = "big" /\ t \in {"kernel", "initrd"} THEN 1 ELSE 0)
      + (IF l.size = "big" /\ l.gzip /\ t = "initrd" THEN 1 ELSE 0)
      + (IF l.size = "four" /\ t = "initrdsize" THEN 1 ELSE 0)
      + (IF l.size \in {"four", "small"} /\ t = "parmfile"
         THEN IF l.printable THEN 2 ELSE 1 ELSE 0)
      + (IF AddrVote[l.addr] = t /\ t # "other" THEN 1 ELSE 0)]

RECURSIVE MostProbable(_, _, _, _)
MostProbable(v, i, highest, most) ==
    IF i > Len(InsTypes) THEN most
    ELSE IF v[InsTypes[i]] > highest
         THEN MostProbable(v, i + 1, v[InsTypes[i]], InsTypes[i])
         ELSE MostProbable(v, i + 1, highest, most)

IdentifyFile(l) == MostProbable(Votes(l), 1, 0, "other")

\* The initrd argument kexec is given: the initrd of the entry, always for
\* an insfile, the bootmap's initrd when its program has one.
KexecInitrd ==
    CASE boot.action = "kernel" -> boot.initrd # ""
      [] boot.action = "insfile" -> TRUE
      [] OTHER -> boot.bmInitrd

\* action_kernel_boot and action_insfile_boot unlink the three images at
\* their cleanup label; the bootmap method and the others leave /tmp alone.
CleansImages == boot.action \in {"kernel", "insfile"}

Unlink(t, fs) == [f \in DOMAIN t |-> IF f \in fs THEN 0 ELSE t[f]]

TypeOK ==
    /\ pc \in {"ui", "dispatch", "k_kernel", "k_initrd", "k_parm", "i_load",
               "i_open", "i_line", "b_disk", "b_kernel", "b_initrd", "b_parm",
               "compose", "kexec", "cleanup", "gone", "exit"}
    /\ hist \in Seq(Entries) /\ attempt <= MaxAttempts
    /\ boot \in Entries /\ boot.action \in Actions
    /\ tmp \in [Files -> 0..MaxAttempts]
    /\ lines \in Seq(Lines) /\ linecount \in 0..Len(CompFiles)
    /\ cmdFrom \in 0..MaxAttempts
    /\ loaded \in [kernel : 0..MaxAttempts, initrd : 0..MaxAttempts,
                   parm : 0..MaxAttempts, att : 0..MaxAttempts]
    /\ retval \in {0, 1}

Init ==
    /\ pc = "ui"
    /\ hist = <<>>
    /\ boot = CHOOSE e \in Entries : TRUE
    /\ tmp = [f \in Files |-> 0]
    /\ lines = <<>> /\ linecount = 0
    /\ cmdFrom = 0
    /\ loaded = NoLoad
    /\ retval = 0

-----------------------------------------------------------------------------
(***************************************************************************)
(* main: one iteration of while (WORLD_EXISTS).  userinterface() fails,    *)
(* and main leaves the loop with retval 1, or returns the entry to boot.   *)
(***************************************************************************)
UserInterface ==
    /\ pc = "ui"
    /\ attempt < MaxAttempts
    /\ \/ /\ retval' = 1 /\ pc' = "exit"
          /\ UNCHANGED <<hist, boot>>
       \/ \E e \in Entries :
            /\ boot' = e /\ hist' = Append(hist, e)
            /\ pc' = "dispatch"
            /\ UNCHANGED retval
    /\ cmdFrom' = 0
    /\ UNCHANGED <<tmp, lines, linecount, loaded>>

\* loader(): the switch over boot->action for the three boot methods.
Loader ==
    /\ pc = "dispatch"
    /\ boot.action \in {"kernel", "insfile", "bootmap"}
    /\ pc' = CASE boot.action = "kernel" -> "k_kernel"
               [] boot.action = "insfile" -> "i_load"
               [] OTHER -> "b_disk"
    /\ UNCHANGED <<hist, boot, tmp, lines, linecount, cmdFrom, loaded, retval>>

\* systemv: fork and execv a command that ends the system; when fork or
\* execv fails, or the command exits, the status comes back.
SystemvEnds == pc' \in {"gone", "cleanup"}

\* action_reboot and action_halt: the command's failure is the message.
ActionReboot ==
    /\ pc = "dispatch" /\ boot.action = "reboot"
    /\ SystemvEnds
    /\ UNCHANGED <<hist, boot, tmp, lines, linecount, cmdFrom, loaded, retval>>

ActionHalt ==
    /\ pc = "dispatch" /\ boot.action = "halt"
    /\ SystemvEnds
    /\ UNCHANGED <<hist, boot, tmp, lines, linecount, cmdFrom, loaded, retval>>

\* action_shell: the shell returns, with its status as the message.
ActionShell ==
    /\ pc = "dispatch" /\ boot.action = "shell"
    /\ pc' = "cleanup"
    /\ UNCHANGED <<hist, boot, tmp, lines, linecount, cmdFrom, loaded, retval>>

\* action_exit: exit(0) before anything else.
ActionExit ==
    /\ pc = "dispatch" /\ boot.action = "exit"
    /\ pc' = "exit"
    /\ UNCHANGED <<hist, boot, tmp, lines, linecount, cmdFrom, loaded, retval>>

\* comp_load of uri into /tmp file f; on success go on with next, on error
\* to the caller's cleanup.
LoadInto(f, uri, next) ==
    \E r \in CompLoad(f, uri) :
        /\ tmp' = [tmp EXCEPT ![f] = r.file]
        /\ pc' = IF r.ok THEN next ELSE "cleanup"

(***************************************************************************)
(* action_kernel_boot: kernel, then initrd and parmfile when the entry     *)
(* names them; any error goes to cleanup.                                  *)
(***************************************************************************)
KernelBootKernel ==
    /\ pc = "k_kernel"
    /\ IF boot.kernel = ""
       THEN pc' = "cleanup" /\ UNCHANGED tmp     \* "No kernel specified."
       ELSE LoadInto("kernel", boot.kernel, "k_initrd")
    /\ UNCHANGED <<hist, boot, lines, linecount, cmdFrom, loaded, retval>>

KernelBootInitrd ==
    /\ pc = "k_initrd"
    /\ IF boot.initrd = ""
       THEN pc' = "k_parm" /\ UNCHANGED tmp
       ELSE LoadInto("initrd", boot.initrd, "k_parm")
    /\ UNCHANGED <<hist, boot, lines, linecount, cmdFrom, loaded, retval>>

\* With a parmfile the command line is composed from it, otherwise it is
\* boot->cmdline.
KernelBootParmfile ==
    /\ pc = "k_parm"
    /\ IF boot.parmfile = ""
       THEN pc' = "kexec" /\ UNCHANGED tmp
       ELSE LoadInto("parmfile", boot.parmfile, "compose")
    /\ UNCHANGED <<hist, boot, lines, linecount, cmdFrom, loaded, retval>>

\* A cleanup that forgets /tmp/parmfile.txt (fault).
KernelBootCleanupKeepsParmfile ==
    /\ pc = "cleanup" /\ boot.action = "kernel"
    /\ tmp' = Unlink(tmp, {"kernel", "initrd"})
    /\ pc' = "ui"
    /\ UNCHANGED <<hist, boot, lines, linecount, cmdFrom, loaded, retval>>

\* action_kernel_boot's cleanup label, then main's loop: the three images
\* are unlinked whatever happened before.
KernelBootCleanup ==
    /\ pc = "cleanup" /\ boot.action = "kernel"
    /\ tmp' = Unlink(tmp, ImageFiles)
    /\ pc' = "ui"
    /\ UNCHANGED <<hist, boot, lines, linecount, cmdFrom, loaded, retval>>

(***************************************************************************)
(* compose_commandline: stat() of /tmp/parmfile.txt fails when it is not   *)
(* there; the command line may be too long, open() or read() may fail.    *)
(***************************************************************************)
ComposeCommandline ==
    /\ pc = "compose"
    /\ \/ pc' = "cleanup" /\ UNCHANGED cmdFrom
       \/ tmp["parmfile"] # 0 /\ cmdFrom' = tmp["parmfile"] /\ pc' = "kexec"
    /\ UNCHANGED <<hist, boot, tmp, lines, linecount, loaded, retval>>

(***************************************************************************)
(* kexec: "kexec -l" with the kernel, the initrd when one is given, and    *)
(* the command line; it fails on a missing file, and may fail on any       *)
(* other (fork failure, an image kexec rejects).  After a load "kexec -e"  *)
(* either starts the new kernel or returns "execute failed".               *)
(***************************************************************************)
Kexec ==
    /\ pc = "kexec"
    /\ \/ pc' = "cleanup" /\ UNCHANGED loaded
       \/ /\ tmp["kernel"] # 0
          /\ KexecInitrd => tmp["initrd"] # 0
          /\ loaded' = [kernel |-> tmp["kernel"],
                        initrd |-> IF KexecInitrd THEN tmp["initrd"] ELSE 0,
                        parm |-> cmdFrom, att |-> attempt]
          /\ pc' \in {"gone", "cleanup"}
    /\ UNCHANGED <<hist, boot, tmp, lines, linecount, cmdFrom, retval>>


(***************************************************************************)
(* action_insfile_boot.  With an insfile name it is loaded to              *)
(* /tmp/file.ins; without one, whatever /tmp/file.ins holds is read.       *)
(***************************************************************************)
InsfileLoad ==
    /\ pc = "i_load"
    /\ IF boot.insfile = ""
       THEN pc' = "i_open" /\ UNCHANGED tmp
       ELSE LoadInto("ins", boot.insfile, "i_open")
    /\ UNCHANGED <<hist, boot, lines, linecount, cmdFrom, loaded, retval>>

\* fopen of /tmp/file.ins: its lines are those of the insfile of the attempt
\* that created it.
InsfileOpen ==
    /\ pc = "i_open"
    /\ IF tmp["ins"] = 0
       THEN pc' = "cleanup" /\ UNCHANGED <<lines, linecount>>
       ELSE /\ lines' = hist[tmp["ins"]].ins /\ linecount' = 0
            /\ pc' = "i_line"
    /\ UNCHANGED <<hist, boot, tmp, cmdFrom, loaded, retval>>

\* What identify_file may return for /tmp/file_N: the vote on the line's
\* file when this attempt wrote it, INS_OTHER when stat() fails, anything
\* for a file_N an earlier attempt left.
Identified(l, file) ==
    IF file = attempt THEN {IdentifyFile(l)}
    ELSE IF file = 0 THEN {"other"}
    ELSE ToSet(InsTypes)

\* A rename for every identified type, INS_INITRDSIZE included (fault).
RenameEveryType(t, f, type) ==
    IF type # "other"
    THEN [x \in DOMAIN t \cup {type} |->
            IF x = type THEN t[f] ELSE IF x = f THEN 0 ELSE t[x]]
    ELSE [t EXCEPT ![f] = 0]

\* rename(local_name, target) for an image type, unlink(local_name) else.
RenameComponent(t, f, type) ==
    IF type \in ImageFiles
    THEN [t EXCEPT ![type] = t[f], ![f] = 0]
    ELSE [t EXCEPT ![f] = 0]

\* One pass of the fgets loop: a comment is skipped, a file is loaded to
\* /tmp/file_<linecount>, identified and renamed.  A load error leaves the
\* loop for cleanup with /tmp/file.ins still there.
InsfileLine ==
    /\ pc = "i_line" /\ lines # <<>>
    /\ LET l == Head(lines) IN
       /\ lines' = Tail(lines)
       /\ IF l.kind = "comment"
          THEN pc' = "i_line" /\ UNCHANGED <<tmp, linecount>>
          ELSE LET n == linecount + 1
                   f == CompFiles[n]
               IN  /\ linecount' = n
                   /\ \E r \in CompLoad(f, l.uri) :
                        IF r.ok
                        THEN \E type \in Identified(l, r.file) :
                               /\ tmp' = RenameComponent(
                                            [tmp EXCEPT ![f] = r.file], f, type)
                               /\ pc' = "i_line"
                        ELSE tmp' = [tmp EXCEPT ![f] = r.file] /\ pc' = "cleanup"
    /\ UNCHANGED <<hist, boot, cmdFrom, loaded, retval>>


\* After the loop: fclose and unlink /tmp/file.ins; only with all three
\* images present is the command line composed and kexec called, else the
\* method returns its message still empty.
InsfileCheck ==
    /\ pc = "i_line" /\ lines = <<>>
    /\ tmp' = [tmp EXCEPT !["ins"] = 0]
    /\ pc' = IF \A f \in ImageFiles : tmp[f] # 0 THEN "compose" ELSE "cleanup"
    /\ UNCHANGED <<hist, boot, lines, linecount, cmdFrom, loaded, retval>>

\* action_insfile_boot's cleanup label, then main's loop.
InsfileCleanup ==
    /\ pc = "cleanup" /\ boot.action = "insfile"
    /\ tmp' = Unlink(tmp, ImageFiles)
    /\ pc' = "ui"
    /\ UNCHANGED <<hist, boot, lines, linecount, cmdFrom, loaded, retval>>

(***************************************************************************)
(* action_bootmap_boot and boot_bootmap_disk, kept to the /tmp files they  *)
(* write.  The dasd:// and zfcp:// front ends and the table walk may fail  *)
(* before any file is written; nothing on this path unlinks a file.        *)
(***************************************************************************)
BootmapFrontEnd ==
    /\ pc = "b_disk"
    /\ IF boot.bootmap = "other"
       THEN pc' = "cleanup"       \* "Unsupported bootmap URI scheme."
       ELSE pc' \in {"cleanup", "b_kernel"}
    /\ UNCHANGED <<hist, boot, tmp, lines, linecount, cmdFrom, loaded, retval>>

\* read_kernel_component: creat() fails and leaves the old file; a failed
\* header write, image write or close unlinks it; a failed component copy
\* returns with only the header written.
ReadKernelComponent ==
    /\ pc = "b_kernel"
    /\ \/ pc' = "cleanup" /\ UNCHANGED tmp
       \/ pc' = "cleanup" /\ tmp' = [tmp EXCEPT !["kernel"] = 0]
       \/ pc' = "cleanup" /\ tmp' = [tmp EXCEPT !["kernel"] = attempt]
       \/ pc' = "b_initrd" /\ tmp' = [tmp EXCEPT !["kernel"] = attempt]
    /\ UNCHANGED <<hist, boot, lines, linecount, cmdFrom, loaded, retval>>

\* read_initrd_component, when the program has an initrd: creat() fails
\* and leaves the old file, every later error unlinks it.
ReadInitrdComponent ==
    /\ pc = "b_initrd"
    /\ IF ~boot.bmInitrd
       THEN pc' = "b_parm" /\ UNCHANGED tmp
       ELSE \/ pc' = "cleanup" /\ UNCHANGED tmp
            \/ pc' = "cleanup" /\ tmp' = [tmp EXCEPT !["initrd"] = 0]
            \/ pc' = "b_parm" /\ tmp' = [tmp EXCEPT !["initrd"] = attempt]
    /\ UNCHANGED <<hist, boot, lines, linecount, cmdFrom, loaded, retval>>

\* The parmfile component is read to memory (it may fail), then
\* prepare_config_command_line loads the entry's parmfile, if any, to
\* /tmp/parmfile.txt and composes the command line from it.
PrepareConfigCommandLine ==
    /\ pc = "b_parm"
    /\ \/ pc' = "cleanup" /\ UNCHANGED tmp
       \/ boot.parmfile = "" /\ pc' = "kexec" /\ UNCHANGED tmp
       \/ boot.parmfile # "" /\ LoadInto("parmfile", boot.parmfile, "compose")
    /\ UNCHANGED <<hist, boot, lines, linecount, cmdFrom, loaded, retval>>

\* The other methods return their message as they are; main's loop goes
\* round again.
LoaderReturns ==
    /\ pc = "cleanup" /\ ~CleansImages
    /\ pc' = "ui"
    /\ UNCHANGED <<hist, boot, tmp, lines, linecount, cmdFrom, loaded, retval>>

Next ==
    \/ UserInterface \/ Loader
    \/ ActionReboot \/ ActionHalt \/ ActionShell \/ ActionExit
    \/ KernelBootKernel \/ KernelBootInitrd \/ KernelBootParmfile
    \/ KernelBootCleanup
    \/ InsfileLoad \/ InsfileOpen \/ InsfileLine \/ InsfileCheck
    \/ InsfileCleanup
    \/ BootmapFrontEnd \/ ReadKernelComponent \/ ReadInitrdComponent
    \/ PrepareConfigCommandLine
    \/ ComposeCommandline \/ Kexec \/ LoaderReturns

Spec == Init /\ [][Next]_vars

-----------------------------------------------------------------------------
(***************************************************************************)
(* Properties.                                                             *)
(***************************************************************************)

\* Back at the top of main's loop, a kernel, initrd or parmfile image still
\* in /tmp was written by a bootmap attempt: the kernel and insfile methods
\* unlink all three on every path out of their handler, whatever comp_load
\* reported.
LeftoversFromBootmap ==
    pc = "ui" =>
        \A f \in ImageFiles : tmp[f] # 0 => hist[tmp[f]].action = "bootmap"

\* Every image a successful "kexec -l" was given, and the parmfile its
\* command line came from, was written during that same boot attempt
\* (spec section 3: no state survives across boot attempts).
KexecOnlyFreshFiles ==
    loaded # NoLoad =>
        /\ loaded.kernel = loaded.att
        /\ loaded.initrd \in {0, loaded.att}
        /\ loaded.parm \in {0, loaded.att}

=============================================================================
