---------------------------- MODULE BootmapBoot ----------------------------
(***************************************************************************)
(* One bootmap boot attempt from a DASD or a zfcp SCSI LUN:                *)
(* action_bootmap_boot_dasd (src/core/bootmap_dasd.c) or                   *)
(* action_bootmap_boot_zfcp (src/core/bootmap_fcp.c) sets the device      *)
(* online, opens it with                                                   *)
(* disk_open and runs boot_bootmap_disk (src/core/bootmap_common.c), which *)
(* reads the program and component tables, identifies the boot objects,   *)
(* writes the kernel and initrd files, composes the command line and       *)
(* calls kexec; if that returns, the disk is closed and the device set     *)
(* offline.  Each copy_component_to_memory call is one step that succeeds *)
(* or returns an error (its inner loop is SegmentWalker).  Disk contents  *)
(* the identification reads are inputs; block reads, table magics and     *)
(* system calls may fail at every step where the code checks them.        *)
(***************************************************************************)
EXTENDS BootIdentify

CONSTANTS
    ProgTableSize,  \* get_program_table_size(disk)
    UriPrograms,    \* digit strings of the ",N" part of the URI (<<>>: none)
    Tables,         \* component tables the disk may hold
    Stage3Set,      \* stage-3 parameter blocks the disk may hold
    ImageBytes,     \* buffer_size of a copied component
    KernelHeader    \* KERNEL_HEADER_SIZE zero bytes written before the kernel

VARIABLES
    in,         \* the attempt's inputs: URI digits, disk type, tables
    pc,         \* control point
    dev,        \* state of the DASD channel device: "offline" or "online"
    fcp,        \* the zfcp configuration present: channel online, port, unit,
                \* and the block device node made for the LUN
    fd,         \* disk->fd: "closed" or "open"
    heap,       \* buffers allocated by the attempt and not yet freed
    program,    \* program number parsed from the URI
    ident,      \* what identify_boot_objects left in kernel/initrd/parmfile
    kernelFile, \* SYSLOAD_FILENAME_KERNEL: its parts, <<>> if absent
    initrdFile, \* SYSLOAD_FILENAME_INITRD: its parts, <<>> if absent
    kexecArgs,  \* <<files kexec was started with>>, <<>> before
    firstErr,   \* the first step that failed ("none" while none has)
    ret         \* the error message returned ("none" while running)

vars == <<in, pc, dev, fcp, fd, heap, program, ident, kernelFile, initrdFile,
          kexecArgs, firstErr, ret>>

Digits == 0..9

(***************************************************************************)
(* sscanf(s, "%i", &program) on the one or two digits the URI regular     *)
(* expression admits: a leading 0 makes the number octal, and the scan    *)
(* stops at the first digit that is not a digit of the base.              *)
(***************************************************************************)
RECURSIVE StrtolDigits(_, _, _)
StrtolDigits(d, base, acc) ==
    IF d = <<>> \/ Head(d) >= base THEN acc
    ELSE StrtolDigits(Tail(d), base, acc * base + Head(d))

ScanI(d) == IF d = <<>> THEN 0 ELSE StrtolDigits(d, IF Head(d) = 0 THEN 8 ELSE 10, 0)

\* The number the digits write in decimal.
Decimal(d) == FoldLeft(LAMBDA acc, x : acc * 10 + x, 0, d)

\* The u64 initrd length assigned to int initrd_len: its low word.
ToInt(u) == u.lo

\* Bytes write(fd, buffer, len) may report for int len, passed as size_t:
\* len itself or -1 on an I/O error; a negative len is a count past
\* SSIZE_MAX, which write rejects with -1.
WriteRet(len) == IF len < 0 THEN {-1} ELSE {len, -1}

\* File contents as sequences of parts, <<>> for a file that does not
\* exist.  The kernel file is the zeroed header followed by the image of a
\* component table entry; the initrd file is a prefix of an entry's image.
NoFile == <<>>
Image(comp, bytes) == [comp |-> comp, bytes |-> bytes]
HeaderOnly == <<KernelHeader>>
KernelFile(comp) == <<KernelHeader, Image(comp, ImageBytes)>>
InitrdFile(comp, bytes) == <<Image(comp, bytes)>>

NoIdent == [err |-> "none", kernel |-> 0, initrd |-> 0,
            initrdLen |-> [hi |-> 0, lo |-> 0], parmfile |-> 0]

\* The parts set_fcp_disk_online configures, in the order it does so.
FcpParts == {"channel", "port", "unit", "node"}

\* What an earlier attempt may have left configured: set_fcp_disk_offline
\* ignores the result of each write but always unlinks the node.
FcpLeftovers == {S \in SUBSET FcpParts : "node" \in S => "unit" \in S}

(***************************************************************************)
(* The front end is the boot method of the entry; disk_open finds a DASD   *)
(* by BIODASDINFO (ECKD, DIAG or FBA) and takes every other disk, a zfcp  *)
(* LUN, for SCSI.                                                          *)
(***************************************************************************)
Inputs == {i \in [frontEnd : {"dasd", "zfcp"}, fcpBefore : FcpLeftovers,
                  uri : UriPrograms, diskType : {"eckd", "diag", "fba", "scsi"},
                  table : Tables, s3 : Stage3Set, cfgParmfile : BOOLEAN] :
             /\ (i.frontEnd = "zfcp") = (i.diskType = "scsi")
             /\ i.frontEnd = "dasd" => i.fcpBefore = {}}

PCs == {"parse", "online", "open", "query", "bootrec", "range", "progtable",
        "comptable", "identify", "kernel", "initrd", "parmfile", "config",
        "kexec", "close", "returned", "booted"}

Buffers == {"mbr_bootrecord", "program_table", "component_table", "identify_msg", "parm_buffer"}

TypeOK ==
    /\ in \in Inputs
    /\ pc \in PCs
    /\ dev \in {"offline", "online"}
    /\ fcp \subseteq FcpParts
    /\ fd \in {"closed", "open"}
    /\ heap \subseteq Buffers
    /\ program \in 0..99
    /\ ident.err \in {"none", "invalid_table", "data_segment", "copy"}
    /\ kernelFile \in {NoFile, HeaderOnly} \cup
                      {KernelFile(c) : c \in 1..Len(in.table)}
    /\ \/ initrdFile = NoFile
       \/ \E c \in 1..Len(in.table) :
             initrdFile = InitrdFile(c, initrdFile[1].bytes)
             /\ initrdFile[1].bytes \in 0..ImageBytes
    /\ kexecArgs \in {<<>>} \cup {<<a>> : a \in [kernel : {kernelFile},
                                                 initrd : {NoFile, initrdFile}]}
    /\ firstErr \in STRING
    /\ ret \in STRING

\* The first failing step is remembered; ret is what the caller gets.
Fail(e) ==
    /\ ret' = e
    /\ firstErr' = IF firstErr = "none" THEN e ELSE firstErr

\* action_bootmap_boot_dasd (or _zfcp) returns e at once.
Return(e) == pc' = "returned" /\ Fail(e)

\* boot_bootmap_disk returns e; the caller closes the disk and sets the
\* device offline.
BootFail(e) == pc' = "close" /\ Fail(e)

Init ==
    /\ in \in Inputs
    /\ pc = "parse"
    /\ dev = "offline"
    /\ fcp = in.fcpBefore
    /\ fd = "closed"
    /\ heap = {}
    /\ program = 0
    /\ ident = NoIdent
    /\ kernelFile = NoFile
    /\ initrdFile = NoFile
    /\ kexecArgs = <<>>
    /\ firstErr = "none"
    /\ ret = "none"

\* The URI matched URI_DASD_BOOTMAP_RE; the program digits, if any, are
\* scanned with "%i".
ParseUri ==
    /\ in.frontEnd = "dasd"
    /\ pc = "parse"
    /\ pc' = "online"
    /\ program' = ScanI(in.uri)
    /\ UNCHANGED <<in, fcp, dev, fd, heap, ident, kernelFile, initrdFile,
                   kexecArgs, firstErr, ret>>

\* The URI matched URI_ZFCP_BOOTMAP_RE; bus ID, WWPN and LUN are copied
\* and lowered, and the program digits, if any, are scanned with "%i".
ParseZfcpUri ==
    /\ in.frontEnd = "zfcp"
    /\ pc = "parse"
    /\ pc' = "online"
    /\ program' = ScanI(in.uri)
    /\ UNCHANGED <<in, fcp, dev, fd, heap, ident, kernelFile, initrdFile,
                   kexecArgs, firstErr, ret>>

(***************************************************************************)
(* set_dasd_online: a missing channel device or a failed write of "1" to   *)
(* its online attribute returns with the device as it was; a failure to    *)
(* find, read or create the block device node comes after the device was  *)
(* set online and returns without setting it offline again.               *)
(***************************************************************************)
SetDasdOnline ==
    /\ in.frontEnd = "dasd"
    /\ pc = "online"
    /\ \/ /\ pc' = "open" /\ dev' = "online"
          /\ UNCHANGED <<ret, firstErr>>
       \/ Return("online") /\ UNCHANGED dev
       \/ Return("online") /\ dev' = "online"
    /\ UNCHANGED <<in, fcp, fd, heap, program, ident, kernelFile, initrdFile,
                   kexecArgs>>

(***************************************************************************)
(* set_fcp_disk_online: the channel device must exist; "1" is written to   *)
(* its online attribute, then, unless present, the WWPN to port_add and   *)
(* the LUN to unit_add.  Each is checked by reading an attribute back     *)
(* (online, or the new port's or unit's "failed"), so a step that fails   *)
(* may have taken effect.  Then the SCSI device is looked up, its block   *)
(* major:minor read, and the node unlinked and made again: a failed      *)
(* lookup keeps an old node, a failed mknod leaves none.  Every failure   *)
(* returns at once, leaving what earlier steps configured.                *)
(***************************************************************************)
\* The writes of the steps before the one that failed took effect.
FcpUpTo(parts) == fcp \cup parts

\* find_scsi_device scans the SCSI devices for the bus ID, WWPN and LUN;
\* when it, the block:* link or the major:minor read fails, the node
\* made by an earlier attempt is still there.
DeviceLookupFailed == FcpUpTo({"channel", "port", "unit"})

SetFcpDiskOnline ==
    /\ in.frontEnd = "zfcp"
    /\ pc = "online"
    /\ \/ Return("online") /\ UNCHANGED fcp                   \* no channel
       \/ Return("online") /\ fcp' \in {fcp, FcpUpTo({"channel"})}
       \/ /\ "port" \notin fcp
          /\ Return("online")
          /\ fcp' \in {FcpUpTo({"channel"}), FcpUpTo({"channel", "port"})}
       \/ /\ "unit" \notin fcp
          /\ Return("online")
          /\ fcp' \in {FcpUpTo({"channel", "port"}),
                       FcpUpTo({"channel", "port", "unit"})}
       \/ /\ Return("online")                \* device lookup, node unlinked
          /\ fcp' \in {DeviceLookupFailed, DeviceLookupFailed \ {"node"}}
       \/ /\ fcp' = FcpParts
          /\ pc' = "open"
          /\ UNCHANGED <<ret, firstErr>>
    /\ UNCHANGED <<in, dev, fd, heap, program, ident, kernelFile, initrdFile,
                   kexecArgs>>

\* disk_open: open(path); on failure the error is returned at once.
DiskOpen ==
    /\ pc = "open"
    /\ \/ /\ pc' = "query" /\ fd' = "open"
          /\ UNCHANGED <<ret, firstErr>>
       \/ Return("open") /\ UNCHANGED fd
    /\ UNCHANGED <<in, fcp, dev, heap, program, ident, kernelFile, initrdFile,
                   kexecArgs>>

\* Fault variant of DiskQuery: an ioctl failure returns without closing
\* the descriptor.
DiskQueryKeepFd ==
    /\ pc = "query"
    /\ \/ /\ in.diskType \in {"eckd", "fba", "scsi"}
          /\ pc' = "bootrec"
          /\ UNCHANGED <<fd, ret, firstErr>>
       \/ Return("ioctl") /\ UNCHANGED fd
       \/ /\ in.diskType = "diag"
          /\ Return("unsupported") /\ fd' = "closed"
    /\ UNCHANGED <<in, fcp, dev, heap, program, ident, kernelFile, initrdFile,
                   kexecArgs>>


\* disk_open: HDIO_GETGEO, BLKSSZGET and BLKGETSIZE may fail, and a DIAG
\* disk is unsupported; each of these closes the descriptor and returns.
\* A disk BIODASDINFO fails on is SCSI.
DiskQuery ==
    /\ pc = "query"
    /\ \/ /\ in.diskType \in {"eckd", "fba", "scsi"}
          /\ pc' = "bootrec"
          /\ UNCHANGED <<fd, ret, firstErr>>
       \/ Return("ioctl") /\ fd' = "closed"
       \/ /\ in.diskType = "diag"
          /\ Return("unsupported") /\ fd' = "closed"
    /\ UNCHANGED <<in, fcp, dev, heap, program, ident, kernelFile, initrdFile,
                   kexecArgs>>

\* disk_read_dasd_boot_record and the checks of the program table
\* pointer it yields: a failed read or a bad pointer closes the
\* descriptor and returns.
ReadBootRecord ==
    /\ in.diskType = "eckd"
    /\ pc = "bootrec"
    /\ \/ /\ pc' = "range"
          /\ UNCHANGED <<fd, ret, firstErr>>
       \/ Return("bootrecord") /\ fd' = "closed"
    /\ UNCHANGED <<in, fcp, dev, heap, program, ident, kernelFile, initrdFile,
                   kexecArgs>>

(***************************************************************************)
(* disk_read_scsi_mbr, for SCSI and FBA disks: the MBR block is read into  *)
(* a buffer, which a failed read frees; a missing 0x55AA signature or     *)
(* zIPL magic returns without freeing it.  disk_open then closes the      *)
(* descriptor, as it does when the program table pointer is bad.         *)
(***************************************************************************)
ReadScsiMbr ==
    /\ in.diskType \in {"fba", "scsi"}
    /\ pc = "bootrec"
    /\ \/ /\ pc' = "range"
          /\ UNCHANGED <<fd, heap, ret, firstErr>>
       \/ Return("bootrecord") /\ fd' = "closed" /\ UNCHANGED heap
       \/ /\ Return("bootrecord") /\ fd' = "closed"
          /\ heap' = heap \cup {"mbr_bootrecord"}
    /\ UNCHANGED <<in, fcp, dev, program, ident, kernelFile, initrdFile,
                   kexecArgs>>

\* boot_bootmap_disk: the program number must index the program table.
CheckProgram ==
    /\ pc = "range"
    /\ \/ /\ program \in 0..(ProgTableSize - 1)
          /\ pc' = "progtable"
          /\ UNCHANGED <<ret, firstErr>>
       \/ /\ program \notin 0..(ProgTableSize - 1)
          /\ BootFail("range")
    /\ UNCHANGED <<in, fcp, dev, fd, heap, program, ident, kernelFile, initrdFile,
                   kexecArgs>>

\* get_program_table: a failed read or a bad magic frees the block and
\* returns; otherwise program_table is allocated.  An empty entry for the
\* program is then an error.
LoadProgramTable ==
    /\ pc = "progtable"
    /\ \/ BootFail("progtable") /\ UNCHANGED heap
       \/ /\ heap' = heap \cup {"program_table"}
          /\ \/ pc' = "comptable" /\ UNCHANGED <<ret, firstErr>>
             \/ BootFail("progentry")
    /\ UNCHANGED <<in, fcp, dev, fd, program, ident, kernelFile, initrdFile,
                   kexecArgs>>

\* get_component_table through the program's entry (its block count,
\* read and magic checked), then free(program_table); the header's opt
\* must be component_header_ipl.
LoadComponentTable ==
    /\ pc = "comptable"
    /\ \/ /\ BootFail("comptable")
          /\ heap' = heap \ {"program_table"}
       \/ /\ heap' = (heap \ {"program_table"}) \cup {"component_table"}
          /\ \E opt \in {"ipl", "dump", "other"} :
                CASE opt = "ipl"   -> pc' = "identify" /\ UNCHANGED <<ret, firstErr>>
                  [] opt = "dump"  -> BootFail("dump")
                  [] opt = "other" -> BootFail("opt")
    /\ UNCHANGED <<in, fcp, dev, fd, program, ident, kernelFile, initrdFile,
                   kexecArgs>>

(***************************************************************************)
(* identify_boot_objects; its error message is dropped and the kernel,     *)
(* initrd and parmfile pointers it cleared stay null.  The stage-3 copy   *)
(* may fail.  free(component_table) follows.                               *)
(***************************************************************************)
Identify ==
    /\ pc = "identify"
    /\ \E copyOk \in BOOLEAN :
          LET r == IdentifyBootObjects(in.table, copyOk, in.s3) IN
          /\ ident' = r
          /\ heap' = (heap \ {"component_table"}) \cup
                     (IF r.err # "none" THEN {"identify_msg"} ELSE {})
          /\ firstErr' = IF r.err # "none" /\ firstErr = "none"
                         THEN "identify" ELSE firstErr
    /\ pc' = "kernel"
    /\ UNCHANGED <<in, fcp, dev, fd, program, kernelFile, initrdFile, kexecArgs, ret>>

\* Fault variant of ReadKernelComponent: the copy of a null kernel
\* pointer is taken to succeed.
ReadKernelComponentNullOk ==
    /\ pc = "kernel"
    /\ \/ BootFail("kernel") /\ UNCHANGED kernelFile
       \/ BootFail("kernel") /\ kernelFile' = NoFile
       \/ BootFail("kernel") /\ kernelFile' = HeaderOnly
       \/ /\ kernelFile' = KernelFile(ident.kernel)
          /\ pc' = "initrd"
          /\ UNCHANGED <<ret, firstErr>>
    /\ UNCHANGED <<in, fcp, dev, fd, heap, program, ident, initrdFile, kexecArgs>>


(***************************************************************************)
(* read_kernel_component: creat, the zeroed header, the copy of the kernel *)
(* component, its write and close.  A failed creat leaves the file as it   *)
(* was; a failed header write, image write or close unlinks it; a failed  *)
(* copy (always so for a null kernel pointer) closes it with the header   *)
(* alone in it.                                                            *)
(***************************************************************************)
ReadKernelComponent ==
    /\ pc = "kernel"
    /\ \/ BootFail("kernel") /\ UNCHANGED kernelFile
       \/ BootFail("kernel") /\ kernelFile' = NoFile
       \/ BootFail("kernel") /\ kernelFile' = HeaderOnly
       \/ /\ ident.kernel # 0
          /\ kernelFile' = KernelFile(ident.kernel)
          /\ pc' = "initrd"
          /\ UNCHANGED <<ret, firstErr>>
    /\ UNCHANGED <<in, fcp, dev, fd, heap, program, ident, initrdFile, kexecArgs>>

\* Bytes in the initrd file after write(fd, buffer, len) returned len.
Written(len) == IF len < 0 THEN 0 ELSE len

\* Fault variant of ReadInitrdComponent: buffer_size is not compared with
\* initrd_len, and the write copies what the buffer holds.
ReadInitrdComponentNoLenCheck ==
    /\ pc = "initrd"
    /\ LET i   == ident.initrd
           len == ToInt(ident.initrdLen)
       IN
       \/ /\ i = 0
          /\ pc' = "parmfile"
          /\ UNCHANGED <<initrdFile, ret, firstErr>>
       \/ i # 0 /\ BootFail("initrd") /\ UNCHANGED initrdFile
       \/ i # 0 /\ BootFail("initrd") /\ initrdFile' = NoFile
       \/ /\ i # 0
          /\ len \in WriteRet(len)
          /\ initrdFile' = InitrdFile(i, IF Written(len) > ImageBytes
                                         THEN ImageBytes ELSE Written(len))
          /\ pc' = "parmfile"
          /\ UNCHANGED <<ret, firstErr>>
    /\ UNCHANGED <<in, fcp, dev, fd, heap, program, ident, kernelFile, kexecArgs>>


(***************************************************************************)
(* read_initrd_component, called when the initrd pointer is not null, with *)
(* the int initrd_len: creat, the copy, the check buffer_size < initrd_len *)
(* and a write of initrd_len bytes that must report initrd_len.  Every     *)
(* failure after creat unlinks the file.                                   *)
(***************************************************************************)
ReadInitrdComponent ==
    /\ pc = "initrd"
    /\ LET i   == ident.initrd
           len == ToInt(ident.initrdLen)
       IN
       \/ /\ i = 0
          /\ pc' = "parmfile"
          /\ UNCHANGED <<initrdFile, ret, firstErr>>
       \/ i # 0 /\ BootFail("initrd") /\ UNCHANGED initrdFile
       \/ i # 0 /\ BootFail("initrd") /\ initrdFile' = NoFile
       \/ /\ i # 0
          /\ ~(ImageBytes < len)
          /\ len \in WriteRet(len)
          /\ initrdFile' = InitrdFile(i, Written(len))
          /\ pc' = "parmfile"
          /\ UNCHANGED <<ret, firstErr>>
    /\ UNCHANGED <<in, fcp, dev, fd, heap, program, ident, kernelFile, kexecArgs>>

\* read_parmfile_component, when the parmfile pointer is not null: the
\* copied buffer becomes the command line and is never freed.
ReadParmfileComponent ==
    /\ pc = "parmfile"
    /\ \/ /\ ident.parmfile = 0
          /\ pc' = "config"
          /\ UNCHANGED <<heap, ret, firstErr>>
       \/ ident.parmfile # 0 /\ BootFail("parmfile") /\ UNCHANGED heap
       \/ /\ ident.parmfile # 0
          /\ heap' = heap \cup {"parm_buffer"}
          /\ pc' = "config"
          /\ UNCHANGED <<ret, firstErr>>
    /\ UNCHANGED <<in, fcp, dev, fd, program, ident, kernelFile, initrdFile,
                   kexecArgs>>

\* prepare_config_command_line: with a parmfile in the configuration,
\* comp_load or compose_commandline may fail.
PrepareConfigCommandLine ==
    /\ pc = "config"
    /\ \/ pc' = "kexec" /\ UNCHANGED <<ret, firstErr>>
       \/ in.cfgParmfile /\ BootFail("config")
    /\ UNCHANGED <<in, fcp, dev, fd, heap, program, ident, kernelFile, initrdFile,
                   kexecArgs>>

\* kexec with the kernel file and, if the initrd pointer is not null, the
\* initrd file: "kexec -l" then "kexec -e", which does not return when it
\* boots; a failure of either returns an error.
Kexec ==
    /\ pc = "kexec"
    /\ kexecArgs' = <<[kernel |-> kernelFile,
                       initrd |-> IF ident.initrd # 0 THEN initrdFile ELSE NoFile]>>
    /\ \/ pc' = "booted" /\ UNCHANGED <<ret, firstErr>>
       \/ BootFail("kexec")
    /\ UNCHANGED <<in, fcp, dev, fd, heap, program, ident, kernelFile, initrdFile>>

\* action_bootmap_boot_dasd after boot_bootmap_disk returned: disk_close
\* and set_dasd_offline.
CloseAndOffline ==
    /\ in.frontEnd = "dasd"
    /\ pc = "close"
    /\ pc' = "returned"
    /\ fd' = "closed"
    /\ dev' = "offline"
    /\ UNCHANGED <<in, fcp, heap, program, ident, kernelFile, initrdFile, kexecArgs,
                   firstErr, ret>>

\* Fault variant of CloseAndFcpOffline: the node is not unlinked.
CloseAndFcpOfflineKeepsNode ==
    /\ in.frontEnd = "zfcp"
    /\ pc = "close"
    /\ pc' = "returned"
    /\ fd' = "closed"
    /\ \E kept \in SUBSET fcp : fcp' = kept
    /\ UNCHANGED <<in, dev, heap, program, ident, kernelFile, initrdFile,
                   kexecArgs, firstErr, ret>>

(***************************************************************************)
(* action_bootmap_boot_zfcp after boot_bootmap_disk returned: disk_close   *)
(* and set_fcp_disk_offline, which deletes the SCSI device and writes the  *)
(* LUN to unit_remove, the WWPN to port_remove and "0" to online, ignoring *)
(* each result, then unlinks the node.                                     *)
(***************************************************************************)
CloseAndFcpOffline ==
    /\ in.frontEnd = "zfcp"
    /\ pc = "close"
    /\ pc' = "returned"
    /\ fd' = "closed"
    /\ \E kept \in SUBSET (fcp \ {"node"}) : fcp' = kept
    /\ UNCHANGED <<in, dev, heap, program, ident, kernelFile, initrdFile,
                   kexecArgs, firstErr, ret>>

Next ==
    \/ ParseUri \/ ParseZfcpUri \/ SetDasdOnline \/ SetFcpDiskOnline
    \/ DiskOpen \/ DiskQuery \/ ReadBootRecord \/ ReadScsiMbr
    \/ CheckProgram \/ LoadProgramTable \/ LoadComponentTable \/ Identify
    \/ ReadKernelComponent \/ ReadInitrdComponent \/ ReadParmfileComponent
    \/ PrepareConfigCommandLine \/ Kexec \/ CloseAndOffline
    \/ CloseAndFcpOffline

\* An attempt ends when it has returned or kexec has booted the new system.
Spec == Init /\ [][Next]_vars

(***************************************************************************)
(* Properties                                                              *)
(***************************************************************************)

\* The disk descriptor is closed on every path by which
\* action_bootmap_boot_dasd returns: each failure inside disk_open closes
\* it, and disk_close follows a failed boot_bootmap_disk (spec section 9
\* asks whether disk opening leaks it).
FdReleasedOnReturn == pc = "returned" => fd = "closed"

\* What kexec is started with is what the bootmap describes (spec sections
\* 4.6 and 4.7): the kernel file is the header and the image of the entry
\* the stage-3 PSW names, and the initrd file is present exactly when an
\* entry matches the stage-3 initrd address and holds the first
\* stage3.initrd_len bytes of its image, which must not be shorter.
KexecBootsIdentifiedObjects ==
    kexecArgs # <<>> =>
      LET r == IdentifySpec(in.table, TRUE, in.s3)
          a == kexecArgs[1]
      IN  /\ r.err = "none"
          /\ a.kernel = KernelFile(r.kernel)
          /\ IF r.initrd = 0 THEN a.initrd = NoFile
             ELSE /\ ~U64Lt([hi |-> 0, lo |-> ImageBytes], in.s3.len)
                  /\ a.initrd # NoFile
                  /\ a.initrd[1].comp = r.initrd
                  /\ in.s3.len = [hi |-> 0, lo |-> a.initrd[1].bytes]

\* The error returned is the first one met (spec section 7: no failure is
\* dropped; messages carry the most specific underlying failure), here the
\* one of identify_boot_objects, whose result boot_bootmap_disk ignores.
FirstErrorReported == pc = "returned" => ret = firstErr

\* The channel device is set offline again whenever the attempt returns,
\* as action_bootmap_boot_dasd does after a failed boot_bootmap_disk, and
\* a zfcp attempt leaves no more configured than it found.
DeviceReleasedOnReturn ==
    pc = "returned" => dev = "offline" /\ fcp \subseteq in.fcpBefore

\* A block device node for a zfcp LUN exists only while the LUN's unit is
\* configured, across attempts: set_fcp_disk_online makes the node only
\* after unit_add succeeded or the unit was there, and set_fcp_disk_offline
\* unlinks it whatever its writes to unit_remove and port_remove did.  A
\* node left over a removed unit is what a later attempt would open.
NodeOnlyOverUnit == "node" \in fcp => "unit" \in fcp

\* Table buffers, the parmfile image and dropped error messages are freed
\* once consumed or on error (spec section 5).
BuffersReleasedOnReturn == pc = "returned" => heap = {}

\* The program booted is the number written after the comma of the URI,
\* whose pattern admits one or two decimal digits.
ProgramAsWritten == pc # "parse" => program = Decimal(in.uri)
=============================================================================
