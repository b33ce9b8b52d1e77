# TLA+ models of sysload

sysload is a boot loader that runs as a small Linux system on s390: it reads
its configuration, lets the user choose a boot entry through one or more user
interfaces (line mode, SSH) or waits for a timeout, and then boots the entry by
one of three methods: a kernel/initrd/parmfile fetched by URI (`loader.c`), an
install file listing components (`insfile.c`), or a zipl **bootmap** on a DASD or
SCSI disk (`bootmap_dasd.c`, `bootmap_fcp.c`, `bootmap_common.c`). Every method
ends in `kexec`; when a boot fails, control returns to the main loop
(`sysload.c`).

This project models the bootmap boot path, which is what `spec.md` specifies:
- the block pointers and block reads;
- the walk over chained segment tables;
- the identification of the boot objects;
- the orchestration of one boot attempt, from a DASD or from a zfcp SCSI LUN.

It also models:
- how the user's choice reaches sysload: `userinterface` (`ui_control.c`)
  forks the user-interface programs and waits for their answer, the timeout,
  or a key press that stops the timeout;
- the main loop (`sysload.c`) over successive boot attempts of every method,
  with the files each attempt leaves in `/tmp` for the next (`loader.c`,
  `insfile.c`, `comp_load.c`);
- the scp component loader (`comploader/cl_scp.c`) as `comp_load` starts it.
- the line-mode user interface (`ui_linemode.c`): its menu loop, the
  parsing of a selection, the password, and the manual and modified entries.
- how the configuration reaches a user interface: `parse_sysload`
  (`parser_sysload.c`, `parser.c`) with its nested `system` sections and the
  resolution of the default, then `cfg_set_env` in sysload and `cfg_get_env`
  in the client (`config.c`).
- network bring-up (`netbase.c`, `dhcp_request.c`): `nb_conf_enable` with
  its DHCP retry loop and the parsing of the lease by `dhcpcd`, and the MAC
  test `nb_test_mac`.

## The parts and how they interact

```
main: parse_sysload, or cfg_init on error   (sysload.c, parser_sysload.c)
 ├─ parser_init, parser_open_incl_uri, yyparse (statements, 'system'
 │  sections: parser_enter_system / parser_exit_system / parser_active_system)
 │  'setup network' → nb_conf_enable (netbase.c)
 │     ├─ DHCP: do { dhcpcd (dhcp_request.c): system(dhcpcd -t timeout),
 │     │        parse dhcpcd-<if>.info } while failed && retries <= 5,
 │     │        timeout doubling; cfg_strcpy of the lease into nb_conf
 │     └─ append resolv.conf; ifconfig lo; ifconfig <if> up; route add
 │  'system' tests: nb_test_mac (if_nameindex, SIOCGIFHWADDR)
 └─ default resolution: digits → index, otherwise label lookup
main: while (WORLD_EXISTS)          (sysload.c)
 ├─ userinterface                    (ui_control.c, below)
 └─ loader                           (loader.c)
     ├─ action_kernel_boot   comp_load kernel, initrd, parmfile ── /tmp/*
     ├─ action_insfile_boot  (insfile.c) comp_load of each line, identify_file,
     │                       rename to /tmp/kernel|initrd|parmfile
     ├─ action_bootmap_boot_dasd / _zfcp (below)
     ├─ compose_commandline, kexec ── systemv("kexec -l", "kexec -e")
     └─ action_reboot / _halt / _shell / _exit
comp_load (comp_load.c): fork, execl(module, dest, uri), select on its output
 └─ cl_scp (comploader/cl_scp.c): decode URL, ssh, open local/remote, sftp_read loop

action_bootmap_boot_dasd / _zfcp    (bootmap_dasd.c, bootmap_fcp.c)
 ├─ sscanf "%i" of the URI program digits
 ├─ set_dasd_online / set_dasd_offline (sysfs, mknod)
 │  or set_fcp_disk_online / set_fcp_disk_offline (channel, port, unit, node)
 ├─ disk_open                        open, ioctls, ECKD boot record or SCSI MBR,
 │                                   program table ptr
 └─ boot_bootmap_disk                (bootmap_common.c)
     ├─ get_program_table / get_component_table   disk_read_phy_blocks
     ├─ identify_boot_objects  ── copy_component_to_memory (stage 3)
     ├─ read_kernel_component  ── copy_component_to_memory ── /tmp/kernel.img
     ├─ read_initrd_component  ── copy_component_to_memory ── /tmp/initrd.img
     ├─ read_parmfile_component ─ copy_component_to_memory
     ├─ prepare_config_command_line (comp_load of the config's parmfile)
     └─ kexec                        (loader.c)
copy_component_to_memory ── disk_read_phy_blocks ── read() loop

userinterface                       (ui_control.c)
 ├─ no timeout and no ui → error; cfg_set_env → SYSLOAD_* variables
 ├─ fork loop: pipe(), fork(), execl of ui_<module> per client
 ├─ wait loop: build_waitset ── ui_select (alarm + select)
 │    ├─ EINTR: SIGUSR1 switches the timeout off, SIGALRM → ui_timeout
 │    └─ readable: check_input_from_client ── read_from_client,
 │                 remove_terminated_clients, parse of the entry
 └─ cleanup: SIGTERM, reap, wait, SIGKILL, reap
clients (ui_linemode.c, ui_ssh.c): cfg_new, cfg_get_env, SIGUSR1 per typed line,
 the entry printed to the pipe at exit(0), SIGTERM handler
```

## Modules

| Module | Models | State and actions |
|---|---|---|
| `BlockPointer` | block pointers, `check_blockptr`, `blockptr_is_null`, `read_packed_blockptr`, the extent read by `disk_read_phy_blocks` | Constants and operators only. See the note below the table. |
| `CopyComponent` | what spec §4.5 promises of `copy_component_to_memory` | `Walk` is a RECURSIVE operator that describes the chain table by table. The actions are `Finish`, `FailInvalid`, `FailIO` and `Abort` (the last for a cyclic chain). Nothing in the source maps to it: it is the abstract specification. |
| `SegmentWalker` | `copy_component_to_memory` and the read loop of `disk_read_phy_blocks` | See below. |
| `BootIdentify` | `identify_boot_objects` | See below. |
| `BootmapBoot` | one attempt of `action_bootmap_boot_dasd` or `action_bootmap_boot_zfcp` | See below. |
| `UIControl` | `userinterface` and its helpers in `ui_control.c`; the clients' side of `ui_linemode.c` | See below. |
| `Sysload` | the main loop of `sysload.c`, `loader.c`, `insfile.c`, `comp_load.c` | See below. |
| `ClScp` | `main` of `comploader/cl_scp.c` | See below. |
| `SystemNesting` | what `parse_sysload` promises of nested `system` sections | `eff` is the open sections with whether each is in effect, and `entries` the boot entries declared where in effect. The actions are `Open`, `Close`, `Declare`, `Parsed` and `Fail`. It is the abstract specification; nothing in the source maps to it. |
| `ConfigHandoff` | `parse_sysload` with `parser_init`, `parser_open_incl_uri`, `parser_enter_system`, `parser_exit_system`, `parser_active_system`; `cfg_init`, `cfg_add_bentry`, `cfg_add_userinterface`, `cfg_set_env`, `cfg_get_env`; the error path of `main` and the first check of `userinterface` | See below. |
| `NetBase` | `nb_conf_init`, `nb_conf_enable`, `dhcp_req_init`, `dhcpcd`, `nb_test_mac` | See below. |
| `LineMode` | `main` of `ui_linemode.c` with `compute_selection`, `password`, `get_man_boot`, `get_input` and `assign_input` | See below. |

`BlockPointer`:
- A disk is `PhyBlocks` blocks of `PtrsPerBlock` pointers.
- A pointer is a record of block, size and blockct.
- The ECKD CHS form is folded into a linear start block. `check_blockptr` bounds every coordinate, so the offset always lies on the disk.

`SegmentWalker`:
- Variables:
  - `tbl`: the slots of `segment_table`;
  - `entry`, `codePtr`;
  - `buf`: the blocks loaded, in order;
  - `rd`: the read in progress, `read_cnt` and `read_len`;
  - `pc`.
- One action per step of the function:
  - `Start`: the first table read;
  - `ReadChunk`, `ReadAtEof` and `ReadError`: one `read()` returning n>0, 0 or -1;
  - `FirstTableRead`;
  - `LoadSegment`: `realloc` and `MEM_ASSERT`;
  - `SegmentRead`: `entry++`, the next slot, and the switch to the next table;
  - `NextTableRead`.
- It refines `CopyComponent` through the mapping status/image.

`BootIdentify`:
- `IdentifyBootObjects` translates the loops of the code, with RECURSIVE scans.
- `IdentifySpec` is spec §4.6 written with `Min` over index sets.
- `MCBootIdentify` applies it once to every table of 3 entries.

`BootmapBoot`:
- Inputs (`in`): the front end (dasd or zfcp), the disk type `disk_open`
  finds (ECKD, DIAG, FBA for a DASD; SCSI for a zfcp LUN), the zfcp
  configuration an earlier attempt left (`fcpBefore`), the URI digits, the
  component table, the stage-3 block, and whether the configuration has a
  parmfile.
- Variables:
  - `dev`: DASD online or offline;
  - `fcp`: the zfcp parts present: channel online, port, unit, device node;
  - `fd`;
  - `heap`: buffers allocated and not freed;
  - `program`;
  - `ident`;
  - `kernelFile` and `initrdFile`: the contents of `/tmp/kernel.img` and `/tmp/initrd.img` as parts;
  - `kexecArgs`;
  - `firstErr`: a history variable, the first failing step;
  - `ret`.
- One action per call of the code, with a disjunct for every checked failure:
  - `ParseUri` and `ParseZfcpUri`, `SetDasdOnline` and `SetFcpDiskOnline`;
  - `DiskOpen`, `DiskQuery`, `ReadBootRecord` (ECKD) and `ReadScsiMbr` (FBA, SCSI);
  - `CheckProgram`, `LoadProgramTable`, `LoadComponentTable`, `Identify`;
  - `ReadKernelComponent`, `ReadInitrdComponent`, `ReadParmfileComponent`;
  - `PrepareConfigCommandLine`, `Kexec`, `CloseAndOffline` and `CloseAndFcpOffline`.
- `SetFcpDiskOnline` has a disjunct per step of `set_fcp_disk_online`. A step
  checked by reading an attribute back (online, the port's or the unit's
  `failed`) may have taken effect although it reports failure. A failed device
  lookup keeps an older node; a failed `mknod` leaves none.
  `CloseAndFcpOffline` keeps any of the channel, port and unit, since every
  write's result is ignored, and always unlinks the node.
- Each `copy_component_to_memory` call is a step that succeeds or fails. `SegmentWalker` checks the inside of that step. A null pointer always fails.

`UIControl`:
- The state:
  - the parent's control point `ppc`, with the loop index `forked`, the wait set, the ready descriptors, `endtime`, the armed alarm, `rcvd_sig` and the return value;
  - per client: the process state (`none`, `nofork`, `running`, `zombie`, `reaped`), its exit status, how much of its entry it has written and how much sysload has read (in reads of `CFG_STR_MAX_LEN` bytes; an entry takes `K` reads), whether it has sent SIGUSR1, the signal sent to it, and `u[i].status`.
- `uiCount` (config->ui_count, up to `N`), the timeout and the validity of the default entry are inputs.
- Parent actions, one per step of `userinterface`:
  - `Start` (the "nothing to do" test), `Fork` (one turn of the fork loop, with pipe and fork failures);
  - `BuildWaitset` (build_waitset and ui_select's alarm), `SelectReturns`, `Interrupted` (the EINTR branch);
  - `ReadClient` (read_from_client) and `CheckClient` (remove_terminated_clients and the parse);
  - `TermClients`, `FirstReap`, `KillClients`, `FinalReap` (cleanup_and_return).
- `Reap` is remove_terminated_clients, including its match of waitpid's -1 against the pid -1 of a failed fork.
- Client and environment actions: `ChildKey`, `ChildSelect`, `ChildFinish`, `ChildQuit`, `ChildTerminated`, `ChildKilled`, `AlarmFires`. A signal to sysload (`Deliver`) interrupts `select()` only when the parent is in it.

`Sysload`:
- A `/tmp` file is the number of the attempt that last created it (0: none).
  A URI is its class: "" unset, "bad" rejected by `verify_uri_scheme`, "scp"
  served by `cl_scp`, "good" served by a loader module outside this
  repository. An insfile line is the facts `identify_file` votes on.
- Variables: `pc`, `hist` (the entry chosen in each attempt), `boot`, `tmp`,
  `lines` and `linecount` of `action_insfile_boot`, `cmdFrom` (the parmfile
  `compose_commandline` read), `loaded` (what `kexec -l` was given), `retval`.
- Actions:
  - `UserInterface` (one step that fails or returns an entry) and `Loader`;
  - `ActionReboot`, `ActionHalt`, `ActionShell`, `ActionExit`;
  - `KernelBootKernel`, `KernelBootInitrd`, `KernelBootParmfile`, `KernelBootCleanup`;
  - `InsfileLoad`, `InsfileOpen`, `InsfileLine`, `InsfileCheck`, `InsfileCleanup`;
  - `BootmapFrontEnd`, `ReadKernelComponent`, `ReadInitrdComponent`,
    `PrepareConfigCommandLine`: the bootmap method reduced to the order in
    which it writes `/tmp` files;
  - `ComposeCommandline`, `Kexec`, `LoaderReturns`.
- `CompLoad` gives every result `comp_load` can end with. That includes the
  fork failure, after which the uninitialized `ret` may read as success.
- `IdentifyFile` is `identify_file`'s vote, with the RECURSIVE
  `MostProbable` for its argmax.

`ClScp`:
- An argument is its class: "url" (`decode_parameters` accepts it) or "path".
- The remote file is the byte positions `1..RemoteSize`.
- Variables: `pc`, `local` (opened, and the bytes written), `pos`, `acc`, `ret`.
- Actions: `Decode`, `Connect`, `OpenLocal`, `OpenRemote`, `ReadChunk`.
- `MCClScp` starts it with the arguments in the order `comp_load` passes them.

`LineMode`:
- Each blocking read of the terminal is one step. A menu line is a sequence
  of characters from a small alphabet. A field value is `""` (ENTER), `" "`
  (only blanks), `"x"` (typed text), `"v"` (a configured value) or `"null"`.
- Variables:
  - `pc`: where `main` is;
  - `input`: the menu buffer after the newline was cut;
  - `cmd`: the command character;
  - `bentry`: the entry `main` points to, with `origin`, its menu number or 0
    for an entry `get_man_boot` built;
  - `auth`: the entries whose password was entered (a history variable);
  - `out`: the entry printed for sysload;
  - `usr1`: the SIGUSR1 signals sent.
- `ComputeSelection` is `compute_selection` over character sequences:
  `SkipBlanks` and `DigitSpan` are RECURSIVE, and `ScanD` is `sscanf("%d")`
  with its blanks and sign, built with `FoldLeft`.
- Actions:
  - `Open`;
  - `ReadSelection`: one pass of the loop up to the switch, including the
    end-of-file case, where `fgets` keeps the old buffer and the cut of
    its last character is re-run (with an empty buffer the write lands before
    it: a crash or nothing);
  - `Password`: correct, wrong, a line of 512 characters or more (the write
    past the buffer), or end of file, where the loop spins;
  - `Display`, `ManualAction`, `ReadFields`, `Modify`, `Confirm`, `Finish`,
    `Terminate`.
- `Modify` follows the code: `get_man_boot` ignores its type argument, so
  every modified entry is read as a kernel entry. For an insfile or bootmap
  entry, the `strlen` of the null field that follows is a crash.

`ConfigHandoff`:
- Variables: `pc`; `depth` and `firstInactive` (`system_depth`,
  `system_first_inactive`); `bootDefault` (`context.boot_default`); `config`
  (default, timeout, password, the user-interface count and the boot entries,
  each a label, `locked`, `action` and a pause message); `errmsg`; `nstmt`;
  `env`, the `SYSLOAD_` variables keyed `<<i, NAME>>` with -1 for the
  top-level ones; `client`, the client's `my_toplevel`.
- The grammar is not in the repository, so `yyparse` is an environment: any
  statement in any order, each taking effect only while `Active`
  (`parser_active_system`), with `system` sections entered and left in pairs.
- Actions: `OpenConfig`; the statements `EnterSystem`, `ExitSystem`,
  `AddBootEntry`, `AddUserInterface`, `SetDefault`, `SetTimeout`,
  `SetPassword`; `ParseEnd`, `ParseError`, `ResolveDefault`;
  `StartUserInterface` (the no-timeout-no-ui check, then `cfg_set_env`);
  `ClientGetEnv`. Every error goes through `Failed`: `main` continues with
  `cfg_init`'s blank configuration.
- Integers cross the environment as text: `Dec` is `"%d"` (RECURSIVE
  `Unsigned`) and `ScanDec` is `sscanf("%d")` of it; `DefaultIndex` is the
  `strspn`/`sscanf` index test or the label search (`SelectInSeq`).
- `Nesting` instantiates `SystemNesting` with a refinement mapping: the open
  sections in effect are the depths below `firstInactive`, and the phase is
  read from `pc` and `errmsg`.

`NetBase`:
- Variables: `pc`; `retries` and `timeout` of the DHCP loop, the timeout an
  `int` that doubles modulo 2^32 (`Double32`); `req`, `my_request`, each
  field `None` (NULL) or `Some(v)` and `dns` a list; `lease`, the info file
  read (a history variable); `netconf`, the `struct nb_conf`; `resolv`, the
  lines appended to `/etc/resolv.conf`; `cmds`, what `cfg_system` ran;
  `macTest`, the list and MAC `nb_test_mac` was given and its result.
- `nb_conf_enable` is driven by the configuration's `setup network`
  statement, whose grammar is not in the repository: `Init` draws the
  `nb_conf` from the structures the statement can build on `nb_conf_init`.
- Actions: `Enable`; `Request`, one pass of the do-while (`dhcpcd` failing,
  or a lease parsed by `ParseInfo` — `ParseLine` per line, `SplitDns` for the
  DNS loop — and copied, or the process killed by `strlen(NULL)` when a
  field is missing); `WriteResolv`; `Configure`; `TestMac`, whose loop is
  the RECURSIVE `MacLoop` with its end test `FirstByte`.
- `ConfFromLease` compares the copied configuration with reference
  definitions written without the code's loops: `LastValue`, `FirstDns` and
  `CommaFields` (a `FoldLeft` over the characters).

`PROJECT.json` maps every definition that models code to its lines.

Conventions:
- Definitions named `...While`, `...FromNext`, `...PastLast`, `...LenOnly`, `...Inclusive`, `...KeepFd`, `...KeepsNode`, `...KeepsParmfile`, `...EveryType`, `...NoBlankSkip`, `...PlainOnly`, `...Uninitialized`, `...NullOk`, `...NoLenCheck`, `...PastEof`, `...AllPipes`, `...ResetsAll`, `...Unmatched`, `...ExtraRetry`, `...NoCount`, `...WithSep`, `...NoLocked` and `...Omitted` are fault variants of the definition that follows them. The mutant checks substitute them to show that each property can fail.
- Integers that overflow in the code keep their width. A u64 is `[hi, lo]`, where `lo` is the signed low word, which is what the assignment to `int initrd_len` keeps.

## Runs

| Run | Config | Result | What it shows |
|---|---|---|---|
| walk_refines_spec | `MCSegmentWalker.cfg` | pass (1.8M states) | Every slot decoded lies inside its table (`SlotInBounds`). The walk implements `CopyComponent` (`CopySpec`): on success the image is the chain's segments in order, an invalid-pointer error only comes from a chain with an invalid pointer, and an abort only from a cyclic chain. This holds for all disks of 2 blocks × 3 pointers with blockct ≤ 1. |
| walk_eof_spin | `MCSegmentWalkerEof.cfg` | violation | With an extent past the device end, `read()` returns 0 forever (`Terminates`). |
| identify_as_spec | `MCBootIdentify.cfg` | pass | The loops pick what spec §4.6 says, for all 3-entry tables. |
| boot_attempt | `MCBootmapBoot.cfg` | pass (598K states) | For DASD and zfcp attempts: the descriptor is closed on every return (`FdReleasedOnReturn`, which answers the open question of spec §9), also when the SCSI MBR is rejected. kexec only gets the identified kernel and an initrd truncated to exactly `initrd_len` (`KexecBootsIdentifiedObjects`). A zfcp device node exists only over a configured unit, from any configuration an earlier attempt left (`NodeOnlyOverUnit`). |
| ui_timeout | `MCUIControl.cfg` | pass | With up to two clients and entries of two reads: a configured timeout ends `userinterface` unless a key stopped it, even when SIGALRM arrives while a pipe is serviced, because `ui_select` re-arms the alarm and `build_waitset` leaves reaped pipes out (`TimeoutEndsWait`); no client outlives the return (`ChildrenEnd`). |
| ui_key_lost | `MCUIControlKey.cfg` | violation | A SIGUSR1 outside `select()` is only recorded; the alarm is re-armed (`KeyStopsTimeout`). |
| net_enable | `MCNetBase.cfg` | pass (4K states) | For every static or DHCP `nb_conf`, and any sequence of failed `dhcpcd` runs and leases, the configuration written to `resolv.conf` and `ifconfig` holds the lease: the last value of each key, and the first server of the first DNS line (`ConfFromLease`). `nb_conf_enable` always returns (`EnableTerminates`, under weak fairness). |
| sysload_attempts | `MCSysload.cfg` | pass (125K states) | Over three attempts of every method, with `comp_load`'s fork allowed to fail, the only images left in `/tmp` when sysload is back in the user interface are those a bootmap attempt wrote (`LeftoversFromBootmap`): the kernel and insfile methods clean up after every failure. |
| sysload_stale_kernel | `MCSysloadStale.cfg` | violation | `kexec` loads a kernel file written by an earlier attempt (`KexecOnlyFreshFiles`). A bootmap attempt leaves a header-only kernel. A later kernel boot's `comp_load` fails to fork, reports success through its uninitialized `ret`, and the stale file is booted. |
| linemode_menu | `MCLineMode.cfg` | pass (12K states) | On every sequence of menu lines, passwords, keys and end of file, an entry printed for sysload that is locked, or modified from a locked entry, had its password entered (`LockedNeedsPassword`). `compute_selection` reads each form the menu offers, with either part first and blanks around them, as that command and number (`SelectionAsMenu`). |
| config_handoff | `MCConfigHandoff.cfg` | pass (37K states) | For every sequence of up to eight statements with `system` sections three deep: `parse_sysload` implements `SystemNesting` (`NestingRefined`), so an entry is kept exactly when every enclosing test held, and every error leaves the blank configuration. The default handed on indexes a boot entry whenever the timeout or a client can use it (`DefaultUsable`). A client reads back through the environment exactly sysload's default, timeout, password and entries (`ClientSeesConfig`). |
| scp_transfer | `MCClScp.cfg` | violation | Started as `comp_load` starts it, `cl_scp` never copies the remote file (`CopiesRemoteFile`). The arguments are swapped, so it exits 1. With them in the order it expects, it writes nothing and exits 0. |

`PROJECT.json` lists the findings these violations stand for.

These properties are stated in the modules but are not the subject of a run. Each one is listed as a hazard in `PROJECT.json`, and TLC finds each one violated:
- `BootmapBoot`:
  - `KexecBootsIdentifiedObjects` under `MCBootmapBootWideLen.cfg`: an `initrd_len` of 2^32−1 is stored in an `int` as -1, passes the length check, and kexec gets an empty initrd;
  - `FirstErrorReported`: the identify error is dropped at line 1198;
  - `DeviceReleasedOnReturn`: the DASD stays online after a `disk_open` failure, and a zfcp attempt leaves the channel, port or unit it configured after a failure in `set_fcp_disk_online` or `disk_open`;
  - `BuffersReleasedOnReturn`: `program_table` leaks on an empty program entry, and the MBR buffer on a rejected SCSI MBR;
  - `ProgramAsWritten`: the URI ",08" boots program 0 (octal `%i`).
- `SegmentWalker`:
  - `NoAbort`: a cyclic chain of segment tables ends in `MEM_ASSERT`.
- `MCBootIdentify`:
  - `KernelAsSpecTest`: the kernel comes from the stage-3 PSW, not from the execute entry's PSW of spec §8's test list.
- `UIControl`:
  - `KillOnlyClients` (`MCUIControlForkFail.cfg`): `u[i].status` is `UI_RUNNING` before `fork()`, so after a failed fork the cleanup calls `kill(-1, SIGTERM)`.
  - `ReturnsOnceClientsEnd`: with no timeout, `select()` on an empty set never returns once every client is gone.
  - `NoSelectionDropped` with `N = 2`: a client exits after `select()` returned, `remove_terminated_clients` reaps it while another pipe is serviced, and `build_waitset` then leaves its unread pipe out;
  - `NoSelectionDropped` with `K = 2` (`MCUIControlLongEntry.cfg`): an entry of two reads is reaped after its first read, and the rest is lost.
  - `SelectionLeadsToReturn` with `N = 2`: after the drop above, with no timeout, `select()` blocks on the remaining pipes (and, in the model, a user who keeps entering lines keeps interrupting it). No run checks it: it holds only for one client with one-read entries.
- `LineMode`:
  - `NeverCrashes`: `m` on an insfile or bootmap entry ends in `strlen(NULL)`. End of file at the first menu read writes before the buffer.
- `NetBase`:
  - `NeverCrashes` (`MCNetBaseCrash.cfg`): a lease without a DOMAIN line (or GATEWAY, NETMASK, DNS) makes `nb_conf_enable` call `cfg_strcpy` on NULL, and sysload dies while it parses its configuration.
  - `MacFound` (`MCNetBaseMac.cfg`): on big-endian s390 the end test of `nb_test_mac`'s loop reads the high byte of `if_index`, which is 0, so no MAC is ever found.
- `ConfigHandoff`:
  - `ContinuesAfterConfigError`: `main` says it continues with a blank configuration after a configuration error, but that configuration has no timeout and no user interface, so `userinterface` fails at once and sysload exits.

## Bounds

SegmentWalker:
- 2 blocks of 3 pointers and block counts 0..1 cover every case:
  - chains of one and two tables;
  - a link in the last slot;
  - null slots before the last;
  - extents past the end;
  - cycles;
  - multi-block tables, which are read in several chunks.
- `MaxImage = 18` is at least the largest image of an acyclic chain on such a disk, so aborts happen only on cyclic chains.
- The component entry points to block 0 or is null.

BootIdentify:
- Tables of 3 entries over addresses {0,1,2}.
- Every combination of types, addresses and the wait flag.

BootmapBoot:
- Five tables reach every outcome of identification: valid, duplicate address, execute first, no execute, and disabled wait.
- Stage-3 blocks name existing and missing entries.
- Initrd lengths are shorter and longer than the 512-byte image, plus, in the wide run, 2^32+256 and 2^32−1.
- Program numbers: none, 1, 2 (out of range for a 2-entry table) and "08".
- Every disk type `disk_open` tells apart, and for zfcp every configuration
  an earlier attempt can leave (any of channel, port and unit, and the node
  only with the unit), so every `access()` skip of `set_fcp_disk_online` is
  taken.

Sysload:
- `MaxAttempts = 3`: enough for a bootmap attempt to leave files, a second
  attempt of another method to meet them, and a third to boot.
- Twelve entries: the kernel method with good, scp and unset kernel URIs;
  insfile with a four-line file (kernel, initrd, parmfile, initrd size) and
  unset; bootmap with and without initrd and parmfile and an unknown bootmap
  type; reboot, halt, shell and exit. Four `/tmp/file_N` names cover the
  insfile lines.
- `ForkMayFail = TRUE` lets `comp_load`'s fork fail.

LineMode:
- Four entries: a locked kernel entry with a pause, an insfile entry, a
  bootmap entry and a reboot entry. Between them they reach every branch of
  the switch and every case of `m`.
- Menu lines: empty, blank, in range, out of range (`0`, `5`), `d3`, `m`,
  `m2`, `m4`, `i`, an unknown command, a signed number, and `3`. The reference
  forms of `SelectionAsMenu` cover numbers of one and two digits, a leading
  zero, and blanks before and between the parts.
- `MaxReads = 3`: three passes of the loop, enough to reach a password, a
  re-read at end of file, and a choice after a refused one.

ClScp:
- `Chunk = 2`, `RemoteSize = 3`: a full chunk, then a short one, so the loop
  runs twice and ends on a short read. The violation needs no network fault.

UIControl:
- `N = 2`, `K = 2` for the passing run, with `uiCount` 0 to 2 (104,376 states). This covers every branch: no client with and without a timeout, pipe and fork failures, keys, quits, a split entry, a sibling reaped by another client's service, the alarm inside and outside `select()`, and SIGTERM honoured or ignored.
- `N = 2` and `K = 2` are each the smallest bound at which an entry can be lost, so the passing run checks only properties that must survive the loss: the timeout still ends the wait, and no client outlives the return. The loss itself (`NoSelectionDropped`, `SelectionLeadsToReturn`) is listed among the violations above.

ConfigHandoff:
- `MaxNest = 3`: an inactive section inside an active one inside an
  inactive one, so both branches of `parser_enter_system` and
  `parser_exit_system` are taken at every depth. `MaxStatements = 8` leaves
  room for a full nest, its exits and two other statements.
- Three entries: unlabelled; labelled "a", locked, with action 3 and a pause;
  labelled "1". `MaxEntries = 2`.
- Defaults `0`, `1`, `2` (an index past the last), `a`, `b` (no such label)
  and the empty string; timeouts -1 and 5; `MaxUis = 1`. Together they reach
  every branch of the resolution and of the check of `userinterface`.
- `MAX_SYSTEM_DEPTH = 999` as in `parser.h`; the nesting stays below it.

NetBase:
- `DHCP_MAX_RETRIES = 5` as in `dhcp.h`: six requests, timeouts 10 to 320.
- 32 `nb_conf` structures: static or DHCP mode, with and without an
  interface, an address, a gateway and a nameserver, so both branches of
  every test of `Configure` and `WriteResolv` are taken.
- Three leases: every key with two DNS servers; one without DOMAIN (the
  crash); one with IPADDR and DNS repeated, an empty NETMASK (the default
  mask) and a key nothing reads.
- Two interface lists with indexes 1 and 2, one with an interface whose
  ioctl fails, and two MACs.

## Fairness

`SegmentWalker` has `WF_vars(Step)`:
- `copy_component_to_memory` runs in a single thread until it returns.
- A `read()` on the device returns.
- The fairness deliberately does not cover `ReadError`: a failing device is possible but never assumed, so the spin at EOF is not hidden by a read error that would end it.

`BootmapBoot` and `MCBootIdentify` are checked for safety only. An attempt ends in `returned` or `booted`, where the process is replaced, so `CHECK_DEADLOCK FALSE` is used there.

`UIControl` has weak fairness on these, and on nothing else:
- the parent's steps, since sysload runs whenever it is not blocked in `select()`;
- `AlarmFires`, since an armed alarm goes off;
- per client, `ChildFinish`, since a client that has printed its entry reaches `exit(0)`;
- per client, `ChildKilled`, since SIGKILL ends a process.

What users do is not assumed: typing, choosing and quitting. `TimeoutEndsWait` therefore excludes a user who presses a key, and rests on the alarm going off and the parent running. Neither is it assumed that a client honours SIGTERM. The function returns, so `CHECK_DEADLOCK FALSE` is used there too.

`Sysload` is checked for safety only. It stops where the system ends (kexec,
reboot, halt), where it exits, and at `MaxAttempts`, so `CHECK_DEADLOCK FALSE`
is used there.

`LineMode` is checked for safety only. Its progress depends on the user, and
it stops when it exits, is terminated, crashes or spins at end of file, so
`CHECK_DEADLOCK FALSE` is used there.

`ConfigHandoff` is checked for safety only. It stops in a client's menu,
waiting for the timeout, or exiting, where `UIControl` and `LineMode` take
over, so `CHECK_DEADLOCK FALSE` is used there.

`NetBase` has weak fairness on the steps of `nb_conf_enable`: it runs in
sysload's single thread while the configuration is parsed, and `dhcpcd`
gives up after its `-t` timeout, so every command returns. Whether and when
the configuration tests a MAC is not assumed. `CHECK_DEADLOCK FALSE`: the
function returns, or the process has died.

`ClScp` has `WF_vars(Next)`: `cl_scp` is one single-threaded process, so it
keeps taking steps until `main` returns.

## Not modelled, and the plan

Not modelled (see `components` in `PROJECT.json`):
- `prefix_root` and `get_uri_path`: string joining and slicing. A URI is its class.
- The `sscanf` of a blank insfile line, which keeps the previous name.
- The select loop in `comp_load` that reads the module's output. Its only effect is the message text.
- `set_terminal` (termios settings), the menu's layout, and `ui_ssh.c`, whose ssh session is outside TLC's reach.
- The child's exec-failure path in `ui_control.c`, which is listed as a hazard.
- Argument parsing, output redirection and the pid file of `sysload.c`.
- The configuration grammar and scanner (`yyparse`, `yy_scan_string`): they are not in the repository. `parse_sysload_boot_entry`, which copies `bentry_list[0]` even when the string declared no entry, depends on them. The `sysinfo` tests' matching of `/proc/sysinfo` is one boolean per section. `cfg_print`, `cfg_copy`, `parse_arguments` and `parse_kernel_cmdline` are not modelled.
- In `netbase.c`: allocation and logging (`nb_conf_new`, `_destroy`, `_reset`, `_free`, `_print`) and the text of the commands. In `dhcp_request.c`: the `strncmp` prefix match of keys (no key `dhcpcd` writes is a proper prefix of another), lines longer than `CFG_STR_MAX_LEN` or without `=`, and the fields nothing reads.
- Module loading and halt (`modbase.c`, `halt.c`) and debug output: external commands and sysfs writes with no state sysload reads back.

Plan for the next modules:
1. Compose `UIControl` into `Sysload`: its return value, and the re-entrant
   `rcvd_sig` and `config->timeout` it keeps across attempts.
2. Compose `LineMode` as the client of `UIControl`: each `ReadSelection` as a
   `ChildKey`, `Finish` as the entry on the pipe.
3. The ECKD classic and compatible layouts in `BlockPointer`.
