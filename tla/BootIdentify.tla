---------------------------- MODULE BootIdentify ----------------------------
(***************************************************************************)
(* identify_boot_objects (src/core/bootmap_common.c): which entries of a   *)
(* component table are the kernel, the initrd and the parmfile.  An entry  *)
(* is its type, its 8-byte address field and, for the execute entry,       *)
(* whether that field is the disabled-wait PSW.  The address field of an   *)
(* execute entry is its PSW; PSW & PSW_ADDRESS_MASK keeps its address      *)
(* part, which is what addr holds.  Entries are identified by their index  *)
(* (from 1); 0 stands for the null block pointer.  The stage-3 parameter   *)
(* block is the record copied from the entry before the execute entry.    *)
(***************************************************************************)
EXTENDS Integers, Sequences, SequencesExt, FiniteSetsExt

CONSTANTS
    Addrs,          \* load addresses and PSW addresses of the model
    InitrdLens      \* stage3.initrd_len values (see U64 below)

\* A u64 as its high word and its low word read as a signed 32-bit int,
\* which is what the assignment to int initrd_len keeps.
U64 == [hi : Nat, lo : Int]
\* a < b as unsigned 64-bit numbers; a negative low word is one of 2^31 or
\* more.
U64Lt(a, b) ==
    \/ a.hi < b.hi
    \/ /\ a.hi = b.hi
       /\ IF (a.lo < 0) = (b.lo < 0) THEN a.lo < b.lo ELSE b.lo < 0

\* The disabled-wait PSW 0x000a000000000000 has address part 0.
Entries  == {e \in [type : {"load", "execute"}, addr : Addrs, wait : BOOLEAN] :
                e.wait => (e.type = "execute" /\ e.addr = 0)}
Stage3s  == [parm : Addrs, initrd : Addrs, len : InitrdLens, psw : Addrs]

\* for (comp_num = n; comp_num < limit && t[comp_num].type !=
\* component_execute; comp_num++); the 0-based index the loop stops at.
RECURSIVE ScanToExecute(_, _, _)
ScanToExecute(t, n, limit) ==
    IF n < limit /\ t[n + 1].type # "execute" THEN ScanToExecute(t, n + 1, limit)
    ELSE n

\* Fault variant of ScanToAddr: the loop runs to n <= limit, so the
\* execute entry itself is searched.
RECURSIVE ScanToAddrInclusive(_, _, _, _)
ScanToAddrInclusive(t, n, limit, a) ==
    IF n <= limit /\ t[n + 1].addr # a THEN ScanToAddrInclusive(t, n + 1, limit, a)
    ELSE n

\* for (n = from; n < limit && t[n].address.load_address != a; n++)
RECURSIVE ScanToAddr(_, _, _, _)
ScanToAddr(t, n, limit, a) ==
    IF n < limit /\ t[n + 1].addr # a THEN ScanToAddr(t, n + 1, limit, a)
    ELSE n

(***************************************************************************)
(* identify_boot_objects translated from the code.  copyOk says whether    *)
(* copy_component_to_memory of the stage-3 entry succeeds and s3 is the    *)
(* record it yields.  The result names the error returned ("none" on       *)
(* success) and the kernel, initrd and parmfile entries, which keep the    *)
(* null pointer they are cleared to when an error is returned.             *)
(***************************************************************************)
IdentifyBootObjects(t, copyOk, s3) ==
    LET tableSize == Len(t)
        compNum   == ScanToExecute(t, 0, tableSize)
        Found(a)  == ScanToAddr(t, 0, compNum, a)
        Fail(why) == [err |-> why, kernel |-> 0, initrd |-> 0,
                      initrdLen |-> [hi |-> 0, lo |-> 0], parmfile |-> 0]
        k         == Found(s3.psw)
        i         == Found(s3.initrd)
        p         == Found(s3.parm)
    IN  IF compNum = 0 \/ compNum = tableSize THEN Fail("invalid_table")
        ELSE IF t[compNum + 1].wait THEN Fail("data_segment")
        ELSE IF ~copyOk THEN Fail("copy")
        ELSE IF k = compNum THEN Fail("invalid_table")
        ELSE [err       |-> "none",
              kernel    |-> k + 1,
              initrd    |-> IF i # compNum THEN i + 1 ELSE 0,
              initrdLen |-> IF i # compNum THEN s3.len ELSE [hi |-> 0, lo |-> 0],
              parmfile  |-> IF p # compNum THEN p + 1 ELSE 0]

(***************************************************************************)
(* The same classification as spec section 4.6 states it: the execute     *)
(* entry is the least index of type execute, which must have a load entry *)
(* before it; each object is the least index before the execute entry    *)
(* whose address matches the stage-3 field naming it.                     *)
(***************************************************************************)
IdentifySpec(t, copyOk, s3) ==
    LET Execs      == {j \in DOMAIN t : t[j].type = "execute"}
        x          == IF Execs = {} THEN 0 ELSE Min(Execs)
        At(a)      == {j \in 1..(x - 1) : t[j].addr = a}
        Least(S)   == IF S = {} THEN 0 ELSE Min(S)
        Fail(why)  == [err |-> why, kernel |-> 0, initrd |-> 0,
                       initrdLen |-> [hi |-> 0, lo |-> 0], parmfile |-> 0]
    IN  CASE x \in {0, 1}      -> Fail("invalid_table")
          [] t[x].wait         -> Fail("data_segment")
          [] ~copyOk           -> Fail("copy")
          [] At(s3.psw) = {}   -> Fail("invalid_table")
          [] OTHER ->
               [err       |-> "none",
                kernel    |-> Least(At(s3.psw)),
                initrd    |-> Least(At(s3.initrd)),
                initrdLen |-> IF At(s3.initrd) = {} THEN [hi |-> 0, lo |-> 0]
                              ELSE s3.len,
                parmfile  |-> Least(At(s3.parm))]

\* The kernel as the test list of spec section 8 states it: the load entry
\* whose address is that of the execute entry's own PSW.
KernelBySpecTest(t) ==
    LET Execs == {j \in DOMAIN t : t[j].type = "execute"}
        x     == Min(Execs)
        At    == {j \in 1..(x - 1) : t[j].addr = t[x].addr}
    IN  IF At = {} THEN 0 ELSE Min(At)
=============================================================================
