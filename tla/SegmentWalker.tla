---------------------------- MODULE SegmentWalker ----------------------------
(***************************************************************************)
(* copy_component_to_memory (src/core/bootmap_common.c) and the            *)
(* disk_read_phy_blocks calls it makes.  The first segment table is read,  *)
(* then a do-while loop copies the segment of the current slot, advances   *)
(* to the next slot and, when that slot is the last one of the table and   *)
(* is not null, reads the next table from it.  Each read is the loop of    *)
(* read() calls of disk_read_phy_blocks, which may return fewer blocks     *)
(* than asked, 0 at the end of the device, or -1.                          *)
(***************************************************************************)
EXTENDS BlockPointer

CONSTANTS
    MaxImage,       \* blocks realloc can provide before MEM_ASSERT aborts
    ComponentPtrs   \* segment pointers a component table entry may hold

ASSUME ComponentPtrs \subseteq BlockPtrs

VARIABLES
    disk,       \* block contents (read-only input)
    compPtr,    \* component_ptr (argument)
    pc,         \* control point of the function
    tbl,        \* slots of segment_table
    entry,      \* entry: index (from 0) of the slot decoded last
    codePtr,    \* code_ptr
    buf,        \* *buffer: blocks loaded so far, in load order
    rd,         \* read in progress: pointer, read_cnt and last read_len
    err         \* kind of the error message returned

vars == <<disk, compPtr, pc, tbl, entry, codePtr, buf, rd, err>>

Reading == {"readFirst", "readSeg", "readNext"}
Final   == {"done", "failed", "aborted"}

TypeOK ==
    /\ disk \in Disks
    /\ compPtr \in BlockPtrs
    /\ pc \in {"start", "loop"} \cup Reading \cup Final
    /\ tbl \in Seq(BlockPtrs)
    /\ entry \in 0..PtrsPerBlock * (MaxCt + 1)
    /\ codePtr \in BlockPtrs
    /\ buf \in Seq(0..PhyBlocks - 1)
    /\ rd \in {r \in [ptr : BlockPtrs, cnt : 0..MaxCt + 1, len : 0..MaxCt + 1] :
                r.cnt <= ExtentLen(r.ptr)}
    /\ err \in {"none", "invalid", "io"}

\* disk_read_phy_blocks entry: check_blockptr, then the read loop at
\* read_cnt = 0; an invalid pointer returns an error and the caller frees
\* its buffers and returns it.
StartRead(p, at) ==
    \/ /\ CheckBlockptr(p)
       /\ pc' = at
       /\ rd' = [ptr |-> p, cnt |-> 0, len |-> 0]
       /\ UNCHANGED err
    \/ /\ ~CheckBlockptr(p)
       /\ pc' = "failed"
       /\ err' = "invalid"
       /\ UNCHANGED rd

ReadDone == rd.cnt = ExtentLen(rd.ptr)

\* What one read() may return, in blocks: at least one, at most what is
\* still asked for and what is left before the end of the device.
ReadLens(p, cnt) ==
    {n \in 1..(ExtentLen(p) - cnt) : n <= BlocksToEnd(p) - cnt}

\* read_cnt += read_len
Advance(r, n) == [r EXCEPT !.cnt = @ + n, !.len = n]

\* read_packed_blockptr(segment_table + e * ptrsize): a slot inside the
\* table, or any pointer when e lies past its end (a read of memory past
\* the buffer).
ReadSlot(t, e) == IF e < Len(t) THEN {t[e + 1]} ELSE BlockPtrs

\* Fault variant of AtTableEnd: the test against the slot count itself.
AtTableEndPastLast(e, n) == e = n

\* entry == pointer_in_segment_table - 1
AtTableEnd(e, n) == e = n - 1

\* The segment read through p lands at load_position, after what is loaded.
LoadAt(b, p) == b \o ExtentBlocks(p)

Init ==
    /\ disk \in Disks
    /\ compPtr \in ComponentPtrs
    /\ pc = "start"
    /\ tbl = <<>>
    /\ entry = 0
    /\ codePtr = NullPtr
    /\ buf = <<>>
    /\ rd = [ptr |-> NullPtr, cnt |-> 0, len |-> 0]
    /\ err = "none"

\* Allocate segment_table and read the first table through component_ptr.
Start ==
    /\ pc = "start"
    /\ StartRead(compPtr, "readFirst")
    /\ UNCHANGED <<disk, compPtr, tbl, entry, codePtr, buf>>

\* One read() call that returns read_len > 0 blocks.
ReadChunk ==
    /\ pc \in Reading
    /\ ~ReadDone
    /\ \E n \in ReadLens(rd.ptr, rd.cnt) : rd' = Advance(rd, n)
    /\ UNCHANGED <<disk, compPtr, pc, tbl, entry, codePtr, buf, err>>

\* read() at the end of the device returns 0: read_cnt is unchanged and
\* the loop calls read() again.
ReadAtEof ==
    /\ pc \in Reading
    /\ ~ReadDone
    /\ BlocksToEnd(rd.ptr) = rd.cnt
    /\ rd' = [rd EXCEPT !.len = 0]
    /\ UNCHANGED <<disk, compPtr, pc, tbl, entry, codePtr, buf, err>>

\* read() returns -1: the error is returned and the buffers freed.
ReadError ==
    /\ pc \in Reading
    /\ ~ReadDone
    /\ pc' = "failed"
    /\ err' = "io"
    /\ UNCHANGED <<disk, compPtr, tbl, entry, codePtr, buf, rd>>

\* Fault variant of FirstTableRead: a while loop in place of the do-while,
\* which tests code_ptr before the first segment is copied.
FirstTableReadWhile ==
    /\ pc = "readFirst"
    /\ ReadDone
    /\ tbl' = TableSlots(disk, compPtr)
    /\ codePtr' = tbl'[1]
    /\ entry' = 0
    /\ buf' = <<>>
    /\ pc' = IF IsNull(codePtr') THEN "done" ELSE "loop"
    /\ UNCHANGED <<disk, compPtr, rd, err>>

\* The first table is in: pointer_in_segment_table is set and code_ptr is
\* decoded from slot 0; the do-while loop starts with an empty buffer.
FirstTableRead ==
    /\ pc = "readFirst"
    /\ ReadDone
    /\ tbl' = TableSlots(disk, compPtr)
    /\ codePtr' = tbl'[1]
    /\ entry' = 0
    /\ buf' = <<>>
    /\ pc' = "loop"
    /\ UNCHANGED <<disk, compPtr, rd, err>>

\* Top of the do-while body: grow *buffer by the segment of code_ptr
\* (MEM_ASSERT aborts when realloc fails) and read the segment into it.
LoadSegment ==
    /\ pc = "loop"
    /\ \/ /\ Len(buf) + ExtentLen(codePtr) > MaxImage
          /\ pc' = "aborted"
          /\ UNCHANGED <<rd, err>>
       \/ /\ Len(buf) + ExtentLen(codePtr) <= MaxImage
          /\ StartRead(codePtr, "readSeg")
    /\ UNCHANGED <<disk, compPtr, tbl, entry, codePtr, buf>>

(***************************************************************************)
(* The segment is in: load_position advances, entry++, code_ptr is decoded *)
(* from the next slot.  At the last slot a non-null pointer is the next    *)
(* table, read in place of segment_table; otherwise the loop goes on while *)
(* code_ptr is not null.                                                   *)
(***************************************************************************)
SegmentRead ==
    /\ pc = "readSeg"
    /\ ReadDone
    /\ buf' = LoadAt(buf, codePtr)
    /\ entry' = entry + 1
    /\ \E next \in ReadSlot(tbl, entry + 1) :
          /\ codePtr' = next
          /\ \/ /\ AtTableEnd(entry + 1, Len(tbl)) /\ ~IsNull(next)
                /\ StartRead(next, "readNext")
             \/ /\ ~(AtTableEnd(entry + 1, Len(tbl)) /\ ~IsNull(next))
                /\ pc' = IF IsNull(next) THEN "done" ELSE "loop"
                /\ UNCHANGED <<rd, err>>
    /\ UNCHANGED <<disk, compPtr, tbl>>

\* The next table is in: entry = 0 and code_ptr is its slot 0; the loop
\* ends if that slot is null.
NextTableRead ==
    /\ pc = "readNext"
    /\ ReadDone
    /\ tbl' = TableSlots(disk, codePtr)
    /\ codePtr' = tbl'[1]
    /\ entry' = 0
    /\ pc' = IF IsNull(codePtr') THEN "done" ELSE "loop"
    /\ UNCHANGED <<disk, compPtr, buf, rd, err>>

\* The steps of the function itself, as opposed to a failing device.
Step ==
    \/ Start \/ ReadChunk \/ ReadAtEof
    \/ FirstTableRead \/ LoadSegment \/ SegmentRead \/ NextTableRead

Next == Step \/ ReadError

\* The function runs in a single thread that is scheduled until it returns
\* and read() on the device returns; a failing read is never assumed.
Spec == Init /\ [][Next]_vars /\ WF_vars(Step)

(***************************************************************************)
(* Properties                                                              *)
(***************************************************************************)

\* Every slot read_packed_blockptr decodes lies inside the segment table
\* that was read: the entry == pointer_in_segment_table - 1 test switches
\* tables before entry runs off the end.
SlotInBounds == pc \in {"loop", "readSeg", "readNext"} => entry < Len(tbl)

\* The slot-by-slot loop implements the table-by-table description of a
\* component in CopyComponent: on success the buffer holds exactly the
\* chain's segments in order, an invalid-pointer error is returned only when
\* the chain holds an invalid pointer, and an abort only for an endless
\* chain.
CC == INSTANCE CopyComponent
        WITH status <- IF pc \in Final THEN pc ELSE "busy",
             image  <- IF pc = "done" THEN buf ELSE <<>>
CopySpec == CC!Spec

\* copy_component_to_memory returns (with the image or an error message)
\* or aborts; it never keeps calling read().
Terminates == <>(pc \in Final)

\* copy_component_to_memory reports a bad bootmap as an error message
\* instead of ending the process through MEM_ASSERT.
NoAbort == pc # "aborted"
=============================================================================
