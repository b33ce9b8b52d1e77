---------------------------- MODULE BlockPointer ----------------------------
(***************************************************************************)
(* Block pointers of a zipl bootmap and the disk they address, as used by  *)
(* src/core/bootmap_common.c.  The disk is abstracted to PhyBlocks blocks  *)
(* numbered 0..PhyBlocks-1 whose contents, as far as the bootmap walk is   *)
(* concerned, are PtrsPerBlock packed block pointers each.  A linear       *)
(* (SCSI/FBA) pointer has a start block, a size and a block count; the     *)
(* ECKD cylinder/head/sector form is folded into the same linear start     *)
(* block, since check_blockptr bounds every coordinate and the offset      *)
(* computed in disk_read_phy_blocks then lies below the disk capacity.     *)
(***************************************************************************)
EXTENDS Naturals, Sequences, SequencesExt

CONSTANTS
    PhyBlocks,      \* disk->phy_blocks
    PhyBlockSize,   \* disk->phy_block_size
    PtrsPerBlock,   \* phy_block_size / get_blockptr_size(disk)
    MaxCt           \* largest blockct written in a pointer of the model

ASSUME PhyBlocks \in Nat \ {0} /\ PtrsPerBlock >= 2 /\ MaxCt \in Nat

\* A pointer whose bytes are all zero: block 0, size 0, blockct 0.
NullPtr == [block |-> 0, size |-> 0, blockct |-> 0]

\* Pointers a bootmap may contain.  Start block PhyBlocks lies past the
\* disk; a pointer with a start inside the disk may still reach past it.
BlockPtrs ==
    {NullPtr} \cup [block : 0..PhyBlocks, size : {PhyBlockSize},
                    blockct : 0..MaxCt]

\* blockptr_is_null: every byte of the packed pointer is zero.
IsNull(p) == p = NullPtr

\* check_blockptr, linear case: non-negative block count, size equal to
\* the physical block size and a start block on the disk.  The end of the
\* extent is not checked.
CheckBlockptr(p) ==
    /\ p.blockct >= 0
    /\ p.size = PhyBlockSize
    /\ p.block < PhyBlocks

\* Number of blocks read through p: blockct + 1 (get_blockptr_blockct and
\* read_total of disk_read_phy_blocks).
ExtentLen(p) == p.blockct + 1

\* Blocks between the start of p and the end of the disk.
BlocksToEnd(p) == PhyBlocks - p.block

\* Fault variant of ExtentBlocks: the ECKD offset without its "- 1" for
\* 1-based sectors, reading from the block after the addressed one.
ExtentBlocksFromNext(p) == [i \in 1..ExtentLen(p) |-> p.block + i]

\* The blocks read through p, in order: the image a code segment adds.
ExtentBlocks(p) == [i \in 1..ExtentLen(p) |-> p.block + i - 1]

\* The pointers decoded (read_packed_blockptr) from the buffer filled by
\* reading p: the packed slots of its blocks, in order.  Defined for an
\* extent that lies on the disk.
TableSlots(disk, p) == FlattenSeq([i \in 1..ExtentLen(p) |-> disk[p.block + i - 1]])

\* All disk contents over the model's blocks.
Disks == [0..PhyBlocks - 1 -> [1..PtrsPerBlock -> BlockPtrs]]
=============================================================================
