---------------------------- MODULE CopyComponent ----------------------------
(***************************************************************************)
(* What copy_component_to_memory promises (spec section 4.5): the image of *)
(* a component is the concatenation, in order, of the code segments listed *)
(* in its chain of segment tables, or an error.  The chain is described    *)
(* here table by table by the recursive operator Walk, independently of    *)
(* the slot-by-slot loop of the code (SegmentWalker), which refines this   *)
(* specification.                                                          *)
(***************************************************************************)
EXTENDS BlockPointer

VARIABLES
    disk,       \* block contents (read-only input)
    compPtr,    \* component_ptr: pointer to the first segment table
    status,     \* "busy", "done", "failed" or "aborted"
    image,      \* the loaded blocks once status = "done"
    err         \* kind of error message: "none", "invalid" or "io"

vars == <<disk, compPtr, status, image, err>>

\* The longest prefix of s in which no slot is null.
RECURSIVE NonNullPrefix(_)
NonNullPrefix(s) ==
    IF s = <<>> \/ IsNull(Head(s)) THEN <<>>
    ELSE <<Head(s)>> \o NonNullPrefix(Tail(s))

\* Result of reading the extents of the pointers in ds in turn and
\* appending them to img: the first unreadable extent decides the result.
RECURSIVE LoadAll(_, _)
LoadAll(ds, img) ==
    IF ds = <<>> THEN [kind |-> "ok", img |-> img]
    ELSE IF ~CheckBlockptr(Head(ds)) THEN [kind |-> "invalid", img |-> img]
    ELSE IF BlocksToEnd(Head(ds)) < ExtentLen(Head(ds))
         THEN [kind |-> "hang", img |-> img]
    ELSE LoadAll(Tail(ds), img \o ExtentBlocks(Head(ds)))

(***************************************************************************)
(* Walk(tp, first, seen, img): outcome of loading the segments listed in   *)
(* the table at tp and in the tables chained after it, img being what is   *)
(* loaded so far and seen the tables already walked.  The last slot of a   *)
(* table is the link to the next table; the slots before it list segments  *)
(* up to the first null one, except that the first slot of the first table *)
(* is always a segment.  A link to a table already walked makes the chain  *)
(* infinite.                                                               *)
(***************************************************************************)
RECURSIVE Walk(_, _, _, _)
Walk(tp, first, seen, img) ==
    IF ~CheckBlockptr(tp) THEN [kind |-> "invalid", img |-> img]
    ELSE IF BlocksToEnd(tp) < ExtentLen(tp) THEN [kind |-> "hang", img |-> img]
    ELSE
      LET s      == TableSlots(disk, tp)
          n      == Len(s)
          listed == NonNullPrefix(SubSeq(s, 1, n - 1))
          segs   == IF first /\ listed = <<>> THEN <<s[1]>> ELSE listed
          link   == IF Len(listed) = n - 1 THEN s[n] ELSE NullPtr
          loaded == LoadAll(segs, img)
      IN  IF loaded.kind # "ok" \/ IsNull(link) THEN loaded
          ELSE IF link \in seen \cup {tp} THEN [kind |-> "cyclic", img |-> loaded.img]
          ELSE Walk(link, FALSE, seen \cup {tp}, loaded.img)

Outcome == Walk(compPtr, TRUE, {}, <<>>)

TypeOK ==
    /\ disk \in Disks
    /\ compPtr \in BlockPtrs
    /\ status \in {"busy", "done", "failed", "aborted"}
    /\ image \in Seq(0..PhyBlocks - 1)
    /\ err \in {"none", "invalid", "io"}

Init ==
    /\ disk \in Disks
    /\ compPtr \in BlockPtrs
    /\ status = "busy"
    /\ image = <<>>
    /\ err = "none"

\* The chain is read completely: the image is its segments in order.
Finish ==
    /\ status = "busy"
    /\ Outcome.kind = "ok"
    /\ status' = "done"
    /\ image' = Outcome.img
    /\ UNCHANGED <<disk, compPtr, err>>

\* A pointer on the chain fails check_blockptr.
FailInvalid ==
    /\ status = "busy"
    /\ Outcome.kind = "invalid"
    /\ status' = "failed"
    /\ err' = "invalid"
    /\ UNCHANGED <<disk, compPtr, image>>

\* A read of the device fails; this may happen on any chain.
FailIO ==
    /\ status = "busy"
    /\ status' = "failed"
    /\ err' = "io"
    /\ UNCHANGED <<disk, compPtr, image>>

\* An infinite chain exhausts the memory the image is allocated from.
Abort ==
    /\ status = "busy"
    /\ Outcome.kind = "cyclic"
    /\ status' = "aborted"
    /\ UNCHANGED <<disk, compPtr, image, err>>

Next == Finish \/ FailInvalid \/ FailIO \/ Abort

Spec == Init /\ [][Next]_vars
=============================================================================
