--------------------------- MODULE MCBootmapBoot ---------------------------
(***************************************************************************)
(* Inputs of a bootmap boot attempt for TLC: component tables that reach  *)
(* every outcome of identify_boot_objects, stage-3 blocks naming entries   *)
(* that exist or not, and initrd lengths below, above and, for the        *)
(* truncation run, beyond the 32 bits of int initrd_len.                  *)
(***************************************************************************)
EXTENDS BootmapBoot

L(a) == [type |-> "load", addr |-> a, wait |-> FALSE]
X    == [type |-> "execute", addr |-> 1, wait |-> FALSE]
W    == [type |-> "execute", addr |-> 0, wait |-> TRUE]

\* Valid; two entries at one address; execute first; no execute entry;
\* a disabled-wait execute entry.
MCTables == {<<L(1), L(2), X>>, <<L(2), L(2), X>>, <<X, L(1), L(2)>>,
             <<L(1), L(2), L(0)>>, <<L(1), L(2), W>>}

\* initrd_len values: shorter and longer than a copied image.
MCInitrdLens == {[hi |-> 0, lo |-> 256], [hi |-> 0, lo |-> 1024]}

\* Lengths of 2^32 + 256 and 2^32 - 1 bytes, whose low words are 256 and -1.
MCWideInitrdLens == MCInitrdLens \cup {[hi |-> 1, lo |-> 256], [hi |-> 0, lo |-> -1]}

\* No number (program 0), 1, 2 (past a two-entry table) and "08".
MCUriPrograms == {<<>>, <<1>>, <<2>>, <<0, 8>>}

MCStage3Set == [parm : {0, 2}, initrd : {0, 2}, len : InitrdLens, psw : {0, 1}]
=============================================================================
