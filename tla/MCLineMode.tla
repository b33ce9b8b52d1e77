----------------------------- MODULE MCLineMode -----------------------------
(***************************************************************************)
(* A menu for TLC: a locked kernel entry with a pause line (the default),  *)
(* an insfile, a bootmap and a reboot entry; menu lines that select,       *)
(* display, modify and enter entries, out-of-range and unknown selections *)
(* and blank lines.                                                        *)
(***************************************************************************)
EXTENDS LineMode

KernelEntry ==
    [action |-> "kernel", locked |-> TRUE, pause |-> TRUE,
     f |-> [k \in Fields |-> IF k \in {"root", "kernel", "initrd"} THEN "v"
                                 ELSE "null"]]

Other(a, field) ==
    [action |-> a, locked |-> FALSE, pause |-> FALSE,
     f |-> [k \in Fields |-> IF k = field THEN "v" ELSE "null"]]

MCEntries == <<KernelEntry, Other("insfile", "insfile"),
               Other("bootmap", "bootmap"), Other("reboot", "none")>>

MCMenuLines == {<<>>, <<" ">>, <<"2">>, <<"0">>, <<"5">>, <<"d", "3">>,
                <<"m">>, <<"m", "2">>, <<"m", "4">>, <<"i">>, <<"x">>,
                <<"-", "1">>, <<"3">>}
=============================================================================
