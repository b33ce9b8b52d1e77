--------------------------- MODULE MCBootIdentify ---------------------------
(***************************************************************************)
(* identify_boot_objects applied once to every component table of          *)
(* TableCap entries over the model's addresses, every stage-3 record and   *)
(* both outcomes of copying it.                                            *)
(***************************************************************************)
EXTENDS BootIdentify

CONSTANT TableCap   \* get_component_table_size(disk)

VARIABLES t, copyOk, s3, result

vars == <<t, copyOk, s3, result>>

\* The stage-3 initrd length does not take part in identification.
MCInitrdLens == {[hi |-> 0, lo |-> 4096]}

\* result before the call
Pending == [err |-> "pending", kernel |-> 0, initrd |-> 0,
            initrdLen |-> [hi |-> 0, lo |-> 0], parmfile |-> 0]

Init ==
    /\ t \in [1..TableCap -> Entries]
    /\ copyOk \in BOOLEAN
    /\ s3 \in Stage3s
    /\ result = Pending

\* The one call of identify_boot_objects.
Identify ==
    /\ result = Pending
    /\ result' = IdentifyBootObjects(t, copyOk, s3)
    /\ UNCHANGED <<t, copyOk, s3>>

Spec == Init /\ [][Identify]_vars

\* The loops of identify_boot_objects pick the entries section 4.6 of the
\* spec names: the first execute entry, a load entry before it, and for
\* each object the first entry before it at the stage-3 address.
IdentifyAsSpecified == result # Pending => result = IdentifySpec(t, copyOk, s3)

\* The kernel identify_boot_objects picks is the entry the spec's test list
\* (section 8) names: the one at the address of the execute entry's PSW.
KernelAsSpecTest ==
    result.err = "none" => result.kernel = KernelBySpecTest(t)
=============================================================================
