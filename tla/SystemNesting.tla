---------------------------- MODULE SystemNesting ----------------------------
(***************************************************************************)
(* What parse_sysload promises about nested 'system' sections of a         *)
(* configuration file: a statement takes effect only when every enclosing  *)
(* section's test held; the configuration is the boot entries of such     *)
(* statements, or the blank configuration when the file could not be read, *)
(* parsed, or its default resolved.                                        *)
(*                                                                         *)
(* eff[i] is whether the i-th open section, counted from the outermost, is *)
(* in effect: its own test held and so did those of all outer sections.   *)
(* This is the abstract specification ConfigHandoff is checked against.   *)
(***************************************************************************)
EXTENDS Naturals, Sequences

CONSTANTS
    EntryChoices,  \* the boot entries a statement may declare
    MaxEntries,    \* bound on the boot entries declared
    MaxNest        \* bound on the nesting of sections

VARIABLES
    phase,    \* "parse", then "parsed" or "failed"
    eff,      \* the open sections, outermost first, and whether in effect
    entries   \* the boot entries of the configuration

vars == <<phase, eff, entries>>

InEffect == eff = <<>> \/ eff[Len(eff)]

Init == phase = "parse" /\ eff = <<>> /\ entries = <<>>

\* A section is opened with the result of its test (vmguest or lpar name).
Open ==
    /\ phase = "parse" /\ Len(eff) < MaxNest
    /\ \E test \in BOOLEAN : eff' = Append(eff, InEffect /\ test)
    /\ UNCHANGED <<phase, entries>>

Close ==
    /\ phase = "parse" /\ eff # <<>>
    /\ eff' = SubSeq(eff, 1, Len(eff) - 1)
    /\ UNCHANGED <<phase, entries>>

\* A boot entry statement: added only where it is in effect.
Declare ==
    /\ phase = "parse" /\ Len(entries) < MaxEntries
    /\ \E e \in EntryChoices :
         entries' = IF InEffect THEN Append(entries, e) ELSE entries
    /\ UNCHANGED <<phase, eff>>

\* The file ends with every section closed.
Parsed ==
    /\ phase = "parse" /\ eff = <<>>
    /\ phase' = "parsed"
    /\ UNCHANGED <<eff, entries>>

\* Any failure, while parsing or when the default is resolved, leaves the
\* blank configuration.
Fail ==
    /\ phase \in {"parse", "parsed"}
    /\ phase' = "failed" /\ eff' = <<>> /\ entries' = <<>>

Next == Open \/ Close \/ Declare \/ Parsed \/ Fail

Spec == Init /\ [][Next]_vars

=============================================================================
