------------------------------ MODULE LineMode ------------------------------
(***************************************************************************)
(* The line-mode user interface (src/core/ui_linemode.c), one client of    *)
(* userinterface: main opens the terminal, then loops printing the menu    *)
(* and reading a selection until an entry is chosen, which it prints to    *)
(* stdout for sysload before exit(0).  A selection may ask for a password, *)
(* display an entry, modify a kernel entry field by field, or enter a      *)
(* manual entry; each blocking read of the terminal is one step.           *)
(*                                                                         *)
(* A menu line is a sequence of characters from a small alphabet; a field *)
(* value is "" (ENTER), " " (only blanks), "x" (typed text), "v" (a value  *)
(* of the configuration) or "null" (no string); terminal outcomes are     *)
(* small sets.  Printing and formatting are left out.                     *)
(***************************************************************************)
EXTENDS Integers, Sequences, SequencesExt

CONSTANTS
    Entries,      \* my_toplevel->bentry_list: [action, locked, pause, f]
    BootDefault,  \* my_toplevel->boot_default, an index of Entries from 0
    MenuLines,    \* lines the user may type at the menu (without "\n")
    MaxReads,     \* bound on the menu lines read (and SIGUSR1 sent)
    OpenMayFail   \* whether fopen of the terminal may fail

VARIABLES
    pc,     \* where main is
    input,  \* main's input buffer after the newline was cut off
    cmd,    \* the command character of the last selection ("" for none)
    bentry, \* the entry main's bentry points to (<<>> before any)
    auth,   \* entries whose password was entered correctly (history)
    out,    \* what cfg_bentry_print wrote to stdout (<<>> before)
    usr1    \* SIGUSR1 signals sent to sysload

vars == <<pc, input, cmd, bentry, auth, out, usr1>>

Fields == {"root", "kernel", "initrd", "cmdline", "parmfile", "insfile",
           "bootmap"}

\* The fields get_man_boot reads for each action, as get_input calls.
KernelFields == {"root", "kernel", "initrd", "cmdline", "parmfile"}
ManFields(action) ==
    CASE action = "kernel"  -> KernelFields
      [] action = "insfile" -> {"insfile"}
      [] action = "bootmap" -> {"bootmap"}

\* What get_input stores: the line typed, without its newline.
FieldInputs == {"", " ", "x"}

\* Fault variant of NoFields: the new entry is not zeroed.
UninitializedFields == [k \in Fields |-> "garbage"]

\* memset(*bentry, 0, ...): every string of a new entry is null.
NoFields == [k \in Fields |-> "null"]

\* The entry bentry points to; origin is its menu number, 0 for one
\* get_man_boot allocated.
Configured(s) ==
    [origin |-> s + 1, action |-> Entries[s + 1].action,
     locked |-> Entries[s + 1].locked, pause |-> Entries[s + 1].pause,
     f |-> Entries[s + 1].f]
Manual(action, f) ==
    [origin |-> 0, action |-> action, locked |-> FALSE, pause |-> FALSE, f |-> f]

-----------------------------------------------------------------------------
(***************************************************************************)
(* compute_selection                                                       *)
(***************************************************************************)
DigitChars == <<"0", "1", "2", "3", "4", "5", "6", "7", "8", "9">>

DigitValue(c) == CHOOSE i \in 0..9 : DigitChars[i + 1] = c

RECURSIVE SkipBlanks(_)
SkipBlanks(s) == IF s # <<>> /\ Head(s) = " " THEN SkipBlanks(Tail(s)) ELSE s

\* strspn(s, "0123456789")
RECURSIVE DigitSpan(_)
DigitSpan(s) == IF s # <<>> /\ Head(s) \in ToSet(DigitChars)
                THEN 1 + DigitSpan(Tail(s)) ELSE 0

\* sscanf(s, "%d", &n): blanks, an optional sign, at least one digit.
ScanD(s) ==
    LET t      == SkipBlanks(s)
        signed == t # <<>> /\ Head(t) \in {"+", "-"}
        u      == IF signed THEN Tail(t) ELSE t
        v      == FoldLeft(LAMBDA a, c : a * 10 + DigitValue(c), 0,
                           SubSeq(u, 1, DigitSpan(u)))
    IN  [ok |-> DigitSpan(u) > 0, val |-> IF signed /\ Head(t) = "-" THEN -v ELSE v]

\* Fault variant of ComputeSelection: no blanks are skipped between a
\* number and its command.
ComputeSelectionNoBlankSkip(line) ==
    LET in == SkipBlanks(line)
        d  == ScanD(in)
    IN  IF in = <<>> THEN [cmd |-> "", sel |-> 0]
        ELSE IF ~d.ok
        THEN LET rest == SkipBlanks(Tail(in)) IN
             [cmd |-> Head(in),
              sel |-> IF ScanD(rest).ok THEN ScanD(rest).val ELSE 0]
        ELSE LET rest == SubSeq(in, DigitSpan(in) + 1, Len(in)) IN
             [cmd |-> IF rest = <<>> THEN "" ELSE Head(rest), sel |-> d.val]

\* cmd and selection as compute_selection leaves them: a number
\* optionally followed by a command character, or a character optionally
\* followed by a number.
ComputeSelection(line) ==
    LET in == SkipBlanks(line)
        d  == ScanD(in)
    IN  IF in = <<>> THEN [cmd |-> "", sel |-> 0]
        ELSE IF ~d.ok
        THEN LET rest == SkipBlanks(Tail(in)) IN
             [cmd |-> Head(in),
              sel |-> IF ScanD(rest).ok THEN ScanD(rest).val ELSE 0]
        ELSE LET rest == SkipBlanks(SubSeq(in, DigitSpan(in) + 1, Len(in))) IN
             [cmd |-> IF rest = <<>> THEN "" ELSE Head(rest), sel |-> d.val]

-----------------------------------------------------------------------------
\* The branch of main's switch (command) for an entry e.
DispatchPc(c, e) ==
    CASE c \in {"d", "D"} -> "display"
      [] c \in {"i", "I"} -> "action"
      [] c \in {"m", "M"} ->
            IF e.action \in {"kernel", "insfile", "bootmap"} THEN "modify"
            ELSE "menu"                    \* "This boot entry cannot be modified."
      [] c = ""           -> "chosen"
      [] OTHER            -> "menu"        \* "Unknown command !"

\* Fault variant of Gate: the lock is checked for a plain selection only.
GatePlainOnly(c, e) ==
    IF e.locked /\ c = "" THEN "password" ELSE DispatchPc(c, e)

\* bentry->locked asks for the password before the command is run.
Gate(c, e) == IF e.locked THEN "password" ELSE DispatchPc(c, e)

\* assign_input(X, Y): an empty field takes Y; a field of blanks is set to
\* '\0', the null pointer.
AssignInput(x, y) == IF x = "" THEN y ELSE IF x = " " THEN "null" ELSE x

Running == {"menu", "password", "display", "action", "fields", "modify",
            "confirm", "chosen"}

TypeOK ==
    /\ pc \in Running \cup {"open", "failed", "exited", "terminated",
                            "crashed", "spinning"}
    /\ input \in Seq({" ", "+", "-", "d", "i", "m", "x"} \cup ToSet(DigitChars))
    /\ bentry \in {<<>>} \cup [origin : 0..Len(Entries), action : STRING,
                               locked : BOOLEAN, pause : BOOLEAN,
                               f : [Fields -> {"null", "", " ", "x", "v"}]]
    /\ auth \subseteq 1..Len(Entries)
    /\ usr1 \in 0..MaxReads

Init ==
    /\ pc = "open"
    /\ input = <<>>
    /\ cmd = ""
    /\ bentry = <<>>
    /\ auth = {}
    /\ out = <<>>
    /\ usr1 = 0

\* fopen of the terminal (argv[1] or /dev/console, then ctermid); exit(1)
\* when neither opens.
Open ==
    /\ pc = "open"
    /\ \/ pc' = "menu"
       \/ OpenMayFail /\ pc' = "failed"
    /\ UNCHANGED <<input, cmd, bentry, auth, out, usr1>>

(***************************************************************************)
(* One pass of main's do-while loop up to its switch: fgets of a line,     *)
(* kill(getkppid(), SIGUSR1), input[strlen(input) - 1] = '\0', the blank  *)
(* test, compute_selection, the default for no number, the range check and *)
(* the locked test.  At end of file fgets leaves the buffer as it was, so  *)
(* the last line loses one more character; with an empty buffer the write  *)
(* lands before it.                                                        *)
(***************************************************************************)
ReadSelection ==
    /\ pc = "menu"
    /\ usr1 < MaxReads
    /\ usr1' = usr1 + 1
    /\ \E r \in {<<l>> : l \in MenuLines} \cup {<<>>} :     \* <<>>: end of file
         IF r = <<>> /\ input = <<>>
         THEN /\ pc' \in {"menu", "crashed"}
              /\ UNCHANGED <<input, cmd, bentry>>
         ELSE LET line == IF r = <<>> THEN Front(input) ELSE r[1]
                  c    == ComputeSelection(line)
                  s    == IF c.sel # 0 THEN c.sel - 1 ELSE BootDefault
              IN  /\ input' = line
                  /\ IF SkipBlanks(line) = <<>> \/ s \notin 0..(Len(Entries) - 1)
                     THEN pc' = "menu" /\ UNCHANGED <<cmd, bentry>>
                     ELSE /\ cmd' = c.cmd
                          /\ bentry' = Configured(s)
                          /\ pc' = Gate(c.cmd, Entries[s + 1])
    /\ UNCHANGED <<auth, out>>

(***************************************************************************)
(* password(): getc until '\n', storing while str_ptr < &input[512], then  *)
(* *str_ptr = 0, and strcmp with the configured password.  A line of 512   *)
(* characters or more puts that 0 one byte past the buffer; at end of file *)
(* getc returns EOF, never '\n', and the loop spins.                       *)
(***************************************************************************)
Password ==
    /\ pc = "password"
    /\ \E p \in {"ok", "bad", "long", "eof"} :
         CASE p = "ok"   -> /\ auth' = auth \cup {bentry.origin}
                            /\ pc' = DispatchPc(cmd, bentry)
           [] p = "bad"  -> pc' = "menu" /\ UNCHANGED auth
           [] p = "long" -> pc' \in {"menu", "crashed"} /\ UNCHANGED auth
           [] p = "eof"  -> pc' = "spinning" /\ UNCHANGED auth
    /\ UNCHANGED <<input, cmd, bentry, out, usr1>>

\* 'd': print_selection, then keypressed(); a key or end of file returns
\* to the menu.
Display ==
    /\ pc = "display"
    /\ pc' = "menu"
    /\ UNCHANGED <<input, cmd, bentry, auth, out, usr1>>

(***************************************************************************)
(* 'i': get_man_boot(&bentry, -1) allocates a zeroed entry and reads lines *)
(* until atoi gives 1..3 (other numbers ask again and change nothing).  At *)
(* end of file fgets leaves its buffer as it was and the loop spins.       *)
(***************************************************************************)
ManualAction ==
    /\ pc = "action"
    /\ \/ \E a \in {"kernel", "insfile", "bootmap"} :
             pc' = "fields" /\ bentry' = Manual(a, NoFields)
       \/ pc' = "spinning" /\ UNCHANGED bentry
    /\ UNCHANGED <<input, cmd, auth, out, usr1>>

\* The get_input calls of get_man_boot for the chosen action.
ReadFields ==
    /\ pc = "fields"
    /\ \E v \in [ManFields(bentry.action) -> FieldInputs] :
         bentry' = [bentry EXCEPT !.f = [k \in Fields |->
                                          IF k \in DOMAIN v THEN v[k] ELSE bentry.f[k]]]
    /\ pc' = "confirm"
    /\ UNCHANGED <<input, cmd, auth, out, usr1>>

(***************************************************************************)
(* 'm' on a kernel, insfile or bootmap entry: get_man_boot(&bentry,        *)
(* temp_ptr->action) switches on its local action, which stays 0, so it    *)
(* always reads the five kernel fields into a new KERNEL_BOOT entry.  For  *)
(* a kernel entry assign_input then merges the old values; for an insfile  *)
(* or bootmap entry strlen() is called on the new entry's null insfile or  *)
(* bootmap.  The new entry is neither locked nor paused.                   *)
(***************************************************************************)
Modify ==
    /\ pc = "modify"
    /\ \E v \in [KernelFields -> FieldInputs] :
         IF bentry.action = "kernel"
         THEN /\ bentry' = [Manual("kernel",
                                   [k \in Fields |->
                                      IF k \in KernelFields
                                      THEN AssignInput(v[k], bentry.f[k])
                                      ELSE "null"])
                            EXCEPT !.origin = bentry.origin]
              /\ pc' = "confirm"
         ELSE pc' = "crashed" /\ UNCHANGED bentry
    /\ UNCHANGED <<input, cmd, auth, out, usr1>>

\* print_selection and keypressed(): 'B' or 'b' boots the entry, any other
\* key or end of file frees it and returns to the menu.
Confirm ==
    /\ pc = "confirm"
    /\ pc' \in {"chosen", "menu"}
    /\ UNCHANGED <<input, cmd, bentry, auth, out, usr1>>

\* After the loop: the pause line is read if the entry has one, the entry
\* is printed to stdout and main exits with 0.
Finish ==
    /\ pc = "chosen"
    /\ out' = <<bentry>>
    /\ pc' = "exited"
    /\ UNCHANGED <<input, cmd, bentry, auth, usr1>>

\* sigtermhandler (SIGTERM from sysload) and default_sig_handler (SIGINT,
\* SIGQUIT) reset the terminal and exit(0) without printing an entry.
Terminate ==
    /\ pc \in Running \cup {"spinning"}
    /\ pc' = "terminated"
    /\ UNCHANGED <<input, cmd, bentry, auth, out, usr1>>

Next ==
    \/ Open \/ ReadSelection \/ Password \/ Display \/ ManualAction
    \/ ReadFields \/ Modify \/ Confirm \/ Finish \/ Terminate

\* The user interface runs until it exits, is terminated or crashes.
Spec == Init /\ [][Next]_vars

-----------------------------------------------------------------------------
\* The entry printed for sysload is never a locked entry, or one modified
\* from it, unless its password was entered correctly in some pass of
\* main's loop: main checks the lock of the selected entry before every
\* command, 'm' included, and for lines re-read at end of file.
LockedNeedsPassword ==
    out # <<>> /\ out[1].origin # 0 /\ Entries[out[1].origin].locked
        => out[1].origin \in auth

(***************************************************************************)
(* What the menu offers: "<n>", "d<n>", "m<n>" and "i", with blanks before *)
(* and between the parts.  A command written without a number applies to  *)
(* the default entry (selection 0).                                        *)
(***************************************************************************)
MenuNumbers == {[s |-> <<"1">>, v |-> 1], [s |-> <<"2">>, v |-> 2],
                [s |-> <<"1", "2">>, v |-> 12], [s |-> <<"0", "8">>, v |-> 8]}
MenuBlanks == {<<>>, <<" ">>}
MenuForms ==
    {[line |-> b \o n.s, cmd |-> "", sel |-> n.v] : b \in MenuBlanks, n \in MenuNumbers}
    \cup {[line |-> b \o <<c>> \o b2 \o n.s, cmd |-> c, sel |-> n.v] :
          b \in MenuBlanks, b2 \in MenuBlanks, c \in {"d", "m"}, n \in MenuNumbers}
    \cup {[line |-> b \o n.s \o b2 \o <<c>>, cmd |-> c, sel |-> n.v] :
          b \in MenuBlanks, b2 \in MenuBlanks, c \in {"d", "m"}, n \in MenuNumbers}
    \cup {[line |-> b \o <<c>> \o b2, cmd |-> c, sel |-> 0] :
          b \in MenuBlanks, b2 \in MenuBlanks, c \in {"d", "m", "i"}}

\* While main's loop runs, compute_selection reads every form the menu
\* offers as that form's command and number, whichever part comes first
\* and whatever blanks surround them.
SelectionAsMenu ==
    pc \in Running =>
        \A f \in MenuForms : ComputeSelection(f.line) = [cmd |-> f.cmd, sel |-> f.sel]

\* The line-mode interface does not crash on any sequence of inputs.
NeverCrashes == pc # "crashed"

=============================================================================
