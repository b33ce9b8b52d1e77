---------------------------- MODULE ConfigHandoff ----------------------------
(***************************************************************************)
(* How the configuration reaches a user interface.  sysload's main calls   *)
(* parse_sysload (parser_sysload.c): parser_init, parser_open_incl_uri,    *)
(* yyparse, and the resolution of the default boot label; on an error it   *)
(* continues with cfg_init's blank configuration.  userinterface            *)
(* (ui_control.c) then writes the configuration into the environment with *)
(* cfg_set_env (config.c) and forks the clients, and a client such as      *)
(* ui_linemode.c reads it back with cfg_get_env into a cfg_new structure.  *)
(*                                                                         *)
(* The grammar is not part of the repository.  yyparse is an environment   *)
(* that reads statements in any order: each one, as the comment of         *)
(* parser_active_system requires, takes effect only while the parser is    *)
(* active, and 'system' sections call parser_enter_system and              *)
(* parser_exit_system in nested pairs.                                     *)
(*                                                                         *)
(* Strings are sequences of characters; an environment variable name is    *)
(* <<i, NAME>>, i the boot entry index of SYSLOAD_B<i>_NAME and -1 for the *)
(* top-level SYSLOAD_NAME.                                                 *)
(***************************************************************************)
EXTENDS Integers, Sequences, SequencesExt, TLC

CONSTANTS
    EntryChoices,     \* boot entries a boot_entry statement may declare
    DefaultTokens,    \* strings a 'default' statement may give
    Timeouts,         \* values a 'timeout' statement may give
    Passwords,        \* strings a 'password' statement may give
    MaxEntries,       \* bound on the boot entries declared
    MaxUis,           \* bound on the userinterface statements
    MaxNest,          \* bound on the nesting of 'system' sections
    MaxStatements,    \* bound on the statements yyparse reads
    MAX_SYSTEM_DEPTH  \* parser.h

ASSUME MaxNest < MAX_SYSTEM_DEPTH

VARIABLES
    pc,            \* where sysload, then the client, is
    depth,         \* context.system_depth
    firstInactive, \* context.system_first_inactive
    bootDefault,   \* context.boot_default
    config,        \* sysload's struct cfg_toplevel config
    errmsg,        \* whether parse_sysload returned an error message
    nstmt,         \* statements read by yyparse
    env,           \* the SYSLOAD_ environment variables
    client         \* the client's my_toplevel after cfg_get_env

vars == <<pc, depth, firstInactive, bootDefault, config, errmsg, nstmt, env,
          client>>

DigitChars == <<"0", "1", "2", "3", "4", "5", "6", "7", "8", "9">>
DigitVal(c) == CHOOSE i \in 0..9 : DigitChars[i + 1] = c
DigitsValue(s) == FoldLeft(LAMBDA a, c : a * 10 + DigitVal(c), 0, s)

\* printf "%d"
RECURSIVE Unsigned(_)
Unsigned(n) == IF n < 10 THEN <<DigitChars[n + 1]>>
               ELSE Unsigned(n \div 10) \o <<DigitChars[(n % 10) + 1]>>
Dec(n) == IF n < 0 THEN <<"-">> \o Unsigned(-n) ELSE Unsigned(n)

\* sscanf(s, "%d", &v) of a string "%d" wrote.
ScanDec(s) == IF s # <<>> /\ Head(s) = "-" THEN -DigitsValue(Tail(s))
              ELSE DigitsValue(s)

\* cfg_init: memset to 0 and an empty password.
BlankConfig == [default |-> 0, timeout |-> 0, password |-> <<>>, uis |-> 0,
                entries |-> <<>>]

\* cfg_bentry_init: empty strings, not locked, action 0 (KERNEL_BOOT).
NewEntry == [label |-> <<>>, locked |-> 0, action |-> 0, pause |-> <<>>]

\* parser_active_system() = PA_ACTIVE
Active == depth < firstInactive

TypeOK ==
    /\ pc \in {"open", "parse", "resolve", "ui", "client", "menu", "timeout",
               "exit"}
    /\ depth \in 0..MaxNest /\ firstInactive \in 1..MAX_SYSTEM_DEPTH
    /\ bootDefault \in DefaultTokens \cup {<<"0">>}
    /\ config.entries \in Seq(EntryChoices) /\ Len(config.entries) <= MaxEntries
    /\ config.uis \in 0..MaxUis /\ errmsg \in BOOLEAN
    /\ nstmt \in 0..MaxStatements
    /\ client.entries \in Seq([label : Seq(STRING), locked : Int,
                               action : Int, pause : Seq(STRING)])

Init ==
    /\ pc = "open"
    /\ depth = 0 /\ firstInactive = MAX_SYSTEM_DEPTH   \* parser_init
    /\ bootDefault = <<"0">>
    /\ config = BlankConfig
    /\ errmsg = FALSE
    /\ nstmt = 0
    /\ env = [n \in {} |-> <<>>]
    /\ client = BlankConfig

\* parse_sysload returns an error message; main goes on with cfg_init.
Failed ==
    /\ pc' = "ui" /\ errmsg' = TRUE /\ config' = BlankConfig
    /\ UNCHANGED <<depth, firstInactive, bootDefault, nstmt, env, client>>

\* parser_open_incl_uri: comp_load of the URI to /tmp/sysloadparser-999.cfg,
\* then fopen of the copy.
OpenConfig ==
    /\ pc = "open"
    /\ \/ pc' = "parse" /\ UNCHANGED <<depth, firstInactive, bootDefault,
                                       config, errmsg, nstmt, env, client>>
       \/ Failed

-----------------------------------------------------------------------------
(***************************************************************************)
(* yyparse: one statement per step.                                        *)
(***************************************************************************)
Statement(A) ==
    /\ pc = "parse" /\ nstmt < MaxStatements
    /\ nstmt' = nstmt + 1
    /\ A
    /\ UNCHANGED <<pc, errmsg, env, client>>

\* parser_enter_system with the result of parser_vmguest_test or
\* parser_lpar_test: the depth is counted up first, and the first
\* inactive depth is recorded only if the parser was still active there.
EnterSystem ==
    Statement(
      /\ depth < MaxNest
      /\ \E test \in BOOLEAN :
           /\ depth' = depth + 1
           /\ firstInactive' = IF depth + 1 < firstInactive /\ ~test
                               THEN depth + 1 ELSE firstInactive
      /\ UNCHANGED <<bootDefault, config>>)

\* Fault variant of ExitSystem: every exit switches the parser active.
ExitSystemResetsAll ==
    Statement(
      /\ depth > 0
      /\ firstInactive' = MAX_SYSTEM_DEPTH
      /\ depth' = depth - 1
      /\ UNCHANGED <<bootDefault, config>>)

\* Fault variant of ExitSystem: an exit without a matching enter is not
\* refused, and the depth goes below 0.
ExitSystemUnmatched ==
    Statement(
      /\ firstInactive' = IF firstInactive = depth THEN MAX_SYSTEM_DEPTH
                          ELSE firstInactive
      /\ depth' = depth - 1
      /\ UNCHANGED <<bootDefault, config>>)

\* parser_exit_system: leaving the outermost inactive section makes the
\* parser active again.
ExitSystem ==
    Statement(
      /\ depth > 0
      /\ firstInactive' = IF firstInactive = depth THEN MAX_SYSTEM_DEPTH
                          ELSE firstInactive
      /\ depth' = depth - 1
      /\ UNCHANGED <<bootDefault, config>>)

\* A boot_entry section ends in cfg_add_bentry.
AddBootEntry ==
    Statement(
      /\ Len(config.entries) < MaxEntries
      /\ \E e \in EntryChoices :
           config' = IF Active THEN [config EXCEPT !.entries = Append(@, e)]
                     ELSE config
      /\ UNCHANGED <<depth, firstInactive, bootDefault>>)

\* userinterface: cfg_add_userinterface.
AddUserInterface ==
    Statement(
      /\ config.uis < MaxUis
      /\ config' = IF Active THEN [config EXCEPT !.uis = @ + 1] ELSE config
      /\ UNCHANGED <<depth, firstInactive, bootDefault>>)

\* default, timeout and password: cfg_strcpy into context.boot_default,
\* config->timeout, cfg_strcpy into config->password.
SetDefault ==
    Statement(
      /\ \E t \in DefaultTokens : bootDefault' = IF Active THEN t ELSE bootDefault
      /\ UNCHANGED <<depth, firstInactive, config>>)

SetTimeout ==
    Statement(
      /\ \E t \in Timeouts :
           config' = IF Active THEN [config EXCEPT !.timeout = t] ELSE config
      /\ UNCHANGED <<depth, firstInactive, bootDefault>>)

SetPassword ==
    Statement(
      /\ \E p \in Passwords :
           config' = IF Active THEN [config EXCEPT !.password = p] ELSE config
      /\ UNCHANGED <<depth, firstInactive, bootDefault>>)

\* yyparse returns 0 at the end of the file, every section closed.
ParseEnd ==
    /\ pc = "parse" /\ depth = 0
    /\ pc' = "resolve"
    /\ UNCHANGED <<depth, firstInactive, bootDefault, config, errmsg, nstmt,
                   env, client>>

\* yyparse returns non-zero: a syntax error, or an include that fails.
ParseError ==
    /\ pc = "parse"
    /\ Failed

-----------------------------------------------------------------------------
(***************************************************************************)
(* The default boot label: a string of digits only (strspn) that sscanf    *)
(* reads is an index, valid below bentry_count; any other string, the      *)
(* empty one included, is looked up among the labels, the first match      *)
(* winning.  -1 stands for the error message.                              *)
(***************************************************************************)
IsIndex(t) == t # <<>> /\ \A i \in 1..Len(t) : t[i] \in ToSet(DigitChars)

\* Fault variant of DefaultIndex: the index is checked against
\* bentry_count with > instead of >=.
DefaultIndexPastLast(t, es) ==
    IF IsIndex(t)
    THEN IF DigitsValue(t) > Len(es) THEN -1 ELSE DigitsValue(t)
    ELSE SelectInSeq(es, LAMBDA e : e.label = t) - 1

DefaultIndex(t, es) ==
    IF IsIndex(t)
    THEN IF DigitsValue(t) >= Len(es) THEN -1 ELSE DigitsValue(t)
    ELSE SelectInSeq(es, LAMBDA e : e.label = t) - 1

ResolveDefault ==
    /\ pc = "resolve"
    /\ LET d == DefaultIndex(bootDefault, config.entries) IN
         IF d = -1 THEN Failed
         ELSE /\ config' = [config EXCEPT !.default = d]
              /\ pc' = "ui"
              /\ UNCHANGED <<depth, firstInactive, bootDefault, errmsg, nstmt,
                             env, client>>

(***************************************************************************)
(* cfg_set_env: putenv of SYSLOAD_DEFAULT, _TIMEOUT, _PASSWORD,            *)
(* _BENTRY_COUNT and of the fields of every entry; a name set again takes  *)
(* the new value.  Integers are written with "%d".                         *)
(***************************************************************************)
EntryFields == {"LABEL", "LOCKED", "PAUSE", "ACTION"}

EnvField(e, f) ==
    CASE f = "LABEL"  -> e.label
      [] f = "LOCKED" -> Dec(e.locked)
      [] f = "PAUSE"  -> e.pause
      [] f = "ACTION" -> Dec(e.action)

\* Fault variant of EnvOf: LOCKED is not written.
EnvOfNoLocked(c) ==
    (<<-1, "DEFAULT">> :> Dec(c.default)) @@ (<<-1, "TIMEOUT">> :> Dec(c.timeout))
    @@ (<<-1, "PASSWORD">> :> c.password)
    @@ (<<-1, "BENTRY_COUNT">> :> Dec(Len(c.entries)))
    @@ [n \in {<<i, f>> : i \in 0..(Len(c.entries) - 1), f \in EntryFields \ {"LOCKED"}}
          |-> EnvField(c.entries[n[1] + 1], n[2])]

EnvOf(c) ==
    (<<-1, "DEFAULT">> :> Dec(c.default)) @@ (<<-1, "TIMEOUT">> :> Dec(c.timeout))
    @@ (<<-1, "PASSWORD">> :> c.password)
    @@ (<<-1, "BENTRY_COUNT">> :> Dec(Len(c.entries)))
    @@ [n \in {<<i, f>> : i \in 0..(Len(c.entries) - 1), f \in EntryFields}
          |-> EnvField(c.entries[n[1] + 1], n[2])]

\* userinterface: with no timeout and no user interface it returns an
\* error at once and main exits; otherwise it sets the environment and
\* forks the clients, or with none waits for the timeout.
StartUserInterface ==
    /\ pc = "ui"
    /\ IF config.timeout <= 0 /\ config.uis <= 0
       THEN pc' = "exit" /\ UNCHANGED env
       ELSE /\ env' = EnvOf(config) @@ env
            /\ pc' = IF config.uis > 0 THEN "client" ELSE "timeout"
    /\ UNCHANGED <<depth, firstInactive, bootDefault, config, errmsg, nstmt,
                   client>>

(***************************************************************************)
(* The client: my_toplevel = cfg_new(), then cfg_get_env.  A variable that *)
(* is not set leaves the value as it was; each entry is a cfg_bentry_new   *)
(* filled from the environment and appended by cfg_add_bentry.            *)
(***************************************************************************)
GetStr(n, old) == IF n \in DOMAIN env THEN env[n] ELSE old
GetInt(n, old) == IF n \in DOMAIN env THEN ScanDec(env[n]) ELSE old

ReadEntry(i) ==
    [label  |-> GetStr(<<i, "LABEL">>, NewEntry.label),
     locked |-> GetInt(<<i, "LOCKED">>, NewEntry.locked),
     action |-> GetInt(<<i, "ACTION">>, NewEntry.action),
     pause  |-> GetStr(<<i, "PAUSE">>, NewEntry.pause)]

ClientGetEnv ==
    /\ pc = "client"
    /\ LET count == GetInt(<<-1, "BENTRY_COUNT">>, 0) IN
         client' = [default  |-> GetInt(<<-1, "DEFAULT">>, BlankConfig.default),
                    timeout  |-> GetInt(<<-1, "TIMEOUT">>, BlankConfig.timeout),
                    password |-> GetStr(<<-1, "PASSWORD">>, BlankConfig.password),
                    uis      |-> BlankConfig.uis,
                    entries  |-> [i \in 1..count |-> ReadEntry(i - 1)]]
    /\ pc' = "menu"
    /\ UNCHANGED <<depth, firstInactive, bootDefault, config, errmsg, nstmt, env>>

Next ==
    \/ OpenConfig
    \/ EnterSystem \/ ExitSystem \/ AddBootEntry \/ AddUserInterface
    \/ SetDefault \/ SetTimeout \/ SetPassword
    \/ ParseEnd \/ ParseError \/ ResolveDefault
    \/ StartUserInterface \/ ClientGetEnv

Spec == Init /\ [][Next]_vars

-----------------------------------------------------------------------------
\* parse_sysload keeps the promise of SystemNesting: a boot entry is in the
\* configuration exactly when every enclosing 'system' section's test held,
\* which parser_enter_system and parser_exit_system encode in two counters;
\* every error leaves the blank configuration.
Nesting == INSTANCE SystemNesting WITH
    phase   <- IF pc \in {"open", "parse"} THEN "parse"
               ELSE IF errmsg THEN "failed" ELSE "parsed",
    eff     <- IF pc = "parse" THEN [i \in 1..depth |-> i < firstInactive]
               ELSE <<>>,
    entries <- config.entries

NestingRefined == Nesting!Spec

\* Whenever the default entry can be used, by the timeout of userinterface
\* or by a client marking and choosing it, config.boot_default indexes a
\* boot entry: parse_sysload's resolution, its error path and the check of
\* userinterface together leave no other case.
DefaultUsable ==
    pc \in {"client", "menu", "timeout"} =>
        config.default \in 0..(Len(config.entries) - 1)

\* The client's configuration, read back from the environment by
\* cfg_get_env, is sysload's: same default, timeout, password and entries
\* with their labels, locks, pause messages and actions (the user
\* interface list is not passed on).
ClientSeesConfig ==
    pc = "menu" => client = [config EXCEPT !.uis = 0]

\* main says it continues with a blank configuration after an error in the
\* configuration file; sysload does not then exit.
ContinuesAfterConfigError == errmsg => pc # "exit"

=============================================================================
