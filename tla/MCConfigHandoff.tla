--------------------------- MODULE MCConfigHandoff ---------------------------
EXTENDS ConfigHandoff

Entry(l, k, a, p) == [label |-> l, locked |-> k, action |-> a, pause |-> p]

\* An unlabelled kernel entry, a locked reboot entry labelled "a" with a
\* pause message, and a kernel entry whose label is the digit "1".
MCEntryChoices ==
    { Entry(<<>>, 0, 0, <<>>),
      Entry(<<"a">>, 1, 3, <<"p">>),
      Entry(<<"1">>, 0, 0, <<"p">>) }

\* Indexes in and past the list, labels present and absent, and the empty
\* string.
MCDefaultTokens == {<<"0">>, <<"1">>, <<"2">>, <<"a">>, <<"b">>, <<>>}

\* A negative timeout (no timeout) and a positive one.
MCTimeouts == {-1, 5}
MCPasswords == {<<"s">>}
=============================================================================
