------------------------------- MODULE MCClScp -------------------------------
EXTENDS ClScp

\* comp_load starts the module as execl(module, module, dest, uri): the
\* local destination first, the source URI second.
MCCompLoadArgv == <<"path", "url">>
=============================================================================
