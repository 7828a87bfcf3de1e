---------------------------- MODULE MCOptionLoop ----------------------------
EXTENDS OptionLoop

MCProgramNames == {"pactrans", "pacinstall", "pacremove"}

Bare == {"install", "remove", "file", "spec", "as_deps", "as_explicit", "no_deps",
         "recursive", "dbonly", "download_only", "print_only", "yolo",
         "sysupgrade"}

MCArguments ==
    {<<b, "">> : b \in Bare} \cup
    {<<"target", "a">>, <<"target", "b">>,
     <<"resolve_conflicts", "prompt">>, <<"resolve_replacements", "some">>,
     <<"resolve_replacements", "none">>,
     <<"import_pgp_keys", "no">>, <<"import_pgp_keys", "prompt">>}
=============================================================================
