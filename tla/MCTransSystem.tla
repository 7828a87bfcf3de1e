---------------------------- MODULE MCTransSystem ----------------------------
(***************************************************************************)
(* Small instances of TransSystem: package "a" is installed, perhaps with  *)
(* its description lost; "b" may be, and is not in the cache.              *)
(***************************************************************************)
EXTENDS TransSystem

MCNames == {"a", "b"}
MCVersions == {1, 2}
MCRepos == <<"core", "extra">>
MCSyncDb == [core |-> [a |-> 2], extra |-> [a |-> 1, b |-> 1]]
MCPkgFiles == [a |-> 1]

MCLocalDbs ==
    {[a |-> [ver |-> 1, desc |-> "missing"], b |-> None],
     [a |-> [ver |-> 1, desc |-> "ok"], b |-> [ver |-> 1, desc |-> "ok"]]}

T(repo, name) == <<"target", [repo |-> repo, name |-> name]>>

MCArgvs ==
    {<<"pactrans", <<T("local", "a"), T("extra", "b")>>>>,
     <<"pacinstall", <<T(None, "b"), <<"resolve_conflicts", "provided_depends">>>>>>,
     <<"pactrans", <<<<"sysupgrade", "">>, <<"dbsync", "">>, <<"no_confirm", "">>>>>>,
     <<"pacremove", <<T(None, "a"), <<"print_only", "">>, <<"yolo", "">>,
                      <<"cascade", "">>>>>>,
     <<"pactrans", <<<<"install", "">>, T(None, "a"), <<"download_only", "">>>>>>,
     <<"pactrans", <<<<"as_deps", "">>, <<"as_explicit", "">>>>>>}

\* For the liveness run: questions and prompts, a refresh, an unlocked run.
LiveArgvs ==
    {<<"pacinstall", <<T(None, "b"), <<"dbsync", "">>>>>>,
     <<"pacremove", <<T(None, "a"), <<"print_only", "">>>>>>}
LiveDbs == {[a |-> [ver |-> 1, desc |-> "missing"], b |-> None]}

MCPiped == {<< >>, <<[repo |-> "extra", name |-> "b"]>>,
            <<[repo |-> "core", name |-> "b"]>>}

R(name, prefixed) == [name |-> name, prefixed |-> prefixed]
RepairArg(ts, po, nc) == [targets |-> ts, printonly |-> po, noconfirm |-> nc]
MCRepairArgs ==
    {RepairArg(<< >>, FALSE, FALSE), RepairArg(<<R("a", FALSE)>>, FALSE, TRUE),
     RepairArg(<<R("a", FALSE)>>, TRUE, TRUE)}
MCRepairPiped == {<<R("a", TRUE)>>, <<R("b", FALSE)>>}

MCCache == {[file |-> 1, name |-> "a", ver |-> 1, arch |-> "x86_64"],
            [file |-> 2, name |-> "a", ver |-> 2, arch |-> "x86_64"],
            [file |-> 3, name |-> "a", ver |-> 1, arch |-> "i686"]}
MCPkgArch == [a |-> "x86_64", b |-> "any"]
MCAllowedArch == {"x86_64"}
=============================================================================
