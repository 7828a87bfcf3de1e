------------------------------ MODULE MCTools ------------------------------
(***************************************************************************)
(* Small systems and command lines for the programs of Tools.              *)
(***************************************************************************)
EXTENDS Tools

Opt(name) == <<name, None>>
Dep(name, mod, version) == [name |-> name, mod |-> mod, version |-> version]
Provision(name, version) == [name |-> name, version |-> version]
SeqsUpTo(n, S) == UNION {[1..k -> S] : k \in 0..n}

-----------------------------------------------------------------------------
\* pacsift: words are found in themselves and in longer ones.
MCFound == {<<"ab", "ab">>, <<"ab", "abc">>, <<"g", "g">>, <<"g", "G">>, <<"usr/ab", "usr/ab">>}
MCSameLetters == {<<"ab", "AB">>}

SiftPkg(spec, name, words, isize, depends) ==
    [spec |-> spec, name |-> name, version |-> 1, provides |-> {Provision("v", 0)},
     words |-> words @@ [f \in ToSet(WordFields) |-> IF f = "name" THEN {name} ELSE {}],
     numbers |-> [f \in ToSet(SizeFields \o DateFields) |-> isize],
     depend |-> [f \in ToSet(DependFields) |-> IF f = "depends" THEN depends ELSE {}]]

p1 == SiftPkg(<<"local", "ab">>, "ab", [group |-> {"g"}], 1, {AnyVersion("v")})
p2 == SiftPkg(<<"local", "AB">>, "AB", [ownsfile |-> {"usr/ab"}], 1024, {Dep("v", ">=", 1)})
p3 == SiftPkg(<<"core", "abc">>, "abc", [group |-> {"G", "g"}], 2, {})
p4 == SiftPkg(<<"file", "/c/x">>, "x", [group |-> {}], 3, {})

SiftSys == [local |-> <<p1, p2>>, sync |-> <<[name |-> "core", pkgs |-> <<p3>>]>>,
            cache |-> <<p4>>, stdin |-> None, rooted |-> [x \in {"/usr/ab"} |-> "usr/ab"]]
SiftPiped == [SiftSys EXCEPT !.stdin = <<<<"core", "abc">>, <<"local", "ab">>, <<"local", "ab">>,
                                        <<"extra", "x">>, <<"file", "/c/x">>>>]

Kilo == [i |-> FALSE, power |-> 1, bits |-> FALSE]
KiBit == [i |-> TRUE, power |-> 1, bits |-> TRUE]
SiftTerms == {<<"name", "ab">>, <<"name", "(">>, <<"group", "g">>, <<"ownsfile", "/usr/ab">>,
              <<"isize", [cmp |-> ">=", number |-> 1, unit |-> Kilo]>>,
              <<"size", [cmp |-> "<", number |-> 1, unit |-> None]>>,
              <<"dsize", [cmp |-> "!=", number |-> 16, unit |-> KiBit]>>,
              <<"isize", [cmp |-> "=", number |-> None, unit |-> None]>>,
              <<"builddate", [cmp |-> ">", number |-> 1, unit |-> None]>>,
              <<"depends", AnyVersion("v")>>, <<"depends", AnyVersion(None)>>, <<"satisfies", AnyVersion("v")>>,
              <<"satisfies", Dep("v", "<", 1)>>}
PairedTerms == {<<"name", "ab">>, <<"name", "(">>, <<"group", "g">>, <<"ownsfile", "/usr/ab">>,
                <<"isize", [cmp |-> ">=", number |-> 1, unit |-> Kilo]>>,
                <<"depends", AnyVersion("v")>>, <<"satisfies", Dep("v", "<", 1)>>}
SiftFlags == {"local", "sync", "cache", "invert", "any", "exact", "regex", "exists", "not_exists"}

FlagLists == {<< >>} \cup {<<Opt(f)>> : f \in SiftFlags}
             \cup {<<Opt("any"), Opt(f)>> : f \in SiftFlags}
             \cup {<<Opt("exact"), Opt(f)>> : f \in SiftFlags}

\* Each flag with each term, and pairs of terms with those that change how they combine.
MCSiftRuns ==
    [argv : {f \o t : f \in FlagLists, t \in SeqsUpTo(1, SiftTerms)}, sys : {SiftSys, SiftPiped}]
    \cup [argv : {f \o t : f \in {<< >>, <<Opt("any")>>, <<Opt("invert"), Opt("exists")>>},
                          t \in SeqsUpTo(2, PairedTerms)},
          sys : {SiftSys, SiftPiped}]

-----------------------------------------------------------------------------
\* pacreport: three packages with any dependencies between them, and a few larger ones.
ReportPkg(name, reason, depends, optdepends, provides) ==
    [name |-> name, version |-> 1, provides |-> provides, depends |-> depends,
     optdepends |-> optdepends, reason |-> reason, isize |-> 1, groups |-> {},
     files |-> << >>, dirs |-> {}, backup |-> << >>]

AnyOf(names) == LET s == SetToSeq(names) IN [i \in DOMAIN s |-> AnyVersion(s[i])]
Trio == {"a", "b", "c"}
Without(n) == SUBSET (Trio \ {n})
TrioDbs ==
    {<<[ReportPkg("a", ra, AnyOf(da), << >>, {}) EXCEPT !.isize = 1],
       [ReportPkg("b", rb, AnyOf(db), << >>, {}) EXCEPT !.isize = 2],
       [ReportPkg("c", rc, AnyOf(dc), << >>, {}) EXCEPT !.isize = 4]>> :
       ra \in {"explicit", "depend"}, rb \in {"explicit", "depend"}, rc \in {"explicit", "depend"},
       da \in Without("a"), db \in Without("b"), dc \in Without("c")}

\* What several packages provide; a provision without a version; an optional cycle.
Choice ==
    <<ReportPkg("a", "explicit", <<AnyVersion("v"), AnyVersion("b")>>, <<AnyVersion("c")>>, {}),
      ReportPkg("b", "depend", << >>, <<AnyVersion("d")>>, {Provision("v", 2)}),
      ReportPkg("c", "depend", <<Dep("v", "<=", 1)>>, << >>, {}),
      ReportPkg("d", "depend", << >>, <<AnyVersion("b")>>, {Provision("v", 0)})>>

NoFs == [x \in {<< >>, <<"etc">>} |->
           [dir |-> TRUE, stat |-> TRUE, readable |-> TRUE, backup |-> FALSE]]
PlainSys(db) ==
    [local |-> db, sync |-> << >>, fs |-> NoFs, saved |-> << >>, conf |-> << >>, caches |-> << >>]

Dir == [dir |-> TRUE, stat |-> TRUE, readable |-> TRUE, backup |-> FALSE]
File == [Dir EXCEPT !.dir = FALSE]
Saved == [File EXCEPT !.backup = TRUE]
ScanFs(etc, unowned) ==
    [x \in {<< >>} |-> Dir] @@ [x \in {<<"etc">>} |-> etc] @@ [x \in {<<"usr">>} |-> Dir]
    @@ [x \in {<<"tmp">>} |-> Dir] @@ [x \in {<<"tmp", "f">>} |-> File]
    @@ [x \in {<<"etc", "x">>} |-> File] @@ [x \in {<<"etc", "x.pacnew">>} |-> Saved]
    @@ [x \in {<<"usr", "d">>} |-> unowned]
    @@ [x \in IF unowned.dir THEN {<<"usr", "d", "f">>} ELSE {} |-> File]
    @@ [x \in IF unowned.dir THEN {<<"usr", "d", "y.pacsave">>} ELSE {} |-> Saved]
    @@ [x \in {<<"usr", "z">>} |-> File] @@ [x \in {<<"usr", "z.pacorig">>} |-> Saved]

ScanDb ==
    <<[Choice[1] EXCEPT !.files = <<<<"etc">>, <<"etc", "x">>, <<"usr">>, <<"usr", "z">>,
                                    <<"usr", "gone">>, <<"etc", "x", "no">>>>,
                        !.dirs = {<<"etc">>, <<"usr">>},
                        !.backup = <<<<"etc", "x">>, <<"usr", "z">>>>],
      [Choice[3] EXCEPT !.files = <<<<"usr", "z.pacorig">>>>, !.dirs = {<<"usr", "z.pacorig">>}]>>
ScanSys(etc, unowned, conf) ==
    [local |-> ScanDb,
     sync |-> <<[name |-> "core", pkgs |-> <<[Choice[1] EXCEPT !.groups = {"g"}],
                                             [Choice[4] EXCEPT !.groups = {"g"}]>>],
                [name |-> "extra", pkgs |-> <<[Choice[4] EXCEPT !.groups = {"g"}, !.version = 2]>>]>>,
     fs |-> ScanFs(etc, unowned),
     saved |-> [x \in {<<"usr", "z">>} |-> <<<<"usr", "z.pacnew">>, <<"usr", "z.pacorig">>>>],
     conf |-> conf,
     caches |-> <<<<[name |-> "a", version |-> 1, size |-> 1], [name |-> "a", version |-> 2, size |-> 2],
                    [name |-> None, version |-> 0, size |-> 4]>>, << >>>>]

Ignore(section, key, value) == [section |-> section, key |-> key, value |-> value]
Confs == {<< >>, <<Ignore("Options", "IgnoreUnowned", {<<"usr", "z.pacorig">>})>>,
          <<Ignore("PkgIgnoreUnowned", "a", {<<"usr", "d">>}),
            Ignore("PkgIgnoreUnowned", "q", {<<"etc", "x.pacnew">>})>>,
          <<Ignore("Options", "IgnoreUnowned", None)>>}
Unreadable1 == [Dir EXCEPT !.readable = FALSE]
NoStat == [Dir EXCEPT !.stat = FALSE]

MCSkips == {<<"tmp">>}
MCReportRuns ==
    [argv : {<< >>}, sys : {PlainSys(db) : db \in TrioDbs}]
    \cup [argv : {<< >>, <<Opt("optional_deps")>>, <<Opt("optional_deps"), Opt("optional_for")>>}, sys : {PlainSys(Choice)}]
    \cup [argv : {<<Opt("backups")>>, <<Opt("backups"), Opt("backups")>>, <<Opt("unowned_files")>>,
                  <<Opt("unowned_files"), Opt("backups"), <<"group", "g">>, Opt("missing_files")>>},
          sys : {ScanSys(etc, unowned, conf) : etc \in {Dir, Unreadable1},
                   unowned \in {Dir, NoStat, File}, conf \in Confs}]

-----------------------------------------------------------------------------
\* paccheck: dependencies, and one package whose files may differ from its mtree.
CheckPkg(name, depends, optdepends, files, mtree) ==
    [name |-> name, version |-> 1, provides |-> {}, depends |-> depends,
     optdepends |-> optdepends, files |-> files, mtree |-> mtree, backup |-> {<<"etc", "b">>}]

Chain == <<CheckPkg("a", <<AnyVersion("b"), AnyVersion("gone")>>, << >>, << >>, None),
           CheckPkg("b", <<AnyVersion("c"), AnyVersion("a")>>, << >>, << >>, None),
           CheckPkg("c", << >>, <<AnyVersion("d")>>, << >>, None),
           CheckPkg("d", <<AnyVersion("c")>>, <<AnyVersion("none")>>, << >>, None)>>
ChainSys(stdin) ==
    [local |-> Chain, stdin |-> stdin, fs |-> << >>, noextract |-> {}, noupgrade |-> {}]

Digest == [md5 |-> "m", sha256 |-> <<"s1", "s2">>]
OnDisk == [stat |-> TRUE, readable |-> TRUE, type |-> "file", mode |-> 1, uid |-> 1, gid |-> 1,
           mtime |-> 1, size |-> 1, target |-> None] @@ Digest
OtherLink == [OnDisk EXCEPT !.type = "link", !.target = "t"]
Spoiled == {OnDisk, [OnDisk EXCEPT !.stat = FALSE], [OnDisk EXCEPT !.readable = FALSE],
            [OnDisk EXCEPT !.type = "directory"], OtherLink,
            [OnDisk EXCEPT !.mode = 2], [OnDisk EXCEPT !.uid = 2], [OnDisk EXCEPT !.gid = 2],
            [OnDisk EXCEPT !.mtime = 2], [OnDisk EXCEPT !.size = 2], [OnDisk EXCEPT !.md5 = "n"],
            [OnDisk EXCEPT !.sha256 = <<"s1", "x">>], [OnDisk EXCEPT !.sha256 = <<"x", "s2">>]}

Says(path, rest) == [kind |-> "entry", says |-> [path |-> path] @@ rest]
MCMtree(type, complete) ==
    [complete |-> complete,
     lines |-> <<[kind |-> "comment", says |-> << >>],
                 [kind |-> "set", says |-> [type |-> type, uid |-> 1, gid |-> 1, mode |-> 1]],
                 Says(<<".PKGINFO">>, [mtime |-> 9]),
                 Says(<<".INSTALL">>, [mtime |-> 1, size |-> 1, type |-> "file"]),
                 Says(<<"etc", "b">>, [mtime |-> 1, size |-> 1, target |-> "u"] @@ Digest)>>]

CheckSys(f, type, complete, db) ==
    [local |-> <<CheckPkg("a", << >>, << >>, <<[path |-> <<"etc", "b">>, dir |-> FALSE]>>,
                          MCMtree(type, complete)),
                 CheckPkg("b", << >>, << >>, << >>, None)>>,
     stdin |-> << >>, noextract |-> {<<"usr", "x">>}, noupgrade |-> {<<"usr", "y">>},
     fs |-> [x \in {<<"etc", "b">>} |-> f]
            @@ [x \in {<<"local", "a", d>> : d \in db} |-> OnDisk]]
Installed == {"install", "desc", "files", "mtree"}
DbStates == {Installed, {"install", "desc"}}

CheckFlags == {"depends", "opt_depends", "files", "file_properties", "md5sum", "sha256sum"}
MCCheckRuns ==
    [argv : {c \o t : c \in {<< >>, <<Opt("recursive")>>, <<Opt("list_broken"), Opt("recursive")>>,
                             <<Opt("opt_depends"), Opt("recursive")>>},
                      t \in SeqsUpTo(2, {<<"target", n>> : n \in {"a", "c", "d", "x"}})},
     sys : {ChainSys(<< >>), ChainSys(<<"b">>)}]
    \cup [argv : {<<Opt(c), Opt(x), Opt("db_files")>> :
                    c \in CheckFlags, x \in {"backup", "require_mtree", "list_broken"}},
          sys : {CheckSys(f, "file", TRUE, Installed) : f \in Spoiled}
                \cup {CheckSys(f, type, complete, db) : f \in {OnDisk, OtherLink},
                         type \in {"file", "link"}, complete \in BOOLEAN, db \in DbStates}]
    \cup [argv : {<<Opt("file_properties"), Opt("md5sum"), Opt(x)>> : x \in {"noextract", "noupgrade", "backup"}},
          sys : {[CheckSys(f, "file", TRUE, {"install"}) EXCEPT !.noextract = ne, !.noupgrade = nu] :
                   f \in {OnDisk, [OnDisk EXCEPT !.mode = 2], [OnDisk EXCEPT !.size = 2, !.md5 = "n"]},
                   ne \in {{}, {<<"etc", "b">>}}, nu \in {{}, {<<"etc", "b">>}}}]

-----------------------------------------------------------------------------
\* pacrepairfile: "d", "d-" and "d-/f"; 45 is the hyphen.
FileD == <<100>>
Hyphen == <<100, 45>>
Listings == {<<FileD>>, <<Hyphen \o <<Slash>>, FileD \o <<Slash>>>>,
             <<Hyphen \o <<Slash>>, Hyphen \o <<Slash, 102>>, FileD \o <<Slash>>>>}
Mode(perm, setid) == [perm |-> perm, setid |-> setid]
RepairEntry(path) ==
    [kind |-> "entry", says |-> [path |-> path, uid |-> 1, gid |-> 1, mode |-> Mode(1, TRUE), mtime |-> 1]]
RepairPkg(name, files, mtree) == [name |-> name, files |-> files, mtree |-> mtree]

RepairSys(files, type, target, eof) ==
    [local |-> <<RepairPkg("n", <<FileD>>, None),
                 RepairPkg("p", files, [complete |-> TRUE, lines |-> <<RepairEntry(FileD)>>])>>,
     stdin |-> << >>, eof |-> eof,
     real |-> [x \in {"d"} |-> target],
     fs |-> [x \in {FileD} |-> [type |-> type, uid |-> 2, gid |-> 2, mode |-> Mode(2, TRUE), mtime |-> 2]]]
Real == [resolves |-> TRUE, inside |-> TRUE, writable |-> TRUE, path |-> FileD]
Targets == {Real, [Real EXCEPT !.resolves = FALSE], [Real EXCEPT !.inside = FALSE],
            [Real EXCEPT !.writable = FALSE]}

MCRepairRuns ==
    [argv : {<<Opt(a), Opt(b), Opt(c)>> \o p \o <<<<"target", "d">>>> :
               a \in {"uid", "mode"}, b \in {"gid", "mode"}, c \in {"mtime", "quiet", "uid"},
               p \in {<< >>, <<<<"package", "p">>, <<"package", "x">>>>, <<<<"package", "x">>>>}},
     sys : {RepairSys(files, type, target, eof) : files \in Listings,
              type \in {"file", "directory", "link"}, target \in Targets, eof \in BOOLEAN}]

-----------------------------------------------------------------------------
\* pacsync: two databases, the size of one of them unknown.
MCSyncRuns ==
    [argv : {<< >>, <<<<"repo", "core">>, <<"repo", "core">>>>, <<Opt("updated"), <<"repo", "core">>>>,
             <<Opt("updated"), <<"repo", "none">>>>, <<Opt("force"), <<"repo", "extra">>>>},
     sys : [dbs : {<< >>, <<"core", "extra">>}, optional : {{"extra"}}, sized : {{"core"}},
            resumes : BOOLEAN]]
=============================================================================
