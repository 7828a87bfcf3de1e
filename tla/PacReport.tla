------------------------------ MODULE PacReport ------------------------------
(***************************************************************************)
(* pacreport: unowned files and backups found in the file system, packages *)
(* nothing needs with the size of what only they need, packages of no      *)
(* repository, missing packages of groups, missing files, cache sizes.     *)
(*                                                                         *)
(* A path is the sequence of its names.  sys.fs says what is at a path:    *)
(* whether it is a directory, can be read (opendir, lstat), and has the    *)
(* ending of a backup.  A pattern is the set of the paths it matches.      *)
(***************************************************************************)
EXTENDS ToolState, Depends

CONSTANT Skips      \* the directories _scan_filesystem leaves out

ReportOptions ==
    [set |-> [optional_deps |-> <<"optionalDeps", TRUE>>,
              optional_for |-> <<"showFor", TRUE>>],
     count |-> [backups |-> "backups", unowned_files |-> "orphans",
                missing_files |-> "missing"],
     assign |-> NoOptions, add |-> [group |-> "groups"]]

ReportDefaults ==
    [optionalDeps |-> FALSE, showFor |-> FALSE, backups |-> 0, orphans |-> 0,
     missing |-> 0, groups |-> << >>]

ReportParsed == Parse(ReportOptions, ReportDefaults)

\* getopt_long sets the flag of --optional-for itself and returns 0, a case the switch of
\* parse_opts does not have: the default prints the usage and exits.
ReportSetup ==
    /\ tool = "pacreport"
    /\ IF ReportParsed.showFor
       THEN pc = "start" /\ Exit(2) /\ UNCHANGED <<todo, acc, out>> /\ Stays
       ELSE Setup("pacreport", ReportParsed, "conf", {0, 1})

-----------------------------------------------------------------------------
\* parse_config: pacreport.conf is a list of keys with values in sections.
IgnoresUnowned(e, path) ==
    /\ path \in e.value
    /\ CASE e.section = "Options" -> e.key = "IgnoreUnowned"
         [] e.section = "PkgIgnoreUnowned" -> \E p \in ToSet(sys.local) : p.name = e.key
         [] OTHER -> FALSE

ShouldIgnore(path) == \E e \in ToSet(sys.conf) : IgnoresUnowned(e, path)

\* The name of a directory ends in a slash, in a file list and in the search: a file where
\* a package has a directory is unowned, and the other way round.
Owns(p, path) == path \in ToSet(p.files) /\ (path \in p.dirs <=> sys.fs[path].dir)

Unowned(path) == \A p \in ToSet(sys.local) : ~Owns(p, path)

\* The backups of the files that are not in etc.
FoundFor(path) ==
    IF path[1] = "etc" THEN << >> ELSE Select(sys.saved[path], DOMAIN sys.fs)

FoundBackups ==
    FlattenSeq([i \in DOMAIN sys.local |->
      FlattenSeq([j \in DOMAIN sys.local[i].backup |-> FoundFor(sys.local[i].backup[j])])])

\* readdir; the children are scanned with or without looking for unowned files.
ScanEntries(dir, orphans) ==
    LET paths == {q \in DOMAIN sys.fs : q # << >> /\ Front(q) = dir}
        order == SetToSeq(IF sys.fs[dir].readable THEN paths ELSE {})
    IN  [i \in DOMAIN order |-> [path |-> order[i], orphans |-> orphans]]

\* The file cannot be read, or has a key without a value; then what there is to report.
ReportConf ==
    /\ At("pacreport", "conf")
    /\ \/ Exit(-1) /\ UNCHANGED <<todo, acc>>
       \/ /\ \A e \in ToSet(sys.conf) : e.value # None
          /\ IF o.backups = 0 /\ o.orphans = 0
             THEN Goto("leaves") /\ UNCHANGED <<todo, acc>>
             ELSE LET whole == o.backups > 1 \/ o.orphans > 0 IN
                  /\ todo' = ScanEntries(IF whole THEN << >> ELSE <<"etc">>, o.orphans > 0)
                  /\ acc' = [orphans |-> << >>,
                             backups |-> IF whole THEN << >> ELSE FoundBackups]
                  /\ Goto("scan")
          /\ UNCHANGED ret
    /\ Stays /\ UNCHANGED out

\* Mutant: unowned files are looked for in an unowned directory.
DescendAll(e, orphan) ==
    IF ~sys.fs[e.path].dir \/ (orphan /\ o.backups = 0) THEN << >>
    ELSE ScanEntries(e.path, e.orphans)

\* The loop of _scan_filesystem, todo is its stack.  In an unowned directory only backups
\* are looked for.
Descend(e, orphan) ==
    IF ~sys.fs[e.path].dir \/ (orphan /\ o.backups = 0) THEN << >>
    ELSE ScanEntries(e.path, e.orphans /\ ~orphan)

Scan ==
    /\ At("pacreport", "scan") /\ todo # << >>
    /\ LET e == Head(todo)
           f == sys.fs[e.path]
           orphan == e.orphans /\ Unowned(e.path)
       IN  IF e.path \in Skips \/ ShouldIgnore(e.path) \/ ~f.stat
           THEN todo' = Tail(todo) /\ UNCHANGED acc
           ELSE /\ todo' = Descend(e, orphan) \o Tail(todo)
                /\ acc' = [orphans |-> IF orphan THEN Append(acc.orphans, e.path)
                                       ELSE acc.orphans,
                           backups |-> IF ~f.dir /\ o.backups > 0 /\ f.backup
                                       THEN Append(acc.backups, e.path) ELSE acc.backups]
    /\ Stays /\ UNCHANGED <<pc, out, ret>>

Scanned ==
    /\ At("pacreport", "scan") /\ todo = << >>
    /\ out' = (IF o.orphans > 0 THEN <<[heading |-> "unowned", paths |-> acc.orphans]>>
               ELSE << >>)
              \o (IF o.backups > 0 THEN <<[heading |-> "backups", paths |-> acc.backups]>>
                  ELSE << >>)
    /\ Goto("leaves")
    /\ Stays /\ UNCHANGED <<todo, acc, ret>>

-----------------------------------------------------------------------------
\* print_unneeded_packages: the packages nothing requires, and what they lead to.
Needing(p, opt) ==
    RequiredBy(p, sys.local) \cup (IF opt THEN OptionalFor(p, sys.local) ELSE {})

IsLeaf(p) == Needing(p, o.optionalDeps) = {}
LeavesOf(reason) ==
    Select(sys.local, {p \in ToSet(sys.local) :
                         IsLeaf(p) /\ (p.reason = "explicit" <=> reason = "explicit")})

PuDependsOn(p, on) == DependsOn(p, on) \/ (o.optionalDeps /\ OptdependsOn(p, on))

FindLeaves ==
    /\ At("pacreport", "leaves")
    /\ todo' = LeavesOf("explicit") \o LeavesOf("depend")
    /\ acc' = [disconnected |-> sys.local]
    /\ Goto("connect")
    /\ Stays /\ UNCHANGED <<out, ret>>

\* Mutant: what a package leads to is not followed.
ConnectDirect ==
    /\ At("pacreport", "connect") /\ todo # << >>
    /\ LET p == Head(todo) IN
       /\ todo' = Tail(todo)
       /\ acc' = [disconnected |->
                    SelectSeq(acc.disconnected, LAMBDA l : l # p /\ ~PuDependsOn(p, l))]
    /\ Stays /\ UNCHANGED <<pc, out, ret>>

\* Mutant: what was reached before is followed again.
ConnectAgain ==
    /\ At("pacreport", "connect") /\ todo # << >>
    /\ LET p == Head(todo) IN
       /\ todo' = Tail(todo) \o SelectSeq(sys.local, LAMBDA l : PuDependsOn(p, l))
       /\ acc' = [disconnected |->
                    SelectSeq(acc.disconnected, LAMBDA l : l # p /\ ~PuDependsOn(p, l))]
    /\ Stays /\ UNCHANGED <<pc, out, ret>>

\* One package of the list connected, which grows at its end.
Connect ==
    /\ At("pacreport", "connect") /\ todo # << >>
    /\ LET p == Head(todo)
           others == ToSet(acc.disconnected) \ {p}
       IN  /\ todo' = Tail(todo) \o Select(acc.disconnected, {l \in others : PuDependsOn(p, l)})
           /\ acc' = [disconnected |->
                        Select(acc.disconnected, {l \in others : ~PuDependsOn(p, l)})]
    /\ Stays /\ UNCHANGED <<pc, out, ret>>

\* alpm_find_group_pkgs: of packages with the same name the first.
GroupPkgs(group) ==
    LET all == FlattenSeq([i \in DOMAIN sys.sync |-> sys.sync[i].pkgs])
        sameName == {pq \in ToSet(all) \X ToSet(all) : pq[1].name = pq[2].name}
    IN  Firsts(Select(all, {p \in ToSet(all) : group \in p.groups}), sameName)

AnyVersion(name) == [name |-> name, mod |-> "any", version |-> 0]

GroupMissing ==
    LET all == FlattenSeq([i \in DOMAIN o.groups |-> GroupPkgs(o.groups[i])])
    IN  Unique(Select(all, {p \in ToSet(all) : ~HasSatisfier(sys.local, AnyVersion(p.name))}))

Foreign ==
    Select(sys.local, {p \in ToSet(sys.local) :
      \A db \in ToSet(sys.sync) : \A q \in ToSet(db.pkgs) : q.name # p.name})

Listed(heading, pkgs) == [i \in DOMAIN pkgs |-> [heading |-> heading, pkg |-> pkgs[i]]]

\* What print_pkglist is called with, one list after the other.
Connected ==
    /\ At("pacreport", "connect") /\ todo = << >>
    /\ acc' = [queue |-> Listed("explicit", LeavesOf("explicit"))
                         \o Listed("depend", LeavesOf("depend"))
                         \o Listed("cycle", acc.disconnected)
                         \o Listed("foreign", Foreign) \o Listed("group", GroupMissing),
               chain |-> << >>, at |-> 0, size |-> 0]
    /\ Goto("print")
    /\ Stays /\ UNCHANGED <<todo, out, ret>>

-----------------------------------------------------------------------------
\* get_pkg_chain_size for the first package of the queue.  The chain is the list depchain,
\* acc.at the member whose dependencies todo still has.
DepsOf(p) == p.depends \o (IF o.optionalDeps THEN p.optdepends ELSE << >>)

ChainStart ==
    /\ At("pacreport", "print") /\ acc.queue # << >>
    /\ LET p == Head(acc.queue).pkg IN
       /\ acc' = [queue |-> acc.queue, chain |-> <<p>>, at |-> 1, size |-> p.isize]
       /\ todo' = DepsOf(p)
    /\ Goto("chain")
    /\ Stays /\ UNCHANGED <<out, ret>>

\* Mutant: what the system needs it for is not asked.
JoinsAnyway(s, chain) == s.reason # "explicit" /\ s \notin ToSet(chain)

\* The package that satisfies a dependency joins the chain if it was not asked for and
\* nothing outside of the chain needs it.
Joins(s, chain) ==
    /\ s.reason # "explicit"
    /\ s \notin ToSet(chain)
    /\ Needing(s, o.optionalDeps) \subseteq ToSet(chain)

Extended(chain, dep) ==
    IF HasSatisfier(sys.local, dep) /\ Joins(FindSatisfier(sys.local, dep), chain)
    THEN Append(chain, FindSatisfier(sys.local, dep)) ELSE chain

ChainDep ==
    /\ At("pacreport", "chain") /\ todo # << >>
    /\ acc' = [queue |-> acc.queue, chain |-> Extended(acc.chain, Head(todo)),
               at |-> acc.at, size |-> acc.size]
    /\ todo' = Tail(todo)
    /\ Stays /\ UNCHANGED <<pc, out, ret>>

ChainNext ==
    /\ At("pacreport", "chain") /\ todo = << >> /\ acc.at < Len(acc.chain)
    /\ LET p == acc.chain[acc.at + 1] IN
       /\ acc' = [queue |-> acc.queue, chain |-> acc.chain, at |-> acc.at + 1,
                  size |-> acc.size + p.isize]
       /\ todo' = DepsOf(p)
    /\ Stays /\ UNCHANGED <<pc, out, ret>>

\* print_pkg_info: the star for a package another one names as optional.
ChainEnd ==
    /\ At("pacreport", "chain") /\ todo = << >> /\ acc.at = Len(acc.chain)
    /\ LET p == Head(acc.queue).pkg
           for == FindOptionalFor(p, sys.local)
       IN  out' = Append(out, [heading |-> Head(acc.queue).heading, name |-> p.name,
                               size |-> acc.size, star |-> for # << >>,
                               for |-> IF o.showFor THEN {q.name : q \in ToSet(for)} ELSE {}])
    /\ acc' = [queue |-> Tail(acc.queue), chain |-> acc.chain, at |-> acc.at,
               size |-> acc.size]
    /\ Goto("print")
    /\ Stays /\ UNCHANGED <<todo, ret>>

-----------------------------------------------------------------------------
\* lstat fails with ENOENT: what is on the way to the path are directories.
IsMissing(path) ==
    /\ path \notin DOMAIN sys.fs
    /\ \A n \in 1..(Len(path) - 1) :
         SubSeq(path, 1, n) \in DOMAIN sys.fs => sys.fs[SubSeq(path, 1, n)].dir

MissingFiles ==
    FlattenSeq([i \in DOMAIN sys.local |->
      LET absent == SelectSeq(sys.local[i].files, IsMissing)
      IN  [j \in DOMAIN absent |-> <<sys.local[i].name, absent[j]>>]])

\* The file of a package in the cache, by the name and the version in its own name.
CacheInstalled(f) == \E p \in ToSet(sys.local) : p.name = f.name /\ p.version = f.version

CacheSize(files) ==
    LET sum(s) == FoldLeft(LAMBDA a, f : a + f.size, 0, s)
    IN  [bytes |-> sum(files), rest |-> sum(SelectSeq(files, LAMBDA f : ~CacheInstalled(f)))]

ReportEnd ==
    /\ At("pacreport", "print") /\ acc.queue = << >>
    /\ out' = out
              \o (IF o.missing > 0 THEN <<[heading |-> "missing", files |-> MissingFiles]>>
                  ELSE << >>)
              \o [i \in DOMAIN sys.caches |->
                    [heading |-> "cache", size |-> CacheSize(sys.caches[i])]]
    /\ Exit(0)
    /\ Stays /\ UNCHANGED <<todo, acc>>

ReportStep ==
    \/ ReportSetup \/ ReportConf \/ Scan \/ Scanned \/ FindLeaves \/ Connect \/ Connected
    \/ ChainStart \/ ChainDep \/ ChainNext \/ ChainEnd \/ ReportEnd

-----------------------------------------------------------------------------
\* Two packages that need each other for nobody else are no leaves, and a third that
\* only they need is not either.  When the list of connected packages has been gone
\* through, what is left needs only what is left ("in a dependency cycle"), and what is not
\* left is exactly what the leaves lead to.  print_unneeded_packages finds leaves with
\* libalpm's notion of a dependency and follows them with that of lib/pacutils.
LeavesAndWhatTheyNeed(S) ==
    /\ \A p \in ToSet(sys.local) : IsLeaf(p) => p \in S
    /\ \A p \in S : \A l \in ToSet(sys.local) : PuDependsOn(p, l) => l \in S

UnneededAreUnreached ==
    At("pacreport", "connect") /\ todo = << >> =>
      LET left == ToSet(acc.disconnected)
          gone == ToSet(sys.local) \ left
      IN  /\ \A p \in left : /\ Needing(p, o.optionalDeps) # {}
                              /\ Needing(p, o.optionalDeps) \subseteq left
          /\ LeavesAndWhatTheyNeed(gone)
          /\ \A S \in SUBSET ToSet(sys.local) : LeavesAndWhatTheyNeed(S) => gone \subseteq S

\* What a package leads to: it is in every set that has, with a package, each local
\* package that satisfies one of its dependencies.
FollowsDeps(S) ==
    \A q \in S : \A d \in ToSet(DepsOf(q)) : \A p \in ToSet(sys.local) : AlpmSatisfies(p, d) => p \in S

Dependencies(pkg) ==
    {p \in ToSet(sys.local) :
       \A S \in SUBSET (ToSet(sys.local) \cup {pkg}) : pkg \in S /\ FollowsDeps(S) => p \in S}

\* Those of its dependencies that only it and each other need, and nobody asked for.
NeededWithin(pkg, S) ==
    \A p \in S : /\ p # pkg /\ p.reason # "explicit"
                 /\ Needing(p, o.optionalDeps) \subseteq S \cup {pkg}

OnlyNeededBy(pkg) == UNION {S \in SUBSET Dependencies(pkg) : NeededWithin(pkg, S)}

\* No dependency in the chain can be satisfied in two ways.
OneWay(chain) ==
    \A i \in DOMAIN chain : \A d \in ToSet(DepsOf(chain[i])) : Len(Satisfiers(sys.local, d)) <= 1

\* The sum of the sizes of the first n.
SizeOf(chain, n) ==
    LET sum[k \in 0..n] == IF k = 0 THEN 0 ELSE sum[k - 1] + chain[k].isize
    IN  sum[n]

\* doc/pacreport.pod:36: "Package sizes include dependencies not needed by other
\* packages."  The size of a package is its own and that of others which only it
\* needs, directly or through each other, each once.  None of these is missed unless
\* it is needed by another one that is: get_pkg_chain_size leaves out the members of a
\* dependency cycle behind the package and what only those need, and nothing else, as
\* long as no dependency can be satisfied in two ways, of which it follows the first.
ChainsAreOwn ==
    At("pacreport", "chain") /\ todo = << >> /\ acc.at = Len(acc.chain) =>
      LET pkg == Head(acc.queue).pkg
          counted == ToSet(acc.chain) \ {pkg}
          missed == OnlyNeededBy(pkg) \ counted
      IN  /\ acc.chain[1] = pkg /\ IsInjective(acc.chain)
          /\ acc.size = SizeOf(acc.chain, Len(acc.chain))
          /\ counted \subseteq OnlyNeededBy(pkg)
          /\ OneWay(acc.chain) =>
               \A p \in missed : Needing(p, o.optionalDeps) \cap missed # {}

\* Where the scan comes: below its base, through directories that can be read, past what
\* is left out or ignored.
InScan(base, path) ==
    /\ path \in DOMAIN sys.fs /\ IsStrictPrefix(base, path)
    /\ \A n \in Len(base)..Len(path) :
         LET q == SubSeq(path, 1, n) IN
         /\ n > Len(base) => q \notin Skips /\ ~ShouldIgnore(q) /\ sys.fs[q].stat
         /\ n < Len(path) => sys.fs[q].dir /\ sys.fs[q].readable

\* Every unowned path of the scan that is not in an unowned directory is reported once,
\* every backup of it once, with those next to files outside of etc.
\* _scan_filesystem gives up looking for one of them in a directory, not for the other.
ScanReportsOnce ==
    At("pacreport", "scan") /\ todo = << >> =>
      LET whole == o.backups > 1 \/ o.orphans > 0
          base == IF whole THEN << >> ELSE <<"etc">>
          scanned == {path \in DOMAIN sys.fs : InScan(base, path)}
          unowned == {path \in scanned :
                        /\ Unowned(path)
                        /\ \A q \in scanned : IsStrictPrefix(q, path) => ~Unowned(q)}
          backups == {path \in scanned : ~sys.fs[path].dir /\ sys.fs[path].backup}
      IN  /\ IsInjective(acc.orphans) /\ IsInjective(acc.backups)
          /\ ToSet(acc.orphans) = (IF o.orphans > 0 THEN unowned ELSE {})
          /\ ToSet(acc.backups) = (IF o.backups = 0 THEN {}
                                   ELSE backups \cup (IF whole THEN {} ELSE ToSet(FoundBackups)))
=============================================================================
