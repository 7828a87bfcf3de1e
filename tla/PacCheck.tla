------------------------------ MODULE PacCheck ------------------------------
(***************************************************************************)
(* paccheck: are the dependencies of the packages satisfied, are their     *)
(* files there, and are they as the mtree of the package says.             *)
(*                                                                         *)
(* sys.fs says what lstat and reading yield at a path.  A file of a package*)
(* has its path and whether it is a directory.                             *)
(***************************************************************************)
EXTENDS ToolState, Depends, Mtree

Checks == {"depends", "opt_depends", "files", "file_properties", "md5sum", "sha256sum"}

CheckOptions ==
    [set |-> [depends |-> <<"depends", TRUE>>, opt_depends |-> <<"opt_depends", TRUE>>,
              files |-> <<"files", TRUE>>, file_properties |-> <<"file_properties", TRUE>>,
              mtree |-> <<"file_properties", TRUE>>, md5sum |-> <<"md5sum", TRUE>>,
              sha256sum |-> <<"sha256sum", TRUE>>, recursive |-> <<"recursive", TRUE>>,
              require_mtree |-> <<"require_mtree", TRUE>>, db_files |-> <<"db_files", TRUE>>,
              backup |-> <<"skip_backups", FALSE>>, noextract |-> <<"skip_noextract", FALSE>>,
              noupgrade |-> <<"skip_noupgrade", FALSE>>, quiet |-> <<"quiet", TRUE>>,
              list_broken |-> <<"list_broken", TRUE>>],
     count |-> NoOptions, assign |-> NoOptions, add |-> [target |-> "targets"]]

CheckDefaults ==
    [depends |-> FALSE, opt_depends |-> FALSE, files |-> FALSE, file_properties |-> FALSE,
     md5sum |-> FALSE, sha256sum |-> FALSE, recursive |-> FALSE, require_mtree |-> FALSE,
     db_files |-> FALSE, skip_backups |-> TRUE, skip_noextract |-> TRUE,
     skip_noupgrade |-> TRUE, quiet |-> FALSE, list_broken |-> FALSE, targets |-> << >>]

CheckSetup ==
    LET parsed == Parse(CheckOptions, CheckDefaults) IN
    Setup("paccheck",
          IF \E c \in Checks : parsed[c] THEN parsed
          ELSE [parsed EXCEPT !.depends = TRUE, !.files = TRUE],
          "load", {1})

-----------------------------------------------------------------------------
\* load_pkg for the arguments and for the lines of stdin.
Wanted == o.targets \o sys.stdin
Named(name) == Select(sys.local, {p \in ToSet(sys.local) : p.name = name})
Loaded == Unique(FlattenSeq([i \in DOMAIN Wanted |-> Named(Wanted[i])]))

\* The dependencies add_deps follows.
FollowedDeps(p) == p.depends \o (IF o.opt_depends THEN p.optdepends ELSE << >>)
AllFollowed(pkgs) == FlattenSeq([i \in DOMAIN pkgs |-> FollowedDeps(pkgs[i])])

CheckLoad ==
    /\ At("paccheck", "load")
    /\ IF \E name \in ToSet(Wanted) : Named(name) = << >>
       THEN Exit(1) /\ UNCHANGED <<todo, acc>>
       ELSE /\ UNCHANGED ret
            /\ IF Wanted = << >>
               THEN acc' = sys.local /\ todo' = sys.local /\ Goto("check")
               ELSE acc' = Loaded /\ IF o.recursive
                                     THEN todo' = AllFollowed(Loaded) /\ Goto("deps")
                                     ELSE todo' = Loaded /\ Goto("check")
    /\ Stays /\ UNCHANGED out

\* Mutant: the dependencies of a dependency are not followed.
AddDirect ==
    /\ At("paccheck", "deps") /\ todo # << >>
    /\ LET found == Satisfiers(sys.local, Head(todo)) IN
       acc' = IF found # << >> /\ Head(found) \notin ToSet(acc)
              THEN Append(acc, Head(found)) ELSE acc
    /\ todo' = Tail(todo)
    /\ Stays /\ UNCHANGED <<pc, out, ret>>

\* add_deps: one dependency of the stack of its recursion.
AddDep ==
    /\ At("paccheck", "deps") /\ todo # << >>
    /\ LET found == Satisfiers(sys.local, Head(todo)) IN
       IF found # << >> /\ Head(found) \notin ToSet(acc)
       THEN /\ acc' = Append(acc, Head(found))
            /\ todo' = FollowedDeps(Head(found)) \o Tail(todo)
       ELSE acc' = acc /\ todo' = Tail(todo)
    /\ Stays /\ UNCHANGED <<pc, out, ret>>

DepsAdded ==
    /\ At("paccheck", "deps") /\ todo = << >>
    /\ todo' = acc /\ Goto("check")
    /\ Stays /\ UNCHANGED <<acc, out, ret>>

-----------------------------------------------------------------------------
\* A check finds problems: of which thing, what, whether the package is broken by it,
\* and whether standard output says so; warnings go elsewhere.
Problem(thing, what) == [thing |-> thing, what |-> what, breaks |-> TRUE, says |-> TRUE]
Warning(thing, what, breaks) == [thing |-> thing, what |-> what, breaks |-> breaks, says |-> FALSE]
If(condition, problem) == IF condition THEN {problem} ELSE {}

\* check_depends, check_opt_depends
DependProblems(deps) ==
    {Problem(<<d.name>>, "unsatisfied") : d \in {d \in ToSet(deps) : ~HasSatisfier(sys.local, d)}}

\* lstat
CannotStat(path) ==
    CASE path \notin DOMAIN sys.fs -> {Problem(path, "missing")}
      [] path \in DOMAIN sys.fs -> If(~sys.fs[path].stat, Warning(path, "read error", TRUE))

\* check_file
FileProblems(path, dir) ==
    IF CannotStat(path) # {} THEN CannotStat(path)
    ELSE If(dir # (sys.fs[path].type = "directory"), Problem(path, "type"))

DbPath(p, name) == <<"local", p.name, name>>
DbFiles == {"desc", "files"} \cup (IF o.require_mtree THEN {"mtree"} ELSE {})

NotExtracted(path) == o.skip_noextract /\ path \in sys.noextract
NotUpgraded(path) == o.skip_noupgrade /\ path \in sys.noupgrade
IsBackup(p, path) == o.skip_backups /\ path \in p.backup

\* check_files, check_db_files
FilesProblems(p) ==
    (UNION {FileProblems(f.path, f.dir) : f \in {f \in ToSet(p.files) : ~NotExtracted(f.path)}})
    \cup (IF o.db_files THEN UNION {FileProblems(DbPath(p, name), FALSE) : name \in DbFiles}
          ELSE {})

\* The names of the mtree that begin with a dot.
Dotted(path) == path[1] \in {".INSTALL", ".CHANGELOG", ".PKGINFO", ".BUILDINFO", ".MTREE"}

PlaceOf(p, path) ==
    CASE path = <<".INSTALL">> -> DbPath(p, "install")
      [] path = <<".CHANGELOG">> -> DbPath(p, "changelog")
      [] OTHER -> path

\* What check_file_properties compares of the file f for the entry e; links have no time
\* of their own that it looks at, nor have directories a size.
Properties(p, e, f) ==
    {"type"}
    \cup (IF NotUpgraded(e.path) THEN {} ELSE {"mode", "uid", "gid"})
    \cup (IF NotUpgraded(e.path) \/ IsBackup(p, e.path) THEN {}
          ELSE (IF f.type = "link" /\ e.type = "link" THEN {"target"} ELSE {})
               \cup (IF f.type = "directory" THEN {} ELSE {"mtime"})
               \cup (IF f.type \in {"directory", "link"} THEN {} ELSE {"size"}))

\* The entries that say nothing of a file of the system.
Skipped(p, e) ==
    IF Dotted(e.path) THEN PlaceOf(p, e.path) = e.path ELSE NotExtracted(e.path)

\* One entry in check_file_properties.
PropertyProblems(p, e) ==
    LET place == PlaceOf(p, e.path)
        f == sys.fs[place]
    IN  IF Skipped(p, e) THEN {}
        ELSE IF CannotStat(place) # {} THEN CannotStat(place)
        ELSE {Problem(e.path, field) : field \in {field \in Properties(p, e, f) : e[field] # f[field]}}

NoMtree(p) == {Warning(<<p.name>>, "no mtree", o.require_mtree)}
RecordedEntries(p) == ToSet(MtreeEntries(p.mtree, None))

\* libarchive's reader is not asked for an error after the last entry.
PropertiesProblems(p) ==
    IF p.mtree = None THEN NoMtree(p)
    ELSE UNION {PropertyProblems(p, e) : e \in RecordedEntries(p)}

\* memcmp with a length of 32, half of a sha256 digest.
Compared(kind, digest) == IF kind = "sha256" THEN digest[1] ELSE digest

\* One entry in check_md5sum and check_sha256sum.
DigestProblems(kind, p, e) ==
    CASE e[kind] = None \/ Dotted(e.path) \/ IsBackup(p, e.path) \/ NotExtracted(e.path)
             \/ NotUpgraded(e.path) -> {}
      [] OTHER ->
           IF e.path \notin DOMAIN sys.fs \/ ~sys.fs[e.path].readable
           THEN {Warning(e.path, "read error", FALSE)}
           ELSE If(Compared(kind, e[kind]) # Compared(kind, sys.fs[e.path][kind]),
                   Problem(e.path, kind))

DigestsProblems(kind, p) ==
    IF p.mtree = None THEN NoMtree(p)
    ELSE (UNION {DigestProblems(kind, p, e) : e \in RecordedEntries(p)})
         \cup (IF p.mtree.complete THEN {} ELSE NoMtree(p))

CheckProblems(check, p) ==
    CASE check = "depends" -> DependProblems(p.depends)
      [] check = "opt_depends" -> DependProblems(p.optdepends)
      [] check = "files" -> FilesProblems(p)
      [] check = "file_properties" -> PropertiesProblems(p)
      [] check = "md5sum" -> DigestsProblems("md5", p)
      [] check = "sha256sum" -> DigestsProblems("sha256", p)

Breaks(problems) == \E x \in problems : x.breaks

\* What a check prints, the last line unless --quiet.  Without the whole mtree a check
\* returns before that line.
CheckPrints(check, p) ==
    LET problems == CheckProblems(check, p)
        early == \E x \in problems : x.what = "no mtree"
        fine == [thing |-> <<p.name>>, what |-> "match", breaks |-> FALSE, says |-> TRUE]
    IN  IF o.list_broken THEN {}
        ELSE {x \in problems : x.says} \cup If(~o.quiet /\ ~early /\ ~Breaks(problems), fine)

\* One package in the loop of main: what each check prints, or the name of the package.
CheckPackage ==
    /\ At("paccheck", "check") /\ todo # << >>
    /\ LET p == Head(todo)
           run == {c \in Checks : o[c]}
           broken == \E c \in run : Breaks(CheckProblems(c, p))
       IN  /\ out' = IF o.list_broken
                     THEN (IF broken THEN Append(out, p.name) ELSE out)
                     ELSE Append(out, [c \in run |-> CheckPrints(c, p)])
           /\ ret' = IF broken THEN 1 ELSE ret
    /\ todo' = Tail(todo)
    /\ Stays /\ UNCHANGED <<pc, acc>>

CheckEnd ==
    /\ At("paccheck", "check") /\ todo = << >>
    /\ pc' = "exited"
    /\ Stays /\ UNCHANGED <<todo, acc, out, ret>>

CheckStep ==
    CheckSetup \/ CheckLoad \/ AddDep \/ DepsAdded \/ CheckPackage \/ CheckEnd

-----------------------------------------------------------------------------
\* What the checks promise of a package when they find nothing broken, said of the
\* database and the file system and not of the way through the lists.
FileThere(path, dir) ==
    path \in DOMAIN sys.fs /\ sys.fs[path].stat /\ (dir <=> sys.fs[path].type = "directory")

SoundFiles(p) ==
    /\ \A f \in ToSet(p.files) : FileThere(f.path, f.dir) \/ NotExtracted(f.path)
    /\ o.db_files => \A name \in {"desc", "files"} : FileThere(DbPath(p, name), FALSE)

SoundProperties(p) ==
    IF p.mtree = None THEN ~o.require_mtree
    ELSE \A e \in RecordedEntries(p) :
           \/ Dotted(e.path) /\ PlaceOf(p, e.path) = e.path
           \/ ~Dotted(e.path) /\ NotExtracted(e.path)
           \/ LET place == PlaceOf(p, e.path) IN
              /\ place \in DOMAIN sys.fs /\ sys.fs[place].stat
              /\ \A field \in Properties(p, e, sys.fs[place]) :
                   sys.fs[place][field] = e[field]

SoundDigests(kind, p) ==
    IF p.mtree = None THEN ~o.require_mtree
    ELSE /\ o.require_mtree => p.mtree.complete
         /\ \A e \in RecordedEntries(p) :
              \/ e[kind] = None \/ Dotted(e.path) \/ IsBackup(p, e.path)
              \/ NotExtracted(e.path) \/ NotUpgraded(e.path)
              \/ e.path \notin DOMAIN sys.fs \/ ~sys.fs[e.path].readable
              \/ sys.fs[e.path][kind] = e[kind]

Sound(p) ==
    /\ o.depends => \A d \in ToSet(p.depends) : \E q \in ToSet(sys.local) : AlpmSatisfies(q, d)
    /\ o.opt_depends =>
         \A d \in ToSet(p.optdepends) : \E q \in ToSet(sys.local) : AlpmSatisfies(q, d)
    /\ o.files => SoundFiles(p) /\ (o.db_files /\ o.require_mtree =>
                                      FileThere(DbPath(p, "mtree"), FALSE))
    /\ o.file_properties => SoundProperties(p)
    /\ o.md5sum => SoundDigests("md5", p)
    /\ o.sha256sum => SoundDigests("sha256", p)

\* doc/paccheck.pod:74-76: "Check file sha256sums against MTREE data."  paccheck compares
\* 32 of the 64 characters: a file that differs only behind them is not told.  No such
\* file is recorded for the packages checked.
HalvesTell ==
    o.sha256sum => \A p \in ToSet(acc) : p.mtree # None => \A e \in RecordedEntries(p) :
      e.sha256 # None /\ e.path \in DOMAIN sys.fs /\ sys.fs[e.path].readable =>
        \/ sys.fs[e.path].sha256 = e.sha256
        \/ Compared("sha256", sys.fs[e.path].sha256) # Compared("sha256", e.sha256)

\* The packages checked are those asked for, with --recursive all they depend on, each
\* once.  The status is 1 only if one of them is not as the checks promise, and
\* --list-broken lists only those; it is 1 for every such package, and each of them is
\* listed, unless a sha256sum differs only in the half that is not compared.  main adds to
\* the list of packages while add_deps calls itself, and one status collects that of six
\* checks.
BrokenAreReported ==
    /\ At("paccheck", "exited") /\ acc # None =>
         LET broken == Select(acc, {p \in ToSet(acc) : ~Sound(p)})
             recursive == o.recursive /\ Wanted # << >>
         IN  /\ broken = << >> => ret = 0
             /\ o.list_broken => ToSet(out) \subseteq {p.name : p \in ToSet(broken)}
             /\ HalvesTell => /\ ret = 0 => broken = << >>
                              /\ o.list_broken => out = [i \in DOMAIN broken |-> broken[i].name]
             /\ IsInjective(acc)
             /\ ToSet(Loaded) \subseteq ToSet(acc)
             /\ recursive => \A d \in ToSet(AllFollowed(acc)) :
                  HasSatisfier(sys.local, d) => FindSatisfier(sys.local, d) \in ToSet(acc)
             /\ \A i \in DOMAIN acc :
                  \/ Wanted = << >> \/ acc[i] \in ToSet(Loaded)
                  \/ recursive /\ \E j \in 1..(i - 1) : \E d \in ToSet(FollowedDeps(acc[j])) :
                       HasSatisfier(sys.local, d) /\ FindSatisfier(sys.local, d) = acc[i]
    /\ At("paccheck", "exited") /\ acc = None => ret = 1
=============================================================================
