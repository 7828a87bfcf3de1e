-------------------------------- MODULE Tools --------------------------------
(***************************************************************************)
(* The programs that run alone, each from the command lines and the        *)
(* systems it is started with.                                             *)
(***************************************************************************)
EXTENDS PacSift, PacReport, PacCheck, PacRepairFile, PacSync

CONSTANTS SiftRuns, ReportRuns, CheckRuns, RepairRuns, SyncRuns

SiftPackages(s) ==
    ToSet(s.local) \cup ToSet(s.cache) \cup UNION {ToSet(db.pkgs) : db \in ToSet(s.sync)}

\* What a program goes through are lists.  A database has no name twice, and a path is
\* one file.
ASSUME SiftRunsAssumption ==
    \A r \in SiftRuns :
      /\ Accepts(SiftOptions, r.argv)
      /\ IsList(r.sys.local) /\ IsList(r.sys.cache) /\ IsList(r.sys.sync)
      /\ \A db \in ToSet(r.sys.sync) : IsList(db.pkgs)
      /\ r.sys.stdin # None => IsList(r.sys.stdin)
      /\ \A p, q \in SiftPackages(r.sys) : p.spec = q.spec => p = q

\* A file is of one package, and has its own backups, next to it.  With a path the
\* directories it goes through are there.
ASSUME ReportRunsAssumption ==
    \A r \in ReportRuns :
      /\ Accepts(ReportOptions, r.argv)
      /\ IsList(r.sys.local) /\ IsList(r.sys.sync) /\ IsList(r.sys.caches)
      /\ IsInjective(r.sys.local)
      /\ \A db \in ToSet(r.sys.sync) : IsList(db.pkgs)
      /\ \A p \in ToSet(r.sys.local) \cup UNION {ToSet(db.pkgs) : db \in ToSet(r.sys.sync)} :
           IsList(p.depends) /\ IsList(p.optdepends) /\ p.isize \in Nat
      /\ \A p \in ToSet(r.sys.local) :
           /\ IsList(p.backup) /\ IsInjective(p.backup)
           /\ \A path \in ToSet(p.backup) :
                /\ path[1] # "etc" => path \in DOMAIN r.sys.saved
                /\ \A q \in ToSet(r.sys.local) : path \in ToSet(q.backup) => q = p
      /\ \A path \in DOMAIN r.sys.saved :
           /\ IsList(r.sys.saved[path]) /\ IsInjective(r.sys.saved[path])
           /\ \A q \in ToSet(r.sys.saved[path]) :
                /\ path[1] # "etc" => q[1] # "etc"
                /\ \A other \in DOMAIN r.sys.saved : q \in ToSet(r.sys.saved[other]) => other = path
      /\ IsFiniteSet(DOMAIN r.sys.fs) /\ {<< >>, <<"etc">>} \subseteq DOMAIN r.sys.fs
      /\ r.sys.fs[<< >>].dir /\ r.sys.fs[<<"etc">>].dir
      /\ \A path \in DOMAIN r.sys.fs :
           IsList(path) /\ \A n \in 0..Len(path) : SubSeq(path, 1, n) \in DOMAIN r.sys.fs

\* alpm_db_get_pkgcache has no package twice.
ASSUME CheckRunsAssumption ==
    \A r \in CheckRuns :
      /\ Accepts(CheckOptions, r.argv)
      /\ IsList(r.sys.local) /\ IsInjective(r.sys.local) /\ IsList(r.sys.stdin)
      /\ \A p \in ToSet(r.sys.local) :
           /\ IsList(p.depends) /\ IsList(p.optdepends)
           /\ \A f \in ToSet(p.files) : f.dir \in BOOLEAN
      /\ None \notin Seq(ToSet(r.sys.local))

\* Where a target is relative to the root, as lrealpath gives it.
IsTarget(s, f) ==
    s.real[f].resolves /\ s.real[f].inside =>
      /\ Tidy(s.real[f].path) /\ Bare(s.real[f].path) = s.real[f].path
      /\ s.real[f].writable => s.real[f].path \in DOMAIN s.fs

\* The paths of file lists are tidy, and a file has what stat says of it.
ASSUME RepairRunsAssumption ==
    \A r \in RepairRuns :
      /\ Accepts(RepairFileOptions, r.argv)
      /\ \A a \in ToSet(r.argv) : a[1] = "target" => IsTarget(r.sys, a[2])
      /\ IsList(r.sys.local) /\ IsList(r.sys.stdin)
      /\ \A f \in ToSet(r.sys.stdin) : IsTarget(r.sys, f)
      /\ \A p \in ToSet(r.sys.local) :
           /\ IsList(p.files) /\ \A i \in DOMAIN p.files : Tidy(p.files[i])
           /\ p.mtree # None => IsList(p.mtree.lines)
      /\ "fs" \in DOMAIN r.sys
      /\ \A path \in DOMAIN r.sys.fs :
           {"type", "uid", "gid", "mode", "mtime"} \subseteq DOMAIN r.sys.fs[path]

ASSUME SyncRunsAssumption ==
    \A r \in SyncRuns :
      Accepts(SyncOptions, r.argv) /\ IsList(r.sys.dbs) /\ r.sys.resumes \in BOOLEAN

Init ==
    \/ \E r \in SiftRuns : Started("pacsift", r.argv, r.sys)
    \/ \E r \in ReportRuns : Started("pacreport", r.argv, r.sys)
    \/ \E r \in CheckRuns : Started("paccheck", r.argv, r.sys)
    \/ \E r \in RepairRuns : Started("pacrepairfile", r.argv, r.sys)
    \/ \E r \in SyncRuns : Started("pacsync", r.argv, r.sys)

Finished == Over /\ UNCHANGED toolVars

Next == SiftStep \/ ReportStep \/ CheckStep \/ RepairFileStep \/ SyncStep \/ Finished

Spec == Init /\ [][Next]_toolVars

\* A program that can go on does: nothing stops it but the system calls it waits for.
FairSpec == Spec /\ WF_toolVars(Next)

Tools == {"pacsift", "pacreport", "paccheck", "pacrepairfile", "pacsync"}

TypeOK ==
    /\ tool \in Tools
    /\ pc \in {"start", "load", "filter", "conf", "scan", "leaves", "connect", "print", "chain",
               "deps", "check", "file", "fix", "targets", "update", "exited", "failed"}
    /\ ret \in {-1, 0, 1, 2}
    /\ pc = "start" <=> o = None /\ ~Over
    /\ Len(todo) >= 0 /\ Len(out) >= 0

\* Every program ends: dependencies in a cycle, directories in directories, and servers
\* that fail are worked off.
ToolsEnd == <>Over
=============================================================================
