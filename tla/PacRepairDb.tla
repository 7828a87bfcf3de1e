----------------------------- MODULE PacRepairDb -----------------------------
(***************************************************************************)
(* pacrepairdb (src/src/pacrepairdb.c): repair entries of the local        *)
(* database whose essential files are missing by creating empty ones and   *)
(* reinstalling the very same packages from the cache.                     *)
(***************************************************************************)
EXTENDS AlpmTrans, Sequences, SequencesExt, FiniteSets

CONSTANTS
    RepairArgs,   \* the command lines: targets, print-only, no-confirm, dbonly
    RepairPiped,  \* the lists of targets stdin may hold
    Cache,        \* package files in the cache: [file, name, ver, arch]
    PkgArch,      \* the architecture of each installed package
    AllowedArch   \* the architectures that may be installed

\* A target is a name, with or without the prefix "local/".
Targets == Seq([name : Names, prefixed : BOOLEAN])

ASSUME RepairArgsAssumption ==
    (\A a \in RepairArgs : a.targets \in Targets) /\ RepairPiped \subseteq Targets
ASSUME CacheAssumption == \A c \in Cache : c.name \in Names /\ c.ver \in Versions

VARIABLES
    args,       \* what parse_opts left of the command line
    packages    \* the packages to repair, then those of the cache

repairVars == <<args, packages>>

PacRepairDbInit ==
    /\ args \in [Repairers -> RepairArgs]
    /\ packages = [p \in Repairers |-> << >>]

\* parse_opts and alpm_initialize; unlike pactrans, every failure returns 1.
RepairStart(p) ==
    /\ pc[p] = "start"
    /\ (Goto(p, "lookup") /\ UNCHANGED ret) \/ Leave(p, 1)
    /\ UNCHANGED <<holder, localdb, stdin, view, plan, consent, applied, args,
                   packages>>

\* The loop over the command line strips the prefix but looks the whole word up.
InArgs(t, db) == ~t.prefixed /\ db[t.name] # None
InStdin(t, db) == db[t.name] # None

\* The lookup loops of main: one target that is not installed ends it all.
RepairLookup(p) ==
    /\ pc[p] = "lookup"
    /\ view' = [view EXCEPT ![p] = localdb]
    /\ \E piped \in IF stdin[p] = "pipe" THEN RepairPiped ELSE {<< >>} :
         LET targets == args[p].targets \o piped
         IN IF /\ targets # << >>
               /\ \A t \in Range(args[p].targets) : InArgs(t, localdb)
               /\ \A t \in Range(piped) : InStdin(t, localdb)
            THEN /\ packages' = [packages EXCEPT ![p] =
                        [i \in DOMAIN targets |-> targets[i].name]]
                 /\ Goto(p, "match")
                 /\ UNCHANGED ret
            ELSE Leave(p, 1) /\ UNCHANGED packages
    /\ UNCHANGED <<holder, localdb, stdin, plan, consent, applied, args>>

-----------------------------------------------------------------------------
\* find_cached_pkg: same name and version, and the same architecture; an entry
\* that has lost its description has none, and takes what may be installed.
Matches(c, name, entry) ==
    /\ c.name = name /\ c.ver = entry.ver
    /\ IF entry.desc = "ok" THEN c.arch = PkgArch[name]
                             ELSE c.arch \in AllowedArch \cup {"any"}

\* Mutant: a package without a match is left out.
TakeMatchOrSkip(acc, found) == [acc EXCEPT !.used = @ \cup found]

\* The one match of a package is taken out of the cache.
TakeMatch(acc, found) ==
    IF Cardinality(found) = 1 THEN [acc EXCEPT !.used = @ \cup found]
                              ELSE [acc EXCEPT !.error = TRUE]

\* find_cached_pkgs, in the order of the packages; so a package that is named
\* twice is not found again, and one without a match spoils the whole repair.
MatchAll(names, db) ==
    LET match[n \in 0 .. Len(names)] ==
          IF n = 0 THEN [used |-> {}, error |-> FALSE]
          ELSE TakeMatch(match[n - 1], {c \in Cache \ match[n - 1].used :
                                          Matches(c, names[n], db[names[n]])})
    IN  match[Len(names)]

\* The packages are matched and listed.  Reading the cache can fail.
MatchCache(p) ==
    /\ pc[p] = "match"
    /\ LET match == MatchAll(packages[p], view[p])
       IN \/ /\ ~match.error
             /\ plan' = [plan EXCEPT ![p] =
                    {[op |-> "add", name |-> c.name, ver |-> c.ver] :
                       c \in match.used}]
             /\ Goto(p, "confirm")
             /\ UNCHANGED ret
          \/ Leave(p, 1) /\ UNCHANGED plan
    /\ UNCHANGED <<holder, localdb, stdin, view, consent, applied, args,
                   packages>>

\* Nothing is locked yet: a repair that is not wanted just ends.
RepairConfirm(p) ==
    /\ pc[p] = "confirm"
    /\ \/ \E r \in Replies(p) \ {"cut"} :
            IF ~args[p].printonly /\ (args[p].noconfirm \/ Confirmed(TRUE, r))
              THEN /\ Goto(p, "init")
                   /\ consent' = [consent EXCEPT ![p] = plan[p]]
                   /\ UNCHANGED ret
              ELSE Leave(p, 0) /\ UNCHANGED consent
       \/ /\ ~args[p].printonly /\ ~args[p].noconfirm /\ "cut" \in Replies(p)
          /\ Goto(p, "hung")
          /\ UNCHANGED <<consent, ret>>
    /\ UNCHANGED <<holder, localdb, stdin, view, plan, applied, args, packages>>

-----------------------------------------------------------------------------
\* install_packages locks the database first.
RepairInit(p) ==
    /\ pc[p] = "init"
    /\ BeginTrans(p, FALSE, "fix")
    /\ UNCHANGED <<localdb, stdin, plan, consent, applied, args, packages>>

\* Mutant: fix_db_entry creates the directory it does not find.
HasEntryAlways(db, c) == TRUE

\* The directory of the package, with its name and version, exists.
HasEntry(db, c) == db[c.name] # None /\ db[c.name].ver = c.ver

Missing(entry) == entry = None \/ entry.desc = "missing"

\* fix_db_entry, package by package: missing files are created empty.  Packages
\* done before one that fails keep their files.
FixEntry(p) ==
    /\ pc[p] = "fix"
    /\ \/ /\ \E c \in plan[p] :
               /\ HasEntry(localdb, c) /\ Missing(localdb[c.name])
               /\ localdb' = [localdb EXCEPT ![c.name] =
                                [ver |-> c.ver, desc |-> "empty"]]
          /\ UNCHANGED <<pc, ret>>
       \/ /\ \A c \in plan[p] :
               HasEntry(localdb, c) /\ ~Missing(localdb[c.name])
          /\ Goto(p, "add")
          /\ UNCHANGED <<localdb, ret>>
       \/ GiveUp(p) /\ UNCHANGED localdb
    /\ UNCHANGED <<holder, stdin, view, plan, consent, applied, args, packages>>

RepairAdd(p) ==
    /\ Stage(p, "add", "prepare")
    /\ UNCHANGED <<holder, localdb, stdin, view, plan, consent, applied, args,
                   packages>>

\* With NODEPS and NOCONFLICTS libalpm adds nothing and asks nothing.
RepairPrepare(p) ==
    /\ Stage(p, "prepare", "commit")
    /\ UNCHANGED <<holder, localdb, stdin, view, plan, consent, applied, args,
                   packages>>

RepairCommit(p) ==
    /\ CommitChange(p) \/ CommitEnds(p, FALSE)
    /\ UNCHANGED repairVars

RepairRelease(p) == EndTrans(p, FALSE) /\ UNCHANGED repairVars

PacRepairDbStep(p) ==
    \/ RepairStart(p) \/ RepairLookup(p) \/ MatchCache(p) \/ RepairConfirm(p)
    \/ RepairInit(p) \/ FixEntry(p) \/ RepairAdd(p) \/ RepairPrepare(p)
    \/ RepairCommit(p) \/ RepairRelease(p)

PacRepairDbTypeOK ==
    /\ args \in [Repairers -> RepairArgs]
    /\ packages \in [Repairers -> Seq(Names)]
=============================================================================
