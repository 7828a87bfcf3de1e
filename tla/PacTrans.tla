------------------------------ MODULE PacTrans ------------------------------
(***************************************************************************)
(* pactrans (src/src/pactrans.c): from the command line and stdin to a     *)
(* transaction that is looked up, prepared, shown, confirmed, committed    *)
(* and released.  libalpm asks questions on the way; the prompt            *)
(* disposition options, --no-confirm or the user answer them.              *)
(***************************************************************************)
EXTENDS AlpmTrans, TransOpts, FiniteSets

CONSTANTS
    Argvs,        \* the command lines: <<program name, arguments>>
    Piped,        \* the lists of targets stdin may hold
    Repos,        \* the sync databases, in the order of the configuration
    SyncDb,       \* the versions each of them holds, by name
    PkgFiles,     \* the versions of the package files that can be loaded, by name
    MaxQuestions  \* bound: questions libalpm asks in one run

\* A command line is a program name and a sequence of arguments.
ASSUME ArgvsAssumption == \A a \in Argvs : Len(a[2]) \in Nat

HoldsPackages(db) == DOMAIN db \subseteq Names /\ \A n \in DOMAIN db : db[n] \in Versions

ASSUME ReposAssumption ==
    /\ DOMAIN Repos \subseteq Nat
    /\ \A i \in DOMAIN Repos : HoldsPackages(SyncDb[Repos[i]])
ASSUME PkgFilesAssumption == HoldsPackages(PkgFiles)

VARIABLES
    opts,       \* the globals parse_opts sets
    asked       \* history: the questions libalpm asked and their answers

transVars == <<opts, asked>>

PacTransInit ==
    /\ opts \in [Installers -> {Parse(a[1], a[2]) : a \in Argvs}]
    /\ asked = [p \in Installers |-> {}]

NoLock(p) == "NOLOCK" \in opts[p].flags

-----------------------------------------------------------------------------
\* parse_opts: a bad option exits 1; a configuration that cannot be read goes
\* to cleanup before ret was set.
ParseOpts(p) ==
    /\ pc[p] = "start"
    /\ IF opts[p].fatal
         THEN Leave(p, 1)
         ELSE Leave(p, 0) \/ (Goto(p, "targets") /\ UNCHANGED ret)
    /\ UNCHANGED <<holder, localdb, stdin, view, plan, consent, applied, opts,
                   asked>>

\* Targets are read from stdin, up to its end, if it is not a terminal.
ReadTargets(p) ==
    /\ pc[p] = "targets"
    /\ \E more \in IF stdin[p] = "pipe" THEN Piped ELSE {<< >>} :
         LET o == [opts[p] EXCEPT !.targets["spec"] = @ \o more]
         IN /\ opts' = [opts EXCEPT ![p] = o]
            /\ IF o.sysupgrade \/ \E l \in Lists : o.targets[l] # << >>
                 THEN Goto(p, "setup") /\ UNCHANGED ret
                 ELSE Leave(p, 1)
    /\ UNCHANGED <<holder, localdb, stdin, view, plan, consent, applied, asked>>

\* The handle, the database extension, the assumed packages and the sync
\* databases: each failure ends the program.
SetUp(p) ==
    /\ pc[p] = "setup"
    /\ \/ Goto(p, IF opts[p].dbsync THEN "dbsync" ELSE "lookup") /\ UNCHANGED ret
       \/ Leave(p, 1)
    /\ UNCHANGED <<holder, localdb, stdin, view, plan, consent, applied, opts,
                   asked>>

\* alpm_db_update takes the lock for itself, --print-only or not; when it fails
\* the program goes on with the databases it has.
DbSync(p) ==
    /\ pc[p] = "dbsync"
    /\ \/ holder = None /\ holder' = p /\ Goto(p, "syncing")
       \/ Goto(p, "lookup") /\ UNCHANGED holder
    /\ UNCHANGED <<localdb, ret, stdin, view, plan, consent, applied, opts,
                   asked>>

DbSyncEnds(p) ==
    /\ pc[p] = "syncing"
    /\ holder' = None
    /\ Goto(p, "lookup")
    /\ UNCHANGED <<localdb, ret, stdin, view, plan, consent, applied, opts,
                   asked>>

-----------------------------------------------------------------------------
\* The version name has in the first repository of those named by repo, in the
\* order of the configuration; None names all.
FirstSync(name, repo) ==
    LET found == {i \in DOMAIN Repos : /\ repo \in {None, Repos[i]}
                                       /\ name \in DOMAIN SyncDb[Repos[i]]}
    IN IF found = {} THEN None ELSE SyncDb[Repos[Min(found)]][name]

InstallOf(name, ver) ==
    IF ver = None THEN {} ELSE {[op |-> "add", name |-> name, ver |-> ver]}

Installed(db) == {n \in Names : db[n] # None}

RemovalOf(name, db) ==
    IF name \in Installed(db)
      THEN {[op |-> "rem", name |-> name, ver |-> db[name].ver]}
      ELSE {}

FindFile(name) == InstallOf(name, IF name \in DOMAIN PkgFiles THEN PkgFiles[name] ELSE None)

\* The package a target stands for, as a change; the empty set if there is none.
\*   add   find_sync_pkg
\*   rem   find_local_pkg: a name with a repository is not looked up at all
\*   spec  pu_find_pkgspec, and the switch on the origin of what it finds: a
\*         package of the local database is removed, another one installed; a
\*         bare name is no pkgspec
\*   files load_pkg_files
Find(l, t, db) ==
    CASE l = "add" -> InstallOf(t.name, FirstSync(t.name, t.repo))
      [] l = "rem" -> IF t.repo = None THEN RemovalOf(t.name, db) ELSE {}
      [] l = "files" -> FindFile(t.name)
      [] l = "spec" /\ t.repo = None -> {}
      [] l = "spec" /\ t.repo = "local" -> RemovalOf(t.name, db)
      [] OTHER -> InstallOf(t.name, FirstSync(t.name, t.repo))

\* What all the targets together ask for.
Requested(o, db) ==
    UNION {UNION {Find(l, t, db) : t \in Range(o.targets[l])} : l \in Lists}

\* Mutant: a target that cannot be located is reported and forgotten.
LocatedLoosely(o, db) == TRUE

\* Every target of every list was located.
Located(o, db) ==
    \A l \in Lists : \A t \in Range(o.targets[l]) : Find(l, t, db) # {}

\* A target makes the program look into the local database.
NeedsLocalDb(o) ==
    \/ \E t \in Range(o.targets["rem"]) : t.repo = None
    \/ \E t \in Range(o.targets["spec"]) : t.repo = "local"

\* The lookup loops.  They read the local database before the lock is taken.
\* Loading a package file can fail for reasons of its own.
Lookup(p) ==
    /\ pc[p] = "lookup"
    /\ view' = [view EXCEPT ![p] = IF NeedsLocalDb(opts[p]) THEN localdb ELSE @]
    /\ \/ /\ Located(opts[p], localdb)
          /\ plan' = [plan EXCEPT ![p] = Requested(opts[p], localdb)]
          /\ Goto(p, "init")
          /\ UNCHANGED ret
       \/ /\ Located(opts[p], localdb) => opts[p].targets["files"] # << >>
          /\ Leave(p, 1)
          /\ UNCHANGED plan
    /\ UNCHANGED <<holder, localdb, stdin, consent, applied, opts, asked>>

TransInit(p) ==
    /\ pc[p] = "init"
    /\ BeginTrans(p, NoLock(p), "add")
    /\ UNCHANGED <<localdb, stdin, plan, consent, applied, opts, asked>>

\* alpm_add_pkg for each package to add, alpm_remove_pkg for each to remove.
AddPackages(p) ==
    /\ Stage(p, "add", "remove")
    /\ UNCHANGED <<holder, localdb, stdin, view, plan, consent, applied, opts,
                   asked>>

RemovePackages(p) ==
    /\ Stage(p, "remove", IF opts[p].sysupgrade THEN "sysupgrade" ELSE "prepare")
    /\ UNCHANGED <<holder, localdb, stdin, view, plan, consent, applied, opts,
                   asked>>

\* Installed packages with a newer version in the sync databases; with
\* --downgrade, with another one.
Upgrades(o, db) ==
    UNION {InstallOf(n, FirstSync(n, None)) :
             n \in {m \in Installed(db) :
                      /\ FirstSync(m, None) # None
                      /\ \/ FirstSync(m, None) > db[m].ver
                         \/ o.downgrade /\ FirstSync(m, None) # db[m].ver}}

SysUpgrade(p) ==
    /\ Stage(p, "sysupgrade", "prepare")
    /\ plan' = [plan EXCEPT ![p] =
                   IF pc'[p] = "prepare" THEN @ \cup Upgrades(opts[p], view[p])
                                         ELSE @]
    /\ UNCHANGED <<holder, localdb, stdin, view, consent, applied, opts, asked>>

\* Packages that alpm_trans_prepare may add to the transaction: dependencies of
\* what is installed and, if asked for, packages related to what is removed.
Related(o, db) ==
    (UNION {InstallOf(n, FirstSync(n, None)) : n \in Names})
        \cup IF o.flags \cap {"CASCADE", "RECURSE"} = {} THEN {}
             ELSE UNION {RemovalOf(n, db) : n \in Names}

Prepare(p) ==
    /\ Stage(p, "prepare", "confirm")
    /\ \E more \in {{}} \cup {{c} : c \in Related(opts[p], view[p])} :
         plan' = [plan EXCEPT ![p] =
                     IF pc'[p] = "confirm" THEN @ \cup more ELSE @]
    /\ UNCHANGED <<holder, localdb, stdin, view, consent, applied, opts, asked>>

-----------------------------------------------------------------------------
\* The answer libalpm puts into a question before it asks: the first provider,
\* no to all others.
InitialAnswer(type) == type = "provider"

\* The default of the prompt, which an empty line or the end of stdin takes.
PromptDefault(type) == type # "unresolvable"

\* The variable that holds the disposition of a yes/no question.
Disposition == [ignorepkg |-> "install_ignored",
                unresolvable |-> "skip_unresolvable",
                corrupted |-> "remove_corrupted",
                importkey |-> "import_keys",
                provider |-> "default_provider"]

\* Mutant: provided-depends is satisfied by either.
ShouldRemoveEither(method, provides, depend) ==
    \/ method = "all"
    \/ method \in {"provided", "provided_depends"} /\ provides
    \/ method \in {"depends", "provided_depends"} /\ depend

\* should_remove_conflict: may newpkg take the place of oldpkg?
ShouldRemove(method, provides, depend) ==
    \/ method = "all"
    \/ method = "provided" /\ provides
    \/ method = "depends" /\ depend
    \/ method = "provided_depends" /\ depend /\ provides

MethodFor(o, type) == IF type = "conflict" THEN o.conflict ELSE o.replacement

\* The answers the disposition options give: one, or none for "prompt".
AutoAnswer(o, q) ==
    IF q.type \in {"conflict", "replace"}
      THEN IF MethodFor(o, q.type) = "prompt" THEN {}
           ELSE {ShouldRemove(MethodFor(o, q.type), q.provides, q.depend)}
      ELSE {r \in BOOLEAN :
              o.disposition[Disposition[q.type]] = IF r THEN "yes" ELSE "no"}

\* cb_question goes to the prompt.
Prompts(o, q) == AutoAnswer(o, q) = {} /\ ~o.noconfirm

\* cb_question and, if it prompts, pu_ui_cb_question.
Answers(p, q) ==
    IF Prompts(opts[p], q)
      THEN {Confirmed(PromptDefault(q.type), r) : r \in Replies(p)}
      ELSE IF AutoAnswer(opts[p], q) # {} THEN AutoAnswer(opts[p], q)
           ELSE {InitialAnswer(q.type)}

\* When libalpm asks about which packages.  For a conflict or a replacement it
\* matters whether the new package provides the old one and whether the old one
\* was installed as a dependency.
Questions(p) ==
    LET about == [replace |-> UNION {RemovalOf(n, view[p]) : n \in Names},
                  conflict |-> UNION {RemovalOf(n, view[p]) : n \in Names},
                  unresolvable |-> {c \in plan[p] : c.op = "add"},
                  provider |-> UNION {InstallOf(n, FirstSync(n, None)) : n \in Names},
                  ignorepkg |-> UNION {InstallOf(n, FirstSync(n, None)) : n \in Names},
                  corrupted |-> plan[p],
                  importkey |-> plan[p]]
        types == CASE pc[p] = "sysupgrade" -> {"replace"}
                   [] pc[p] = "prepare" -> {"ignorepkg", "provider",
                                            "unresolvable", "conflict"}
                   [] pc[p] = "commit" /\ applied[p] = {} ->
                         {"corrupted", "importkey"}
                   [] OTHER -> {}
        relevant(t) == IF t \in {"conflict", "replace"} THEN BOOLEAN ELSE {FALSE}
    IN UNION {[type : {t}, pkg : about[t],
               provides : relevant(t), depend : relevant(t)] : t \in types}

\* What the answer does to the transaction; without a way out it fails.
Decide(p, q, answer) ==
    CASE q.type \in {"replace", "provider", "ignorepkg", "conflict"} /\ answer ->
            plan' = [plan EXCEPT ![p] = @ \cup {q.pkg}] /\ UNCHANGED <<pc, ret>>
      [] q.type = "unresolvable" /\ answer ->
            plan' = [plan EXCEPT ![p] = @ \ {q.pkg}] /\ UNCHANGED <<pc, ret>>
      [] q.type \in {"unresolvable", "conflict"} /\ ~answer ->
            GiveUp(p) /\ UNCHANGED plan
      [] OTHER -> UNCHANGED <<plan, pc, ret>>

\* libalpm asks a question.  A line that ends before its newline is read for
\* ever by pu_ui_confirm.
Ask(p) ==
    /\ Cardinality(asked[p]) < MaxQuestions
    /\ \E q \in Questions(p) :
         \/ \E answer \in Answers(p, q) :
              /\ Decide(p, q, answer)
              /\ asked' = [asked EXCEPT ![p] = @ \cup
                     {[question |-> q, answer |-> answer,
                       prompted |-> Prompts(opts[p], q)]}]
         \/ /\ Prompts(opts[p], q) /\ "cut" \in Replies(p)
            /\ q.type # "provider"
            /\ Goto(p, "hung")
            /\ UNCHANGED <<plan, ret, asked>>
    /\ UNCHANGED <<holder, localdb, stdin, view, consent, applied, opts>>

-----------------------------------------------------------------------------
\* Mutant: --no-confirm is looked at before --print-only.
ProceedsIfNoConfirm(o, reply) == o.noconfirm \/ (~o.printonly /\ Confirmed(TRUE, reply))

\* The transaction goes on only if it is not --print-only and, without
\* --no-confirm, the prompt says so.
Proceeds(o, reply) == ~o.printonly /\ (o.noconfirm \/ Confirmed(TRUE, reply))

\* An empty transaction ends; another one is shown and confirmed.
Confirm(p) ==
    /\ pc[p] = "confirm"
    /\ \/ /\ plan[p] = {}
          /\ Goto(p, "release")
          /\ UNCHANGED consent
       \/ /\ plan[p] # {}
          /\ \E r \in Replies(p) \ {"cut"} :
               IF Proceeds(opts[p], r)
                 THEN /\ Goto(p, "commit")
                      /\ consent' = [consent EXCEPT ![p] =
                             IF opts[p].printonly THEN {} ELSE plan[p]]
                 ELSE Goto(p, "release") /\ UNCHANGED consent
       \/ /\ plan[p] # {} /\ ~opts[p].printonly /\ ~opts[p].noconfirm
          /\ "cut" \in Replies(p)
          /\ Goto(p, "hung")
          /\ UNCHANGED consent
    /\ UNCHANGED <<holder, localdb, ret, stdin, view, plan, applied, opts, asked>>

Commit(p) ==
    /\ \/ "DOWNLOADONLY" \notin opts[p].flags /\ CommitChange(p)
       \/ CommitEnds(p, "DOWNLOADONLY" \in opts[p].flags)
    /\ UNCHANGED transVars

\* Mutant: goto cleanup instead of transcleanup.
TransNotReleased(p) ==
    /\ pc[p] = "release"
    /\ Leave(p, ret[p])
    /\ UNCHANGED <<holder, localdb, stdin, view, plan, consent, applied,
                   transVars>>

\* Mutant: a transaction without a lock removes the one it finds.
TransReleaseAny(p) == EndTrans(p, FALSE) /\ UNCHANGED transVars

TransRelease(p) == EndTrans(p, NoLock(p)) /\ UNCHANGED transVars

PacTransStep(p) ==
    \/ ParseOpts(p) \/ ReadTargets(p) \/ SetUp(p) \/ DbSync(p) \/ DbSyncEnds(p)
    \/ Lookup(p) \/ TransInit(p) \/ AddPackages(p) \/ RemovePackages(p)
    \/ SysUpgrade(p) \/ Prepare(p) \/ Ask(p) \/ Confirm(p) \/ Commit(p)
    \/ TransRelease(p)

PacTransTypeOK ==
    /\ \A p \in Installers : opts[p].list \in Lists
    /\ \A p \in Installers : opts[p].flags \subseteq Flags
    /\ \A p \in Installers : \A a \in asked[p] :
          a.answer \in BOOLEAN /\ a.prompted \in BOOLEAN
=============================================================================
