----------------------------- MODULE AlpmTrans -----------------------------
(***************************************************************************)
(* What the programs that change the system share: libalpm's transaction   *)
(* on the local database, guarded by the database lock, and the prompts of *)
(* lib/pacutils/ui.c.  libalpm itself is not part of the repository; its   *)
(* operations are modelled by what pactrans and pacrepairdb rely on.       *)
(* PacTrans and PacRepairDb extend this module, TransSystem puts them      *)
(* together.                                                               *)
(***************************************************************************)
EXTENDS Naturals

CONSTANTS
    Installers,  \* the pactrans processes
    Repairers,   \* the pacrepairdb processes
    Names,       \* package names
    Versions,
    LocalDbs,    \* the local databases to start from
    None

Programs == Installers \cup Repairers

\* An entry of the local database: its directory carries name and version; the
\* description in it may be missing or empty.  (The other essential file, files,
\* is repaired in the same way.)
Entry == [ver : Versions, desc : {"ok", "missing", "empty"}]

Change == [op : {"add", "rem"}, name : Names, ver : Versions]

ASSUME ProgramsAssumption ==
    Installers \cap Repairers = {} /\ None \notin Programs
ASSUME LocalDbsAssumption ==
    /\ LocalDbs \subseteq [Names -> Entry \cup {None}]
    /\ None \notin Entry /\ None \notin [Names -> Entry \cup {None}]

VARIABLES
    holder,     \* the program whose lock file exists, if there is one
    localdb,    \* the local database on disk
    pc,         \* what each program does next
    ret,        \* what it will return, or has returned, from main
    stdin,      \* "tty" or "pipe"; a closed stdin is a pipe with nothing in it
    view,       \* the local database as the program read it, once it has
    plan,       \* the changes of its transaction
    consent,    \* history: the changes it was allowed to make
    applied     \* history: the changes it has made

sharedVars == <<holder, localdb, pc, ret, stdin, view, plan, consent, applied>>

Labels == {"start", "targets", "setup", "dbsync", "syncing", "lookup", "match",
           "init", "fix", "add", "remove", "sysupgrade", "prepare", "confirm",
           "commit", "release", "hung", "exited", "killed"}

Ended == {"hung", "exited", "killed"}
InTrans == {"fix", "add", "remove", "sysupgrade", "prepare", "commit"}

Goto(p, label) == pc' = [pc EXCEPT ![p] = label]

SharedInit ==
    /\ holder = None
    /\ localdb \in LocalDbs
    /\ pc = [p \in Programs |-> "start"]
    /\ ret = [p \in Programs |-> 0]
    /\ stdin \in [Programs -> {"tty", "pipe"}]
    /\ view = [p \in Programs |-> None]
    /\ plan = [p \in Programs |-> {}]
    /\ consent = [p \in Programs |-> {}]
    /\ applied = [p \in Programs |-> {}]

\* main returns r.
Leave(p, r) ==
    /\ Goto(p, "exited")
    /\ ret' = [ret EXCEPT ![p] = r]

\* Mutant: goto transcleanup without ret = 1.
GiveUpSilently(p) == Goto(p, "release") /\ UNCHANGED ret

\* ret = 1; goto transcleanup.
GiveUp(p) ==
    /\ Goto(p, "release")
    /\ ret' = [ret EXCEPT ![p] = 1]

-----------------------------------------------------------------------------
\* What a line on the terminal can be; "cut" ends before its newline.
Lines == {"enter", "yes", "no", "cut"}

\* Mutant: the end of stdin is taken for a line that is still to be read.
RepliesWithoutEof(p) == IF stdin[p] = "tty" THEN Lines ELSE {"cut"}

\* What the next getchar of a prompt finds.  Without a terminal stdin is at its
\* end: the targets were read from it.
Replies(p) == IF stdin[p] = "tty" THEN Lines \cup {"eof"} ELSE {"eof"}

\* pu_ui_confirm with default def.  Any other line is asked for again.
Confirmed(def, reply) == reply = "yes" \/ (def /\ reply # "no")

-----------------------------------------------------------------------------
\* Mutant: the transaction works on a database that was never read.
BeginTransUnread(p, nolock, next) ==
    \/ /\ IF nolock THEN UNCHANGED holder ELSE holder = None /\ holder' = p
       /\ Goto(p, next)
       /\ UNCHANGED <<ret, view>>
    \/ Leave(p, 1) /\ UNCHANGED <<holder, view>>

\* alpm_trans_init takes the lock file, unless the flags say NOLOCK.  libalpm
\* reads the local database when it is first needed, and never again.
BeginTrans(p, nolock, next) ==
    \/ /\ IF nolock THEN UNCHANGED holder ELSE holder = None /\ holder' = p
       /\ view' = [view EXCEPT ![p] = IF @ = None THEN localdb ELSE @]
       /\ Goto(p, next)
       /\ UNCHANGED ret
    \/ Leave(p, 1) /\ UNCHANGED <<holder, view>>

\* alpm_add_pkg, alpm_remove_pkg and the like: on to the next call or give up.
Stage(p, from, to) ==
    /\ pc[p] = from
    /\ \/ Goto(p, to) /\ UNCHANGED ret
       \/ GiveUp(p)

\* The database after one change: a package is removed by the directory of the
\* version that was seen, and added with all its files.
Apply(db, c) ==
    IF c.op = "add"
      THEN [db EXCEPT ![c.name] = [ver |-> c.ver, desc |-> "ok"]]
      ELSE IF db[c.name] # None /\ db[c.name].ver = c.ver
        THEN [db EXCEPT ![c.name] = None]
        ELSE db

\* alpm_trans_commit makes the changes one by one, removals first, and may fail
\* after any of them.
CommitChange(p) ==
    /\ pc[p] = "commit"
    /\ \E c \in plan[p] \ applied[p] :
         /\ c.op = "add" =>
               \A r \in plan[p] \ applied[p] : r.op = "add"
         /\ localdb' = Apply(localdb, c)
         /\ applied' = [applied EXCEPT ![p] = @ \cup {c}]
    /\ UNCHANGED <<holder, pc, ret, stdin, view, plan, consent>>

\* With --download-only there is nothing to change.
CommitEnds(p, downloadonly) ==
    /\ pc[p] = "commit"
    /\ \/ /\ applied[p] = (IF downloadonly THEN {} ELSE plan[p])
          /\ Goto(p, "release")
          /\ UNCHANGED ret
       \/ GiveUp(p)
    /\ UNCHANGED <<holder, localdb, stdin, view, plan, consent, applied>>

\* alpm_trans_release unlinks the lock file, if the transaction has one, and
\* main returns what it had, or 1 if this fails.
EndTrans(p, nolock) ==
    /\ pc[p] = "release"
    /\ holder' = IF nolock THEN holder ELSE None
    /\ Leave(p, ret[p]) \/ Leave(p, 1)
    /\ UNCHANGED <<localdb, stdin, view, plan, consent, applied>>

\* A process is killed between two steps; its lock file stays.
Killed(p) ==
    /\ pc[p] \notin Ended
    /\ Goto(p, "killed")
    /\ UNCHANGED <<holder, localdb, ret, stdin, view, plan, consent, applied>>

\* Types; and the database has been read before a transaction uses it.
SharedTypeOK ==
    /\ holder \in Programs \cup {None}
    /\ localdb \in [Names -> Entry \cup {None}]
    /\ pc \in [Programs -> Labels]
    /\ ret \in [Programs -> 0 .. 1]
    /\ stdin \in [Programs -> {"tty", "pipe"}]
    /\ view \in [Programs -> [Names -> Entry \cup {None}] \cup {None}]
    /\ \A p \in Programs : pc[p] \in InTrans => view[p] # None
    /\ plan \in [Programs -> SUBSET Change]
    /\ consent \in [Programs -> SUBSET Change]
    /\ applied \in [Programs -> SUBSET Change]
=============================================================================
