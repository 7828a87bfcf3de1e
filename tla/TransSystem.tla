----------------------------- MODULE TransSystem -----------------------------
(***************************************************************************)
(* pactrans and pacrepairdb processes at work on one system: they share    *)
(* the database lock and the local database.                               *)
(***************************************************************************)
EXTENDS PacTrans, PacRepairDb

vars == <<sharedVars, transVars, repairVars>>

Init == SharedInit /\ PacTransInit /\ PacRepairDbInit

Install(p) == PacTransStep(p) /\ UNCHANGED repairVars
Repair(p) == PacRepairDbStep(p) /\ UNCHANGED transVars
Kill(p) == Killed(p) /\ UNCHANGED <<transVars, repairVars>>

Finished ==
    /\ \A p \in Programs : pc[p] \in Ended
    /\ UNCHANGED vars

Next ==
    \/ \E p \in Installers : Install(p)
    \/ \E p \in Repairers : Repair(p)
    \/ \E p \in Programs : Kill(p)
    \/ Finished

Spec == Init /\ [][Next]_vars

\* The scheduler runs each program, libalpm's calls return, and somebody answers
\* the prompts on a terminal.
Fairness ==
    /\ \A p \in Installers : WF_vars(Install(p))
    /\ \A p \in Repairers : WF_vars(Repair(p))

FairSpec == Spec /\ Fairness

TypeOK == SharedTypeOK /\ PacTransTypeOK /\ PacRepairDbTypeOK

-----------------------------------------------------------------------------
\* The places at which a program works on the database, or on the sync databases:
\* between a successful trans_init with the lock and the release.
AtWork(p) ==
    IF p \in Installers
      THEN \/ pc[p] = "syncing"
           \/ /\ ~NoLock(p)
              /\ pc[p] \in InTrans \cup {"confirm", "release"}
      ELSE pc[p] \in InTrans \cup {"release"}

\* The programs keep the promise of DbAccess: they work one at a time, change
\* the database only while they do, and give up no lock but their own.  A
\* --print-only run, which has no lock, must neither commit nor release.
DbAccess == INSTANCE DbAccess WITH
    Free <- None, db <- localdb, working <- {p \in Programs : AtWork(p)}

ImplementsDbAccess == DbAccess!Spec

\* A program that ended on its own has given up the lock, whichever of the many
\* ways through main it took.
LockFreedAtExit == \A p \in Programs : pc[p] = "exited" => holder # p

\* Only what was displayed and agreed to is done: nothing that the questions or
\* the preparation change in the transaction comes after the confirmation.
AppliedWasShown == \A p \in Programs : applied[p] \subseteq consent[p]

\* Changes of p's transaction that were dropped with somebody's agreement.
Dropped(p) ==
    {a.question.pkg : a \in {b \in asked[p] :
                               b.question.type = "unresolvable" /\ b.answer}}

\* A transaction is about everything that was asked for or does not begin: one
\* target that cannot be found stops them all.
AllOrNothing ==
    \A p \in Installers : consent[p] # {} =>
        \A l \in Lists : \A t \in Range(opts[p].targets[l]) :
            Find(l, t, view[p]) \cap (consent[p] \cup Dropped(p)) # {}

\* doc/pactrans.pod:213-277: what each method allows.
Permitted(method, a) ==
    [all |-> TRUE, none |-> FALSE, prompt |-> a.prompted,
     provided |-> a.question.provides, depends |-> a.question.depend,
     provided_depends |-> a.question.provides /\ a.question.depend]

\* A package is removed because it was a target, because --cascade or
\* --recursive asked for more, or to make way for another one as far as the
\* method for conflicts or replacements permits it.
RemovalsJustified ==
    \A p \in Installers : \A c \in applied[p] : c.op = "rem" =>
        \/ c \in Requested(opts[p], view[p])
        \/ opts[p].flags \cap {"CASCADE", "RECURSE"} # {}
        \/ \E a \in asked[p] :
             /\ a.question.pkg = c /\ a.answer
             /\ LET m == MethodFor(opts[p], a.question.type)
                IN Permitted(m, a)[m]

\* An exit status of zero is never a lie: everything that was agreed to is done.
StatusTellsTruth ==
    \A p \in Programs :
        pc[p] = "exited" /\ ret[p] = 0 /\ consent[p] # {} =>
            \/ applied[p] = consent[p]
            \/ p \in Installers /\ "DOWNLOADONLY" \in opts[p].flags

Rank == [missing |-> 0, empty |-> 1, ok |-> 2]

Improves(old, new) ==
    /\ old # None /\ new # None
    /\ new.ver = old.ver
    /\ Rank[new.desc] > Rank[old.desc]

\* A repair, also one that fails or is killed half way, leaves every entry of
\* the local database at its version and in no worse state.  The version was
\* read before the lock was taken; fix_db_entry looks again under the lock.
RepairOnlyImproves ==
    [][\A n \in Names : holder \in Repairers /\ localdb'[n] # localdb[n] =>
         Improves(localdb[n], localdb'[n])]_vars

\* A repair that returns zero after the confirmation has reinstalled every
\* package it was given, in the version that was installed.
RepairIsComplete ==
    \A p \in Repairers :
        pc[p] = "exited" /\ ret[p] = 0 /\ consent[p] # {} =>
            \A n \in Range(packages[p]) :
                [op |-> "add", name |-> n, ver |-> view[p][n].ver] \in applied[p]

\* Without a terminal every program comes to an end: prompts find the end of
\* stdin and take their defaults, and the lock is tried for only once.
ProgramsEnd ==
    \A p \in Programs : stdin[p] # "tty" => <>(pc[p] \in {"exited", "killed"})

\* doc/pactrans.pod:103-105: --no-confirm, "Assume default responses to all
\* prompts": a question that no disposition option answers gets the answer that
\* an empty line would give.
NoConfirmTakesDefaults ==
    \A p \in Installers : \A a \in asked[p] :
        opts[p].noconfirm /\ AutoAnswer(opts[p], a.question) = {} =>
            a.answer = PromptDefault(a.question.type)
=============================================================================
