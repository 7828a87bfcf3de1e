-------------------------- MODULE TransSystemProofs --------------------------
(***************************************************************************)
(* Theorems about TransSystem for any number of pactrans and pacrepairdb   *)
(* processes, any databases, repositories, caches and command lines, in    *)
(* four parts: the lock; the plan, the consent and the changes; types;     *)
(* targets, removals and repairs.                                          *)
(***************************************************************************)
EXTENDS TransSystem, TransOptsProofs, FiniteSetTheorems, SequenceTheorems, TLAPS

-----------------------------------------------------------------------------
(***************************************************************************)
(* Part 1.  Each step of a program is of one of four kinds, as far as the  *)
(* lock is concerned; what a kind does to the lock is proved once.         *)
(***************************************************************************)
-----------------------------------------------------------------------------
(***************************************************************************)
(* The inductive invariant.                                                *)
(***************************************************************************)

TypesInv ==
    /\ holder \in Programs \cup {None}
    /\ pc \in [Programs -> Labels]

\* The globals main reads are there, and NOLOCK is set exactly for --print-only.
Consistent(r) ==
    /\ {"flags", "printonly", "targets"} \subseteq DOMAIN r
    /\ "NOLOCK" \in r.flags <=> r.printonly

\* A --print-only run has no lock, and does not get as far as the commit.
OptsInv ==
    /\ DOMAIN opts = Installers
    /\ \A p \in Installers : /\ Consistent(opts[p])
                             /\ pc[p] = "commit" => ~opts[p].printonly

\* Who is at work has the lock.
HeldAtWork == \A p \in Programs : AtWork(p) => holder = p

\* Who has the lock is at work, or will never do anything again.
HolderAtWork ==
    \A p \in Programs : holder = p => AtWork(p) \/ pc[p] \in {"hung", "killed"}

LockInv == TypesInv /\ OptsInv /\ HeldAtWork /\ HolderAtWork

-----------------------------------------------------------------------------
(***************************************************************************)
(* The kinds of steps.                                                     *)
(***************************************************************************)

\* Program p, which is not dead, goes to l.  Its options keep the flags.
MovesTo(p, l) ==
    /\ pc[p] \notin Ended /\ l \in Labels
    /\ pc' = [pc EXCEPT ![p] = l]
    /\ DOMAIN opts' = Installers
    /\ \A q \in Installers : /\ Consistent(opts'[q])
                             /\ opts'[q].printonly = opts[q].printonly
    /\ p \in Installers /\ l = "commit" => ~opts[p].printonly

\* p stays at work or stays away; only at work it touches the database.
Stays(p) ==
    /\ \E l \in Labels : MovesTo(p, l)
    /\ AtWork(p)' <=> AtWork(p)
    /\ holder' = holder
    /\ AtWork(p) \/ localdb' = localdb

Enters(p) ==
    /\ \E l \in Labels : MovesTo(p, l)
    /\ AtWork(p)'
    /\ holder = None /\ holder' = p
    /\ localdb' = localdb

Leaves(p) ==
    /\ \E l \in Labels : MovesTo(p, l)
    /\ AtWork(p) /\ ~AtWork(p)'
    /\ holder' = None
    /\ localdb' = localdb

Dies(p) ==
    /\ \E l \in {"hung", "killed"} : MovesTo(p, l)
    /\ holder' = holder
    /\ localdb' = localdb

-----------------------------------------------------------------------------
USE ProgramsAssumption

\* The labels, so that the sets can stay folded in the proofs.
LEMMA LabelFacts ==
    /\ {"start", "targets", "setup", "dbsync", "syncing", "lookup", "match",
        "init", "fix", "add", "remove", "sysupgrade", "prepare", "confirm",
        "commit", "release", "hung", "exited", "killed"} = Labels
    /\ Ended \subseteq Labels /\ InTrans \subseteq Labels
    /\ \A l \in Ended : l \notin InTrans
BY DEF Labels, Ended, InTrans

LEMMA ConsistentNoLock ==
    ASSUME OptsInv, NEW p \in Installers
    PROVE  NoLock(p) <=> opts[p].printonly
BY DEF OptsInv, Consistent, NoLock

\* Programs that do not move stay where they are.
LEMMA OthersStay ==
    ASSUME LockInv, NEW p \in Programs, NEW l \in Labels, MovesTo(p, l)
    PROVE  /\ TypesInv' <=> holder' \in Programs \cup {None}
           /\ OptsInv'
           /\ pc'[p] = l
           /\ \A q \in Programs \ {p} : pc'[q] = pc[q] /\ (AtWork(q)' <=> AtWork(q))
<1> USE DEF LockInv, MovesTo
<1>1. pc' \in [Programs -> Labels] /\ pc'[p] = l
      /\ \A q \in Programs \ {p} : pc'[q] = pc[q]
  BY DEF TypesInv
<1>2. OptsInv'
  BY <1>1 DEF OptsInv, Programs
<1>3. \A q \in Installers : NoLock(q)' <=> NoLock(q)
  BY DEF OptsInv, Consistent, NoLock
<1>4. \A q \in Programs \ {p} : AtWork(q)' <=> AtWork(q)
  BY <1>1, <1>3 DEF AtWork
<1> QED BY <1>1, <1>2, <1>4 DEF TypesInv

\* What a step has to do: keep the invariant and be a step of DbAccess.
Good == LockInv' /\ [DbAccess!Next]_DbAccess!vars

Work == {p \in Programs : AtWork(p)}

\* The dead are not at work.
LEMMA DeadDoNotWork ==
    ASSUME NEW p \in Programs, pc[p] \in Ended PROVE ~AtWork(p)
BY LabelFacts DEF AtWork, Ended, InTrans

LEMMA StaysGood == ASSUME LockInv, NEW p \in Programs, Stays(p) PROVE Good
<1> PICK l \in Labels : MovesTo(p, l)
  BY DEF Stays
<1>1. TypesInv' /\ OptsInv'
  BY OthersStay DEF Stays, LockInv, TypesInv
<1>2. \A q \in Programs : AtWork(q)' <=> AtWork(q)
  BY OthersStay DEF Stays
<1>3. HeldAtWork'
  BY <1>2 DEF LockInv, HeldAtWork, Stays
<1>4. HolderAtWork'
  BY <1>2, OthersStay DEF LockInv, HolderAtWork, Stays, MovesTo, Ended
<1>5. Work' = Work
  BY <1>2 DEF Work
<1>6. [DbAccess!Next]_DbAccess!vars
  <2>1. CASE AtWork(p)
    <3>1. holder = p /\ p \in Work
      BY <2>1 DEF LockInv, HeldAtWork, Work
    <3>2. DbAccess!Change(p)
      BY <1>5, <3>1 DEF DbAccess!Change, Work, Stays
    <3> QED BY <3>2 DEF DbAccess!Next
  <2>2. CASE ~AtWork(p)
    BY <1>5, <2>2 DEF DbAccess!vars, Work, Stays
  <2> QED BY <2>1, <2>2
<1> QED BY <1>1, <1>3, <1>4, <1>6 DEF Good, LockInv

LEMMA EntersGood == ASSUME LockInv, NEW p \in Programs, Enters(p) PROVE Good
<1> PICK l \in Labels : MovesTo(p, l)
  BY DEF Enters
<1>1. TypesInv' /\ OptsInv'
  BY OthersStay DEF Enters, LockInv, TypesInv
<1>2. \A q \in Programs : AtWork(q)' <=> q = p
  BY OthersStay DEF Enters, LockInv, HeldAtWork
<1>3. HeldAtWork' /\ HolderAtWork'
  BY <1>2 DEF HeldAtWork, HolderAtWork, Enters
<1>4. Work = {} /\ Work' = {p}
  BY <1>2 DEF Work, LockInv, HeldAtWork, Enters
<1>5. DbAccess!Begin(p)
  BY <1>4 DEF DbAccess!Begin, Work, Enters
<1> QED BY <1>1, <1>3, <1>5 DEF Good, LockInv, DbAccess!Next

LEMMA LeavesGood == ASSUME LockInv, NEW p \in Programs, Leaves(p) PROVE Good
<1> PICK l \in Labels : MovesTo(p, l)
  BY DEF Leaves
<1>1. TypesInv' /\ OptsInv'
  BY OthersStay DEF Leaves, LockInv, TypesInv
<1>2. holder = p /\ \A q \in Programs : AtWork(q) => q = p
  BY DEF Leaves, LockInv, HeldAtWork
<1>3. \A q \in Programs : ~AtWork(q)'
  BY <1>2, OthersStay DEF Leaves
<1>4. HeldAtWork' /\ HolderAtWork'
  BY <1>3 DEF HeldAtWork, HolderAtWork, Leaves
<1>5. Work = {p} /\ Work' = {}
  BY <1>2, <1>3 DEF Work, Leaves
<1>6. DbAccess!End(p)
  BY <1>2, <1>5 DEF DbAccess!End, Work, Leaves
<1> QED BY <1>1, <1>4, <1>6 DEF Good, LockInv, DbAccess!Next

LEMMA DiesGood == ASSUME LockInv, NEW p \in Programs, Dies(p) PROVE Good
<1> PICK l \in {"hung", "killed"} : MovesTo(p, l)
  BY DEF Dies
<1>0. l \in Labels
  BY DEF MovesTo
<1>1. TypesInv' /\ OptsInv' /\ pc'[p] = l
  BY <1>0, OthersStay DEF Dies, LockInv, TypesInv
<1>2. ~AtWork(p)'
  BY <1>1 DEF AtWork, InTrans
<1>3. \A q \in Programs \ {p} : pc'[q] = pc[q] /\ (AtWork(q)' <=> AtWork(q))
  BY <1>0, OthersStay
<1>4. HeldAtWork'
  BY <1>2, <1>3 DEF LockInv, HeldAtWork, Dies
<1>5. HolderAtWork'
  BY <1>1, <1>3 DEF LockInv, HolderAtWork, Dies
<1>6. Work' = Work \ {p}
  BY <1>2, <1>3 DEF Work
<1>7. [DbAccess!Next]_DbAccess!vars
  <2>1. CASE AtWork(p)
    <3>1. DbAccess!Die(p)
      BY <1>6, <2>1 DEF DbAccess!Die, Work, Dies
    <3> QED BY <3>1 DEF DbAccess!Next
  <2>2. CASE ~AtWork(p)
    BY <1>6, <2>2 DEF DbAccess!vars, Work, Dies
  <2> QED BY <2>1, <2>2
<1> QED BY <1>1, <1>4, <1>5, <1>7 DEF Good, LockInv
-----------------------------------------------------------------------------
(***************************************************************************)
(* The kind of each action.                                                *)
(***************************************************************************)

\* The places at which a program with options like o works.
Work1(p, l) ==
    IF p \in Installers
      THEN l = "syncing" \/ (~NoLock(p) /\ l \in InTrans \cup {"confirm", "release"})
      ELSE l \in InTrans \cup {"release"}

\* A step that leaves the options alone, from a known place to a known place.
LEMMA Moving ==
    ASSUME LockInv, NEW p \in Programs, NEW l \in Labels,
           pc[p] \notin Ended, pc' = [pc EXCEPT ![p] = l], UNCHANGED opts,
           p \in Installers /\ l = "commit" => ~opts[p].printonly
    PROVE  /\ MovesTo(p, l)
           /\ AtWork(p) <=> Work1(p, pc[p])
           /\ AtWork(p)' <=> Work1(p, l)
<1>1. MovesTo(p, l)
  BY DEF MovesTo, LockInv, OptsInv
<1>2. pc'[p] = l
  BY DEF LockInv, TypesInv
<1> QED BY <1>1, <1>2 DEF AtWork, Work1, NoLock

LEMMA BeforeWork ==
    ASSUME LockInv, NEW p \in Installers,
           ParseOpts(p) \/ SetUp(p) \/ Lookup(p)
    PROVE  Stays(p)
<1>1. PICK l \in {"exited", "targets", "dbsync", "lookup", "init"} :
         pc' = [pc EXCEPT ![p] = l]
  BY DEF ParseOpts, SetUp, Lookup, Leave, Goto
<1>2. /\ pc[p] \in {"start", "setup", "lookup"}
      /\ UNCHANGED <<opts, holder, localdb>>
  BY DEF ParseOpts, SetUp, Lookup
<1>3. p \in Programs /\ l \in Labels /\ pc[p] \notin Ended /\ l # "commit"
  BY <1>1, <1>2 DEF Programs, Labels, Ended
<1>4. MovesTo(p, l) /\ (AtWork(p) <=> Work1(p, pc[p])) /\ (AtWork(p)' <=> Work1(p, l))
  BY <1>1, <1>2, <1>3, Moving
<1>5. ~Work1(p, pc[p]) /\ ~Work1(p, l)
  BY <1>1, <1>2 DEF Work1, InTrans
<1> QED BY <1>2, <1>3, <1>4, <1>5 DEF Stays

\* Reading the targets changes only the lists in the options.
LEMMA ReadTargetsStays == ASSUME LockInv, NEW p \in Installers, ReadTargets(p) PROVE Stays(p)
<1>1. PICK l \in {"exited", "setup"} : pc' = [pc EXCEPT ![p] = l]
  BY DEF ReadTargets, Leave, Goto
<1>2. pc[p] = "targets" /\ UNCHANGED <<holder, localdb>>
  BY DEF ReadTargets
<1>3. PICK more \in IF stdin[p] = "pipe" THEN Piped ELSE {<< >>} :
         opts' = [opts EXCEPT ![p] =
                     [opts[p] EXCEPT !.targets["spec"] = @ \o more]]
  BY DEF ReadTargets
<1>4. /\ DOMAIN opts' = Installers
      /\ \A q \in Installers : /\ Consistent(opts'[q])
                               /\ opts'[q].printonly = opts[q].printonly
  BY <1>3 DEF LockInv, OptsInv, Consistent
<1>5. p \in Programs /\ l \in Labels /\ pc'[p] = l
  BY <1>1 DEF Programs, Labels, LockInv, TypesInv
<1>6. MovesTo(p, l)
  BY <1>1, <1>2, <1>4, <1>5 DEF MovesTo, Ended
<1>7. ~AtWork(p) /\ ~AtWork(p)'
  BY <1>1, <1>2, <1>5 DEF AtWork, InTrans
<1> QED BY <1>2, <1>5, <1>6, <1>7 DEF Stays

LEMMA DbSyncKind ==
    ASSUME LockInv, NEW p \in Installers, DbSync(p) PROVE Stays(p) \/ Enters(p)
<1>1. PICK l \in {"syncing", "lookup"} :
         /\ pc' = [pc EXCEPT ![p] = l]
         /\ \/ l = "syncing" /\ holder = None /\ holder' = p
            \/ l = "lookup" /\ UNCHANGED holder
  BY DEF DbSync, Goto
<1>2. pc[p] = "dbsync" /\ UNCHANGED <<opts, localdb>>
  BY DEF DbSync
<1>3. p \in Programs /\ l \in Labels /\ pc[p] \notin Ended /\ l # "commit"
  BY <1>1, <1>2 DEF Programs, Labels, Ended
<1>4. MovesTo(p, l) /\ (AtWork(p) <=> Work1(p, pc[p])) /\ (AtWork(p)' <=> Work1(p, l))
  BY <1>1, <1>2, <1>3, Moving
<1>5. ~Work1(p, pc[p]) /\ (Work1(p, l) <=> l = "syncing")
  BY <1>1, <1>2 DEF Work1, InTrans
<1> QED BY <1>1, <1>2, <1>3, <1>4, <1>5 DEF Stays, Enters

LEMMA DbSyncEndsKind == ASSUME LockInv, NEW p \in Installers, DbSyncEnds(p) PROVE Leaves(p)
<1>1. /\ pc[p] = "syncing" /\ pc' = [pc EXCEPT ![p] = "lookup"]
      /\ holder' = None /\ UNCHANGED <<opts, localdb>>
  BY DEF DbSyncEnds, Goto
<1>2. p \in Programs /\ "lookup" \in Labels /\ pc[p] \notin Ended
  BY <1>1 DEF Programs, Labels, Ended
<1>3. MovesTo(p, "lookup") /\ AtWork(p) /\ ~AtWork(p)'
  BY <1>1, <1>2, Moving DEF Work1, InTrans
<1> QED BY <1>1, <1>2, <1>3 DEF Leaves
-----------------------------------------------------------------------------
\* The places of pactrans between trans_init and the release.
Trans == {"add", "remove", "sysupgrade", "prepare", "confirm", "commit", "release"}

LEMMA TransStays ==
    ASSUME LockInv, NEW p \in Installers, NEW l \in Trans,
           pc[p] \in Trans, pc' = [pc EXCEPT ![p] = l],
           UNCHANGED <<opts, holder, localdb>>,
           l = "commit" => pc[p] = "commit" \/ ~opts[p].printonly
    PROVE  Stays(p)
<1>1. p \in Programs /\ l \in Labels /\ pc[p] \notin Ended
  BY DEF Programs, Labels, Ended, Trans
<1>2. l = "commit" => ~opts[p].printonly
  BY DEF LockInv, OptsInv
<1>3. MovesTo(p, l) /\ (AtWork(p) <=> Work1(p, pc[p])) /\ (AtWork(p)' <=> Work1(p, l))
  BY <1>1, <1>2, Moving
<1>4. (Work1(p, pc[p]) <=> ~NoLock(p)) /\ (Work1(p, l) <=> ~NoLock(p))
  BY DEF Work1, InTrans, Trans
<1> QED BY <1>1, <1>3, <1>4 DEF Stays

LEMMA TransInitKind ==
    ASSUME LockInv, NEW p \in Installers, TransInit(p) PROVE Stays(p) \/ Enters(p)
<1>1. pc[p] = "init" /\ UNCHANGED <<opts, localdb>>
  BY DEF TransInit
<1>2. PICK l \in {"add", "exited"} :
         /\ pc' = [pc EXCEPT ![p] = l]
         /\ l = "exited" \/ NoLock(p) => UNCHANGED holder
         /\ l = "add" /\ ~NoLock(p) => holder = None /\ holder' = p
  BY DEF TransInit, BeginTrans, Leave, Goto
<1>3. p \in Programs /\ l \in Labels /\ pc[p] \notin Ended /\ l # "commit"
  BY <1>1, <1>2 DEF Programs, Labels, Ended
<1>4. MovesTo(p, l) /\ (AtWork(p) <=> Work1(p, pc[p])) /\ (AtWork(p)' <=> Work1(p, l))
  BY <1>1, <1>2, <1>3, Moving
<1>5. ~Work1(p, pc[p]) /\ (Work1(p, l) <=> l = "add" /\ ~NoLock(p))
  BY <1>1, <1>2 DEF Work1, InTrans
<1> QED BY <1>1, <1>2, <1>3, <1>4, <1>5 DEF Stays, Enters

LEMMA StagesStay ==
    ASSUME LockInv, NEW p \in Installers,
           AddPackages(p) \/ RemovePackages(p) \/ SysUpgrade(p) \/ Prepare(p)
    PROVE  Stays(p)
<1>1. /\ pc[p] \in Trans
      /\ \E l \in Trans \ {"commit"} : pc' = [pc EXCEPT ![p] = l]
      /\ UNCHANGED <<opts, holder, localdb>>
  BY DEF AddPackages, RemovePackages, SysUpgrade, Prepare, Stage, GiveUp, Goto, Trans
<1> QED BY <1>1, TransStays

\* A question changes the transaction, ends it or is never answered.
LEMMA AskKind == ASSUME LockInv, NEW p \in Installers, Ask(p) PROVE Stays(p) \/ Dies(p)
<1>1. PICK q \in Questions(p) :
         \/ \E answer \in Answers(p, q) : Decide(p, q, answer)
         \/ Goto(p, "hung")
  BY DEF Ask
<1>2. pc[p] \in {"sysupgrade", "prepare", "commit"}
  BY DEF Ask, Questions
<1>3. UNCHANGED <<opts, holder, localdb>>
  BY DEF Ask
<1>4. CASE Goto(p, "hung")
  <2>1. p \in Programs /\ "hung" \in Labels /\ pc[p] \notin Ended
    BY <1>2 DEF Programs, Labels, Ended
  <2>2. MovesTo(p, "hung")
    BY <1>3, <1>4, <2>1, Moving DEF Goto
  <2> QED BY <1>3, <2>2 DEF Dies
<1>5. CASE \E answer \in Answers(p, q) : Decide(p, q, answer)
  <2>1. pc' = pc \/ pc' = [pc EXCEPT ![p] = "release"]
    BY <1>5 DEF Decide, GiveUp, Goto
  <2>2. \E l \in {pc[p], "release"} : pc' = [pc EXCEPT ![p] = l]
    BY <2>1 DEF LockInv, TypesInv
  <2>3. pc[p] \in Trans /\ "release" \in Trans
    BY <1>2 DEF Trans
  <2>4. PICK l \in Trans : pc' = [pc EXCEPT ![p] = l] /\ (l = "commit" => pc[p] = "commit")
    BY <2>2, <2>3
  <2> QED BY <1>3, <2>3, <2>4, TransStays
<1> QED BY <1>1, <1>4, <1>5

\* Only a run that is not --print-only goes on to the commit.
LEMMA ConfirmKind ==
    ASSUME LockInv, NEW p \in Installers, Confirm(p) PROVE Stays(p) \/ Dies(p)
<1>1. pc[p] = "confirm" /\ UNCHANGED <<opts, holder, localdb>>
  BY DEF Confirm
<1>2. PICK l \in {"commit", "release", "hung"} :
         pc' = [pc EXCEPT ![p] = l] /\ (l = "commit" => ~opts[p].printonly)
  BY DEF Confirm, Proceeds, Goto
<1>3. CASE l = "hung"
  <2>1. p \in Programs /\ "hung" \in Labels /\ pc[p] \notin Ended
    BY <1>1 DEF Programs, Labels, Ended
  <2>2. MovesTo(p, "hung")
    BY <1>1, <1>2, <1>3, <2>1, Moving
  <2> QED BY <1>1, <2>2 DEF Dies
<1>4. CASE l # "hung"
  <2>1. pc[p] \in Trans /\ l \in Trans
    BY <1>1, <1>2, <1>4 DEF Trans
  <2> QED BY <1>1, <1>2, <2>1, TransStays
<1> QED BY <1>3, <1>4

LEMMA CommitStays == ASSUME LockInv, NEW p \in Installers, Commit(p) PROVE Stays(p)
<1>1. CASE CommitEnds(p, "DOWNLOADONLY" \in opts[p].flags)
  <2>1. pc[p] \in Trans /\ "release" \in Trans
    BY <1>1 DEF CommitEnds, Trans
  <2>2. pc' = [pc EXCEPT ![p] = "release"] /\ UNCHANGED <<opts, holder, localdb>>
    BY <1>1 DEF Commit, CommitEnds, GiveUp, Goto, transVars
  <2> QED BY <2>1, <2>2, TransStays
<1>2. CASE CommitChange(p)
  <2>1. pc[p] = "commit" /\ UNCHANGED <<pc, opts, holder>>
    BY <1>2 DEF Commit, CommitChange, transVars
  <2>2. p \in Programs /\ "commit" \in Labels /\ pc[p] \notin Ended
    BY <2>1 DEF Programs, Labels, Ended
  <2>3. ~opts[p].printonly /\ ~NoLock(p)
    BY <2>1, ConsistentNoLock DEF LockInv, OptsInv
  <2>4. pc' = [pc EXCEPT ![p] = "commit"]
    BY <2>1 DEF LockInv, TypesInv
  <2>5. MovesTo(p, "commit") /\ AtWork(p) /\ AtWork(p)'
    BY <2>1, <2>2, <2>3, <2>4, Moving DEF Work1, InTrans
  <2> QED BY <2>1, <2>2, <2>5 DEF Stays
<1> QED BY <1>1, <1>2 DEF Commit

LEMMA ReleaseKind ==
    ASSUME LockInv, NEW p \in Installers, TransRelease(p)
    PROVE  Stays(p) \/ Leaves(p)
<1>1. /\ pc[p] = "release" /\ pc' = [pc EXCEPT ![p] = "exited"]
      /\ UNCHANGED <<opts, localdb>>
      /\ holder' = IF NoLock(p) THEN holder ELSE None
  BY DEF TransRelease, EndTrans, Leave, Goto, transVars
<1>2. p \in Programs /\ "exited" \in Labels /\ pc[p] \notin Ended
  BY <1>1 DEF Programs, Labels, Ended
<1>3. MovesTo(p, "exited") /\ (AtWork(p) <=> ~NoLock(p)) /\ ~AtWork(p)'
  BY <1>1, <1>2, Moving DEF Work1, InTrans
<1> QED BY <1>1, <1>2, <1>3 DEF Stays, Leaves
-----------------------------------------------------------------------------
\* A step of pacrepairdb that leaves the lock alone: both places are at work or
\* neither is, or it never gets an answer.
LEMMA RepairMoves ==
    ASSUME LockInv, NEW p \in Repairers, NEW l \in Labels,
           pc[p] \notin Ended, pc' = [pc EXCEPT ![p] = l],
           UNCHANGED <<opts, holder>>,
           pc[p] \in InTrans \cup {"release"} \/ localdb' = localdb,
           pc[p] \in InTrans \cup {"release"} <=> l \in InTrans \cup {"release"}
    PROVE  Stays(p)
<1>1. p \in Programs /\ p \notin Installers
  BY DEF Programs
<1>2. MovesTo(p, l) /\ (AtWork(p) <=> Work1(p, pc[p])) /\ (AtWork(p)' <=> Work1(p, l))
  BY <1>1, Moving
<1> QED BY <1>1, <1>2 DEF Stays, Work1

LEMMA RepairBeforeWork ==
    ASSUME LockInv, NEW p \in Repairers, UNCHANGED opts,
           RepairStart(p) \/ RepairLookup(p) \/ MatchCache(p) \/ RepairConfirm(p)
    PROVE  Stays(p)
<1>1. /\ pc[p] \in {"start", "lookup", "match", "confirm"}
      /\ \E l \in {"lookup", "match", "confirm", "init", "hung", "exited"} :
            pc' = [pc EXCEPT ![p] = l]
      /\ UNCHANGED <<holder, localdb>>
  BY DEF RepairStart, RepairLookup, MatchCache, RepairConfirm, Leave, Goto
<1>2. PICK l \in {"lookup", "match", "confirm", "init", "hung", "exited"} :
         pc' = [pc EXCEPT ![p] = l]
  BY <1>1
<1>3. l \in Labels /\ pc[p] \notin Ended
  BY <1>1 DEF Labels, Ended
<1>4. pc[p] \notin InTrans \cup {"release"} /\ l \notin InTrans \cup {"release"}
  BY <1>1 DEF InTrans
<1> QED BY <1>1, <1>2, <1>3, <1>4, RepairMoves

LEMMA RepairInitKind ==
    ASSUME LockInv, NEW p \in Repairers, UNCHANGED opts, RepairInit(p)
    PROVE  Stays(p) \/ Enters(p)
<1>1. pc[p] = "init" /\ UNCHANGED localdb
  BY DEF RepairInit
<1>2. \/ pc' = [pc EXCEPT ![p] = "fix"] /\ holder = None /\ holder' = p
      \/ pc' = [pc EXCEPT ![p] = "exited"] /\ UNCHANGED holder
  BY DEF RepairInit, BeginTrans, Leave, Goto
<1>3. /\ p \in Programs /\ p \notin Installers
      /\ pc[p] \notin Ended /\ "fix" \in Labels /\ "exited" \in Labels
  BY <1>1 DEF Programs, Ended, Labels
<1>4. CASE pc' = [pc EXCEPT ![p] = "fix"] /\ holder = None /\ holder' = p
  <2>1. MovesTo(p, "fix") /\ AtWork(p)'
    BY <1>3, <1>4, Moving DEF Work1, InTrans
  <2> QED BY <1>1, <1>3, <1>4, <2>1 DEF Enters
<1>5. CASE pc' = [pc EXCEPT ![p] = "exited"] /\ UNCHANGED holder
  <2>1. "exited" \notin InTrans \cup {"release"} /\ pc[p] \notin InTrans \cup {"release"}
    BY <1>1 DEF InTrans
  <2> QED BY <1>1, <1>3, <1>5, <2>1, RepairMoves
<1> QED BY <1>2, <1>4, <1>5

LEMMA RepairAtWork ==
    ASSUME LockInv, NEW p \in Repairers, UNCHANGED opts,
           \/ FixEntry(p) \/ RepairAdd(p) \/ RepairPrepare(p) \/ RepairCommit(p)
    PROVE  Stays(p)
<1>1. /\ pc[p] \in {"fix", "add", "prepare", "commit"}
      /\ \/ pc' = pc
         \/ \E l \in {"add", "prepare", "commit", "release"} :
               pc' = [pc EXCEPT ![p] = l]
      /\ UNCHANGED holder
  BY DEF FixEntry, RepairAdd, RepairPrepare, RepairCommit, CommitChange,
         CommitEnds, Stage, GiveUp, Goto
<1>2. PICK l \in {"fix", "add", "prepare", "commit", "release"} :
         pc' = [pc EXCEPT ![p] = l]
  BY <1>1 DEF LockInv, TypesInv
<1>3. l \in Labels /\ pc[p] \notin Ended
  BY <1>1 DEF Labels, Ended
<1>4. pc[p] \in InTrans \cup {"release"} /\ l \in InTrans \cup {"release"}
  BY <1>1 DEF InTrans
<1> QED BY <1>1, <1>2, <1>3, <1>4, RepairMoves

LEMMA RepairReleaseLeaves ==
    ASSUME LockInv, NEW p \in Repairers, UNCHANGED opts, RepairRelease(p)
    PROVE  Leaves(p)
<1>1. /\ pc[p] = "release" /\ pc' = [pc EXCEPT ![p] = "exited"]
      /\ holder' = None /\ UNCHANGED localdb
  BY DEF RepairRelease, EndTrans, Leave, Goto
<1>2. /\ p \in Programs /\ p \notin Installers
      /\ "exited" \in Labels /\ pc[p] \notin Ended
  BY <1>1 DEF Programs, Labels, Ended
<1>3. MovesTo(p, "exited") /\ AtWork(p) /\ ~AtWork(p)'
  BY <1>1, <1>2, Moving DEF Work1, InTrans
<1> QED BY <1>1, <1>2, <1>3 DEF Leaves

LEMMA KillDies == ASSUME LockInv, NEW p \in Programs, Kill(p) PROVE Dies(p)
<1>1. /\ pc[p] \notin Ended /\ pc' = [pc EXCEPT ![p] = "killed"]
      /\ UNCHANGED <<opts, holder, localdb>>
  BY DEF Kill, Killed, Goto, transVars
<1>2. "killed" \in Labels
  BY DEF Labels
<1>3. MovesTo(p, "killed")
  BY <1>1, <1>2, Moving
<1> QED BY <1>1, <1>3 DEF Dies

-----------------------------------------------------------------------------
LEMMA KindsAreGood ==
    ASSUME LockInv, NEW p \in Programs, Stays(p) \/ Enters(p) \/ Leaves(p) \/ Dies(p)
    PROVE  Good
BY StaysGood, EntersGood, LeavesGood, DiesGood

LEMMA InstallGood == ASSUME LockInv, NEW p \in Installers, Install(p) PROVE Good
<1>1. Stays(p) \/ Enters(p) \/ Leaves(p) \/ Dies(p)
  BY BeforeWork, ReadTargetsStays, DbSyncKind, DbSyncEndsKind, TransInitKind,
     StagesStay, AskKind, ConfirmKind, CommitStays, ReleaseKind
  DEF Install, PacTransStep
<1> QED BY <1>1, KindsAreGood DEF Programs

LEMMA RepairGood == ASSUME LockInv, NEW p \in Repairers, Repair(p) PROVE Good
<1>1. UNCHANGED opts
  BY DEF Repair, transVars
<1>2. Stays(p) \/ Enters(p) \/ Leaves(p)
  BY <1>1, RepairBeforeWork, RepairInitKind, RepairAtWork, RepairReleaseLeaves
  DEF Repair, PacRepairDbStep
<1> QED BY <1>2, KindsAreGood DEF Programs

LEMMA StutterGood == ASSUME LockInv, UNCHANGED vars PROVE Good
<1>1. UNCHANGED <<pc, holder, localdb, opts>>
  BY DEF vars, sharedVars, transVars
<1>2. \A p \in Programs : AtWork(p)' <=> AtWork(p)
  BY <1>1 DEF AtWork, NoLock
<1>3. LockInv'
  BY <1>1, <1>2 DEF LockInv, TypesInv, OptsInv, HeldAtWork, HolderAtWork
<1>4. UNCHANGED DbAccess!vars
  BY <1>1, <1>2 DEF DbAccess!vars
<1> QED BY <1>3, <1>4 DEF Good

LEMMA StepGood == ASSUME LockInv, [Next]_vars PROVE Good
BY InstallGood, RepairGood, KillDies, KindsAreGood, StutterGood DEF Next, Finished

\* Whatever the arguments are, parse_opts leaves the globals like that.
LEMMA ParsedConsistent ==
    ASSUME NEW p \in Installers, opts \in [Installers -> {Parse(a[1], a[2]) : a \in Argvs}]
    PROVE  Consistent(opts[p])
<1>1. PICK a \in Argvs : opts[p] = Parse(a[1], a[2])
  OBVIOUS
<1>2. Sound(opts[p])
  BY <1>1, ParseSound, ArgvsAssumption
<1> QED BY <1>2 DEF Sound, Fields, Locked, Consistent

LEMMA InitGood == ASSUME Init PROVE LockInv /\ DbAccess!Init
<1> USE DEF Init, SharedInit, PacTransInit
<1>1. \A p \in Programs : pc[p] = "start" /\ ~AtWork(p)
  BY DEF AtWork, InTrans
<1>2. TypesInv
  BY DEF TypesInv, Labels
<1>3. OptsInv
  BY <1>1, ParsedConsistent DEF OptsInv, Programs
<1>4. HeldAtWork /\ HolderAtWork
  BY <1>1 DEF HeldAtWork, HolderAtWork
<1>5. DbAccess!Init
  BY <1>1 DEF DbAccess!Init
<1> QED BY <1>2, <1>3, <1>4, <1>5 DEF LockInv

\* The inductive invariant holds in every behaviour.
THEOREM LockInvariant == Spec => []LockInv
<1>1. Init => LockInv
  BY InitGood
<1>2. LockInv /\ [Next]_vars => LockInv'
  BY StepGood DEF Good
<1> QED BY <1>1, <1>2, PTL DEF Spec

\* Programs that end on their own have given up the lock: of the many ways
\* through main none leaves it behind, for any number of programs.
THEOREM LockFreed == Spec => []LockFreedAtExit
<1>1. LockInv => LockFreedAtExit
  BY DEF LockInv, HolderAtWork, LockFreedAtExit, AtWork, InTrans
<1> QED BY <1>1, LockInvariant, PTL

\* pactrans and pacrepairdb keep the promise of DbAccess: nobody works on the
\* database without the lock, and nobody gives up the lock of somebody else.
THEOREM AccessRefinement == Spec => ImplementsDbAccess
<1>1. Init => DbAccess!Init
  BY InitGood
<1>2. LockInv /\ [Next]_vars => [DbAccess!Next]_DbAccess!vars
  BY StepGood DEF Good
<1> QED BY <1>1, <1>2, LockInvariant, PTL DEF Spec, ImplementsDbAccess, DbAccess!Spec

\* Two programs are never at work on the database at once.
THEOREM OneAtWork ==
    Spec => [](\A p, q \in Programs : AtWork(p) /\ AtWork(q) => p = q)
<1>1. LockInv => \A p, q \in Programs : AtWork(p) /\ AtWork(q) => p = q
  BY DEF LockInv, HeldAtWork
<1> QED BY <1>1, LockInvariant, PTL

-----------------------------------------------------------------------------
(***************************************************************************)
(* Part 2.  What pactrans and pacrepairdb do is what was agreed to: the    *)
(* plan, the consent and the changes of each program.                      *)
(***************************************************************************)

\* Before the confirmation there is no consent; after it, until the end of the
\* commit, the consent is the plan.
Undecided(p) ==
    IF p \in Installers
      THEN pc[p] \notin {"commit", "release", "hung", "exited", "killed"}
      ELSE pc[p] \in {"start", "lookup", "match", "confirm"}

Decided(p) ==
    IF p \in Installers THEN pc[p] = "commit"
      ELSE pc[p] \in {"init", "fix", "add", "prepare", "commit"}

DownloadsOnly(p) == p \in Installers /\ "DOWNLOADONLY" \in opts[p].flags

\* Of one program: what holds at the end of main follows from what holds at the
\* labels transcleanup and cleanup.
Agreed(p) ==
    /\ applied[p] \subseteq consent[p]
    /\ Undecided(p) => consent[p] = {}
    /\ Decided(p) => consent[p] = plan[p]
    /\ pc[p] \in {"release", "exited"} /\ ret[p] = 0 /\ consent[p] # {} =>
         applied[p] = consent[p] \/ DownloadsOnly(p)

Functions ==
    /\ DOMAIN pc = Programs /\ pc = [p \in Programs |-> pc[p]]
    /\ DOMAIN ret = Programs /\ ret = [p \in Programs |-> ret[p]]
    /\ DOMAIN plan = Programs
    /\ DOMAIN consent = Programs
    /\ DOMAIN applied = Programs /\ applied = [p \in Programs |-> applied[p]]
    /\ DOMAIN opts = Installers
    /\ \A p \in Installers : {"flags", "printonly", "targets"} \subseteq DOMAIN opts[p]

AgreementInv == Functions /\ \A p \in Programs : Agreed(p)

-----------------------------------------------------------------------------
\* A step of p changes nothing of the other programs.
Alone(p) ==
    /\ Functions'
    /\ \A q \in Programs \ {p} :
         /\ pc'[q] = pc[q] /\ ret'[q] = ret[q] /\ plan'[q] = plan[q]
         /\ consent'[q] = consent[q] /\ applied'[q] = applied[q]
    /\ \A q \in Installers : opts'[q].flags = opts[q].flags

LEMMA AloneAgrees ==
    ASSUME AgreementInv, NEW p \in Programs, Alone(p), Agreed(p)'
    PROVE  AgreementInv'
<1>1. ASSUME NEW q \in Programs \ {p} PROVE Agreed(q)'
  BY <1>1 DEF AgreementInv, Alone, Agreed, Undecided, Decided, DownloadsOnly
<1> QED BY <1>1 DEF AgreementInv, Alone

LEMMA BeforeTransaction ==
    ASSUME AgreementInv, NEW p \in Installers,
           ParseOpts(p) \/ ReadTargets(p) \/ SetUp(p) \/ DbSync(p) \/ DbSyncEnds(p)
             \/ Lookup(p) \/ TransInit(p)
    PROVE  Alone(p) /\ Agreed(p)'
<1> USE DEF AgreementInv, Functions, Alone, Agreed, Undecided, Decided, DownloadsOnly, Leave, Goto,
            Programs
<1>1. CASE ParseOpts(p)
  <2>1. Alone(p)
    <3> HIDE DEF Agreed, Undecided, Decided, DownloadsOnly
    <3>1. Functions'
      BY <1>1 DEF ParseOpts
    <3>2. \A q \in Installers : opts'[q].flags = opts[q].flags
      BY <1>1 DEF ParseOpts
    <3> QED BY <3>1, <3>2, <1>1 DEF ParseOpts
  <2>2. Agreed(p)'
    BY <1>1 DEF ParseOpts
  <2> QED BY <2>1, <2>2
<1>2. CASE ReadTargets(p)
  <2>1. PICK more :
          /\ opts' = [opts EXCEPT ![p] = [opts[p] EXCEPT !.targets["spec"] = @ \o more]]
          /\ (Goto(p, "setup") /\ UNCHANGED ret) \/ Leave(p, 1)
    BY <1>2 DEF ReadTargets
  <2>2. /\ DOMAIN opts' = Installers
        /\ \A q \in Installers : /\ DOMAIN opts'[q] = DOMAIN opts[q]
                                 /\ opts'[q].flags = opts[q].flags
    BY <2>1
  <2>3. pc[p] = "targets" /\ UNCHANGED <<plan, consent, applied>>
    BY <1>2 DEF ReadTargets
  <2>4. Alone(p)
    <3> HIDE DEF Agreed, Undecided, Decided, DownloadsOnly
    <3>1. Functions'
      BY <2>1, <2>2, <2>3
    <3>2. \A q \in Installers : opts'[q].flags = opts[q].flags
      BY <2>1, <2>2, <2>3
    <3> QED BY <3>1, <3>2, <2>1, <2>2, <2>3
  <2>5. Agreed(p)'
    BY <2>1, <2>2, <2>3
  <2> QED BY <2>4, <2>5
<1>3. CASE SetUp(p)
  BY <1>3 DEF SetUp
<1>4. CASE DbSync(p)
  BY <1>4 DEF DbSync
<1>5. CASE DbSyncEnds(p)
  BY <1>5 DEF DbSyncEnds
<1>6. CASE Lookup(p)
  <2>1. Alone(p)
    <3> HIDE DEF Agreed, Undecided, Decided, DownloadsOnly
    <3>1. Functions'
      BY <1>6 DEF Lookup
    <3>2. \A q \in Installers : opts'[q].flags = opts[q].flags
      BY <1>6 DEF Lookup
    <3> QED BY <3>1, <3>2, <1>6 DEF Lookup
  <2>2. Agreed(p)'
    BY <1>6 DEF Lookup
  <2> QED BY <2>1, <2>2
<1>7. CASE TransInit(p)
  <2>1. Alone(p)
    <3> HIDE DEF Agreed, Undecided, Decided, DownloadsOnly
    <3>1. Functions'
      BY <1>7 DEF TransInit, BeginTrans
    <3>2. \A q \in Installers : opts'[q].flags = opts[q].flags
      BY <1>7 DEF TransInit, BeginTrans
    <3> QED BY <3>1, <3>2, <1>7 DEF TransInit, BeginTrans
  <2>2. Agreed(p)'
    BY <1>7 DEF TransInit, BeginTrans
  <2> QED BY <2>1, <2>2
<1> QED BY <1>1, <1>2, <1>3, <1>4, <1>5, <1>6, <1>7

LEMMA InTransaction ==
    ASSUME AgreementInv, NEW p \in Installers,
           AddPackages(p) \/ RemovePackages(p) \/ SysUpgrade(p) \/ Prepare(p)
    PROVE  Alone(p) /\ Agreed(p)'
<1> USE DEF AgreementInv, Functions, Alone, Agreed, Undecided, Decided, DownloadsOnly, GiveUp, Goto,
            Programs
<1>1. CASE AddPackages(p)
  <2>1. Alone(p)
    <3> HIDE DEF Agreed, Undecided, Decided, DownloadsOnly
    <3>1. Functions'
      BY <1>1 DEF AddPackages, Stage
    <3>2. \A q \in Installers : opts'[q].flags = opts[q].flags
      BY <1>1 DEF AddPackages, Stage
    <3> QED BY <3>1, <3>2, <1>1 DEF AddPackages, Stage
  <2>2. Agreed(p)'
    BY <1>1 DEF AddPackages, Stage
  <2> QED BY <2>1, <2>2
<1>2. CASE RemovePackages(p)
  <2>1. Alone(p)
    <3> HIDE DEF Agreed, Undecided, Decided, DownloadsOnly
    <3>1. Functions'
      BY <1>2 DEF RemovePackages, Stage
    <3>2. \A q \in Installers : opts'[q].flags = opts[q].flags
      BY <1>2 DEF RemovePackages, Stage
    <3> QED BY <3>1, <3>2, <1>2 DEF RemovePackages, Stage
  <2>2. Agreed(p)'
    BY <1>2 DEF RemovePackages, Stage
  <2> QED BY <2>1, <2>2
<1>3. CASE SysUpgrade(p)
  <2>1. Alone(p)
    <3> HIDE DEF Agreed, Undecided, Decided, DownloadsOnly
    <3>1. Functions'
      BY <1>3 DEF SysUpgrade, Stage
    <3>2. \A q \in Installers : opts'[q].flags = opts[q].flags
      BY <1>3 DEF SysUpgrade, Stage
    <3> QED BY <3>1, <3>2, <1>3 DEF SysUpgrade, Stage
  <2>2. Agreed(p)'
    BY <1>3 DEF SysUpgrade, Stage
  <2> QED BY <2>1, <2>2
<1>4. CASE Prepare(p)
  <2>1. Alone(p)
    <3> HIDE DEF Agreed, Undecided, Decided, DownloadsOnly
    <3>1. Functions'
      BY <1>4 DEF Prepare, Stage
    <3>2. \A q \in Installers : opts'[q].flags = opts[q].flags
      BY <1>4 DEF Prepare, Stage
    <3> QED BY <3>1, <3>2, <1>4 DEF Prepare, Stage
  <2>2. Agreed(p)'
    BY <1>4 DEF Prepare, Stage
  <2> QED BY <2>1, <2>2
<1> QED BY <1>1, <1>2, <1>3, <1>4

\* A step that only goes on, to l, or gives up.
Goes(p, l) ==
    /\ pc' = [pc EXCEPT ![p] = l]
    /\ ret' = ret \/ ret' = [ret EXCEPT ![p] = 1]
    /\ UNCHANGED <<plan, consent, applied, opts>>

LEMMA GoingAgrees ==
    ASSUME AgreementInv, NEW p \in Programs, NEW l, Goes(p, l),
           p \notin Installers => l \notin {"start", "lookup", "match", "confirm"},
           p \notin Installers /\ l \in {"init", "fix", "add", "prepare", "commit"} => Decided(p),
           p \in Installers => l \in {"release", "exited"},
           /\ l \in {"release", "exited"} /\ ret'[p] = 0
           /\ pc[p] \notin {"release", "exited"}
           => applied[p] = consent[p] \/ DownloadsOnly(p)
    PROVE  Alone(p) /\ Agreed(p)'
<1>1. Functions' /\ pc'[p] = l /\ \A q \in Programs \ {p} : pc'[q] = pc[q] /\ ret'[q] = ret[q]
  BY DEF Goes, AgreementInv, Functions
<1>2. Alone(p)
  BY <1>1 DEF Alone, Goes
<1>3. Undecided(p)' => FALSE
  BY <1>1 DEF Undecided
<1>4. Decided(p)' => Decided(p)
  BY <1>1 DEF Decided
<1>5. ret'[p] = 0 => ret[p] = 0
  BY DEF Goes, AgreementInv, Functions
<1>6. DownloadsOnly(p)' <=> DownloadsOnly(p)
  BY DEF DownloadsOnly, Goes
<1>7. Agreed(p)
  BY DEF AgreementInv
<1> QED BY <1>1, <1>2, <1>3, <1>4, <1>5, <1>6, <1>7 DEF Agreed, Goes

\* A step within the commit or the repair of the entries.
LEMMA WorkAgrees ==
    ASSUME AgreementInv, NEW p \in Programs, Decided(p), UNCHANGED <<pc, ret, plan, consent, opts>>,
           \/ UNCHANGED applied
           \/ \E c \in plan[p] : applied' = [applied EXCEPT ![p] = @ \cup {c}]
    PROVE  Alone(p) /\ Agreed(p)'
<1>1. /\ DOMAIN applied' = Programs
      /\ \A q \in Programs \ {p} : applied'[q] = applied[q]
      /\ applied'[p] \subseteq applied[p] \cup plan[p]
  BY DEF AgreementInv, Functions
<1>2. Alone(p)
  BY <1>1 DEF AgreementInv, Functions, Alone
<1>3. applied'[p] \subseteq consent[p] /\ consent[p] = plan[p]
  BY <1>1 DEF AgreementInv, Agreed
<1>4. ~Undecided(p) /\ pc[p] \notin {"release", "exited"}
  BY DEF Undecided, Decided
<1>5. (Undecided(p)' <=> Undecided(p)) /\ (Decided(p)' <=> Decided(p))
  BY DEF Undecided, Decided
<1> QED BY <1>2, <1>3, <1>4, <1>5 DEF Agreed

\* Which questions are asked where, and about what.
LEMMA QuestionsAbout ==
    ASSUME NEW p \in Installers, NEW q \in Questions(p)
    PROVE  /\ q.type \in {"replace", "conflict", "unresolvable", "provider", "ignorepkg",
                          "corrupted", "importkey"}
           /\ q.type \in {"replace", "conflict"} =>
                /\ pc[p] \in {"sysupgrade", "prepare"}
                /\ \E n \in Names : q.pkg \in RemovalOf(n, view[p])
           /\ q.type \in {"provider", "ignorepkg"} =>
                /\ pc[p] = "prepare"
                /\ \E n \in Names : q.pkg \in InstallOf(n, FirstSync(n, None))
           /\ q.type = "unresolvable" =>
                pc[p] = "prepare" /\ q.pkg \in plan[p] /\ q.pkg.op = "add"
           /\ q.type \in {"corrupted", "importkey"} => pc[p] = "commit" /\ q.pkg \in plan[p]
           /\ q.provides \in BOOLEAN /\ q.depend \in BOOLEAN
<1> DEFINE types == CASE pc[p] = "sysupgrade" -> {"replace"}
                      [] pc[p] = "prepare" -> {"ignorepkg", "provider", "unresolvable", "conflict"}
                      [] pc[p] = "commit" /\ applied[p] = {} -> {"corrupted", "importkey"}
                      [] OTHER -> {}
           about ==
             [replace |-> UNION {RemovalOf(n, view[p]) : n \in Names},
              conflict |-> UNION {RemovalOf(n, view[p]) : n \in Names},
              unresolvable |-> {c \in plan[p] : c.op = "add"},
              provider |-> UNION {InstallOf(n, FirstSync(n, None)) : n \in Names},
              ignorepkg |-> UNION {InstallOf(n, FirstSync(n, None)) : n \in Names},
              corrupted |-> plan[p],
              importkey |-> plan[p]]
           relevant(t) == IF t \in {"conflict", "replace"} THEN BOOLEAN ELSE {FALSE}
<1>1. \/ pc[p] = "sysupgrade" /\ types = {"replace"}
      \/ pc[p] = "prepare" /\ types = {"ignorepkg", "provider", "unresolvable", "conflict"}
      \/ pc[p] = "commit" /\ types \subseteq {"corrupted", "importkey"}
      \/ types = {}
  BY SMT
<1>2. q \in UNION {[type : {t}, pkg : about[t],
                    provides : relevant(t), depend : relevant(t)] : t \in types}
  BY DEF Questions
<1>3. \A t : relevant(t) \subseteq BOOLEAN
  OBVIOUS
<1>4. /\ about["replace"] = UNION {RemovalOf(n, view[p]) : n \in Names}
      /\ about["conflict"] = UNION {RemovalOf(n, view[p]) : n \in Names}
      /\ about["unresolvable"] = {c \in plan[p] : c.op = "add"}
      /\ about["provider"] = UNION {InstallOf(n, FirstSync(n, None)) : n \in Names}
      /\ about["ignorepkg"] = UNION {InstallOf(n, FirstSync(n, None)) : n \in Names}
      /\ about["corrupted"] = plan[p] /\ about["importkey"] = plan[p]
  OBVIOUS
<1> HIDE DEF about, relevant, types
<1>5. PICK t \in types : q \in [type : {t}, pkg : about[t],
                                provides : relevant(t), depend : relevant(t)]
  BY <1>2
<1>6. q.type = t /\ q.pkg \in about[t] /\ q.provides \in BOOLEAN /\ q.depend \in BOOLEAN
  BY <1>3, <1>5
<1> QED BY <1>1, <1>4, <1>5, <1>6

LEMMA DecideKinds ==
    ASSUME NEW p, NEW q, NEW answer, Decide(p, q, answer)
    PROVE  \/ \E new : plan' = [plan EXCEPT ![p] = new] /\ UNCHANGED <<pc, ret>>
           \/ GiveUp(p) /\ UNCHANGED plan
           \/ UNCHANGED <<plan, pc, ret>>
<1>1. CASE q.type = "unresolvable"
  BY <1>1, SMT DEF Decide
<1>2. CASE q.type = "conflict"
  BY <1>2, SMT DEF Decide
<1>3. CASE q.type \in {"replace", "provider", "ignorepkg"}
  BY <1>3, SMT DEF Decide
<1>4. CASE q.type \notin {"unresolvable", "conflict", "replace", "provider", "ignorepkg"}
  BY <1>4, SMT DEF Decide
<1> QED BY <1>1, <1>2, <1>3, <1>4

LEMMA AskAgrees ==
    ASSUME AgreementInv, NEW p \in Installers, Ask(p)
    PROVE  Alone(p) /\ Agreed(p)'
<1> p \in Programs
  BY DEF Programs
<1>1. PICK q \in Questions(p) :
         \/ \E answer \in Answers(p, q) : Decide(p, q, answer)
         \/ Goto(p, "hung") /\ UNCHANGED <<plan, ret>>
  BY DEF Ask
<1>2. UNCHANGED <<consent, applied, opts>> /\ pc[p] \in {"sysupgrade", "prepare", "commit"}
  BY DEF Ask, Questions
<1>3. CASE \/ Goto(p, "hung") /\ UNCHANGED <<plan, ret>>
           \/ UNCHANGED <<plan, pc, ret>>
  BY <1>2, <1>3 DEF AgreementInv, Functions, Alone, Agreed, Undecided, Decided, DownloadsOnly, Goto
<1>4. CASE \E answer \in Answers(p, q) : Decide(p, q, answer)
  <2>1. PICK answer : Decide(p, q, answer)
    BY <1>4
  <2>2. CASE \E new : plan' = [plan EXCEPT ![p] = new] /\ UNCHANGED <<pc, ret>>
    <3>1. CASE pc[p] = "commit"
      <4>1. q.type \in {"corrupted", "importkey"}
        BY <3>1, QuestionsAbout
      <4>2. UNCHANGED <<plan, pc, ret>>
        BY <2>1, <4>1, SMT DEF Decide
      <4> QED BY <1>3, <4>2
    <3>2. CASE pc[p] # "commit"
      BY <1>2, <2>2, <3>2
         DEF AgreementInv, Functions, Alone, Agreed, Undecided, Decided, DownloadsOnly
    <3> QED BY <3>1, <3>2
  <2>3. CASE GiveUp(p) /\ UNCHANGED plan
    <3>1. Goes(p, "release") /\ ret'[p] = 1
      BY <1>2, <2>3 DEF GiveUp, Goto, Goes, AgreementInv, Functions
    <3> QED BY <3>1, GoingAgrees
  <2> QED BY <2>1, <2>2, <2>3, <1>3, DecideKinds
<1> QED BY <1>1, <1>3, <1>4

LEMMA ConfirmAgrees ==
    ASSUME AgreementInv, NEW p \in Installers, Confirm(p)
    PROVE  Alone(p) /\ Agreed(p)'
<1> USE DEF AgreementInv, Functions, Undecided, Decided, DownloadsOnly, GiveUp, Goto, Leave,
            Programs, Confirm, Proceeds
<1>1. Alone(p)
  <2> HIDE DEF Undecided, Decided, DownloadsOnly
  <2>1. Functions'
    OBVIOUS
  <2>2. \A q \in Installers : opts'[q].flags = opts[q].flags
    OBVIOUS
  <2> QED BY <2>1, <2>2 DEF Alone
<1>2. Agreed(p)'
  BY DEF Agreed
<1> QED BY <1>1, <1>2

LEMMA CommitAgrees ==
    ASSUME AgreementInv, NEW p \in Installers, Commit(p) \/ TransRelease(p)
    PROVE  Alone(p) /\ Agreed(p)'
<1> p \in Programs
  BY DEF Programs
<1>1. CASE Commit(p) /\ CommitChange(p)
  <2>1. Decided(p) /\ UNCHANGED <<pc, ret, plan, consent, opts>>
    BY <1>1 DEF Commit, CommitChange, Decided, transVars
  <2>2. \E c \in plan[p] : applied' = [applied EXCEPT ![p] = @ \cup {c}]
    BY <1>1 DEF CommitChange
  <2> QED BY <2>1, <2>2, WorkAgrees
<1>2. CASE Commit(p) /\ CommitEnds(p, "DOWNLOADONLY" \in opts[p].flags)
  <2>1. pc[p] = "commit" /\ Goes(p, "release")
    BY <1>2 DEF Commit, CommitEnds, GiveUp, Goto, Goes, transVars
  <2>2. consent[p] = plan[p] /\ p \in DOMAIN ret
    BY <2>1 DEF AgreementInv, Functions, Agreed, Decided
  <2>3. ret'[p] = 0 => applied[p] = consent[p] \/ DownloadsOnly(p)
    BY <1>2, <2>2 DEF CommitEnds, GiveUp, DownloadsOnly
  <2> QED BY <2>1, <2>3, GoingAgrees
<1>3. CASE TransRelease(p)
  <2>1. pc[p] = "release"
    BY <1>3 DEF TransRelease, EndTrans
  <2>2. ret' = [ret EXCEPT ![p] = ret[p]] \/ ret' = [ret EXCEPT ![p] = 1]
    BY <1>3 DEF TransRelease, EndTrans, Leave
  <2>3. Goes(p, "exited")
    BY <1>3, <2>2 DEF TransRelease, EndTrans, Leave, Goto, Goes, transVars, AgreementInv, Functions
  <2> QED BY <2>1, <2>3, GoingAgrees
<1> QED BY <1>1, <1>2, <1>3 DEF Commit

LEMMA RepairAgrees ==
    ASSUME AgreementInv, NEW p \in Repairers, PacRepairDbStep(p), UNCHANGED transVars
    PROVE  Alone(p) /\ Agreed(p)'
<1> p \in Programs /\ p \notin Installers /\ UNCHANGED opts
  BY ProgramsAssumption DEF Programs, transVars
<1>1. CASE RepairStart(p) \/ RepairLookup(p) \/ MatchCache(p) \/ RepairConfirm(p)
  <2> USE DEF AgreementInv, Functions, Alone, Agreed, Undecided, Decided, DownloadsOnly, Goto, Leave
  <2>1. CASE RepairStart(p)
    BY <2>1 DEF RepairStart
  <2>2. CASE RepairLookup(p)
    BY <2>2 DEF RepairLookup
  <2>3. CASE MatchCache(p)
    BY <2>3 DEF MatchCache
  <2>4. CASE RepairConfirm(p)
    <3>1. /\ pc[p] = "confirm" /\ UNCHANGED <<plan, applied>>
          /\ \/ Goto(p, "init") /\ consent' = [consent EXCEPT ![p] = plan[p]] /\ UNCHANGED ret
             \/ Leave(p, 0) /\ UNCHANGED consent
             \/ Goto(p, "hung") /\ UNCHANGED <<consent, ret>>
      BY <2>4 DEF RepairConfirm
    <3>2. Alone(p)
      BY <3>1
    <3>3. Agreed(p)'
      BY <3>1
    <3> QED BY <3>2, <3>3
  <2> QED BY <1>1, <2>1, <2>2, <2>3, <2>4
<1>2. CASE RepairInit(p) \/ RepairAdd(p) \/ RepairPrepare(p)
  <2>1. Decided(p) /\ pc[p] \notin {"release", "exited"}
    BY <1>2 DEF Decided, RepairInit, RepairAdd, RepairPrepare, Stage
  <2>2. PICK l \in {"fix", "exited", "prepare", "commit", "release"} :
           /\ Goes(p, l)
           /\ l \in {"exited", "release"} => ret' = [ret EXCEPT ![p] = 1]
    BY <1>2 DEF RepairInit, BeginTrans, RepairAdd, RepairPrepare, Stage, GiveUp, Leave, Goto, Goes
  <2>3. p \in DOMAIN ret
    BY DEF AgreementInv, Functions
  <2>4. l \in {"release", "exited"} => ret'[p] # 0
    BY <2>2, <2>3
  <2> QED BY <2>1, <2>2, <2>4, GoingAgrees
<1>3. CASE FixEntry(p)
  <2>1. Decided(p) /\ pc[p] = "fix"
    BY <1>3 DEF FixEntry, Decided
  <2>2. CASE UNCHANGED <<pc, ret>>
    BY <1>3, <2>1, <2>2, WorkAgrees DEF FixEntry
  <2>3. CASE Goto(p, "add") /\ UNCHANGED ret
    <3>1. Goes(p, "add")
      BY <1>3, <2>3 DEF FixEntry, Goto, Goes
    <3> QED BY <2>1, <3>1, GoingAgrees
  <2>4. CASE GiveUp(p)
    <3>1. Goes(p, "release") /\ ret'[p] = 1
      BY <1>3, <2>4 DEF FixEntry, GiveUp, Goto, Goes, AgreementInv, Functions
    <3> QED BY <2>1, <3>1, GoingAgrees
  <2> QED BY <1>3, <2>2, <2>3, <2>4 DEF FixEntry
<1>4. CASE RepairCommit(p) /\ CommitChange(p)
  <2>1. Decided(p) /\ UNCHANGED <<pc, ret, plan, consent, opts>>
    BY <1>4 DEF CommitChange, Decided
  <2>2. \E c \in plan[p] : applied' = [applied EXCEPT ![p] = @ \cup {c}]
    BY <1>4 DEF CommitChange
  <2> QED BY <2>1, <2>2, WorkAgrees
<1>5. CASE RepairCommit(p) /\ CommitEnds(p, FALSE)
  <2>1. pc[p] = "commit" /\ Goes(p, "release")
    BY <1>5 DEF CommitEnds, GiveUp, Goto, Goes
  <2>2. consent[p] = plan[p] /\ p \in DOMAIN ret
    BY <2>1 DEF AgreementInv, Functions, Agreed, Decided
  <2>3. ret'[p] = 0 => applied[p] = consent[p]
    BY <1>5, <2>2 DEF CommitEnds, GiveUp
  <2> QED BY <2>1, <2>3, GoingAgrees
<1>6. CASE RepairRelease(p)
  <2>1. pc[p] = "release"
    BY <1>6 DEF RepairRelease, EndTrans
  <2>2. ret' = [ret EXCEPT ![p] = ret[p]] \/ ret' = [ret EXCEPT ![p] = 1]
    BY <1>6 DEF RepairRelease, EndTrans, Leave
  <2>3. Goes(p, "exited")
    BY <1>6, <2>2 DEF RepairRelease, EndTrans, Leave, Goto, Goes, AgreementInv, Functions
  <2> QED BY <2>1, <2>3, GoingAgrees
<1> QED BY <1>1, <1>2, <1>3, <1>4, <1>5, <1>6 DEF PacRepairDbStep, RepairCommit

LEMMA KilledAgrees ==
    ASSUME AgreementInv, NEW p \in Programs, Kill(p)
    PROVE  Alone(p) /\ Agreed(p)'
BY DEF AgreementInv, Functions, Alone, Agreed, Undecided, Decided, DownloadsOnly, Goto, Programs,
       transVars, Kill, Killed, Ended

LEMMA AgreementStep == ASSUME AgreementInv, OptsInv, [Next]_vars PROVE AgreementInv'
<1>1. ASSUME NEW p \in Installers, Install(p) PROVE AgreementInv'
  BY <1>1, BeforeTransaction, InTransaction, AskAgrees, ConfirmAgrees, CommitAgrees, AloneAgrees
     DEF Install, PacTransStep, Programs
<1>2. ASSUME NEW p \in Repairers, Repair(p) PROVE AgreementInv'
  BY <1>2, RepairAgrees, AloneAgrees DEF Repair, Programs
<1>3. ASSUME NEW p \in Programs, Kill(p) PROVE AgreementInv'
  BY <1>3, KilledAgrees, AloneAgrees
<1>4. CASE UNCHANGED vars
  BY <1>4 DEF vars, sharedVars, transVars, AgreementInv, Functions, Agreed, Undecided, Decided,
              DownloadsOnly
<1> QED BY <1>1, <1>2, <1>3, <1>4 DEF Next, Finished

LEMMA AgreementInit == ASSUME Init PROVE AgreementInv
<1>1. \A p \in Installers : {"flags", "printonly", "targets"} \subseteq DOMAIN opts[p]
  BY ParsedConsistent DEF Init, PacTransInit, Consistent
<1> QED BY <1>1 DEF Init, SharedInit, PacTransInit, AgreementInv, Functions, Agreed, Undecided, Decided,
                    Programs

\* The invariant of this module, which rests on that of the lock for the options.
THEOREM AgreementInvariant == Spec => []AgreementInv
<1>1. Init => AgreementInv
  BY AgreementInit
<1>2. AgreementInv /\ LockInv /\ [Next]_vars => AgreementInv'
  BY AgreementStep DEF LockInv
<1> QED BY <1>1, <1>2, LockInvariant, PTL DEF Spec

\* No way through either program makes a change that was not in what the
\* confirmation showed.
THEOREM ShownFirst == Spec => []AppliedWasShown
<1>1. AgreementInv => AppliedWasShown
  BY DEF AgreementInv, Agreed, AppliedWasShown
<1> QED BY <1>1, AgreementInvariant, PTL

\* The exit status zero of either program, whichever way it comes about, says
\* that all that was agreed to is done.
THEOREM StatusIsTrue == Spec => []StatusTellsTruth
<1>1. AgreementInv => StatusTellsTruth
  BY DEF AgreementInv, Agreed, DownloadsOnly, StatusTellsTruth
<1> QED BY <1>1, AgreementInvariant, PTL

-----------------------------------------------------------------------------
(***************************************************************************)
(* Part 3.  Types, from the assumptions on the constants:                  *)
(* every transaction consists of changes, and libalpm's copy of the        *)
(* database is there whenever a transaction is worked on.                  *)
(***************************************************************************)

Dbs == [Names -> Entry \cup {None}]

\* Where a program has read the local database.
HasRead(p) == pc[p] \in InTrans \cup {"confirm", "match"}

\* The parts of the types that do not follow from the invariants of the lock
\* and of the agreement.
DbTyped == localdb \in Dbs
Results == ret \in [Programs -> 0 .. 1] /\ stdin \in [Programs -> {"tty", "pipe"}]
Views == view \in [Programs -> Dbs \cup {None}] /\ \A p \in Programs : HasRead(p) => view[p] # None
Plans == plan \in [Programs -> SUBSET Change] /\ consent \in [Programs -> SUBSET Change]
Globals == /\ DOMAIN opts = Installers /\ \A p \in Installers : Typed(opts[p])
           /\ DOMAIN asked = Installers
           /\ \A p \in Installers : \A a \in asked[p] : a.answer \in BOOLEAN /\ a.prompted \in BOOLEAN

TransTypes == DbTyped /\ Results /\ Views /\ Plans /\ Globals /\ PacRepairDbTypeOK

-----------------------------------------------------------------------------
(***************************************************************************)
(* What the lookups return.                                                *)
(***************************************************************************)

\* Find the first of a set of positions.
LEMMA MinFirst == ASSUME NEW S \in SUBSET Nat, S # {} PROVE Min(S) \in S
BY LeastNat DEF Min

LEMMA FirstSyncTyped ==
    ASSUME NEW name, NEW repo, FirstSync(name, repo) # None
    PROVE  name \in Names /\ FirstSync(name, repo) \in Versions
<1> DEFINE found == {i \in DOMAIN Repos : /\ repo \in {None, Repos[i]}
                                          /\ name \in DOMAIN SyncDb[Repos[i]]}
<1>1. FirstSync(name, repo) = IF found = {} THEN None ELSE SyncDb[Repos[Min(found)]][name]
  BY DEF FirstSync
<1>2. Min(found) \in found
  BY <1>1, MinFirst, ReposAssumption
<1> QED BY <1>1, <1>2, ReposAssumption DEF HoldsPackages

LEMMA InstallTyped ==
    ASSUME NEW name, NEW repo PROVE InstallOf(name, FirstSync(name, repo)) \subseteq Change
BY FirstSyncTyped DEF InstallOf, Change

LEMMA FileTyped == ASSUME NEW name PROVE FindFile(name) \subseteq Change
BY PkgFilesAssumption DEF FindFile, InstallOf, HoldsPackages, Change

LEMMA RemovalTyped ==
    ASSUME NEW name, NEW db \in Dbs PROVE RemovalOf(name, db) \subseteq Change
BY DEF RemovalOf, Installed, Dbs, Entry, Change

LEMMA FindKinds ==
    ASSUME NEW l, NEW t, NEW db
    PROVE  \/ Find(l, t, db) = InstallOf(t.name, FirstSync(t.name, t.repo))
           \/ /\ (l = "rem" /\ t.repo = None) \/ (l = "spec" /\ t.repo = "local")
              /\ Find(l, t, db) = RemovalOf(t.name, db)
           \/ Find(l, t, db) = FindFile(t.name)
           \/ Find(l, t, db) = {}
<1>1. CASE l = "add" \/ l = "files"
  BY <1>1, SMT DEF Find, FindFile
<1>2. CASE l = "rem"
  <2>1. Find(l, t, db) = IF t.repo = None THEN RemovalOf(t.name, db) ELSE {}
    BY <1>2, SMT DEF Find
  <2> QED BY <1>2, <2>1
<1>3. CASE l = "spec" /\ t.repo \in {None, "local"}
  BY <1>3, SMT DEF Find
<1>4. CASE l \notin {"add", "files", "rem"} /\ ~(l = "spec" /\ t.repo \in {None, "local"})
  BY <1>4, SMT DEF Find
<1> QED BY <1>1, <1>2, <1>3, <1>4

LEMMA RequestedTyped == ASSUME NEW o, NEW db \in Dbs PROVE Requested(o, db) \subseteq Change
<1>1. \A l, t : Find(l, t, db) \subseteq Change
  BY FindKinds, InstallTyped, RemovalTyped, FileTyped
<1> QED BY <1>1 DEF Requested

LEMMA UpgradesTyped == ASSUME NEW o, NEW db PROVE Upgrades(o, db) \subseteq Change
BY InstallTyped DEF Upgrades

LEMMA RelatedTyped == ASSUME NEW o, NEW db \in Dbs PROVE Related(o, db) \subseteq Change
<1>1. \A n : InstallOf(n, FirstSync(n, None)) \subseteq Change /\ RemovalOf(n, db) \subseteq Change
  BY InstallTyped, RemovalTyped
<1> DEFINE installs == UNION {InstallOf(n, FirstSync(n, None)) : n \in Names}
           removals == UNION {RemovalOf(n, db) : n \in Names}
<1>2. installs \subseteq Change /\ removals \subseteq Change
  BY <1>1
<1>3. Related(o, db) = installs \cup IF o.flags \cap {"CASCADE", "RECURSE"} = {} THEN {}
                                     ELSE removals
  BY DEF Related
<1> HIDE DEF installs, removals
<1> QED BY <1>2, <1>3

LEMMA ApplyTyped == ASSUME NEW db \in Dbs, NEW c \in Change PROVE Apply(db, c) \in Dbs
<1>1. [ver |-> c.ver, desc |-> "ok"] \in Entry
  BY DEF Entry, Change
<1> QED BY <1>1 DEF Apply, Dbs

\* A question is about a change, and its answer is yes or no.
LEMMA QuestionTyped ==
    ASSUME TransTypes, NEW p \in Installers, NEW q \in Questions(p)
    PROVE  q.pkg \in Change
<1>1. p \in Programs /\ plan[p] \subseteq Change
  BY DEF TransTypes, Plans, Programs
<1>2. pc[p] \in {"sysupgrade", "prepare"} => view[p] \in Dbs
  BY <1>1 DEF TransTypes, Views, HasRead, InTrans
<1> QED BY <1>1, <1>2, QuestionsAbout, InstallTyped, RemovalTyped

LEMMA ConfirmedTyped == ASSUME NEW d \in BOOLEAN, NEW r PROVE Confirmed(d, r) \in BOOLEAN
BY DEF Confirmed

LEMMA ShouldRemoveTyped ==
    ASSUME NEW m, NEW a \in BOOLEAN, NEW b \in BOOLEAN PROVE ShouldRemove(m, a, b) \in BOOLEAN
BY DEF ShouldRemove

LEMMA AutoTyped ==
    ASSUME NEW o, NEW q, q.provides \in BOOLEAN, q.depend \in BOOLEAN
    PROVE  AutoAnswer(o, q) \subseteq BOOLEAN
<1>1. ShouldRemove(MethodFor(o, q.type), q.provides, q.depend) \in BOOLEAN
  BY ShouldRemoveTyped
<1>2. CASE q.type \in {"conflict", "replace"}
  BY <1>1, <1>2 DEF AutoAnswer
<1>3. CASE q.type \notin {"conflict", "replace"}
  BY <1>3 DEF AutoAnswer
<1> QED BY <1>2, <1>3

LEMMA AnswersTyped ==
    ASSUME NEW p \in Installers, NEW q \in Questions(p)
    PROVE  Answers(p, q) \subseteq BOOLEAN /\ Prompts(opts[p], q) \in BOOLEAN
<1>1. AutoAnswer(opts[p], q) \subseteq BOOLEAN
  BY QuestionsAbout, AutoTyped
<1>2. \A r : Confirmed(PromptDefault(q.type), r) \in BOOLEAN
  <2>1. PromptDefault(q.type) \in BOOLEAN
    BY DEF PromptDefault
  <2> QED BY <2>1, ConfirmedTyped
<1>3. InitialAnswer(q.type) \in BOOLEAN
  BY DEF InitialAnswer
<1> QED BY <1>1, <1>2, <1>3 DEF Answers, Prompts

-----------------------------------------------------------------------------
(***************************************************************************)
(* The matches of pacrepairdb, by induction over the packages.             *)
(***************************************************************************)

\* What find_cached_pkgs has found for the first n packages.
MatchStart == [used |-> {}, error |-> FALSE]

MatchNext(acc, names, db, i) ==
    TakeMatch(acc, {c \in Cache \ acc.used : Matches(c, names[i], db[names[i]])})

MatchTurns(g, names, db, n) ==
    g = [i \in 0 .. n |->
           IF i = 0 THEN MatchStart ELSE MatchNext(g[i - 1], names, db, i)]

LEMMA MatchTurnsExist ==
    ASSUME NEW names, NEW db, NEW n \in Nat
    PROVE  \E g : MatchTurns(g, names, db, n)
<1> DEFINE T == {k \in Nat : \E g : MatchTurns(g, names, db, k)}
<1>1. 0 \in T
  <2> DEFINE g == [i \in 0 .. 0 |-> MatchStart]
  <2>1. MatchTurns(g, names, db, 0)
    BY DEF MatchTurns
  <2> QED BY <2>1
<1>2. ASSUME NEW k \in Nat, k \in T PROVE k + 1 \in T
  <2>1. PICK g : MatchTurns(g, names, db, k)
    BY <1>2
  <2> DEFINE h == [i \in 0 .. (k + 1) |-> IF i = k + 1 THEN MatchNext(g[k], names, db, k + 1)
                                              ELSE g[i]]
  <2>2. ASSUME NEW i \in 0 .. (k + 1)
        PROVE  h[i] = IF i = 0 THEN MatchStart ELSE MatchNext(h[i - 1], names, db, i)
    <3>1. CASE i = 0
      BY <2>1, <3>1 DEF MatchTurns
    <3>2. CASE i \in 1 .. k
      <4>1. i - 1 \in 0 .. k /\ i \in 0 .. k /\ i # 0 /\ i # k + 1 /\ i - 1 # k + 1
        BY <3>2
      <4>2. g[i] = MatchNext(g[i - 1], names, db, i)
        BY <2>1, <4>1 DEF MatchTurns
      <4> QED BY <4>1, <4>2
    <3>3. CASE i = k + 1
      BY <3>3
    <3> QED BY <3>1, <3>2, <3>3
  <2>3. MatchTurns(h, names, db, k + 1)
    <3>1. h = [i \in 0 .. (k + 1) |-> h[i]]
      OBVIOUS
    <3> HIDE DEF h
    <3> QED BY <2>2, <3>1 DEF MatchTurns
  <2> QED BY <2>3
<1>3. Nat \subseteq T
  <2> HIDE DEF T
  <2> QED BY <1>1, <1>2, NatSetInduction
<1> QED BY <1>3

\* What is used comes from the cache; and without an error there is a package
\* in the cache for each of those to repair.
LEMMA MatchAllFinds ==
    ASSUME NEW names, Len(names) \in Nat, NEW db
    PROVE  /\ MatchAll(names, db).used \subseteq Cache
           /\ ~MatchAll(names, db).error =>
                \A i \in 1 .. Len(names) : \E c \in MatchAll(names, db).used :
                    Matches(c, names[i], db[names[i]])
<1> DEFINE g == CHOOSE g : MatchTurns(g, names, db, Len(names))
           Fine(k) == /\ {"used", "error"} \subseteq DOMAIN g[k]
                      /\ g[k].used \subseteq Cache
                      /\ ~g[k].error =>
                           \A i \in 1 .. k : \E c \in g[k].used :
                               Matches(c, names[i], db[names[i]])
           T == {k \in Nat : k <= Len(names) => Fine(k)}
<1>1. MatchAll(names, db) = g[Len(names)]
  BY DEF MatchAll, MatchTurns, MatchStart, MatchNext
<1>2. MatchTurns(g, names, db, Len(names))
  BY MatchTurnsExist
<1> HIDE DEF g, Fine
<1>3. 0 \in T
  BY <1>2 DEF MatchTurns, MatchStart, Fine
<1>4. ASSUME NEW k \in Nat, k \in T PROVE k + 1 \in T
  <2> SUFFICES ASSUME k + 1 <= Len(names) PROVE Fine(k + 1)
    OBVIOUS
  <2> DEFINE found == {c \in Cache \ g[k].used :
                         Matches(c, names[k + 1], db[names[k + 1]])}
  <2>1. g[k + 1] = TakeMatch(g[k], found)
    <3>1. g[k + 1] = MatchNext(g[k], names, db, k + 1)
      BY <1>2 DEF MatchTurns
    <3> QED BY <3>1 DEF MatchNext
  <2>2. Fine(k)
    BY <1>4
  <2>3. /\ found \subseteq Cache
        /\ \A c \in found : Matches(c, names[k + 1], db[names[k + 1]])
    OBVIOUS
  <2> HIDE DEF found
  <2>4. CASE Cardinality(found) = 1
    <3>1. found # {}
      BY <2>4, FS_EmptySet
    <3>2. /\ DOMAIN g[k + 1] = DOMAIN g[k] /\ g[k + 1].error = g[k].error
          /\ g[k + 1].used = g[k].used \cup found
      BY <2>1, <2>2, <2>4 DEF TakeMatch, Fine
    <3>3. ASSUME ~g[k + 1].error, NEW i \in 1 .. (k + 1)
          PROVE  \E c \in g[k + 1].used : Matches(c, names[i], db[names[i]])
      <4>1. CASE i = k + 1
        BY <2>3, <3>1, <3>2, <4>1
      <4>2. CASE i \in 1 .. k
        BY <2>2, <3>2, <3>3, <4>2 DEF Fine
      <4> QED BY <4>1, <4>2
    <3> QED BY <2>2, <2>3, <3>2, <3>3 DEF Fine
  <2>5. CASE Cardinality(found) # 1
    BY <2>1, <2>2, <2>5 DEF TakeMatch, Fine
  <2> QED BY <2>4, <2>5
<1>5. Nat \subseteq T
  <2> HIDE DEF T
  <2> QED BY <1>3, <1>4, NatSetInduction
<1> QED BY <1>1, <1>5 DEF Fine

-----------------------------------------------------------------------------
(***************************************************************************)
(* What the steps do to each of the parts.                                 *)
(***************************************************************************)

LEMMA DbsAreRead == ASSUME NEW db \in Dbs PROVE db # None
BY LocalDbsAssumption DEF Dbs

\* p moves to l and has a copy d of the database, or none where it needs none.
LEMMA ViewsSet ==
    ASSUME TransTypes, TypesInv, NEW p \in Programs, NEW l, pc' = [pc EXCEPT ![p] = l],
           NEW d \in Dbs \cup {None}, view' = [view EXCEPT ![p] = d],
           l \in InTrans \cup {"confirm", "match"} => d # None
    PROVE  Views'
<1>1. pc'[p] = l /\ \A q \in Programs \ {p} : pc'[q] = pc[q]
  BY DEF TypesInv
<1>2. /\ view' \in [Programs -> Dbs \cup {None}]
      /\ view'[p] = d /\ \A q \in Programs \ {p} : view'[q] = view[q]
  BY DEF TransTypes, Views
<1> QED BY <1>1, <1>2 DEF TransTypes, Views, HasRead

LEMMA ViewsKept ==
    ASSUME TransTypes, TypesInv, NEW p \in Programs, NEW l, pc' = [pc EXCEPT ![p] = l],
           UNCHANGED view, l \in InTrans \cup {"confirm", "match"} => HasRead(p)
    PROVE  Views'
<1>1. view' = [view EXCEPT ![p] = view[p]] /\ view[p] \in Dbs \cup {None}
  BY DEF TransTypes, Views
<1>2. l \in InTrans \cup {"confirm", "match"} => view[p] # None
  BY DEF TransTypes, Views
<1> QED BY <1>1, <1>2, ViewsSet

LEMMA ViewsStutter == ASSUME TransTypes, UNCHANGED <<pc, view>> PROVE Views'
BY DEF TransTypes, Views, HasRead

LEMMA ResultsKept ==
    ASSUME TransTypes, NEW p \in Programs, UNCHANGED stdin,
           UNCHANGED ret \/ \E r \in 0 .. 1 : ret' = [ret EXCEPT ![p] = r]
    PROVE  Results'
BY DEF TransTypes, Results

LEMMA PlansKept ==
    ASSUME TransTypes, NEW p \in Programs,
           UNCHANGED plan \/ \E new \in SUBSET Change : plan' = [plan EXCEPT ![p] = new],
           UNCHANGED consent \/ consent' = [consent EXCEPT ![p] = plan[p]]
                             \/ consent' = [consent EXCEPT ![p] = {}]
    PROVE  Plans'
<1>1. plan[p] \in SUBSET Change
  BY DEF TransTypes, Plans
<1> QED BY <1>1 DEF TransTypes, Plans

LEMMA GlobalsKept == ASSUME TransTypes, UNCHANGED <<opts, asked>> PROVE Globals'
BY DEF TransTypes, Globals

LEMMA RepairTypesKept == ASSUME TransTypes, UNCHANGED repairVars PROVE PacRepairDbTypeOK'
BY DEF TransTypes, PacRepairDbTypeOK, repairVars

LEMMA DbTypedKept ==
    ASSUME TransTypes, NEW p \in Programs,
           UNCHANGED localdb \/ \E c \in plan[p] : localdb' = Apply(localdb, c)
    PROVE  DbTyped'
BY ApplyTyped DEF TransTypes, DbTyped, Plans

-----------------------------------------------------------------------------
(***************************************************************************)
(* pactrans                                                                *)
(***************************************************************************)

LEMMA TypesBefore ==
    ASSUME TransTypes, TypesInv, NEW p \in Installers, UNCHANGED repairVars,
           ParseOpts(p) \/ SetUp(p) \/ DbSync(p) \/ DbSyncEnds(p)
    PROVE  TransTypes'
<1>1. p \in Programs
  BY DEF Programs
<1>2. PICK l \in {"exited", "targets", "dbsync", "lookup", "syncing"} :
         pc' = [pc EXCEPT ![p] = l]
  BY DEF ParseOpts, SetUp, DbSync, DbSyncEnds, Leave, Goto
<1>3. UNCHANGED <<localdb, stdin, view, plan, consent, opts, asked>>
  BY DEF ParseOpts, SetUp, DbSync, DbSyncEnds
<1>4. UNCHANGED ret \/ \E r \in 0 .. 1 : ret' = [ret EXCEPT ![p] = r]
  BY DEF ParseOpts, SetUp, DbSync, DbSyncEnds, Leave
<1>5. Views'
  BY <1>1, <1>2, <1>3, ViewsKept DEF InTrans
<1> QED BY <1>1, <1>3, <1>4, <1>5, ResultsKept, PlansKept, GlobalsKept, RepairTypesKept, DbTypedKept
        DEF TransTypes

LEMMA TypesTargets ==
    ASSUME TransTypes, TypesInv, NEW p \in Installers, UNCHANGED repairVars, ReadTargets(p)
    PROVE  TransTypes'
<1>1. p \in Programs
  BY DEF Programs
<1>2. PICK l \in {"exited", "setup"} : pc' = [pc EXCEPT ![p] = l]
  BY DEF ReadTargets, Leave, Goto
<1>3. UNCHANGED <<localdb, stdin, view, plan, consent, asked>>
  BY DEF ReadTargets
<1>4. UNCHANGED ret \/ \E r \in 0 .. 1 : ret' = [ret EXCEPT ![p] = r]
  BY DEF ReadTargets, Leave
<1>5. Views'
  BY <1>1, <1>2, <1>3, ViewsKept DEF InTrans
<1>6. PICK more : opts' = [opts EXCEPT ![p] = [opts[p] EXCEPT !.targets["spec"] = @ \o more]]
  BY DEF ReadTargets
<1>7. Globals'
  BY <1>3, <1>6 DEF TransTypes, Globals, Typed
<1> QED BY <1>1, <1>3, <1>4, <1>5, <1>7, ResultsKept, PlansKept, RepairTypesKept, DbTypedKept
        DEF TransTypes

LEMMA TypesLookup ==
    ASSUME TransTypes, TypesInv, NEW p \in Installers, UNCHANGED repairVars, Lookup(p)
    PROVE  TransTypes'
<1>1. p \in Programs
  BY DEF Programs
<1>2. PICK l \in {"exited", "init"} : pc' = [pc EXCEPT ![p] = l]
  BY DEF Lookup, Leave, Goto
<1>3. UNCHANGED <<localdb, stdin, consent, opts, asked>>
  BY DEF Lookup
<1>4. UNCHANGED ret \/ \E r \in 0 .. 1 : ret' = [ret EXCEPT ![p] = r]
  BY DEF Lookup, Leave
<1>5. \/ view' = [view EXCEPT ![p] = localdb]
      \/ view' = [view EXCEPT ![p] = view[p]]
  BY DEF Lookup
<1>6. localdb \in Dbs \cup {None} /\ view[p] \in Dbs \cup {None}
  BY <1>1 DEF TransTypes, DbTyped, Views
<1>7. Views'
  BY <1>1, <1>2, <1>5, <1>6, ViewsSet DEF InTrans
<1>8. UNCHANGED plan \/ \E new \in SUBSET Change : plan' = [plan EXCEPT ![p] = new]
  <2>1. Requested(opts[p], localdb) \in SUBSET Change
    BY RequestedTyped DEF TransTypes, DbTyped
  <2> QED BY <2>1 DEF Lookup
<1> QED BY <1>1, <1>3, <1>4, <1>7, <1>8, ResultsKept, PlansKept, GlobalsKept, RepairTypesKept,
           DbTypedKept DEF TransTypes

LEMMA BeginViews ==
    ASSUME TransTypes, TypesInv, NEW p \in Programs, NEW nolock, NEW next,
           BeginTrans(p, nolock, next)
    PROVE  Views'
<1>1. CASE Leave(p, 1) /\ UNCHANGED view
  BY <1>1, ViewsKept DEF Leave, Goto, InTrans
<1>2. CASE /\ view' = [view EXCEPT ![p] = IF @ = None THEN localdb ELSE @]
           /\ pc' = [pc EXCEPT ![p] = next]
  <2>1. localdb \in Dbs /\ view[p] \in Dbs \cup {None}
    BY DEF TransTypes, DbTyped, Views
  <2>2. PICK d \in Dbs : view' = [view EXCEPT ![p] = d]
    BY <1>2, <2>1
  <2> QED BY <1>2, <2>2, DbsAreRead, ViewsSet
<1> QED BY <1>1, <1>2 DEF BeginTrans, Goto

LEMMA TypesInit ==
    ASSUME TransTypes, TypesInv, NEW p \in Installers, UNCHANGED repairVars, TransInit(p)
    PROVE  TransTypes'
<1>1. p \in Programs
  BY DEF Programs
<1>2. UNCHANGED <<localdb, stdin, plan, consent, opts, asked>>
  BY DEF TransInit
<1>3. UNCHANGED ret \/ \E r \in 0 .. 1 : ret' = [ret EXCEPT ![p] = r]
  BY DEF TransInit, BeginTrans, Leave
<1>4. Views'
  BY <1>1, BeginViews DEF TransInit
<1> QED BY <1>1, <1>2, <1>3, <1>4, ResultsKept, PlansKept, GlobalsKept, RepairTypesKept, DbTypedKept
        DEF TransTypes

LEMMA TypesStages ==
    ASSUME TransTypes, TypesInv, NEW p \in Installers, UNCHANGED repairVars,
           AddPackages(p) \/ RemovePackages(p) \/ SysUpgrade(p) \/ Prepare(p)
    PROVE  TransTypes'
<1>1. p \in Programs /\ plan[p] \in SUBSET Change
  BY DEF Programs, TransTypes, Plans
<1>2. /\ pc[p] \in InTrans /\ view[p] \in Dbs
      /\ \E l : pc' = [pc EXCEPT ![p] = l]
  BY <1>1 DEF AddPackages, RemovePackages, SysUpgrade, Prepare, Stage, GiveUp, Goto, InTrans,
              TransTypes, Views, HasRead
<1>3. UNCHANGED <<localdb, stdin, view, consent, opts, asked>>
  BY DEF AddPackages, RemovePackages, SysUpgrade, Prepare
<1>4. UNCHANGED ret \/ \E r \in 0 .. 1 : ret' = [ret EXCEPT ![p] = r]
  BY DEF AddPackages, RemovePackages, SysUpgrade, Prepare, Stage, GiveUp
<1>5. Views'
  BY <1>1, <1>2, <1>3, ViewsKept DEF HasRead
<1>6. UNCHANGED plan \/ \E new \in SUBSET Change : plan' = [plan EXCEPT ![p] = new]
  <2>1. CASE AddPackages(p) \/ RemovePackages(p)
    BY <2>1 DEF AddPackages, RemovePackages
  <2>2. CASE SysUpgrade(p)
    <3>1. plan[p] \cup Upgrades(opts[p], view[p]) \in SUBSET Change
      BY <1>1, UpgradesTyped
    <3> QED BY <1>1, <2>2, <3>1 DEF SysUpgrade
  <2>3. CASE Prepare(p)
    <3>1. PICK more \in {{}} \cup {{c} : c \in Related(opts[p], view[p])} :
             plan' = [plan EXCEPT ![p] = IF pc'[p] = "confirm" THEN @ \cup more ELSE @]
      BY <2>3 DEF Prepare
    <3>2. plan[p] \cup more \in SUBSET Change
      BY <1>1, <1>2, <3>1, RelatedTyped
    <3> QED BY <1>1, <3>1, <3>2
  <2> QED BY <2>1, <2>2, <2>3
<1> QED BY <1>1, <1>3, <1>4, <1>5, <1>6, ResultsKept, PlansKept, GlobalsKept, RepairTypesKept,
           DbTypedKept DEF TransTypes

LEMMA DecideTyped ==
    ASSUME TransTypes, NEW p \in Installers, NEW q \in Questions(p), NEW answer,
           Decide(p, q, answer)
    PROVE  UNCHANGED plan \/ \E new \in SUBSET Change : plan' = [plan EXCEPT ![p] = new]
<1>1. /\ plan[p] \cup {q.pkg} \in SUBSET Change
      /\ plan[p] \ {q.pkg} \in SUBSET Change
  BY QuestionTyped DEF TransTypes, Plans, Programs
<1> HIDE DEF Change
<1>2. CASE q.type = "unresolvable"
  BY <1>1, <1>2, SMT DEF Decide
<1>3. CASE q.type = "conflict"
  BY <1>1, <1>3, SMT DEF Decide
<1>4. CASE q.type \in {"replace", "provider", "ignorepkg"}
  BY <1>1, <1>4, SMT DEF Decide
<1>5. CASE q.type \notin {"unresolvable", "conflict", "replace", "provider", "ignorepkg"}
  BY <1>5, SMT DEF Decide
<1> QED BY <1>2, <1>3, <1>4, <1>5

LEMMA TypesAsk ==
    ASSUME TransTypes, TypesInv, NEW p \in Installers, UNCHANGED repairVars, Ask(p)
    PROVE  TransTypes'
<1>1. p \in Programs
  BY DEF Programs
<1>2. PICK q \in Questions(p) :
         \/ \E answer \in Answers(p, q) :
              /\ Decide(p, q, answer)
              /\ asked' = [asked EXCEPT ![p] = @ \cup
                     {[question |-> q, answer |-> answer,
                       prompted |-> Prompts(opts[p], q)]}]
         \/ Goto(p, "hung") /\ UNCHANGED <<plan, ret, asked>>
  BY DEF Ask
<1>3. UNCHANGED <<localdb, stdin, view, consent, opts>>
  BY DEF Ask
<1>4. CASE Goto(p, "hung") /\ UNCHANGED <<plan, ret, asked>>
  <2>1. Views'
    BY <1>1, <1>3, <1>4, ViewsKept DEF Goto, InTrans
  <2> QED BY <1>1, <1>3, <1>4, <2>1, ResultsKept, PlansKept, GlobalsKept, RepairTypesKept, DbTypedKept
          DEF TransTypes
<1>5. ASSUME NEW answer \in Answers(p, q), Decide(p, q, answer),
             asked' = [asked EXCEPT ![p] = @ \cup
                 {[question |-> q, answer |-> answer, prompted |-> Prompts(opts[p], q)]}]
      PROVE  TransTypes'
  <2>1. UNCHANGED plan \/ \E new \in SUBSET Change : plan' = [plan EXCEPT ![p] = new]
    BY <1>5, DecideTyped
  <2>2. UNCHANGED <<pc, ret>> \/ GiveUp(p)
    BY <1>5, DecideKinds
  <2>3. UNCHANGED ret \/ \E r \in 0 .. 1 : ret' = [ret EXCEPT ![p] = r]
    BY <2>2 DEF GiveUp
  <2>4. Views'
    <3>1. CASE UNCHANGED pc
      BY <1>3, <3>1, ViewsStutter
    <3>2. CASE pc' = [pc EXCEPT ![p] = "release"]
      BY <1>1, <1>3, <3>2, ViewsKept DEF InTrans
    <3> QED BY <2>2, <3>1, <3>2 DEF GiveUp, Goto
  <2>5. answer \in BOOLEAN /\ Prompts(opts[p], q) \in BOOLEAN
    BY <1>5, AnswersTyped
  <2> DEFINE new == [question |-> q, answer |-> answer, prompted |-> Prompts(opts[p], q)]
  <2>6. new.answer \in BOOLEAN /\ new.prompted \in BOOLEAN
    BY <2>5
  <2>7. asked' = [asked EXCEPT ![p] = asked[p] \cup {new}]
    BY <1>5
  <2> HIDE DEF new
  <2>8. Globals'
    BY <1>3, <2>6, <2>7 DEF TransTypes, Globals
  <2> QED BY <1>1, <1>3, <2>1, <2>3, <2>4, <2>8, ResultsKept, PlansKept, RepairTypesKept, DbTypedKept
          DEF TransTypes
<1> QED BY <1>2, <1>4, <1>5

LEMMA TypesConfirm ==
    ASSUME TransTypes, TypesInv, NEW p \in Installers, UNCHANGED repairVars, Confirm(p)
    PROVE  TransTypes'
<1>1. p \in Programs /\ HasRead(p)
  BY DEF Programs, HasRead, Confirm
<1>2. /\ UNCHANGED <<localdb, ret, stdin, view, plan, opts, asked>>
      /\ \E l : pc' = [pc EXCEPT ![p] = l]
  BY DEF Confirm, Goto
<1>3. \/ UNCHANGED consent
      \/ consent' = [consent EXCEPT ![p] = plan[p]]
      \/ consent' = [consent EXCEPT ![p] = {}]
  BY DEF Confirm
<1>4. Views'
  BY <1>1, <1>2, ViewsKept
<1> QED BY <1>1, <1>2, <1>3, <1>4, ResultsKept, PlansKept, GlobalsKept, RepairTypesKept, DbTypedKept
        DEF TransTypes

\* The end of a commit, the release and a kill leave almost everything alone.
LEMMA TypesEnd ==
    ASSUME TransTypes, TypesInv, NEW p \in Programs,
           UNCHANGED <<stdin, view, plan, consent, opts, asked, repairVars>>,
           UNCHANGED localdb \/ \E c \in plan[p] : localdb' = Apply(localdb, c),
           UNCHANGED pc \/ \E l \in {"release", "exited", "killed"} : pc' = [pc EXCEPT ![p] = l],
           UNCHANGED ret \/ \E r \in 0 .. 1 : ret' = [ret EXCEPT ![p] = r]
    PROVE  TransTypes'
<1>1. CASE UNCHANGED pc
  BY <1>1, ViewsStutter, ResultsKept, PlansKept, GlobalsKept, RepairTypesKept, DbTypedKept
     DEF TransTypes
<1>2. CASE \E l \in {"release", "exited", "killed"} : pc' = [pc EXCEPT ![p] = l]
  <2>1. Views'
    BY <1>2, ViewsKept DEF InTrans
  <2> QED BY <2>1, ResultsKept, PlansKept, GlobalsKept, RepairTypesKept, DbTypedKept DEF TransTypes
<1> QED BY <1>1, <1>2

LEMMA EndFacts ==
    ASSUME TransTypes, NEW p \in Programs, NEW flag,
           CommitChange(p) \/ CommitEnds(p, flag) \/ EndTrans(p, flag)
    PROVE  /\ UNCHANGED <<stdin, view, plan, consent>>
           /\ UNCHANGED localdb \/ \E c \in plan[p] : localdb' = Apply(localdb, c)
           /\ UNCHANGED pc \/ \E l \in {"release", "exited", "killed"} : pc' = [pc EXCEPT ![p] = l]
           /\ UNCHANGED ret \/ \E r \in 0 .. 1 : ret' = [ret EXCEPT ![p] = r]
<1>1. CASE CommitChange(p)
  BY <1>1 DEF CommitChange
<1>2. CASE CommitEnds(p, flag)
  BY <1>2 DEF CommitEnds, GiveUp, Goto
<1>3. CASE EndTrans(p, flag)
  <2>1. ret[p] \in 0 .. 1
    BY DEF TransTypes, Results
  <2> QED BY <1>3, <2>1 DEF EndTrans, Leave, Goto
<1> QED BY <1>1, <1>2, <1>3

LEMMA TypesInstall ==
    ASSUME TransTypes, TypesInv, NEW p \in Installers, Install(p)
    PROVE  TransTypes'
<1>1. p \in Programs /\ UNCHANGED repairVars
  BY DEF Programs, Install
<1>2. CASE Commit(p) \/ TransRelease(p)
  <2>1. UNCHANGED <<opts, asked>>
    BY <1>2 DEF Commit, TransRelease, transVars
  <2>2. \E flag : CommitChange(p) \/ CommitEnds(p, flag) \/ EndTrans(p, flag)
    BY <1>2 DEF Commit, TransRelease
  <2> QED BY <1>1, <2>1, <2>2, EndFacts, TypesEnd
<1> QED BY <1>1, <1>2, TypesBefore, TypesTargets, TypesLookup, TypesInit, TypesStages, TypesAsk,
           TypesConfirm DEF Install, PacTransStep

-----------------------------------------------------------------------------
(***************************************************************************)
(* pacrepairdb, and a kill                                                 *)
(***************************************************************************)

LEMMA TypesRepairStart ==
    ASSUME TransTypes, TypesInv, NEW p \in Repairers, UNCHANGED transVars,
           RepairStart(p) \/ RepairConfirm(p)
    PROVE  TransTypes'
<1>1. p \in Programs
  BY DEF Programs
<1>2. PICK l \in {"exited", "lookup", "init", "hung"} : pc' = [pc EXCEPT ![p] = l]
  BY DEF RepairStart, RepairConfirm, Leave, Goto
<1>3. UNCHANGED <<localdb, stdin, view, plan, opts, asked, repairVars>>
  BY DEF RepairStart, RepairConfirm, transVars, repairVars
<1>4. UNCHANGED ret \/ \E r \in 0 .. 1 : ret' = [ret EXCEPT ![p] = r]
  <2>1. CASE RepairStart(p)
    BY <2>1 DEF RepairStart, Leave
  <2>2. CASE RepairConfirm(p)
    <3>1. UNCHANGED ret \/ ret' = [ret EXCEPT ![p] = 0]
      BY <2>2 DEF RepairConfirm, Leave
    <3> QED BY <3>1
  <2> QED BY <2>1, <2>2
<1>5. UNCHANGED consent \/ consent' = [consent EXCEPT ![p] = plan[p]]
  BY DEF RepairStart, RepairConfirm
<1>6. Views'
  BY <1>1, <1>2, <1>3, ViewsKept DEF InTrans
<1> QED BY <1>1, <1>3, <1>4, <1>5, <1>6, ResultsKept, PlansKept, GlobalsKept, RepairTypesKept,
           DbTypedKept DEF TransTypes

LEMMA TypesRepairLookup ==
    ASSUME TransTypes, TypesInv, NEW p \in Repairers, UNCHANGED transVars, RepairLookup(p)
    PROVE  TransTypes'
<1>1. p \in Programs
  BY DEF Programs
<1>2. PICK l \in {"exited", "match"} : pc' = [pc EXCEPT ![p] = l]
  BY DEF RepairLookup, Leave, Goto
<1>3. UNCHANGED <<localdb, stdin, plan, consent, opts, asked, args>>
  BY DEF RepairLookup, transVars
<1>4. UNCHANGED ret \/ \E r \in 0 .. 1 : ret' = [ret EXCEPT ![p] = r]
  BY DEF RepairLookup, Leave
<1>5. view' = [view EXCEPT ![p] = localdb] /\ localdb \in Dbs
  BY DEF RepairLookup, TransTypes, DbTyped
<1>6. Views'
  BY <1>1, <1>2, <1>5, ViewsSet, DbsAreRead
<1>7. PacRepairDbTypeOK'
  <2>1. PICK piped \in IF stdin[p] = "pipe" THEN RepairPiped ELSE {<< >>} :
           \/ UNCHANGED packages
           \/ packages' = [packages EXCEPT ![p] =
                 [i \in DOMAIN (args[p].targets \o piped) |-> (args[p].targets \o piped)[i].name]]
    BY DEF RepairLookup
  <2>2. piped \in Targets /\ args[p].targets \in Targets
    <3>1. << >> \in Targets
      BY DEF Targets
    <3>2. args[p] \in RepairArgs
      BY DEF TransTypes, PacRepairDbTypeOK
    <3> QED BY <3>1, <3>2, RepairArgsAssumption
  <2> DEFINE targets == args[p].targets \o piped
  <2>3. targets \in Targets
    BY <2>2 DEF Targets
  <2> HIDE DEF targets
  <2>4. [i \in DOMAIN targets |-> targets[i].name] \in Seq(Names)
    <3>1. /\ DOMAIN targets = 1 .. Len(targets) /\ Len(targets) \in Nat
          /\ \A i \in DOMAIN targets : targets[i] \in [name : Names, prefixed : BOOLEAN]
      <4> DEFINE Target == [name : Names, prefixed : BOOLEAN]
      <4>1. targets \in Seq(Target)
        BY <2>3 DEF Targets
      <4> HIDE DEF Target
      <4>2. /\ DOMAIN targets = 1 .. Len(targets) /\ Len(targets) \in Nat
            /\ \A i \in DOMAIN targets : targets[i] \in Target
        BY <4>1
      <4> QED BY <4>2 DEF Target
    <3>2. \A i \in DOMAIN targets : targets[i].name \in Names
      BY <3>1
    <3>3. [i \in DOMAIN targets |-> targets[i].name] \in [1 .. Len(targets) -> Names]
      BY <3>1, <3>2
    <3> QED BY <3>1, <3>3, SeqDef
  <2>5. UNCHANGED packages \/ \E new \in Seq(Names) : packages' = [packages EXCEPT ![p] = new]
    BY <2>1, <2>4 DEF targets
  <2> QED BY <1>3, <2>5 DEF TransTypes, PacRepairDbTypeOK
<1> QED BY <1>1, <1>3, <1>4, <1>6, <1>7, ResultsKept, PlansKept, GlobalsKept, DbTypedKept
        DEF TransTypes

LEMMA TypesMatch ==
    ASSUME TransTypes, TypesInv, NEW p \in Repairers, UNCHANGED transVars, MatchCache(p)
    PROVE  TransTypes'
<1>1. p \in Programs /\ HasRead(p)
  BY DEF Programs, HasRead, MatchCache
<1>2. /\ UNCHANGED <<localdb, stdin, view, consent, opts, asked, repairVars>>
      /\ \E l : pc' = [pc EXCEPT ![p] = l]
  BY DEF MatchCache, Goto, Leave, transVars, repairVars
<1>3. UNCHANGED ret \/ \E r \in 0 .. 1 : ret' = [ret EXCEPT ![p] = r]
  BY DEF MatchCache, Leave
<1>4. Views'
  BY <1>1, <1>2, ViewsKept
<1>5. UNCHANGED plan \/ \E new \in SUBSET Change : plan' = [plan EXCEPT ![p] = new]
  <2> DEFINE used == MatchAll(packages[p], view[p]).used
             new == {[op |-> "add", name |-> c.name, ver |-> c.ver] : c \in used}
  <2>1. used \subseteq Cache
    <3>1. Len(packages[p]) \in Nat
      BY DEF TransTypes, PacRepairDbTypeOK
    <3> QED BY <3>1, MatchAllFinds
  <2>2. UNCHANGED plan \/ plan' = [plan EXCEPT ![p] = new]
    BY DEF MatchCache
  <2> HIDE DEF used
  <2>3. new \in SUBSET Change
    BY <2>1, CacheAssumption DEF Change
  <2> QED BY <2>2, <2>3
<1> QED BY <1>1, <1>2, <1>3, <1>4, <1>5, ResultsKept, PlansKept, GlobalsKept, RepairTypesKept,
           DbTypedKept DEF TransTypes

LEMMA TypesRepairInit ==
    ASSUME TransTypes, TypesInv, NEW p \in Repairers, UNCHANGED transVars, RepairInit(p)
    PROVE  TransTypes'
<1>1. p \in Programs
  BY DEF Programs
<1>2. UNCHANGED <<localdb, stdin, plan, consent, opts, asked, repairVars>>
  BY DEF RepairInit, transVars, repairVars
<1>3. UNCHANGED ret \/ \E r \in 0 .. 1 : ret' = [ret EXCEPT ![p] = r]
  BY DEF RepairInit, BeginTrans, Leave
<1>4. Views'
  BY <1>1, BeginViews DEF RepairInit
<1> QED BY <1>1, <1>2, <1>3, <1>4, ResultsKept, PlansKept, GlobalsKept, RepairTypesKept, DbTypedKept
        DEF TransTypes

LEMMA TypesFix ==
    ASSUME TransTypes, TypesInv, NEW p \in Repairers, UNCHANGED transVars,
           FixEntry(p) \/ RepairAdd(p) \/ RepairPrepare(p)
    PROVE  TransTypes'
<1>1. p \in Programs /\ HasRead(p)
  BY DEF Programs, HasRead, FixEntry, RepairAdd, RepairPrepare, Stage, InTrans
<1>2. /\ UNCHANGED <<stdin, view, plan, consent, opts, asked, repairVars>>
      /\ UNCHANGED pc \/ \E l : pc' = [pc EXCEPT ![p] = l]
  BY DEF FixEntry, RepairAdd, RepairPrepare, Stage, GiveUp, Goto, transVars, repairVars
<1>3. UNCHANGED ret \/ \E r \in 0 .. 1 : ret' = [ret EXCEPT ![p] = r]
  BY DEF FixEntry, RepairAdd, RepairPrepare, Stage, GiveUp
<1>4. Views'
  BY <1>1, <1>2, ViewsKept, ViewsStutter
<1>5. DbTyped'
  <2>1. \/ UNCHANGED localdb
        \/ \E c \in plan[p] :
              localdb' = [localdb EXCEPT ![c.name] = [ver |-> c.ver, desc |-> "empty"]]
    BY DEF FixEntry, RepairAdd, RepairPrepare
  <2>2. \A c \in plan[p] : [ver |-> c.ver, desc |-> "empty"] \in Entry
    BY <1>1 DEF TransTypes, Plans, Change, Entry
  <2> QED BY <2>1, <2>2 DEF TransTypes, DbTyped, Dbs
<1> QED BY <1>1, <1>2, <1>3, <1>4, <1>5, ResultsKept, PlansKept, GlobalsKept, RepairTypesKept
        DEF TransTypes

LEMMA TypesRepair ==
    ASSUME TransTypes, TypesInv, NEW p \in Repairers, Repair(p)
    PROVE  TransTypes'
<1>1. p \in Programs /\ UNCHANGED <<opts, asked, transVars>>
  BY DEF Programs, Repair, transVars
<1>2. CASE RepairCommit(p) \/ RepairRelease(p)
  <2>1. UNCHANGED repairVars
    BY <1>2 DEF RepairCommit, RepairRelease
  <2>2. \E flag : CommitChange(p) \/ CommitEnds(p, flag) \/ EndTrans(p, flag)
    BY <1>2 DEF RepairCommit, RepairRelease
  <2> QED BY <1>1, <2>1, <2>2, EndFacts, TypesEnd
<1> QED BY <1>1, <1>2, TypesRepairStart, TypesRepairLookup, TypesMatch, TypesRepairInit, TypesFix
        DEF Repair, PacRepairDbStep

LEMMA TypesStep == ASSUME TransTypes, TypesInv, [Next]_vars PROVE TransTypes'
<1>1. ASSUME NEW p \in Programs, Kill(p) PROVE TransTypes'
  <2>1. /\ UNCHANGED <<stdin, view, plan, consent, opts, asked, repairVars, localdb, ret>>
        /\ pc' = [pc EXCEPT ![p] = "killed"]
    BY <1>1 DEF Kill, Killed, Goto, transVars
  <2> QED BY <2>1, TypesEnd
<1>2. CASE UNCHANGED vars
  BY <1>2 DEF vars, sharedVars, transVars, repairVars, TransTypes, DbTyped, Results, Views, HasRead,
              Plans, Globals, PacRepairDbTypeOK
<1> QED BY <1>1, <1>2, TypesInstall, TypesRepair DEF Next, Finished

LEMMA TypesAtStart == ASSUME Init PROVE TransTypes
<1>1. DbTyped
  BY LocalDbsAssumption DEF Init, SharedInit, DbTyped, Dbs
<1>2. Results /\ Views /\ Plans
  BY DEF Init, SharedInit, Results, Views, HasRead, InTrans, Plans
<1>3. \A p \in Installers : Typed(opts[p])
  <2> TAKE p \in Installers
  <2>1. PICK a \in Argvs : opts[p] = Parse(a[1], a[2])
    BY DEF Init, PacTransInit
  <2> QED BY <2>1, ParseSound, ArgvsAssumption
<1>4. Globals
  BY <1>3 DEF Init, PacTransInit, Globals
<1>5. PacRepairDbTypeOK
  BY DEF Init, PacRepairDbInit, PacRepairDbTypeOK
<1> QED BY <1>1, <1>2, <1>4, <1>5 DEF TransTypes

\* The parts of the types hold in every behaviour.
THEOREM TypesInvariant == Spec => []TransTypes
<1>1. Init => TransTypes
  BY TypesAtStart
<1>2. TransTypes /\ LockInv /\ [Next]_vars => TransTypes'
  BY TypesStep DEF LockInv
<1> QED BY <1>1, <1>2, LockInvariant, PTL DEF Spec

\* Type correctness: for any databases, repositories, caches and command lines
\* of the assumed types the state keeps its types.  It includes that libalpm
\* has read the local database before a transaction uses it.
THEOREM TypeCorrect == Spec => []TypeOK
<1>1. TransTypes /\ LockInv /\ AgreementInv => TypeOK
  <2> SUFFICES ASSUME TransTypes, LockInv, AgreementInv PROVE TypeOK
    OBVIOUS
  <2>1. applied \in [Programs -> SUBSET Change]
    <3>1. \A p \in Programs : applied[p] \subseteq consent[p] /\ consent[p] \in SUBSET Change
      BY DEF AgreementInv, Agreed, TransTypes, Plans
    <3>2. applied = [p \in Programs |-> applied[p]]
      BY DEF AgreementInv, Functions
    <3> QED BY <3>1, <3>2
  <2>2. SharedTypeOK
    BY <2>1 DEF SharedTypeOK, TransTypes, DbTyped, Results, Views, Plans, LockInv, TypesInv, HasRead, Dbs
  <2>3. PacTransTypeOK
    BY DEF PacTransTypeOK, TransTypes, Globals, Typed
  <2> QED BY <2>2, <2>3 DEF TypeOK, TransTypes
<1> QED BY <1>1, TypesInvariant, LockInvariant, AgreementInvariant, PTL

-----------------------------------------------------------------------------
(***************************************************************************)
(* Part 4.  What the plans of pactrans and pacrepairdb consist of, and     *)
(* what the repairs do to the database.                                    *)
(***************************************************************************)
\* Before the lookup is over, and from then to the end of the commit.
Early(p) == pc[p] \in {"start", "targets", "setup", "dbsync", "syncing", "lookup"}
Chosen(p) == pc[p] \in {"init", "add", "remove", "sysupgrade", "prepare", "confirm", "commit"}

\* Every target has its change among cs, or it was dropped with an answer.
AllFound(p, cs) ==
    \A l \in Lists : \A t \in Range(opts[p].targets[l]) :
        Find(l, t, view[p]) \cap (cs \cup Dropped(p)) # {}

\* What RemovalsJustified says of one removal.
PermittedBy(o, a) == LET m == MethodFor(o, a.question.type) IN Permitted(m, a)[m]

Justified(p, c) ==
    \/ c \in Requested(opts[p], view[p])
    \/ opts[p].flags \cap {"CASCADE", "RECURSE"} # {}
    \/ \E a \in asked[p] : a.question.pkg = c /\ a.answer /\ PermittedBy(opts[p], a)

\* A local database that a target needed was read when the target was found.
Chooses(p) ==
    /\ Early(p) => plan[p] = {}
    /\ pc[p] = "init" /\ NeedsLocalDb(opts[p]) => view[p] # None
    /\ Chosen(p) => AllFound(p, plan[p])
    /\ consent[p] # {} => AllFound(p, consent[p])
    /\ \A c \in plan[p] \cup consent[p] : c.op = "rem" => Justified(p, c)

PlansInv == \A p \in Installers : Chooses(p)

Known == TransTypes /\ TypesInv /\ OptsInv /\ AgreementInv

-----------------------------------------------------------------------------
\* The lookup of a target depends on the local database only if it needs it.
LEMMA FindSame ==
    ASSUME NEW o, NEW db1, NEW db2, NeedsLocalDb(o) => db1 = db2,
           NEW l \in Lists, NEW t \in Range(o.targets[l])
    PROVE  Find(l, t, db1) = Find(l, t, db2)
<1>1. CASE (l = "rem" /\ t.repo = None) \/ (l = "spec" /\ t.repo = "local")
  BY <1>1 DEF NeedsLocalDb
<1>2. CASE l = "rem" /\ t.repo # None
  BY <1>2, SMT DEF Find
<1>3. CASE l = "spec" /\ t.repo # "local"
  BY <1>3, SMT DEF Find
<1>4. CASE l \in {"add", "files"}
  BY <1>4, SMT DEF Find, FindFile
<1> QED BY <1>1, <1>2, <1>3, <1>4 DEF Lists

LEMMA RequestedSame ==
    ASSUME NEW o, NEW db1, NEW db2, NeedsLocalDb(o) => db1 = db2
    PROVE  Requested(o, db1) = Requested(o, db2)
BY FindSame DEF Requested

\* The questions and answers only become more.
LEMMA MoreAnswers ==
    ASSUME NEW p \in Installers, opts'[p] = opts[p], asked[p] \subseteq asked'[p],
           NeedsLocalDb(opts[p]) => view'[p] = view[p]
    PROVE  /\ Dropped(p) \subseteq Dropped(p)'
           /\ \A cs : AllFound(p, cs) => AllFound(p, cs)'
           /\ \A c : Justified(p, c) => Justified(p, c)'
<1>1. Dropped(p) \subseteq Dropped(p)'
  BY DEF Dropped
<1>2. \A l \in Lists : \A t \in Range(opts[p].targets[l]) :
         Find(l, t, view'[p]) = Find(l, t, view[p])
  BY FindSame
<1>3. Requested(opts[p], view'[p]) = Requested(opts[p], view[p])
  BY RequestedSame
<1> QED BY <1>1, <1>2, <1>3 DEF AllFound, Justified

LEMMA AllFoundMore ==
    ASSUME NEW p, NEW cs, NEW more, AllFound(p, cs), cs \subseteq more
    PROVE  AllFound(p, more)
BY DEF AllFound

-----------------------------------------------------------------------------
\* Nothing of what Chooses(q) is about changes for q.
LEMMA OthersChoose ==
    ASSUME NEW q \in Installers, Chooses(q), pc'[q] = pc[q], plan'[q] = plan[q],
           consent'[q] = consent[q], opts'[q] = opts[q], view'[q] = view[q], asked'[q] = asked[q]
    PROVE  Chooses(q)'
<1>1. /\ \A cs : AllFound(q, cs) => AllFound(q, cs)'
      /\ \A c : Justified(q, c) => Justified(q, c)'
  BY MoreAnswers
<1> QED BY <1>1 DEF Chooses, Early, Chosen

LEMMA EarlyChooses ==
    ASSUME Known, NEW p \in Installers, Chooses(p), Early(p),
           UNCHANGED <<plan, consent>>, ~Chosen(p)'
    PROVE  Chooses(p)'
<1>1. plan[p] = {} /\ consent[p] = {}
  BY DEF Chooses, Early, Known, AgreementInv, Agreed, Undecided, Programs
<1> QED BY <1>1 DEF Chooses, Chosen

LEMMA LookupChooses ==
    ASSUME Known, NEW p \in Installers, Chooses(p), Lookup(p)
    PROVE  Chooses(p)'
<1>1. p \in Programs /\ plan[p] = {} /\ consent[p] = {} /\ UNCHANGED <<consent, opts, asked>>
  BY DEF Chooses, Early, Lookup, Known, AgreementInv, Agreed, Undecided, Programs
<1>2. CASE Leave(p, 1) /\ UNCHANGED plan
  <2>1. pc'[p] = "exited"
    BY <1>1, <1>2 DEF Leave, Goto, Known, TypesInv
  <2> QED BY <1>1, <1>2, <2>1 DEF Chooses, Early, Chosen
<1>3. CASE /\ Located(opts[p], localdb)
           /\ plan' = [plan EXCEPT ![p] = Requested(opts[p], localdb)]
           /\ Goto(p, "init")
  <2>1. pc'[p] = "init" /\ plan'[p] = Requested(opts[p], localdb)
    BY <1>1, <1>3 DEF Goto, Known, TypesInv, TransTypes, Plans
  <2>2. NeedsLocalDb(opts[p]) => view'[p] = localdb /\ view'[p] # None
    BY <1>1, DbsAreRead DEF Lookup, Known, TransTypes, Views, DbTyped
  <2>3. plan'[p] = Requested(opts[p], view'[p])
    BY <2>1, <2>2, RequestedSame
  <2>4. \A l \in Lists : \A t \in Range(opts[p].targets[l]) :
           /\ Find(l, t, view'[p]) # {}
           /\ Find(l, t, view'[p]) \subseteq plan'[p]
    <3> TAKE l \in Lists
    <3> TAKE t \in Range(opts[p].targets[l])
    <3>1. Find(l, t, view'[p]) = Find(l, t, localdb)
      BY <2>2, FindSame
    <3>2. Find(l, t, localdb) # {}
      BY <1>3 DEF Located
    <3>3. Find(l, t, view'[p]) \subseteq Requested(opts[p], view'[p])
      BY DEF Requested
    <3> QED BY <2>3, <3>1, <3>2, <3>3
  <2>5. AllFound(p, plan[p])'
    BY <1>1, <2>4 DEF AllFound
  <2>6. \A c \in plan'[p] : Justified(p, c)'
    BY <1>1, <2>3 DEF Justified
  <2> QED BY <1>1, <2>1, <2>2, <2>5, <2>6 DEF Chooses, Early, Chosen
<1> QED BY <1>2, <1>3 DEF Lookup

\* A step of the transaction that may add changes to the plan.
LEMMA GrowingChooses ==
    ASSUME NEW p \in Installers, Chooses(p), ~Early(p)', Chosen(p)' => Chosen(p), pc'[p] # "init",
           opts'[p] = opts[p], asked[p] \subseteq asked'[p],
           NeedsLocalDb(opts[p]) => view'[p] = view[p],
           plan[p] \subseteq plan'[p],
           \A c \in plan'[p] \ plan[p] : c.op = "rem" => Justified(p, c)',
           consent'[p] = consent[p] \/ (pc[p] = "confirm" /\ consent'[p] \in {{}, plan[p]})
    PROVE  Chooses(p)'
<1>1. /\ \A cs : AllFound(p, cs) => AllFound(p, cs)'
      /\ \A c : Justified(p, c) => Justified(p, c)'
  BY MoreAnswers
<1>2. Chosen(p)' => AllFound(p, plan[p])'
  <2> SUFFICES ASSUME Chosen(p)' PROVE AllFound(p, plan[p])'
    OBVIOUS
  <2>1. PICK cs : cs = plan[p]
    OBVIOUS
  <2>2. AllFound(p, cs)'
    BY <1>1, <2>1 DEF Chooses
  <2>3. cs \subseteq plan'[p]
    BY <2>1
  <2> QED BY <2>2, <2>3 DEF AllFound
<1>3. consent'[p] # {} => AllFound(p, consent[p])'
  <2> SUFFICES ASSUME consent'[p] # {} PROVE AllFound(p, consent[p])'
    OBVIOUS
  <2>1. AllFound(p, consent'[p])
    BY DEF Chooses, Chosen
  <2> QED BY <2>1, <1>1 DEF AllFound
<1>4. \A c \in plan'[p] \cup consent'[p] : c.op = "rem" => Justified(p, c)'
  BY <1>1 DEF Chooses
<1> QED BY <1>2, <1>3, <1>4 DEF Chooses

-----------------------------------------------------------------------------
(***************************************************************************)
(* The steps of pactrans.                                                  *)
(***************************************************************************)

LEMMA BeforeChooses ==
    ASSUME Known, NEW p \in Installers, Chooses(p),
           ParseOpts(p) \/ ReadTargets(p) \/ SetUp(p) \/ DbSync(p) \/ DbSyncEnds(p)
    PROVE  Chooses(p)'
<1>1. Early(p) /\ UNCHANGED <<plan, consent>>
  BY DEF ParseOpts, ReadTargets, SetUp, DbSync, DbSyncEnds, Early
<1>2. PICK l \in {"exited", "targets", "setup", "dbsync", "lookup", "syncing"} :
         pc' = [pc EXCEPT ![p] = l]
  BY DEF ParseOpts, ReadTargets, SetUp, DbSync, DbSyncEnds, Leave, Goto
<1>3. pc'[p] = l
  BY <1>2 DEF Known, TypesInv, Programs
<1>4. ~Chosen(p)'
  BY <1>3 DEF Chosen
<1> QED BY <1>1, <1>4, EarlyChooses

\* The steps that leave the plan alone.
LEMMA EndChooses ==
    ASSUME Known, NEW p \in Installers, Chooses(p),
           TransInit(p) \/ AddPackages(p) \/ RemovePackages(p) \/ Confirm(p)
             \/ Commit(p) \/ TransRelease(p) \/ Kill(p)
    PROVE  Chooses(p)'
<1>1. p \in Programs /\ UNCHANGED <<plan, opts, asked>>
  BY DEF Programs, TransInit, AddPackages, RemovePackages, Confirm, Commit, CommitChange, CommitEnds,
         TransRelease, EndTrans, Kill, Killed, transVars
<1>2. PICK l : pc' = [pc EXCEPT ![p] = l] /\ l \in Labels
               /\ \/ l \in {"add", "remove", "sysupgrade", "prepare", "commit"} /\ Chosen(p)
                  \/ l \in {"release", "exited", "hung", "killed"}
  <2>1. CASE TransInit(p) \/ AddPackages(p) \/ RemovePackages(p)
    BY <2>1 DEF TransInit, BeginTrans, AddPackages, RemovePackages, Stage, GiveUp, Leave, Goto, Chosen,
                Labels
  <2>2. CASE Confirm(p)
    BY <2>2 DEF Confirm, Goto, Chosen, Labels
  <2>3. CASE Commit(p) /\ CommitChange(p)
    <3>1. pc' = [pc EXCEPT ![p] = "commit"]
      BY <2>3 DEF CommitChange, Known, TypesInv
    <3> QED BY <2>3, <3>1 DEF CommitChange, Chosen, Labels
  <2>4. CASE \/ Commit(p) /\ CommitEnds(p, "DOWNLOADONLY" \in opts[p].flags)
             \/ TransRelease(p) \/ Kill(p)
    BY <2>4 DEF CommitEnds, TransRelease, EndTrans, Kill, Killed, GiveUp, Leave, Goto, Labels
  <2> QED BY <2>1, <2>2, <2>3, <2>4 DEF Commit
<1>3. pc'[p] = l
  BY <1>1, <1>2 DEF Known, TypesInv
<1>4. ~Early(p)' /\ (Chosen(p)' => Chosen(p)) /\ pc'[p] # "init"
  BY <1>2, <1>3 DEF Early, Chosen
<1>5. NeedsLocalDb(opts[p]) => view'[p] = view[p]
  <2>1. CASE TransInit(p)
    <3>1. NeedsLocalDb(opts[p]) => view[p] # None
      BY <2>1 DEF Chooses, TransInit
    <3> QED BY <2>1, <1>1, <3>1 DEF TransInit, BeginTrans, Known, TransTypes, Views
  <2>2. CASE ~TransInit(p)
    BY <2>2 DEF AddPackages, RemovePackages, Confirm, Commit, CommitChange, CommitEnds,
         TransRelease, EndTrans, Kill, Killed
  <2> QED BY <2>1, <2>2
<1>6. consent'[p] = consent[p] \/ (pc[p] = "confirm" /\ consent'[p] \in {{}, plan[p]})
  <2>1. CASE Confirm(p)
    BY <2>1, <1>1 DEF Confirm, Known, TransTypes, Plans
  <2>2. CASE ~Confirm(p)
    BY <2>2 DEF TransInit, AddPackages, RemovePackages, Commit, CommitChange, CommitEnds,
         TransRelease, EndTrans, Kill, Killed
  <2> QED BY <2>1, <2>2
<1> QED BY <1>1, <1>4, <1>5, <1>6, GrowingChooses

LEMMA InstallAdds == ASSUME NEW name, NEW ver, NEW c \in InstallOf(name, ver) PROVE c.op = "add"
BY DEF InstallOf

LEMMA StageChooses ==
    ASSUME Known, NEW p \in Installers, Chooses(p), SysUpgrade(p) \/ Prepare(p)
    PROVE  Chooses(p)'
<1>1. /\ p \in Programs /\ UNCHANGED <<view, consent, opts, asked>>
      /\ pc[p] \in {"sysupgrade", "prepare"}
  BY DEF Programs, SysUpgrade, Prepare, Stage
<1>2. \E l \in {"prepare", "confirm", "release"} : pc' = [pc EXCEPT ![p] = l]
  BY DEF SysUpgrade, Prepare, Stage, GiveUp, Goto
<1>3. ~Early(p)' /\ Chosen(p) /\ pc'[p] # "init"
  BY <1>1, <1>2 DEF Early, Chosen, Known, TypesInv
<1>4. /\ plan[p] \subseteq plan'[p]
      /\ \A c \in plan'[p] \ plan[p] : c.op = "rem" => Justified(p, c)'
  <2>1. CASE SysUpgrade(p)
    <3>1. \A c \in Upgrades(opts[p], view[p]) : c.op # "rem"
      BY InstallAdds DEF Upgrades
    <3>2. plan'[p] = plan[p] \/ plan'[p] = plan[p] \cup Upgrades(opts[p], view[p])
      BY <1>1, <2>1 DEF SysUpgrade, Known, TransTypes, Plans
    <3> QED BY <3>1, <3>2
  <2>2. CASE Prepare(p)
    <3> DEFINE installs == UNION {InstallOf(n, FirstSync(n, None)) : n \in Names}
               removals == UNION {RemovalOf(n, view[p]) : n \in Names}
               related == opts[p].flags \cap {"CASCADE", "RECURSE"} # {}
    <3>1. \A c \in installs : c.op # "rem"
      BY InstallAdds
    <3>2. Related(opts[p], view[p]) =
             installs \cup IF opts[p].flags \cap {"CASCADE", "RECURSE"} = {} THEN {} ELSE removals
      BY DEF Related
    <3>3. \A c \in Related(opts[p], view[p]) : c.op # "rem" \/ related
      <4> HIDE DEF installs, removals
      <4> QED BY <3>1, <3>2
    <3> HIDE DEF installs, removals, related
    <3>4. PICK more \in {{}} \cup {{c} : c \in Related(opts[p], view[p])} :
             plan' = [plan EXCEPT ![p] = IF pc'[p] = "confirm" THEN @ \cup more ELSE @]
      BY <2>2 DEF Prepare
    <3>5. plan[p] \subseteq plan'[p] /\ plan'[p] \subseteq plan[p] \cup more
      BY <1>1, <3>4 DEF Known, TransTypes, Plans
    <3>6. related => \A c : Justified(p, c)'
      BY <1>1 DEF Justified, related
    <3> QED BY <3>3, <3>4, <3>5, <3>6
  <2> QED BY <2>1, <2>2
<1> QED BY <1>1, <1>3, <1>4, GrowingChooses

\* The answer yes to a conflict or a replacement is what the method permits, or
\* somebody was asked.
LEMMA YesIsPermitted ==
    ASSUME Known, NEW p \in Installers, NEW q \in Questions(p), q.type \in {"conflict", "replace"},
           NEW a, a = [question |-> q, answer |-> TRUE, prompted |-> Prompts(opts[p], q)],
           TRUE \in Answers(p, q)
    PROVE  PermittedBy(opts[p], a)
<1> DEFINE m == MethodFor(opts[p], q.type)
<1>1. m \in Methods
  BY DEF MethodFor, Known, TransTypes, Globals, Typed
<1>2. q.provides \in BOOLEAN /\ q.depend \in BOOLEAN
  BY QuestionsAbout
<1>3. AutoAnswer(opts[p], q) = IF m = "prompt" THEN {} ELSE {ShouldRemove(m, q.provides, q.depend)}
  BY DEF AutoAnswer
<1>4. PermittedBy(opts[p], a) <=> Permitted(m, a)[m]
  BY DEF PermittedBy
<1> HIDE DEF m
<1>5. CASE m = "prompt"
  <2>1. Prompts(opts[p], q)
    <3> SUFFICES ASSUME ~Prompts(opts[p], q) PROVE FALSE
      OBVIOUS
    <3>1. Answers(p, q) = {InitialAnswer(q.type)}
      BY <1>3, <1>5 DEF Answers
    <3> QED BY <3>1 DEF InitialAnswer
  <2> QED BY <1>4, <1>5, <2>1 DEF Permitted
<1>6. CASE m # "prompt"
  <2>1. ~Prompts(opts[p], q) /\ AutoAnswer(opts[p], q) # {}
    BY <1>3, <1>6 DEF Prompts
  <2>2. Answers(p, q) = {ShouldRemove(m, q.provides, q.depend)}
    BY <1>3, <1>6, <2>1 DEF Answers
  <2>3. ShouldRemove(m, q.provides, q.depend)
    BY <2>2
  <2>4. a.question = q
    OBVIOUS
  <2>5. \/ m = "all"
        \/ m = "provided" /\ q.provides
        \/ m = "depends" /\ q.depend
        \/ m = "provided_depends" /\ q.depend /\ q.provides
    BY <2>3 DEF ShouldRemove
  <2>6. /\ Permitted(m, a)["all"] = TRUE
        /\ Permitted(m, a)["provided"] = q.provides
        /\ Permitted(m, a)["depends"] = q.depend
        /\ Permitted(m, a)["provided_depends"] = (q.provides /\ q.depend)
    BY <2>4 DEF Permitted
  <2>7. Permitted(m, a)[m]
    BY <1>2, <2>5, <2>6
  <2> QED BY <1>4, <2>7
<1> QED BY <1>5, <1>6

LEMMA AskChooses == ASSUME Known, NEW p \in Installers, Chooses(p), Ask(p) PROVE Chooses(p)'
<1>1. /\ p \in Programs /\ UNCHANGED <<view, consent, opts>>
      /\ pc[p] \in {"sysupgrade", "prepare", "commit"}
  BY DEF Programs, Ask, Questions
<1>2. PICK q \in Questions(p) :
         \/ \E answer \in Answers(p, q) :
              /\ Decide(p, q, answer)
              /\ asked' = [asked EXCEPT ![p] = @ \cup
                     {[question |-> q, answer |-> answer,
                       prompted |-> Prompts(opts[p], q)]}]
         \/ Goto(p, "hung") /\ UNCHANGED <<plan, ret, asked>>
  BY DEF Ask
<1>3. CASE Goto(p, "hung") /\ UNCHANGED <<plan, ret, asked>>
  <2>1. pc'[p] = "hung"
    BY <1>1, <1>3 DEF Goto, Known, TypesInv
  <2> QED BY <1>1, <1>3, <2>1, GrowingChooses DEF Early, Chosen
<1>4. ASSUME NEW answer \in Answers(p, q), Decide(p, q, answer),
             asked' = [asked EXCEPT ![p] = @ \cup
                 {[question |-> q, answer |-> answer, prompted |-> Prompts(opts[p], q)]}]
      PROVE  Chooses(p)'
  <2> DEFINE a == [question |-> q, answer |-> answer, prompted |-> Prompts(opts[p], q)]
  <2>1. asked'[p] = asked[p] \cup {a}
    BY <1>4 DEF Known, TransTypes, Globals
  <2>2. a.question = q /\ a.answer = answer /\ answer \in BOOLEAN
    BY <1>4, AnswersTyped
  <2>3. ~Early(p)' /\ Chosen(p) /\ pc'[p] # "init"
    <3>1. pc'[p] \in {"sysupgrade", "prepare", "commit", "release"}
      BY <1>1, <1>4, DecideKinds DEF GiveUp, Goto, Known, TypesInv
    <3> QED BY <1>1, <3>1 DEF Early, Chosen
  <2> HIDE DEF a
  <2>4. CASE answer /\ q.type \in {"replace", "provider", "ignorepkg", "conflict"}
    <3>1. plan' = [plan EXCEPT ![p] = @ \cup {q.pkg}]
      BY <1>4, <2>4, SMT DEF Decide
    <3>2. plan'[p] = plan[p] \cup {q.pkg}
      BY <1>1, <3>1 DEF Known, TransTypes, Plans
    <3>3. q.pkg.op = "rem" => Justified(p, q.pkg)'
      <4>1. CASE q.type \in {"provider", "ignorepkg"}
        BY <4>1, QuestionsAbout, InstallAdds
      <4>2. CASE q.type \in {"replace", "conflict"}
        <5>1. a = [question |-> q, answer |-> TRUE, prompted |-> Prompts(opts[p], q)]
          BY <2>2, <2>4 DEF a
        <5>2. TRUE \in Answers(p, q)
          BY <1>4, <2>2, <2>4
        <5>3. PermittedBy(opts[p], a)
          BY <4>2, <5>1, <5>2, YesIsPermitted
        <5>4. a \in asked'[p] /\ a.question.pkg = q.pkg /\ a.answer /\ PermittedBy(opts'[p], a)
          BY <1>1, <2>1, <2>2, <2>4, <5>3
        <5> QED BY <5>4 DEF Justified
      <4> QED BY <2>4, <4>1, <4>2
    <3> QED BY <1>1, <2>1, <2>3, <3>2, <3>3, GrowingChooses
  <2>5. CASE answer /\ q.type = "unresolvable"
    <3>1. plan' = [plan EXCEPT ![p] = @ \ {q.pkg}] /\ UNCHANGED pc
      BY <1>4, <2>5, SMT DEF Decide
    <3>2. plan'[p] = plan[p] \ {q.pkg}
      BY <1>1, <3>1 DEF Known, TransTypes, Plans
    <3>3. q.pkg \in Dropped(p)'
      BY <2>1, <2>2, <2>5 DEF Dropped
    <3>4. /\ Dropped(p) \subseteq Dropped(p)'
          /\ \A cs : AllFound(p, cs) => AllFound(p, cs)'
          /\ \A c : Justified(p, c) => Justified(p, c)'
      BY <1>1, <2>1, MoreAnswers
    <3>5. AllFound(p, plan[p])'
      <4>1. PICK cs : cs = plan[p]
        OBVIOUS
      <4>2. AllFound(p, cs)'
        BY <2>3, <3>4, <4>1 DEF Chooses
      <4>3. cs \cup Dropped(p)' \subseteq plan'[p] \cup Dropped(p)'
        BY <3>2, <3>3, <4>1
      <4> QED BY <4>2, <4>3 DEF AllFound
    <3>6. pc[p] = "prepare" /\ consent[p] = {}
      <4>1. pc[p] = "prepare"
        BY <2>5, QuestionsAbout
      <4> QED BY <1>1, <4>1 DEF Known, AgreementInv, Agreed, Undecided
    <3>7. \A c \in plan'[p] : c.op = "rem" => Justified(p, c)'
      BY <3>2, <3>4 DEF Chooses
    <3> QED BY <1>1, <2>3, <3>5, <3>6, <3>7 DEF Chooses
  <2>6. CASE ~(answer /\ q.type \in {"replace", "provider", "ignorepkg", "conflict", "unresolvable"})
    <3>1. UNCHANGED plan
      <4>1. CASE q.type = "unresolvable"
        BY <1>4, <2>2, <2>6, <4>1, SMT DEF Decide
      <4>2. CASE q.type = "conflict"
        BY <1>4, <2>2, <2>6, <4>2, SMT DEF Decide
      <4>3. CASE q.type \in {"replace", "provider", "ignorepkg"}
        BY <1>4, <2>2, <2>6, <4>3, SMT DEF Decide
      <4>4. CASE q.type \notin {"unresolvable", "conflict", "replace", "provider", "ignorepkg"}
        BY <1>4, <4>4, SMT DEF Decide
      <4> QED BY <4>1, <4>2, <4>3, <4>4
    <3> QED BY <1>1, <2>1, <2>3, <3>1, GrowingChooses
  <2> QED BY <2>4, <2>5, <2>6
<1> QED BY <1>2, <1>3, <1>4

LEMMA InstallChooses ==
    ASSUME Known, NEW p \in Installers, Chooses(p), Install(p) PROVE Chooses(p)'
BY BeforeChooses, LookupChooses, EndChooses, StageChooses, AskChooses DEF Install, PacTransStep

LEMMA ChangesOfOne ==
    ASSUME NEW p \in Installers, Install(p)
    PROVE  /\ UNCHANGED opts \/ \E o : opts' = [opts EXCEPT ![p] = o]
           /\ UNCHANGED view \/ \E d : view' = [view EXCEPT ![p] = d]
           /\ UNCHANGED asked \/ \E s : asked' = [asked EXCEPT ![p] = s]
<1>1. CASE ReadTargets(p)
  BY <1>1 DEF ReadTargets
<1>2. CASE Lookup(p) \/ TransInit(p)
  BY <1>2 DEF Lookup, TransInit, BeginTrans
<1>3. CASE Ask(p)
  BY <1>3 DEF Ask
<1>4. CASE ~(ReadTargets(p) \/ Lookup(p) \/ TransInit(p) \/ Ask(p))
  BY <1>4 DEF Install, PacTransStep, ParseOpts, SetUp, DbSync, DbSyncEnds, AddPackages,
              RemovePackages, SysUpgrade, Prepare, Confirm, Commit, CommitChange, CommitEnds,
              TransRelease, EndTrans, transVars
<1> QED BY <1>1, <1>2, <1>3, <1>4

\* No step of one program touches the transaction of another.
LEMMA OnlyMine ==
    ASSUME Known, NEW p \in Installers, Install(p), NEW q \in Installers \ {p}
    PROVE  /\ pc'[q] = pc[q] /\ plan'[q] = plan[q] /\ consent'[q] = consent[q]
           /\ opts'[q] = opts[q] /\ view'[q] = view[q] /\ asked'[q] = asked[q]
<1>1. Alone(p) /\ q \in Programs /\ q # p
  BY BeforeTransaction, InTransaction, AskAgrees, ConfirmAgrees, CommitAgrees
     DEF Known, Install, PacTransStep, Programs
<1>2. /\ UNCHANGED opts \/ \E o : opts' = [opts EXCEPT ![p] = o]
      /\ UNCHANGED view \/ \E d : view' = [view EXCEPT ![p] = d]
      /\ UNCHANGED asked \/ \E s : asked' = [asked EXCEPT ![p] = s]
  BY ChangesOfOne
<1>3. opts'[q] = opts[q] /\ view'[q] = view[q] /\ asked'[q] = asked[q]
  BY <1>1, <1>2 DEF Known, TransTypes, Globals, Views
<1> QED BY <1>1, <1>3 DEF Alone

-----------------------------------------------------------------------------
(***************************************************************************)
(* The repairs.                                                            *)
(***************************************************************************)

\* Every package to repair is reinstalled in its version.
Complete(p, cs) ==
    \A n \in Range(packages[p]) : [op |-> "add", name |-> n, ver |-> view[p][n].ver] \in cs

Matched(p) == pc[p] \in {"confirm", "init", "fix", "add", "prepare", "commit"}

\* After fix_db_entry every change is about an entry that exists; nobody but
\* the repair changes the database then.
Repairs(p) ==
    /\ pc[p] = "init" => view[p] # None
    /\ Matched(p) => Complete(p, plan[p])
    /\ consent[p] # {} => Complete(p, consent[p])
    /\ \A c \in plan[p] : c.op = "add"
    /\ pc[p] \in {"add", "prepare", "commit"} => \A c \in plan[p] : HasEntry(localdb, c)

\* A step of somebody else, or one that only goes on or ends.
LEMMA KeepsRepairs ==
    ASSUME NEW p \in Repairers, Repairs(p),
           plan'[p] = plan[p], view'[p] = view[p], packages'[p] = packages[p],
           consent'[p] = consent[p] \/ (Matched(p) /\ consent'[p] = plan[p]),
           Matched(p)' => Matched(p),
           pc'[p] = "init" => view[p] # None,
           pc'[p] \in {"add", "prepare", "commit"} => \A c \in plan[p] : HasEntry(localdb', c)
    PROVE  Repairs(p)'
<1>1. \A cs : Complete(p, cs) => Complete(p, cs)'
  BY DEF Complete
<1>2. Matched(p)' => Complete(p, plan[p])'
  BY DEF Complete, Repairs
<1>3. consent'[p] # {} => Complete(p, consent[p])'
  BY DEF Complete, Repairs
<1>4. pc'[p] \in {"add", "prepare", "commit"} => \A c \in plan'[p] : HasEntry(localdb', c)
  OBVIOUS
<1> QED BY <1>2, <1>3, <1>4 DEF Repairs, HasEntry

\* The database is changed by the one who has the lock.
LEMMA HolderChanges ==
    ASSUME LockInv, NEW p \in Programs,
           (p \in Installers /\ Install(p)) \/ (p \in Repairers /\ Repair(p)) \/ Kill(p)
    PROVE  localdb' = localdb \/ holder = p
<1>1. Stays(p) \/ Enters(p) \/ Leaves(p) \/ Dies(p)
  <2>1. CASE p \in Installers /\ Install(p)
    BY <2>1, BeforeWork, ReadTargetsStays, DbSyncKind, DbSyncEndsKind, TransInitKind,
       StagesStay, AskKind, ConfirmKind, CommitStays, ReleaseKind
       DEF Install, PacTransStep
  <2>2. CASE p \in Repairers /\ Repair(p)
    <3>1. UNCHANGED opts
      BY <2>2 DEF Repair, transVars
    <3> QED BY <2>2, <3>1, RepairBeforeWork, RepairInitKind, RepairAtWork, RepairReleaseLeaves
            DEF Repair, PacRepairDbStep
  <2>3. CASE Kill(p)
    BY <2>3, KillDies
  <2> QED BY <2>1, <2>2, <2>3
<1> QED BY <1>1 DEF Stays, Enters, Leaves, Dies, LockInv, HeldAtWork

LEMMA RepairHolds ==
    ASSUME LockInv, NEW p \in Repairers, pc[p] \in {"fix", "add", "prepare", "commit"}
    PROVE  holder = p
<1>1. AtWork(p) /\ p \in Programs
  BY ProgramsAssumption DEF AtWork, InTrans, Programs
<1> QED BY <1>1 DEF LockInv, HeldAtWork

\* A change of a repair leaves the versions as they are.
LEMMA ApplyKeepsEntries ==
    ASSUME NEW db \in Dbs, NEW cs \in SUBSET Change, NEW c \in cs, c.op = "add",
           \A b \in cs : HasEntry(db, b)
    PROVE  \A b \in cs : HasEntry(Apply(db, c), b)
<1>1. Apply(db, c) = [db EXCEPT ![c.name] = [ver |-> c.ver, desc |-> "ok"]]
  BY DEF Apply
<1>2. [ver |-> c.ver, desc |-> "ok"] # None
  <2>1. [ver |-> c.ver, desc |-> "ok"] \in Entry
    BY DEF Entry, Change
  <2> QED BY <2>1, LocalDbsAssumption
<1>3. ASSUME NEW b \in cs PROVE HasEntry(Apply(db, c), b)
  <2>1. b.name \in Names /\ c.name \in Names /\ HasEntry(db, b) /\ HasEntry(db, c)
    BY DEF Change
  <2>2. CASE b.name = c.name
    <3>1. Apply(db, c)[b.name] = [ver |-> c.ver, desc |-> "ok"]
      BY <1>1, <2>1, <2>2 DEF Dbs
    <3>2. Apply(db, c)[b.name].ver = c.ver
      BY <3>1
    <3> QED BY <1>2, <2>1, <2>2, <3>1, <3>2 DEF HasEntry
  <2>3. CASE b.name # c.name
    <3>1. Apply(db, c)[b.name] = db[b.name]
      BY <1>1, <2>1, <2>3 DEF Dbs
    <3> QED BY <2>1, <3>1 DEF HasEntry
  <2> QED BY <2>2, <2>3
<1> QED BY <1>3

LEMMA MatchRepairs ==
    ASSUME Known, NEW p \in Repairers, Repairs(p), MatchCache(p)
    PROVE  Repairs(p)'
<1>1. p \in Programs /\ UNCHANGED <<view, consent, packages>> /\ pc[p] = "match"
  BY DEF Programs, MatchCache
<1>2. CASE Leave(p, 1) /\ UNCHANGED plan
  <2>1. pc'[p] = "exited"
    BY <1>1, <1>2 DEF Leave, Goto, Known, TypesInv
  <2> QED BY <1>1, <1>2, <2>1, KeepsRepairs DEF Matched
<1>3. ASSUME ~MatchAll(packages[p], view[p]).error,
             plan' = [plan EXCEPT ![p] = {[op |-> "add", name |-> c.name, ver |-> c.ver] :
                                            c \in MatchAll(packages[p], view[p]).used}],
             Goto(p, "confirm")
      PROVE  Repairs(p)'
  <2> DEFINE used == MatchAll(packages[p], view[p]).used
             new == {[op |-> "add", name |-> c.name, ver |-> c.ver] : c \in used}
  <2>1. Len(packages[p]) \in Nat /\ DOMAIN packages[p] = 1 .. Len(packages[p])
    BY DEF Known, TransTypes, PacRepairDbTypeOK
  <2>2. \A i \in 1 .. Len(packages[p]) : \E c \in used :
           Matches(c, packages[p][i], view[p][packages[p][i]])
    BY <1>3, <2>1, MatchAllFinds
  <2> HIDE DEF used
  <2>3. ASSUME NEW n \in Range(packages[p])
        PROVE  [op |-> "add", name |-> n, ver |-> view[p][n].ver] \in new
    <3>1. PICK i \in 1 .. Len(packages[p]) : n = packages[p][i]
      BY <2>1 DEF Range
    <3>2. PICK c \in used : c.name = n /\ c.ver = view[p][n].ver
      BY <2>2, <3>1 DEF Matches
    <3> QED BY <3>2
  <2>4. plan'[p] = new /\ pc'[p] = "confirm"
    BY <1>1, <1>3 DEF used, Goto, Known, TransTypes, Plans, TypesInv
  <2>5. \A c \in new : c.op = "add"
    OBVIOUS
  <2>6. consent[p] = {}
    BY <1>1, ProgramsAssumption DEF Known, AgreementInv, Agreed, Undecided
  <2> HIDE DEF new
  <2>7. Complete(p, plan[p])'
    BY <1>1, <2>3, <2>4 DEF Complete
  <2> QED BY <1>1, <2>4, <2>5, <2>6, <2>7 DEF Repairs
<1> QED BY <1>2, <1>3 DEF MatchCache

LEMMA RepairRepairs ==
    ASSUME Known, LockInv, NEW p \in Repairers, Repairs(p), Repair(p)
    PROVE  Repairs(p)'
<1>1. p \in Programs
  BY DEF Programs
<1>2. CASE RepairStart(p) \/ RepairLookup(p)
  <2>1. PICK l \in {"exited", "lookup", "match"} : pc' = [pc EXCEPT ![p] = l]
    BY <1>2 DEF RepairStart, RepairLookup, Leave, Goto
  <2>2. pc'[p] = l /\ UNCHANGED <<plan, consent>> /\ consent[p] = {}
    BY <1>1, <1>2, <2>1, ProgramsAssumption
       DEF RepairStart, RepairLookup, Known, TypesInv, AgreementInv, Agreed, Undecided
  <2> QED BY <2>2 DEF Repairs, Matched
<1>3. CASE MatchCache(p)
  BY <1>3, MatchRepairs
<1>4. CASE RepairConfirm(p)
  <2>1. PICK l \in {"exited", "init", "hung"} : pc' = [pc EXCEPT ![p] = l]
    BY <1>4 DEF RepairConfirm, Leave, Goto
  <2>2. pc'[p] = l /\ UNCHANGED <<plan, view, packages>> /\ Matched(p)
    BY <1>1, <1>4, <2>1 DEF RepairConfirm, Known, TypesInv, Matched
  <2>3. view[p] # None
    BY <1>1, <1>4 DEF RepairConfirm, Known, TransTypes, Views, HasRead
  <2>4. consent'[p] = consent[p] \/ consent'[p] = plan[p]
    BY <1>1, <1>4 DEF RepairConfirm, Known, TransTypes, Plans
  <2> QED BY <2>2, <2>3, <2>4, KeepsRepairs
<1>5. CASE RepairInit(p)
  <2>1. PICK l \in {"exited", "fix"} : pc' = [pc EXCEPT ![p] = l]
    BY <1>5 DEF RepairInit, BeginTrans, Leave, Goto
  <2>2. pc'[p] = l /\ UNCHANGED <<plan, consent, packages>> /\ Matched(p)
    BY <1>1, <1>5, <2>1 DEF RepairInit, Known, TypesInv, Matched
  <2>3. view'[p] = view[p]
    <3>1. view[p] # None
      BY <1>5 DEF RepairInit, Repairs
    <3> QED BY <1>1, <1>5, <3>1 DEF RepairInit, BeginTrans, Known, TransTypes, Views
  <2> QED BY <2>2, <2>3, KeepsRepairs
<1>6. CASE FixEntry(p)
  <2>1. UNCHANGED <<plan, consent, view, packages>> /\ Matched(p) /\ pc[p] = "fix"
    BY <1>6 DEF FixEntry, Matched
  <2>2. \/ UNCHANGED pc
        \/ /\ pc' = [pc EXCEPT ![p] = "add"] /\ UNCHANGED localdb
           /\ \A c \in plan[p] : HasEntry(localdb, c)
        \/ pc' = [pc EXCEPT ![p] = "release"]
    BY <1>6 DEF FixEntry, GiveUp, Goto
  <2>3. /\ pc'[p] # "init"
        /\ pc'[p] \in {"add", "prepare", "commit"} => \A c \in plan[p] : HasEntry(localdb', c)
    BY <1>1, <2>1, <2>2 DEF Known, TypesInv
  <2> QED BY <2>1, <2>3, KeepsRepairs
<1>7. CASE RepairAdd(p) \/ RepairPrepare(p) \/ RepairRelease(p)
            \/ (RepairCommit(p) /\ CommitEnds(p, FALSE))
  <2>1. UNCHANGED <<plan, consent, view, packages, localdb>>
    BY <1>7 DEF RepairAdd, RepairPrepare, RepairRelease, RepairCommit, CommitEnds, EndTrans, repairVars
  <2>2. \/ /\ pc[p] \in {"add", "prepare"} /\ Matched(p)
           /\ \E l \in {"prepare", "commit"} : pc' = [pc EXCEPT ![p] = l]
        \/ \E l \in {"release", "exited"} : pc' = [pc EXCEPT ![p] = l]
    BY <1>7 DEF RepairAdd, RepairPrepare, RepairRelease, CommitEnds, EndTrans, Stage, GiveUp, Leave,
                Goto, Matched
  <2>3. /\ pc'[p] # "init" /\ (Matched(p)' => Matched(p))
        /\ pc'[p] \in {"add", "prepare", "commit"} => \A c \in plan[p] : HasEntry(localdb, c)
    BY <1>1, <2>2 DEF Known, TypesInv, Repairs, Matched
  <2> QED BY <2>1, <2>3, KeepsRepairs
<1>8. CASE RepairCommit(p) /\ CommitChange(p)
  <2>1. /\ UNCHANGED <<plan, consent, view, packages, pc>> /\ pc[p] = "commit"
        /\ \E c \in plan[p] : localdb' = Apply(localdb, c)
    BY <1>8 DEF RepairCommit, CommitChange, repairVars
  <2>2. /\ \A c \in plan[p] : c.op = "add" /\ HasEntry(localdb, c)
        /\ localdb \in Dbs /\ plan[p] \in SUBSET Change
    BY <1>1, <2>1 DEF Repairs, Known, TransTypes, DbTyped, Plans
  <2>3. \A c \in plan[p] : HasEntry(localdb', c)
    BY <2>1, <2>2, ApplyKeepsEntries
  <2>4. Matched(p)' <=> Matched(p)
    BY <2>1 DEF Matched
  <2> QED BY <2>1, <2>3, <2>4, KeepsRepairs
<1> QED BY <1>2, <1>3, <1>4, <1>5, <1>6, <1>7, <1>8 DEF Repair, PacRepairDbStep, RepairCommit

-----------------------------------------------------------------------------
(***************************************************************************)
(* Every step, and the theorems.                                           *)
(***************************************************************************)

LEMMA KillOnly ==
    ASSUME Known, NEW p \in Programs, Kill(p)
    PROVE  /\ UNCHANGED <<plan, consent, opts, view, asked, packages, localdb>>
           /\ pc'[p] = "killed"
           /\ \A q \in Programs \ {p} : pc'[q] = pc[q]
<1>1. /\ UNCHANGED <<plan, consent, opts, view, asked, packages, localdb>>
      /\ pc' = [pc EXCEPT ![p] = "killed"]
  BY DEF Kill, Killed, Goto, transVars, repairVars
<1> QED BY <1>1 DEF Known, TypesInv

LEMMA OnlyMyRepair ==
    ASSUME Known, NEW p \in Repairers, Repair(p), NEW q \in Programs \ {p}
    PROVE  /\ pc'[q] = pc[q] /\ plan'[q] = plan[q] /\ consent'[q] = consent[q]
           /\ view'[q] = view[q] /\ (q \in Repairers => packages'[q] = packages[q])
           /\ UNCHANGED <<opts, asked>>
<1>1. Alone(p)
  BY RepairAgrees DEF Known, Repair
<1>2. /\ UNCHANGED view \/ \E d : view' = [view EXCEPT ![p] = d]
      /\ UNCHANGED packages \/ \E s : packages' = [packages EXCEPT ![p] = s]
  <2>1. CASE RepairLookup(p)
    BY <2>1 DEF RepairLookup
  <2>2. CASE RepairInit(p)
    BY <2>2 DEF RepairInit, BeginTrans
  <2>3. CASE ~(RepairLookup(p) \/ RepairInit(p))
    BY <2>3 DEF Repair, PacRepairDbStep, RepairStart, MatchCache, RepairConfirm, FixEntry, RepairAdd,
                RepairPrepare, RepairCommit, CommitChange, CommitEnds, RepairRelease, EndTrans,
                repairVars
  <2> QED BY <2>1, <2>2, <2>3
<1>3. view'[q] = view[q] /\ (q \in Repairers => packages'[q] = packages[q])
  BY <1>2 DEF Known, TransTypes, Views, PacRepairDbTypeOK
<1>4. UNCHANGED <<opts, asked>>
  BY DEF Repair, transVars
<1> QED BY <1>1, <1>3, <1>4 DEF Alone

LEMMA PlansStep == ASSUME Known, PlansInv, [Next]_vars PROVE PlansInv'
<1>1. ASSUME NEW q \in Installers PROVE Chooses(q)'
  <2>1. Chooses(q) /\ q \in Programs
    BY DEF PlansInv, Programs
  <2>2. ASSUME NEW p \in Installers, Install(p) PROVE Chooses(q)'
    <3>1. CASE p = q
      BY <2>1, <2>2, <3>1, InstallChooses
    <3>2. CASE p # q
      BY <2>1, <2>2, <3>2, OnlyMine, OthersChoose
    <3> QED BY <3>1, <3>2
  <2>3. ASSUME NEW p \in Repairers, Repair(p) PROVE Chooses(q)'
    <3>1. p # q
      BY <2>3, ProgramsAssumption
    <3> QED BY <2>1, <2>3, <3>1, OnlyMyRepair, OthersChoose
  <2>4. ASSUME NEW p \in Programs, Kill(p) PROVE Chooses(q)'
    <3>1. CASE p = q
      BY <2>1, <2>4, <3>1, EndChooses
    <3>2. CASE p # q
      BY <2>1, <2>4, <3>2, KillOnly, OthersChoose
    <3> QED BY <3>1, <3>2
  <2>5. CASE UNCHANGED vars
    BY <2>1, <2>5, OthersChoose DEF vars, sharedVars, transVars
  <2> QED BY <2>2, <2>3, <2>4, <2>5 DEF Next, Finished
<1> QED BY <1>1 DEF PlansInv

RepairsInv == \A p \in Repairers : Repairs(p)

\* A step of somebody else, or of nobody.
LEMMA OthersRepair ==
    ASSUME LockInv, NEW q \in Repairers, Repairs(q),
           pc'[q] = pc[q], plan'[q] = plan[q], consent'[q] = consent[q], view'[q] = view[q],
           packages'[q] = packages[q],
           holder = q => localdb' = localdb
    PROVE  Repairs(q)'
<1>1. Matched(q)' <=> Matched(q)
  BY DEF Matched
<1>2. /\ pc'[q] = "init" => view[q] # None
      /\ pc'[q] \in {"add", "prepare", "commit"} => \A c \in plan[q] : HasEntry(localdb', c)
  BY RepairHolds DEF Repairs
<1> QED BY <1>1, <1>2, KeepsRepairs

LEMMA RepairsStep == ASSUME Known, LockInv, RepairsInv, [Next]_vars PROVE RepairsInv'
<1>1. ASSUME NEW q \in Repairers PROVE Repairs(q)'
  <2>1. Repairs(q) /\ q \in Programs
    BY DEF RepairsInv, Programs
  <2>2. ASSUME NEW p \in Installers, Install(p) PROVE Repairs(q)'
    <3>1. p # q /\ p \in Programs
      BY <2>2, ProgramsAssumption DEF Programs
    <3>2. localdb' = localdb \/ holder = p
      BY <2>2, <3>1, HolderChanges
    <3>3. Alone(p)
      BY <2>2, BeforeTransaction, InTransaction, AskAgrees, ConfirmAgrees, CommitAgrees
         DEF Known, Install, PacTransStep
    <3>4. view'[q] = view[q]
      <4>1. UNCHANGED view \/ \E d : view' = [view EXCEPT ![p] = d]
        BY <2>2, ChangesOfOne
      <4> QED BY <2>1, <3>1, <4>1 DEF Known, TransTypes, Views
    <3>5. packages'[q] = packages[q]
      BY <2>2 DEF Install, repairVars
    <3> QED BY <2>1, <3>1, <3>2, <3>3, <3>4, <3>5, OthersRepair DEF Alone
  <2>3. ASSUME NEW p \in Repairers, Repair(p) PROVE Repairs(q)'
    <3>1. CASE p = q
      BY <2>1, <2>3, <3>1, RepairRepairs
    <3>2. CASE p # q
      <4>1. localdb' = localdb \/ holder = p
        BY <2>3, HolderChanges DEF Programs
      <4> QED BY <2>1, <2>3, <3>2, <4>1, OnlyMyRepair, OthersRepair
    <3> QED BY <3>1, <3>2
  <2>4. ASSUME NEW p \in Programs, Kill(p) PROVE Repairs(q)'
    <3>1. CASE p = q
      BY <2>1, <2>4, <3>1, KillOnly, KeepsRepairs DEF Matched
    <3>2. CASE p # q
      BY <2>1, <2>4, <3>2, KillOnly, OthersRepair
    <3> QED BY <3>1, <3>2
  <2>5. CASE UNCHANGED vars
    BY <2>1, <2>5, OthersRepair DEF vars, sharedVars, repairVars
  <2> QED BY <2>2, <2>3, <2>4, <2>5 DEF Next, Finished
<1> QED BY <1>1 DEF RepairsInv

LEMMA PlansAtStart == ASSUME Init PROVE PlansInv /\ RepairsInv
<1>1. \A p \in Programs : pc[p] = "start" /\ plan[p] = {} /\ consent[p] = {}
  BY DEF Init, SharedInit
<1>2. PlansInv
  BY <1>1 DEF PlansInv, Chooses, Early, Chosen, Programs
<1>3. RepairsInv
  BY <1>1 DEF RepairsInv, Repairs, Matched, Programs
<1> QED BY <1>2, <1>3

\* The inductive invariant of the plans, with the ones it rests on.
THEOREM PlanInvariant == Spec => [](Known /\ LockInv /\ PlansInv /\ RepairsInv)
<1>1. Init => PlansInv /\ RepairsInv
  BY PlansAtStart
<1>2. TransTypes /\ LockInv /\ AgreementInv => Known
  BY DEF Known, LockInv
<1>3. Known /\ LockInv /\ PlansInv /\ RepairsInv /\ [Next]_vars => PlansInv' /\ RepairsInv'
  BY PlansStep, RepairsStep
<1> QED BY <1>1, <1>2, <1>3, TypesInvariant, LockInvariant, AgreementInvariant, PTL DEF Spec

\* For any repositories, package files, command lines and answers: what is
\* agreed to contains the package of every target, or it was dropped with an
\* answer.
THEOREM AllAreFound == Spec => []AllOrNothing
<1>1. PlansInv => AllOrNothing
  BY DEF PlansInv, Chooses, AllFound, AllOrNothing
<1> QED BY <1>1, PlanInvariant, PTL

\* No package is removed that was neither a target nor related to one nor in the
\* way of another one, as far as the method for conflicts and replacements
\* permits.
THEOREM RemovalsAreJustified == Spec => []RemovalsJustified
<1>1. PlansInv /\ AgreementInv => RemovalsJustified
  <2> SUFFICES ASSUME PlansInv, AgreementInv, NEW p \in Installers, NEW c \in applied[p], c.op = "rem"
               PROVE  Justified(p, c)
    BY DEF RemovalsJustified, Justified, PermittedBy
  <2>1. c \in consent[p]
    BY DEF AgreementInv, Agreed, Programs
  <2> QED BY <2>1 DEF PlansInv, Chooses
<1>2. Known => AgreementInv
  BY DEF Known
<1> QED BY <1>1, <1>2, PlanInvariant, PTL

\* A repair that returns zero after the confirmation has reinstalled every
\* package it was given: none is left out when the cache is searched.
THEOREM RepairsComplete == Spec => []RepairIsComplete
<1>1. RepairsInv /\ AgreementInv => RepairIsComplete
  <2> SUFFICES ASSUME RepairsInv, AgreementInv, NEW p \in Repairers,
                      pc[p] = "exited", ret[p] = 0, consent[p] # {}
               PROVE  Complete(p, applied[p])
    BY DEF RepairIsComplete, Complete
  <2>1. p \in Programs /\ p \notin Installers
    BY ProgramsAssumption DEF Programs
  <2>2. applied[p] = consent[p]
    BY <2>1 DEF AgreementInv, Agreed, DownloadsOnly
  <2> QED BY <2>2 DEF RepairsInv, Repairs
<1>2. Known => AgreementInv
  BY DEF Known
<1> QED BY <1>1, <1>2, PlanInvariant, PTL

\* What one step of a repair does to one entry.
LEMMA StepImproves ==
    ASSUME Known, LockInv, NEW p \in Repairers, Repairs(p), Repair(p),
           NEW n \in Names, localdb'[n] # localdb[n]
    PROVE  Improves(localdb[n], localdb'[n])
<1>1. FixEntry(p) \/ (RepairCommit(p) /\ CommitChange(p))
  BY DEF Repair, PacRepairDbStep, RepairStart, RepairLookup, MatchCache, RepairConfirm, RepairInit,
         RepairAdd, RepairPrepare, RepairCommit, CommitEnds, RepairRelease, EndTrans
<1>2. localdb \in Dbs /\ plan[p] \in SUBSET Change /\ \A c \in plan[p] : c.op = "add"
  BY DEF Known, TransTypes, DbTyped, Plans, Repairs, Programs
<1>3. PICK c \in plan[p], d \in {"empty", "ok"} :
         /\ HasEntry(localdb, c)
         /\ localdb' = [localdb EXCEPT ![c.name] = [ver |-> c.ver, desc |-> d]]
         /\ d = "empty" => Missing(localdb[c.name])
  <2>1. CASE FixEntry(p)
    BY <2>1 DEF FixEntry
  <2>2. CASE RepairCommit(p) /\ CommitChange(p)
    <3>1. PICK c \in plan[p] : localdb' = Apply(localdb, c)
      BY <2>2 DEF CommitChange
    <3>2. HasEntry(localdb, c)
      BY <2>2 DEF CommitChange, Repairs
    <3> QED BY <1>2, <3>1, <3>2 DEF Apply
  <2> QED BY <1>1, <2>1, <2>2
<1>4. n = c.name /\ localdb'[n] = [ver |-> c.ver, desc |-> d] /\ localdb[n] \in Entry
  BY <1>2, <1>3 DEF HasEntry, Dbs
<1>5. localdb'[n] \in Entry /\ localdb'[n].ver = c.ver /\ localdb'[n].desc = d
  BY <1>2, <1>4 DEF Entry, Change
<1>6. localdb[n] # None /\ localdb'[n] # None /\ localdb'[n].ver = localdb[n].ver
  BY <1>3, <1>4, <1>5, LocalDbsAssumption DEF HasEntry
<1>7. Rank[d] > Rank[localdb[n].desc]
  <2>1. localdb[n].desc \in {"ok", "missing", "empty"} /\ localdb[n].desc # d
    BY <1>4, <1>6 DEF Entry
  <2>2. d = "empty" => localdb[n].desc = "missing"
    BY <1>3, <1>4, <1>6 DEF Missing
  <2> QED BY <2>1, <2>2 DEF Rank
<1> QED BY <1>5, <1>6, <1>7 DEF Improves

\* A repair never worsens an entry, whoever changed the database between its
\* lookup and the lock, and whether or not it comes to its end.
THEOREM RepairsImprove == Spec => RepairOnlyImproves
<1>1. Known /\ LockInv /\ RepairsInv /\ [Next]_vars =>
        [\A n \in Names : holder \in Repairers /\ localdb'[n] # localdb[n] =>
           Improves(localdb[n], localdb'[n])]_vars
  <2> SUFFICES ASSUME Known, LockInv, RepairsInv, [Next]_vars, NEW n \in Names,
                      holder \in Repairers, localdb'[n] # localdb[n]
               PROVE  Improves(localdb[n], localdb'[n])
    OBVIOUS
  <2>1. ~UNCHANGED vars
    BY DEF vars, sharedVars
  <2>2. ASSUME NEW p \in Installers, Install(p) PROVE FALSE
    <3>1. holder = p
      BY <2>2, HolderChanges DEF Programs
    <3> QED BY <3>1, ProgramsAssumption
  <2>3. ASSUME NEW p \in Repairers, Repair(p) PROVE Improves(localdb[n], localdb'[n])
    BY <2>3, StepImproves DEF RepairsInv
  <2>4. ASSUME NEW p \in Programs, Kill(p) PROVE FALSE
    BY <2>4, KillOnly
  <2> QED BY <2>1, <2>2, <2>3, <2>4 DEF Next, Finished
<1> QED BY <1>1, PlanInvariant, PTL DEF Spec, RepairOnlyImproves
=============================================================================
