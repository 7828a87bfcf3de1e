--------------------------- MODULE PacLockProofs ---------------------------
(***************************************************************************)
(* Theorems about PacLock for any number of sessions, files and calls, and *)
(* any command lines.  Where keys decide who owns a lock the sessions' keys *)
(* have to differ, which is what paclock.pod asks scripts to see to.       *)
(***************************************************************************)
EXTENDS PacLock, TLAPS

\* No two sessions use the same --key.
KeysDistinct == \A r, s \in Sessions : Key[r] = Key[s] => r = s

-----------------------------------------------------------------------------
(***************************************************************************)
(* The inductive invariant.                                                *)
(***************************************************************************)

\* A thread that runs has a command line, and the call it is at belongs to the
\* action of that command line.
ActionInv ==
    \A s \in Sessions :
        /\ pc[main(s)] # "idle" \/ pc[child(s)] # "absent" => opt[s] # None
        /\ pc[main(s)] \in {"open", "write", "undo"}
              => opt[s].action \in {"lock", "run"}
        /\ pc[main(s)] \in {"fork", "wait"} => opt[s].action = "run"
        /\ pc[main(s)] \in {"init", "trans"} => opt[s].action = "trans"
        /\ pc[main(s)] \in RemovePC => opt[s].action \in {"unlock", "run"}

\* Only one process of a session works on the lock file at a time: the parent
\* waits while its child lives, unless it was killed.
OneWorker ==
    \A s \in Sessions :
        /\ pc[child(s)] # "absent" => pc[main(s)] \in {"idle", "wait"}
        /\ pc[child(s)] # "absent" => status[s] \in {"none", "killed"}
        /\ pc[main(s)] # "idle" => status[s] = "none"

\* An unchecked unlink is the work of a session that may do so.
ForceInv == \A t \in Threads : pc[t] = "force" => t[1] \in Reckless

\* A key in a file is that of its creator, and an open file that is being
\* written was created by the writer.
FileInv ==
    /\ link # None => creator[link] \in Sessions
    /\ \A i \in Inodes : content[i] # Empty =>
           creator[i] \in Sessions /\ content[i] = Key[creator[i]]
    /\ \A s \in Sessions : pc[main(s)] \in {"write", "undo", "trans"} =>
           creator[fh[main(s)]] = s

\* While nothing was stolen, the file a session works with is the one at the
\* path.
HeldInv ==
    ~stolen =>
        /\ \A s \in Sessions : InUse(s) => Owns(s)
        /\ \A s \in Sessions : pc[main(s)] \in {"write", "undo", "trans"} =>
               link = fh[main(s)]
        /\ \A t \in Threads : pc[t] = "read" /\ creator[fh[t]] = t[1] =>
               link = fh[t]
        /\ \A t \in Threads : pc[t] = "unlink" =>
               Owns(t[1]) /\ content[link] = Key[t[1]]

\* While nothing was stolen, a command that exited non-zero left the lock.
FailInv ==
    ~stolen => \A s \in Sessions :
        cmd[s] = "nonzero" /\ ~opt[s].fail_ok /\ ~opt[s].sigign =>
            /\ Owns(s)
            /\ pc[main(s)] \in {"idle", "wait"}
            /\ pc[child(s)] \in {"zombie", "absent"}

\* What only sessions with keys of their own can rely on.
KeyedInv == HeldInv /\ FailInv /\ StatusTellsTruth

IInv ==
    /\ TypeOK /\ ActionInv /\ OneWorker /\ ForceInv /\ FileInv
    /\ KeysDistinct => KeyedInv
-----------------------------------------------------------------------------
USE KeyAssumption, OptionsAssumption, NoneAssumption, MaxCallsAssumption

LEMMA ThreadFacts ==
    /\ \A s \in Sessions : main(s) \in Threads /\ child(s) \in Threads
    /\ \A r, s \in Sessions : main(r) # child(s)
    /\ \A r, s \in Sessions : (main(r) = main(s) <=> r = s) /\ (child(r) = child(s) <=> r = s)
    /\ \A s \in Sessions : main(s)[1] = s /\ main(s)[2] = "main" /\ child(s)[1] = s /\ child(s)[2] = "child"
    /\ \A t \in Threads : t[1] \in Sessions /\ t[2] \in {"main", "child"} /\ (t = main(t[1]) \/ t = child(t[1]))
BY DEF Threads, main, child

LEMMA Labels ==
    /\ {"idle", "open", "write", "undo", "fork", "wait", "init", "trans"} = MainPC
    /\ {"absent", "exec", "running", "zombie"} = ChildPC
    /\ {"fopen", "read", "unlink", "force"} = RemovePC
    /\ MainPC \subseteq PCs /\ ChildPC \subseteq PCs /\ RemovePC \subseteq PCs
BY DEF MainPC, ChildPC, RemovePC, PCs

LEMMA EntryLabels ==
    \A o : /\ RemoveEntry(o) \in {"force", "fopen"}
          /\ EntryPC(o) \in {"open", "force", "fopen", "init", "idle"}
BY DEF EntryPC, RemoveEntry

\* A session one of whose command lines skips the key check is reckless.
LEMMA RecklessSessions ==
    ASSUME NEW s \in Sessions, NEW o \in Options[s], o.nocheck \/ o.enoent_ok
    PROVE  s \in Reckless
BY DEF Reckless

\* A thread moves to a label of its own and opens or closes its file.
LEMMA ThreadMoves ==
    ASSUME ThreadTypeOK, fh \in [Threads -> Inodes \cup {None}], NEW t \in Threads, NEW l, NEW f,
           l \in (IF t[2] = "main" THEN MainPC ELSE ChildPC) \cup RemovePC,
           f # None <=> l \in {"write", "undo", "read", "trans"},
           pc' = [pc EXCEPT ![t] = l], fh' = [fh EXCEPT ![t] = f]
    PROVE  ThreadTypeOK'
<1>1. l \in PCs
  BY Labels
<1>2. \A u \in Threads : /\ pc'[u] = (IF u = t THEN l ELSE pc[u])
                         /\ fh'[u] = (IF u = t THEN f ELSE fh[u])
  BY DEF ThreadTypeOK
<1>3. pc' \in [Threads -> PCs]
  BY <1>1 DEF ThreadTypeOK
<1>4. \A s \in Sessions : /\ pc'[main(s)] \in MainPC \cup RemovePC
                          /\ pc'[child(s)] \in ChildPC \cup RemovePC
  BY <1>2, ThreadFacts DEF ThreadTypeOK
<1>5. \A u \in Threads : fh'[u] # None <=> pc'[u] \in {"write", "undo", "read", "trans"}
  BY <1>2 DEF ThreadTypeOK
<1> QED BY <1>3, <1>4, <1>5 DEF ThreadTypeOK

\* The path is unlinked, or not; a file may be closed.
LEMMA UnlinkTypes ==
    ASSUME FileTypeOK, NEW s, UnlinkPath(s) \/ UNCHANGED files,
           fh' = fh \/ \E t \in Threads : fh' = [fh EXCEPT ![t] = None]
    PROVE  FileTypeOK'
<1>1. fh' \in [Threads -> Inodes \cup {None}]
  BY DEF FileTypeOK
<1>2. /\ link' \in Inodes \cup {None} /\ stolen' \in BOOLEAN
      /\ content' = content /\ creator' = creator
  BY DEF FileTypeOK, UnlinkPath, files
<1> QED BY <1>1, <1>2 DEF FileTypeOK

LEMMA InitInv == Init => IInv
<1> SUFFICES ASSUME Init PROVE IInv
  OBVIOUS
<1> USE ThreadFacts DEF Init
<1>1. FileTypeOK
  BY DEF FileTypeOK
<1>2. ThreadTypeOK
  BY DEF ThreadTypeOK, MainPC, ChildPC, PCs
<1>3. SessionTypeOK
  BY DEF SessionTypeOK, Fates, Statuses
<1>4. ActionInv /\ OneWorker /\ ForceInv
  BY DEF ActionInv, OneWorker, ForceInv, RemovePC
<1>5. FileInv /\ HeldInv /\ FailInv /\ StatusTellsTruth
  BY DEF FileInv, HeldInv, FailInv, StatusTellsTruth, InUse
<1> QED BY <1>1, <1>2, <1>3, <1>4, <1>5 DEF IInv, KeyedInv, TypeOK

LEMMA StartInv == ASSUME IInv, NEW s \in Sessions, Start(s) PROVE IInv'
<1> USE ThreadFacts DEF IInv, KeyedInv, TypeOK, Start, Goto, Exit, files
<1>1. FileTypeOK'
  BY DEF FileTypeOK
<1>2. ThreadTypeOK'
  <2>1. PICK o \in Options[s] : \/ Goto(main(s), EntryPC(o))
                              \/ Goto(main(s), "idle")
    OBVIOUS
  <2>2. PICK l \in {"open", "force", "fopen", "init", "idle"} :
           pc' = [pc EXCEPT ![main(s)] = l]
    BY <2>1, EntryLabels
  <2>3. l \in PCs /\ l \in MainPC \cup RemovePC
    BY Labels
  <2> QED BY <2>2, <2>3 DEF ThreadTypeOK, FileTypeOK
<1>3. SessionTypeOK'
  BY DEF SessionTypeOK, Fates, Statuses
<1>4. ActionInv'
  BY DEF ActionInv, ThreadTypeOK, SessionTypeOK, RemovePC, EntryPC, RemoveEntry
<1>5. OneWorker'
  <2>1. PICK o \in Options[s] :
           \/ /\ Goto(main(s), EntryPC(o))
              /\ status' = [status EXCEPT ![s] =
                               IF o.action = "print" THEN "ok" ELSE "none"]
           \/ Exit(s, "fail")
    OBVIOUS
  <2>2. o.action = "print" => EntryPC(o) = "idle"
    BY DEF EntryPC
  <2> QED BY <2>1, <2>2 DEF OneWorker, ThreadTypeOK, SessionTypeOK
<1>6. ForceInv'
  BY RecklessSessions DEF ForceInv, ThreadTypeOK, EntryPC, RemoveEntry
<1>7. FileInv'
  BY EntryLabels DEF FileInv, FileTypeOK, ThreadTypeOK
<1>8. KeysDistinct => HeldInv'
  BY EntryLabels DEF HeldInv, FileInv, FileTypeOK, ThreadTypeOK, InUse, Owns, OneWorker
<1>9. KeysDistinct => FailInv'
  BY DEF FailInv, FileTypeOK, ThreadTypeOK, SessionTypeOK, Owns, HeldInv, InUse
<1>10. KeysDistinct => StatusTellsTruth'
  BY DEF StatusTellsTruth, FileTypeOK, ThreadTypeOK, SessionTypeOK, Owns, Idle, HeldInv, ActionInv, OneWorker, InUse
<1> QED BY <1>1, <1>2, <1>3, <1>4, <1>5, <1>6, <1>7, <1>8, <1>9, <1>10

LEMMA OpenLockInv == ASSUME IInv, NEW s \in Sessions, OpenLock(s) PROVE IInv'
<1> USE ThreadFacts DEF IInv, KeyedInv, TypeOK, OpenLock, Goto, Create, Alive, PathFree
<1>1. FileTypeOK'
  BY DEF FileTypeOK
<1>2. ThreadTypeOK'
  BY Labels DEF ThreadTypeOK, FileTypeOK
<1>3. SessionTypeOK'
  BY DEF SessionTypeOK, Fates, Statuses
<1>4. ActionInv'
  BY DEF ActionInv, ThreadTypeOK, SessionTypeOK, RemovePC
<1>5. OneWorker'
  BY DEF OneWorker, ThreadTypeOK, SessionTypeOK
<1>6. ForceInv'
  BY DEF ForceInv, ThreadTypeOK, SessionTypeOK, Reckless
<1>7. FileInv'
  BY DEF FileInv, FileTypeOK, ThreadTypeOK
<1>8. KeysDistinct => HeldInv'
  BY DEF HeldInv, FileInv, FileTypeOK, ThreadTypeOK, InUse, Owns, OneWorker
<1>9. KeysDistinct => FailInv'
  BY DEF FailInv, FileTypeOK, ThreadTypeOK, SessionTypeOK, Owns, HeldInv, InUse
<1>10. KeysDistinct => StatusTellsTruth'
  BY DEF StatusTellsTruth, FileTypeOK, ThreadTypeOK, SessionTypeOK, Owns, Idle, HeldInv, ActionInv, OneWorker, InUse
<1> QED BY <1>1, <1>2, <1>3, <1>4, <1>5, <1>6, <1>7, <1>8, <1>9, <1>10

LEMMA OpenLockFailsInv == ASSUME IInv, NEW s \in Sessions, OpenLockFails(s) PROVE IInv'
<1> USE ThreadFacts DEF IInv, KeyedInv, TypeOK, OpenLockFails, Goto, Exit, files
<1>1. FileTypeOK'
  BY DEF FileTypeOK
<1>2. ThreadTypeOK'
  BY Labels DEF ThreadTypeOK, FileTypeOK
<1>3. SessionTypeOK'
  BY DEF SessionTypeOK, Fates, Statuses
<1>4. ActionInv'
  BY DEF ActionInv, ThreadTypeOK, SessionTypeOK, RemovePC
<1>5. OneWorker'
  BY DEF OneWorker, ThreadTypeOK, SessionTypeOK
<1>6. ForceInv'
  BY DEF ForceInv, ThreadTypeOK, SessionTypeOK, Reckless
<1>7. FileInv'
  BY DEF FileInv, FileTypeOK, ThreadTypeOK
<1>8. KeysDistinct => HeldInv'
  BY DEF HeldInv, FileInv, FileTypeOK, ThreadTypeOK, InUse, Owns, OneWorker
<1>9. KeysDistinct => FailInv'
  BY DEF FailInv, FileTypeOK, ThreadTypeOK, SessionTypeOK, Owns, HeldInv, InUse
<1>10. KeysDistinct => StatusTellsTruth'
  BY DEF StatusTellsTruth, FileTypeOK, ThreadTypeOK, SessionTypeOK, Owns, Idle, HeldInv, ActionInv, OneWorker, InUse
<1> QED BY <1>1, <1>2, <1>3, <1>4, <1>5, <1>6, <1>7, <1>8, <1>9, <1>10

LEMMA WriteKeyInv == ASSUME IInv, NEW s \in Sessions, WriteKey(s) PROVE IInv'
<1> USE ThreadFacts DEF IInv, KeyedInv, TypeOK, WriteKey, Goto, Exit
<1>1. FileTypeOK'
  BY DEF FileTypeOK
<1>2. ThreadTypeOK'
  BY Labels DEF ThreadTypeOK, FileTypeOK
<1>3. SessionTypeOK'
  BY DEF SessionTypeOK, Fates, Statuses
<1>4. ActionInv'
  BY DEF ActionInv, ThreadTypeOK, SessionTypeOK, RemovePC
<1>5. OneWorker'
  BY DEF OneWorker, ThreadTypeOK, SessionTypeOK
<1>6. ForceInv'
  BY DEF ForceInv, ThreadTypeOK, SessionTypeOK, Reckless
<1>7. FileInv'
  BY DEF FileInv, FileTypeOK, ThreadTypeOK
<1>8. KeysDistinct => HeldInv'
  BY DEF HeldInv, FileInv, FileTypeOK, ThreadTypeOK, InUse, Owns, OneWorker
<1>9. KeysDistinct => FailInv'
  BY DEF FailInv, FileTypeOK, ThreadTypeOK, SessionTypeOK, Owns, HeldInv, InUse
<1>10. KeysDistinct => StatusTellsTruth'
  BY DEF StatusTellsTruth, FileTypeOK, ThreadTypeOK, SessionTypeOK, Owns, Idle, HeldInv, ActionInv, OneWorker, InUse
<1> QED BY <1>1, <1>2, <1>3, <1>4, <1>5, <1>6, <1>7, <1>8, <1>9, <1>10

LEMMA WriteKeyFailsInv == ASSUME IInv, NEW s \in Sessions, WriteKeyFails(s) PROVE IInv'
<1> USE ThreadFacts DEF IInv, KeyedInv, TypeOK, WriteKeyFails, Goto, files
<1>1. FileTypeOK'
  BY DEF FileTypeOK
<1>2. ThreadTypeOK'
  BY Labels DEF ThreadTypeOK, FileTypeOK
<1>3. SessionTypeOK'
  BY DEF SessionTypeOK, Fates, Statuses
<1>4. ActionInv'
  BY DEF ActionInv, ThreadTypeOK, SessionTypeOK, RemovePC
<1>5. OneWorker'
  BY DEF OneWorker, ThreadTypeOK, SessionTypeOK
<1>6. ForceInv'
  BY DEF ForceInv, ThreadTypeOK, SessionTypeOK, Reckless
<1>7. FileInv'
  BY DEF FileInv, FileTypeOK, ThreadTypeOK
<1>8. KeysDistinct => HeldInv'
  BY DEF HeldInv, FileInv, FileTypeOK, ThreadTypeOK, InUse, Owns, OneWorker
<1>9. KeysDistinct => FailInv'
  BY DEF FailInv, FileTypeOK, ThreadTypeOK, SessionTypeOK, Owns, HeldInv, InUse
<1>10. KeysDistinct => StatusTellsTruth'
  BY DEF StatusTellsTruth, FileTypeOK, ThreadTypeOK, SessionTypeOK, Owns, Idle, HeldInv, ActionInv, OneWorker, InUse
<1> QED BY <1>1, <1>2, <1>3, <1>4, <1>5, <1>6, <1>7, <1>8, <1>9, <1>10

LEMMA UndoLockFiles == ASSUME IInv, NEW s \in Sessions, UndoLock(s) PROVE FileTypeOK'
<1>1. FileTypeOK /\ (UnlinkPath(s) \/ UNCHANGED files) /\ fh' = [fh EXCEPT ![main(s)] = None]
  BY DEF IInv, TypeOK, UndoLock
<1> QED BY <1>1, UnlinkTypes, ThreadFacts

LEMMA UndoLockInv == ASSUME IInv, NEW s \in Sessions, UndoLock(s) PROVE IInv'
<1> USE ThreadFacts DEF IInv, KeyedInv, TypeOK, UndoLock, Goto, Exit, files, UnlinkPath
<1>1. FileTypeOK'
  BY UndoLockFiles
<1>2. ThreadTypeOK'
  BY Labels DEF ThreadTypeOK, FileTypeOK
<1>3. SessionTypeOK'
  BY DEF SessionTypeOK, Fates, Statuses
<1>4. ActionInv'
  BY DEF ActionInv, ThreadTypeOK, SessionTypeOK, RemovePC
<1>5. OneWorker'
  BY DEF OneWorker, ThreadTypeOK, SessionTypeOK
<1>6. ForceInv'
  BY DEF ForceInv, ThreadTypeOK, SessionTypeOK, Reckless
<1>7. FileInv'
  BY DEF FileInv, FileTypeOK, ThreadTypeOK
<1>8. KeysDistinct => HeldInv'
  BY DEF HeldInv, FileInv, FileTypeOK, ThreadTypeOK, InUse, Owns, OneWorker
<1>9. KeysDistinct => FailInv'
  BY DEF FailInv, FileTypeOK, ThreadTypeOK, SessionTypeOK, Owns, HeldInv, InUse
<1>10. KeysDistinct => StatusTellsTruth'
  BY DEF StatusTellsTruth, FileTypeOK, ThreadTypeOK, SessionTypeOK, Owns, Idle, HeldInv, ActionInv, OneWorker, InUse
<1> QED BY <1>1, <1>2, <1>3, <1>4, <1>5, <1>6, <1>7, <1>8, <1>9, <1>10

LEMMA ForkInv == ASSUME IInv, NEW s \in Sessions, Fork(s) PROVE IInv'
<1> USE ThreadFacts DEF IInv, KeyedInv, TypeOK, Fork, Goto, files
<1>1. FileTypeOK'
  BY DEF FileTypeOK
<1>2. ThreadTypeOK'
  <2>1. pc' \in [Threads -> PCs]
    BY Labels DEF ThreadTypeOK
  <2>2. "wait" \in MainPC /\ "exec" \in ChildPC
    BY Labels
  <2>3. pc'[main(s)] = "wait" /\ pc'[child(s)] = "exec"
        /\ \A u \in Threads \ {main(s), child(s)} : pc'[u] = pc[u]
    BY DEF ThreadTypeOK
  <2>4. \A r \in Sessions : /\ pc'[main(r)] \in MainPC \cup RemovePC
                           /\ pc'[child(r)] \in ChildPC \cup RemovePC
    BY <2>2, <2>3 DEF ThreadTypeOK
  <2>5. pc[child(s)] = "absent"
    BY DEF OneWorker
  <2>6. \A u \in Threads :
          fh'[u] # None <=> pc'[u] \in {"write", "undo", "read", "trans"}
    BY <2>3, <2>5 DEF ThreadTypeOK
  <2> QED BY <2>1, <2>4, <2>6 DEF ThreadTypeOK
<1>3. SessionTypeOK'
  BY DEF SessionTypeOK, Fates, Statuses
<1>4. ActionInv'
  BY DEF ActionInv, ThreadTypeOK, SessionTypeOK, RemovePC
<1>5. OneWorker'
  BY DEF OneWorker, ThreadTypeOK, SessionTypeOK
<1>6. ForceInv'
  BY DEF ForceInv, ThreadTypeOK, SessionTypeOK, Reckless
<1>7. FileInv'
  BY DEF FileInv, FileTypeOK, ThreadTypeOK
<1>8. KeysDistinct => HeldInv'
  BY DEF HeldInv, FileInv, FileTypeOK, ThreadTypeOK, InUse, Owns, OneWorker
<1>9. KeysDistinct => FailInv'
  BY DEF FailInv, FileTypeOK, ThreadTypeOK, SessionTypeOK, Owns, HeldInv, InUse
<1>10. KeysDistinct => StatusTellsTruth'
  BY DEF StatusTellsTruth, FileTypeOK, ThreadTypeOK, SessionTypeOK, Owns, Idle, HeldInv, ActionInv, OneWorker, InUse
<1> QED BY <1>1, <1>2, <1>3, <1>4, <1>5, <1>6, <1>7, <1>8, <1>9, <1>10

LEMMA ForkFailsInv == ASSUME IInv, NEW s \in Sessions, ForkFails(s) PROVE IInv'
<1> USE ThreadFacts DEF IInv, KeyedInv, TypeOK, ForkFails, Goto, RemoveEntry, files
<1>1. FileTypeOK'
  BY DEF FileTypeOK
<1>2. ThreadTypeOK'
  BY Labels DEF ThreadTypeOK, FileTypeOK
<1>3. SessionTypeOK'
  BY DEF SessionTypeOK, Fates, Statuses
<1>4. ActionInv'
  BY DEF ActionInv, ThreadTypeOK, SessionTypeOK, RemovePC
<1>5. OneWorker'
  BY DEF OneWorker, ThreadTypeOK, SessionTypeOK
<1>6. ForceInv'
  <2>1. pc'[main(s)] = "force" \/ pc'[child(s)] = "force" => opt[s].nocheck
    BY DEF RemoveEntry, ThreadTypeOK, ForceInv, OneWorker
  <2> QED BY <2>1, RecklessSessions DEF ForceInv, ThreadTypeOK, SessionTypeOK, ActionInv
<1>7. FileInv'
  BY DEF FileInv, FileTypeOK, ThreadTypeOK
<1>8. KeysDistinct => HeldInv'
  BY DEF HeldInv, FileInv, FileTypeOK, ThreadTypeOK, InUse, Owns, OneWorker
<1>9. KeysDistinct => FailInv'
  BY DEF FailInv, FileTypeOK, ThreadTypeOK, SessionTypeOK, Owns, HeldInv, InUse
<1>10. KeysDistinct => StatusTellsTruth'
  BY DEF StatusTellsTruth, FileTypeOK, ThreadTypeOK, SessionTypeOK, Owns, Idle, HeldInv, ActionInv, OneWorker, InUse
<1> QED BY <1>1, <1>2, <1>3, <1>4, <1>5, <1>6, <1>7, <1>8, <1>9, <1>10

LEMMA WaitInv == ASSUME IInv, NEW s \in Sessions, Wait(s) PROVE IInv'
<1> USE ThreadFacts DEF IInv, KeyedInv, TypeOK, Wait, WaitOver, Goto, ExitStatusZero, LeavesLock, RemoveEntry, files
<1>1. FileTypeOK'
  BY DEF FileTypeOK
<1>2. ThreadTypeOK'
  BY Labels DEF ThreadTypeOK, FileTypeOK
<1>3. SessionTypeOK'
  BY DEF SessionTypeOK, Fates, Statuses
<1>4. ActionInv'
  BY DEF ActionInv, ThreadTypeOK, SessionTypeOK, RemovePC
<1>5. OneWorker'
  BY DEF OneWorker, ThreadTypeOK, SessionTypeOK
<1>6. ForceInv'
  <2>1. pc'[main(s)] = "force" \/ pc'[child(s)] = "force" => opt[s].nocheck
    BY DEF RemoveEntry, ThreadTypeOK, ForceInv, OneWorker
  <2> QED BY <2>1, RecklessSessions DEF ForceInv, ThreadTypeOK, SessionTypeOK, ActionInv
<1>7. FileInv'
  BY DEF FileInv, FileTypeOK, ThreadTypeOK
<1>8. KeysDistinct => HeldInv'
  BY DEF HeldInv, FileInv, FileTypeOK, ThreadTypeOK, InUse, Owns, OneWorker
<1>9. KeysDistinct => FailInv'
  BY DEF FailInv, FileTypeOK, ThreadTypeOK, SessionTypeOK, Owns, HeldInv, InUse
<1>10. KeysDistinct => StatusTellsTruth'
  BY DEF StatusTellsTruth, FileTypeOK, ThreadTypeOK, SessionTypeOK, Owns, Idle, HeldInv, ActionInv, OneWorker, InUse
<1> QED BY <1>1, <1>2, <1>3, <1>4, <1>5, <1>6, <1>7, <1>8, <1>9, <1>10

LEMMA TransInitInv == ASSUME IInv, NEW s \in Sessions, TransInit(s) PROVE IInv'
<1> USE ThreadFacts DEF IInv, KeyedInv, TypeOK, TransInit, Goto, Create, Alive, PathFree, Exit, files
<1>1. FileTypeOK'
  BY DEF FileTypeOK
<1>2. ThreadTypeOK'
  BY Labels DEF ThreadTypeOK, FileTypeOK
<1>3. SessionTypeOK'
  BY DEF SessionTypeOK, Fates, Statuses
<1>4. ActionInv'
  BY DEF ActionInv, ThreadTypeOK, SessionTypeOK, RemovePC
<1>5. OneWorker'
  BY DEF OneWorker, ThreadTypeOK, SessionTypeOK
<1>6. ForceInv'
  BY DEF ForceInv, ThreadTypeOK, SessionTypeOK, Reckless
<1>7. FileInv'
  BY DEF FileInv, FileTypeOK, ThreadTypeOK
<1>8. KeysDistinct => HeldInv'
  BY DEF HeldInv, FileInv, FileTypeOK, ThreadTypeOK, InUse, Owns, OneWorker
<1>9. KeysDistinct => FailInv'
  BY DEF FailInv, FileTypeOK, ThreadTypeOK, SessionTypeOK, Owns, HeldInv, InUse
<1>10. KeysDistinct => StatusTellsTruth'
  BY DEF StatusTellsTruth, FileTypeOK, ThreadTypeOK, SessionTypeOK, Owns, Idle, HeldInv, ActionInv, OneWorker, InUse
<1> QED BY <1>1, <1>2, <1>3, <1>4, <1>5, <1>6, <1>7, <1>8, <1>9, <1>10

LEMMA TransReleaseFiles == ASSUME IInv, NEW s \in Sessions, TransRelease(s) PROVE FileTypeOK'
<1>1. FileTypeOK /\ (UnlinkPath(s) \/ UNCHANGED files) /\ fh' = [fh EXCEPT ![main(s)] = None]
  BY DEF IInv, TypeOK, TransRelease
<1> QED BY <1>1, UnlinkTypes, ThreadFacts

LEMMA TransReleaseInv == ASSUME IInv, NEW s \in Sessions, TransRelease(s) PROVE IInv'
<1> USE ThreadFacts DEF IInv, KeyedInv, TypeOK, TransRelease, Goto, UnlinkPath, Exit, files
<1>1. FileTypeOK'
  BY TransReleaseFiles
<1>2. ThreadTypeOK'
  BY Labels DEF ThreadTypeOK, FileTypeOK
<1>3. SessionTypeOK'
  BY DEF SessionTypeOK, Fates, Statuses
<1>4. ActionInv'
  BY DEF ActionInv, ThreadTypeOK, SessionTypeOK, RemovePC
<1>5. OneWorker'
  BY DEF OneWorker, ThreadTypeOK, SessionTypeOK
<1>6. ForceInv'
  BY DEF ForceInv, ThreadTypeOK, SessionTypeOK, Reckless
<1>7. FileInv'
  BY DEF FileInv, FileTypeOK, ThreadTypeOK
<1>8. KeysDistinct => HeldInv'
  BY DEF HeldInv, FileInv, FileTypeOK, ThreadTypeOK, InUse, Owns, OneWorker
<1>9. KeysDistinct => FailInv'
  BY DEF FailInv, FileTypeOK, ThreadTypeOK, SessionTypeOK, Owns, HeldInv, InUse
<1>10. KeysDistinct => StatusTellsTruth'
  BY DEF StatusTellsTruth, FileTypeOK, ThreadTypeOK, SessionTypeOK, Owns, Idle, HeldInv, ActionInv, OneWorker, InUse
<1> QED BY <1>1, <1>2, <1>3, <1>4, <1>5, <1>6, <1>7, <1>8, <1>9, <1>10

LEMMA ExecInv == ASSUME IInv, NEW s \in Sessions, Exec(s) PROVE IInv'
<1> USE ThreadFacts DEF IInv, KeyedInv, TypeOK, Exec, Goto, RemoveEntry, files
<1>1. FileTypeOK'
  BY DEF FileTypeOK
<1>2. ThreadTypeOK'
  BY Labels DEF ThreadTypeOK, FileTypeOK
<1>3. SessionTypeOK'
  BY DEF SessionTypeOK, Fates, Statuses
<1>4. ActionInv'
  BY DEF ActionInv, ThreadTypeOK, SessionTypeOK, RemovePC
<1>5. OneWorker'
  BY DEF OneWorker, ThreadTypeOK, SessionTypeOK
<1>6. ForceInv'
  <2>1. pc'[main(s)] = "force" \/ pc'[child(s)] = "force" => opt[s].nocheck
    BY DEF RemoveEntry, ThreadTypeOK, ForceInv, OneWorker
  <2> QED BY <2>1, RecklessSessions DEF ForceInv, ThreadTypeOK, SessionTypeOK, ActionInv
<1>7. FileInv'
  BY DEF FileInv, FileTypeOK, ThreadTypeOK
<1>8. KeysDistinct => HeldInv'
  BY DEF HeldInv, FileInv, FileTypeOK, ThreadTypeOK, InUse, Owns, OneWorker
<1>9. KeysDistinct => FailInv'
  BY SMTT(20) DEF FailInv, FileTypeOK, ThreadTypeOK, SessionTypeOK, Owns, HeldInv, InUse
<1>10. KeysDistinct => StatusTellsTruth'
  BY DEF StatusTellsTruth, FileTypeOK, ThreadTypeOK, SessionTypeOK, Owns, Idle, HeldInv, ActionInv, OneWorker, InUse
<1> QED BY <1>1, <1>2, <1>3, <1>4, <1>5, <1>6, <1>7, <1>8, <1>9, <1>10

LEMMA CommandEndsInv == ASSUME IInv, NEW s \in Sessions, CommandEnds(s) PROVE IInv'
<1> USE ThreadFacts DEF IInv, KeyedInv, TypeOK, CommandEnds, Goto, files
<1>1. FileTypeOK'
  BY DEF FileTypeOK
<1>2. ThreadTypeOK'
  BY Labels DEF ThreadTypeOK, FileTypeOK
<1>3. SessionTypeOK'
  BY DEF SessionTypeOK, Fates, Statuses
<1>4. ActionInv'
  BY DEF ActionInv, ThreadTypeOK, SessionTypeOK, RemovePC
<1>5. OneWorker'
  BY DEF OneWorker, ThreadTypeOK, SessionTypeOK
<1>6. ForceInv'
  BY DEF ForceInv, ThreadTypeOK, SessionTypeOK, Reckless
<1>7. FileInv'
  BY DEF FileInv, FileTypeOK, ThreadTypeOK
<1>8. KeysDistinct => HeldInv'
  BY DEF HeldInv, FileInv, FileTypeOK, ThreadTypeOK, InUse, Owns, OneWorker
<1>9. KeysDistinct => FailInv'
  BY DEF FailInv, FileTypeOK, ThreadTypeOK, SessionTypeOK, Owns, HeldInv, InUse, OneWorker
<1>10. KeysDistinct => StatusTellsTruth'
  BY DEF StatusTellsTruth, FileTypeOK, ThreadTypeOK, SessionTypeOK, Owns, Idle, HeldInv, ActionInv, OneWorker, InUse
<1> QED BY <1>1, <1>2, <1>3, <1>4, <1>5, <1>6, <1>7, <1>8, <1>9, <1>10

LEMMA ReapInv == ASSUME IInv, NEW s \in Sessions, Reap(s) PROVE IInv'
<1> USE ThreadFacts DEF IInv, KeyedInv, TypeOK, Reap, Goto, files
<1>1. FileTypeOK'
  BY DEF FileTypeOK
<1>2. ThreadTypeOK'
  BY Labels DEF ThreadTypeOK, FileTypeOK
<1>3. SessionTypeOK'
  BY DEF SessionTypeOK, Fates, Statuses
<1>4. ActionInv'
  BY DEF ActionInv, ThreadTypeOK, SessionTypeOK, RemovePC
<1>5. OneWorker'
  BY DEF OneWorker, ThreadTypeOK, SessionTypeOK
<1>6. ForceInv'
  BY DEF ForceInv, ThreadTypeOK, SessionTypeOK, Reckless
<1>7. FileInv'
  BY DEF FileInv, FileTypeOK, ThreadTypeOK
<1>8. KeysDistinct => HeldInv'
  BY DEF HeldInv, FileInv, FileTypeOK, ThreadTypeOK, InUse, Owns, OneWorker
<1>9. KeysDistinct => FailInv'
  BY DEF FailInv, FileTypeOK, ThreadTypeOK, SessionTypeOK, Owns, HeldInv, InUse
<1>10. KeysDistinct => StatusTellsTruth'
  BY DEF StatusTellsTruth, FileTypeOK, ThreadTypeOK, SessionTypeOK, Owns, Idle, HeldInv, ActionInv, OneWorker, InUse
<1> QED BY <1>1, <1>2, <1>3, <1>4, <1>5, <1>6, <1>7, <1>8, <1>9, <1>10

LEMMA FopenThreads == ASSUME IInv, NEW t \in Threads, FopenLock(t) PROVE ThreadTypeOK'
<1>1. ThreadTypeOK /\ fh \in [Threads -> Inodes \cup {None}]
  BY DEF IInv, TypeOK, FileTypeOK
<1>2. fh[t] = None /\ [fh EXCEPT ![t] = None] = fh
  BY <1>1 DEF FopenLock, ThreadTypeOK
<1>3. PICK l \in {"read", "force", "idle", "zombie"}, f \in {link, None} :
        /\ pc' = [pc EXCEPT ![t] = l] /\ fh' = [fh EXCEPT ![t] = f]
        /\ f # None <=> l = "read"
        /\ l = "idle" => t[2] = "main"
        /\ l = "zombie" => t[2] # "main"
  BY <1>2, ThreadFacts DEF FopenLock, RemoveReturns, Exit, Goto
<1>4. l \in (IF t[2] = "main" THEN MainPC ELSE ChildPC) \cup RemovePC
  BY <1>3, Labels
<1> QED BY <1>1, <1>3, <1>4, ThreadMoves

LEMMA FopenLockInv == ASSUME IInv, NEW t \in Threads, FopenLock(t) PROVE IInv'
<1> USE ThreadFacts DEF IInv, KeyedInv, TypeOK, FopenLock, Goto, RemoveReturns, Exit, files
<1>1. FileTypeOK'
  BY DEF FileTypeOK
<1>2. ThreadTypeOK'
  BY FopenThreads
<1>3. SessionTypeOK'
  BY DEF SessionTypeOK, Fates, Statuses
<1>4. ActionInv'
  BY DEF ActionInv, ThreadTypeOK, SessionTypeOK, RemovePC
<1>5. OneWorker'
  BY DEF OneWorker, ThreadTypeOK, SessionTypeOK
<1>6. ForceInv'
  BY RecklessSessions, Labels DEF ForceInv, ThreadTypeOK, SessionTypeOK, ActionInv
<1>7. FileInv'
  BY DEF FileInv, FileTypeOK, ThreadTypeOK
<1>8. KeysDistinct => HeldInv'
  BY DEF HeldInv, FileInv, FileTypeOK, ThreadTypeOK, InUse, Owns, OneWorker
<1>9. KeysDistinct => FailInv'
  BY DEF FailInv, FileTypeOK, ThreadTypeOK, SessionTypeOK, Owns, HeldInv, InUse
<1>10. KeysDistinct => StatusTellsTruth'
  BY DEF StatusTellsTruth, FileTypeOK, ThreadTypeOK, SessionTypeOK, Owns, Idle, HeldInv, ActionInv, OneWorker, InUse
<1> QED BY <1>1, <1>2, <1>3, <1>4, <1>5, <1>6, <1>7, <1>8, <1>9, <1>10

LEMMA ReadKeyThreads == ASSUME IInv, NEW t \in Threads, ReadKey(t) PROVE ThreadTypeOK'
<1>1. ThreadTypeOK /\ fh \in [Threads -> Inodes \cup {None}]
  BY DEF IInv, TypeOK, FileTypeOK
<1>2. fh' = [fh EXCEPT ![t] = None]
  BY DEF ReadKey
<1>3. PICK l \in {"unlink", "idle", "zombie"} :
        /\ pc' = [pc EXCEPT ![t] = l]
        /\ l = "idle" => t[2] = "main"
        /\ l = "zombie" => t[2] # "main"
  BY ThreadFacts DEF ReadKey, RemoveReturns, Exit, Goto
<1>4. l \in (IF t[2] = "main" THEN MainPC ELSE ChildPC) \cup RemovePC
  BY <1>3, Labels
<1> QED BY <1>1, <1>2, <1>3, <1>4, ThreadMoves

LEMMA ReadKeyInv == ASSUME IInv, NEW t \in Threads, ReadKey(t) PROVE IInv'
<1> USE ThreadFacts DEF IInv, KeyedInv, TypeOK, ReadKey, Goto, RemoveReturns, KeyMatches, Exit, files
<1>1. FileTypeOK'
  BY DEF FileTypeOK
<1>2. ThreadTypeOK'
  BY ReadKeyThreads
<1>3. SessionTypeOK'
  BY DEF SessionTypeOK, Fates, Statuses
<1>4. ActionInv'
  BY DEF ActionInv, ThreadTypeOK, SessionTypeOK, RemovePC
<1>5. OneWorker'
  BY DEF OneWorker, ThreadTypeOK, SessionTypeOK
<1>6. ForceInv'
  BY DEF ForceInv, ThreadTypeOK, SessionTypeOK, Reckless
<1>7. FileInv'
  BY DEF FileInv, FileTypeOK, ThreadTypeOK
<1>8. KeysDistinct => HeldInv'
  <2>1. KeysDistinct /\ ~stolen /\ KeyMatches(t) => link = fh[t] /\ Owns(t[1]) /\ content[link] = Key[t[1]]
    BY DEF HeldInv, FileInv, FileTypeOK, ThreadTypeOK, Owns, KeysDistinct
  <2> QED BY <2>1 DEF HeldInv, FileTypeOK, ThreadTypeOK, InUse, Owns
<1>9. KeysDistinct => FailInv'
  BY DEF FailInv, FileTypeOK, ThreadTypeOK, SessionTypeOK, Owns, HeldInv, InUse
<1>10. KeysDistinct => StatusTellsTruth'
  BY DEF StatusTellsTruth, FileTypeOK, ThreadTypeOK, SessionTypeOK, Owns, Idle, HeldInv, ActionInv, OneWorker, InUse
<1> QED BY <1>1, <1>2, <1>3, <1>4, <1>5, <1>6, <1>7, <1>8, <1>9, <1>10

LEMMA UnlinkLockFiles == ASSUME IInv, NEW t \in Threads, UnlinkLock(t) PROVE FileTypeOK'
<1>1. FileTypeOK /\ (UnlinkPath(t[1]) \/ UNCHANGED files) /\ fh' = fh
  BY DEF IInv, TypeOK, UnlinkLock
<1> QED BY <1>1, UnlinkTypes

LEMMA UnlinkLockInv == ASSUME IInv, NEW t \in Threads, UnlinkLock(t) PROVE IInv'
<1> USE ThreadFacts DEF IInv, KeyedInv, TypeOK, UnlinkLock, Goto, RemoveReturns, UnlinkPath, Exit, files
<1>1. FileTypeOK'
  BY UnlinkLockFiles
<1>2. ThreadTypeOK'
  BY Labels DEF ThreadTypeOK, FileTypeOK
<1>3. SessionTypeOK'
  BY DEF SessionTypeOK, Fates, Statuses
<1>4. ActionInv'
  BY DEF ActionInv, ThreadTypeOK, SessionTypeOK, RemovePC
<1>5. OneWorker'
  BY DEF OneWorker, ThreadTypeOK, SessionTypeOK
<1>6. ForceInv'
  BY DEF ForceInv, ThreadTypeOK, SessionTypeOK, Reckless
<1>7. FileInv'
  BY DEF FileInv, FileTypeOK, ThreadTypeOK
<1>8. pc'[t] \in {"idle", "zombie"}
      /\ \A u \in Threads : u # t => pc'[u] = pc[u]
  BY DEF ThreadTypeOK
<1>9. \A u \in Threads : u # t /\ u[1] = t[1] =>
         pc[u] \in {"idle", "wait", "absent"}
  BY DEF OneWorker, ThreadTypeOK, MainPC
<1>10. ~stolen' => ~stolen /\ (link' = link \/ (link' = None /\ creator[link] = t[1]))
  BY DEF FileTypeOK
<1>11. \A r \in Sessions : r # t[1] =>
          (pc'[main(r)] = pc[main(r)] /\ pc'[child(r)] = pc[child(r)] /\ status'[r] = status[r])
  BY <1>8 DEF SessionTypeOK
<1>12. KeysDistinct => HeldInv'
  <2> SUFFICES ASSUME KeysDistinct, ~stolen' PROVE HeldInv'
    BY DEF HeldInv
  <2>1. \A r \in Sessions : r # t[1] /\ Owns(r) => Owns(r)' /\ link' = link
    BY <1>10 DEF Owns, FileTypeOK
  <2>2. ASSUME NEW r \in Sessions, InUse(r)' PROVE Owns(r)'
    <3>1. r # t[1]
      BY <1>8, <1>9, <2>2 DEF InUse
    <3> QED BY <1>10, <1>11, <2>1, <2>2, <3>1 DEF HeldInv, InUse
  <2>3. ASSUME NEW r \in Sessions, pc'[main(r)] \in {"write", "undo", "trans"}
        PROVE  link' = fh'[main(r)]
    <3>1. r # t[1]
      BY <1>8, <1>9, <2>3
    <3> QED BY <1>10, <1>11, <2>1, <2>3, <3>1 DEF HeldInv, InUse
  <2>4. ASSUME NEW u \in Threads, pc'[u] = "read", creator'[fh'[u]] = u[1]
        PROVE  link' = fh'[u]
    <3>1. u # t /\ u[1] # t[1] /\ pc[u] = "read"
      BY <1>8, <1>9, <2>4
    <3>2. link = fh[u] /\ fh[u] # None
      BY <1>10, <2>4, <3>1 DEF HeldInv, ThreadTypeOK
    <3>3. Owns(u[1])
      BY <2>4, <3>2 DEF Owns
    <3> QED BY <2>1, <3>1, <3>2, <3>3
  <2>5. ASSUME NEW u \in Threads, pc'[u] = "unlink"
        PROVE  Owns(u[1])' /\ content'[link'] = Key[u[1]]
    <3>1. u # t /\ u[1] # t[1] /\ pc[u] = "unlink"
      BY <1>8, <1>9, <2>5
    <3> QED BY <1>10, <2>1, <3>1 DEF HeldInv
  <2> QED BY <2>2, <2>3, <2>4, <2>5 DEF HeldInv
<1>13. KeysDistinct => FailInv'
  BY <1>8, <1>10, <1>11 DEF FailInv, FileTypeOK, ThreadTypeOK, Owns
<1>14. KeysDistinct => StatusTellsTruth'
  <2> SUFFICES ASSUME KeysDistinct, ~stolen', NEW r \in Sessions, status'[r] = "ok"
               PROVE  /\ Idle(r, "lock")' => Owns(r)' /\ content'[link'] = Key[r]
                      /\ Idle(r, "unlock")' \/ Idle(r, "run")' => ~Owns(r)'
    BY DEF StatusTellsTruth
  <2>1. CASE r = t[1]
    BY <1>8, <1>9, <1>10, <2>1 DEF StatusTellsTruth, Owns, Idle, ActionInv, OneWorker, SessionTypeOK, FileTypeOK, RemovePC
  <2>2. CASE r # t[1]
    BY <1>10, <1>11, <2>2 DEF StatusTellsTruth, Owns, Idle
  <2> QED BY <2>1, <2>2
<1> QED BY <1>1, <1>2, <1>3, <1>4, <1>5, <1>6, <1>7, <1>12, <1>13, <1>14

LEMMA KillInv == ASSUME IInv, NEW t \in Threads, Kill(t) PROVE IInv'
<1> USE ThreadFacts DEF IInv, KeyedInv, TypeOK, Kill, Goto, Exit, files
<1>1. FileTypeOK'
  BY DEF FileTypeOK
<1>2. ThreadTypeOK'
  BY Labels DEF ThreadTypeOK, FileTypeOK
<1>3. SessionTypeOK'
  BY DEF SessionTypeOK, Fates, Statuses
<1>4. ActionInv'
  BY DEF ActionInv, ThreadTypeOK, SessionTypeOK, RemovePC
<1>5. OneWorker'
  BY DEF OneWorker, ThreadTypeOK, SessionTypeOK
<1>6. ForceInv'
  BY DEF ForceInv, ThreadTypeOK, SessionTypeOK, Reckless
<1>7. FileInv'
  BY DEF FileInv, FileTypeOK, ThreadTypeOK
<1>8. KeysDistinct => HeldInv'
  BY DEF HeldInv, FileInv, FileTypeOK, ThreadTypeOK, InUse, Owns, OneWorker
<1>9. KeysDistinct => FailInv'
  BY DEF FailInv, FileTypeOK, ThreadTypeOK, SessionTypeOK, Owns, HeldInv, InUse
<1>10. KeysDistinct => StatusTellsTruth'
  BY DEF StatusTellsTruth, FileTypeOK, ThreadTypeOK, SessionTypeOK, Owns, Idle, HeldInv, ActionInv, OneWorker, InUse
<1> QED BY <1>1, <1>2, <1>3, <1>4, <1>5, <1>6, <1>7, <1>8, <1>9, <1>10


-----------------------------------------------------------------------------
\* Every step of the system preserves the invariant.
LEMMA NextInv == ASSUME IInv, [Next]_vars PROVE IInv'
<1>1. CASE UNCHANGED vars
  BY <1>1 DEF vars, IInv, KeyedInv, TypeOK, FileTypeOK, ThreadTypeOK, SessionTypeOK,
              ActionInv, OneWorker, ForceInv, FileInv, HeldInv, FailInv,
              StatusTellsTruth, InUse, Owns, Idle
<1>2. ASSUME NEW s \in Sessions, Start(s) PROVE IInv'
  BY <1>2, StartInv
<1>3. ASSUME NEW t \in Threads, RemoveStep(t) PROVE IInv'
  BY <1>3, FopenLockInv, ReadKeyInv, UnlinkLockInv DEF RemoveStep
<1>4. ASSUME NEW s \in Sessions, MainStep(s) PROVE IInv'
  BY <1>3, <1>4, ThreadFacts, OpenLockInv, OpenLockFailsInv, WriteKeyInv,
     WriteKeyFailsInv, UndoLockInv, ForkInv, ForkFailsInv, WaitInv,
     TransInitInv, TransReleaseInv DEF MainStep
<1>5. ASSUME NEW s \in Sessions, ChildStep(s) PROVE IInv'
  BY <1>3, <1>5, ThreadFacts, ExecInv, CommandEndsInv, ReapInv DEF ChildStep
<1>6. ASSUME NEW t \in Threads, Kill(t) PROVE IInv'
  BY <1>6, KillInv
<1> QED BY <1>1, <1>2, <1>4, <1>5, <1>6 DEF Next, Finished

\* The inductive invariant holds in every behaviour.
THEOREM Invariant == Spec => []IInv
BY InitInv, NextInv, PTL DEF Spec

\* Types, and no file left open by any path through the code.
THEOREM TypeCorrect == Spec => []TypeOK
<1>1. IInv => TypeOK
  BY DEF IInv
<1> QED BY <1>1, Invariant, PTL

\* With keys that differ, and until a lock is stolen, whoever creates, keys or
\* removes a lock file, runs a command or a transaction holds the lock.
THEOREM LockHeld == ASSUME KeysDistinct PROVE Spec => []HeldWhileInUse
<1>1. IInv => HeldWhileInUse
  BY DEF IInv, KeyedInv, HeldInv, HeldWhileInUse
<1> QED BY <1>1, Invariant, PTL

\* Two sessions are never at work on the database at once, until a lock is
\* stolen.
THEOREM MutualExclusion ==
    ASSUME KeysDistinct
    PROVE  Spec => [](\A r, s \in Sessions :
                         ~stolen /\ InUse(r) /\ InUse(s) => r = s)
<1>1. HeldWhileInUse => \A r, s \in Sessions :
                            ~stolen /\ InUse(r) /\ InUse(s) => r = s
  BY DEF HeldWhileInUse, Owns
<1> QED BY <1>1, LockHeld, PTL

\* What check_key established still holds when unlink runs.
THEOREM CheckedUnlink == ASSUME KeysDistinct PROVE Spec => []CheckedUnlinkHasKey
<1>1. IInv => CheckedUnlinkHasKey
  BY DEF IInv, KeyedInv, HeldInv, CheckedUnlinkHasKey, Owns
<1> QED BY <1>1, Invariant, PTL

\* Exit status 0 of --lock, --unlock and --run means what it says.
THEOREM StatusTrue == ASSUME KeysDistinct PROVE Spec => []StatusTellsTruth
<1>1. IInv => StatusTellsTruth
  BY DEF IInv, KeyedInv
<1> QED BY <1>1, Invariant, PTL

\* A command that exits non-zero leaves the lock, for any mix of sessions.
THEOREM FailureKept == ASSUME KeysDistinct PROVE Spec => []FailureLeavesLock
<1>1. IInv => FailureLeavesLock
  BY DEF IInv, KeyedInv, FailInv, FailureLeavesLock
<1> QED BY <1>1, Invariant, PTL

-----------------------------------------------------------------------------
(***************************************************************************)
(* The lock file implements the abstract lock.                             *)
(***************************************************************************)

\* The session that holds the lock, as DbLock sees it.
Holder == IF link = None THEN None ELSE creator[link]

\* Creating the file is the abstract Acquire.
LEMMA CreateAcquires ==
    ASSUME IInv, NEW s \in Sessions, NEW i \in Inodes, Create(s, i)
    PROVE  DbLock!Acquire(s)
BY DEF Create, PathFree, DbLock!Acquire, IInv, TypeOK, FileTypeOK

\* Removing the file is the abstract Release or Steal, and the thief is
\* reckless unless there was a theft before.
LEMMA UnlinkReleases ==
    ASSUME IInv, NEW s \in Sessions, UnlinkPath(s),
           stolen \/ Owns(s) \/ s \in Reckless
    PROVE  DbLock!Release(s) \/ DbLock!Steal(s)
BY DEF UnlinkPath, DbLock!Release, DbLock!Steal, IInv, TypeOK, FileTypeOK,
       FileInv, Owns

\* No step but those two touches what the abstract lock sees.
LEMMA StepRefines ==
    ASSUME IInv, KeysDistinct, [Next]_vars
    PROVE  [DbLock!Next]_(DbLock!vars)
<1> DEFINE Same == Holder' = Holder /\ stolen' = stolen
<1>1. Same => UNCHANGED DbLock!vars
  BY DEF DbLock!vars, Holder
<1>2. UNCHANGED <<link, creator, stolen>> => Same
  BY DEF Holder
<1>3. CASE UNCHANGED vars
  BY <1>1, <1>2, <1>3 DEF vars
<1>4. ASSUME NEW s \in Sessions, Start(s) PROVE Same
  BY <1>2, <1>4 DEF Start, files
<1>5. ASSUME NEW t \in Threads, Kill(t) PROVE Same
  BY <1>2, <1>5 DEF Kill, files
<1>6. ASSUME NEW t \in Threads, RemoveStep(t)
      PROVE  Same \/ DbLock!Release(t[1]) \/ DbLock!Steal(t[1])
  <2>1. t[1] \in Sessions
    BY ThreadFacts
  <2>2. CASE FopenLock(t) \/ ReadKey(t)
    BY <1>2, <2>2 DEF FopenLock, ReadKey, files
  <2>3. CASE UnlinkLock(t)
    <3>1. stolen \/ Owns(t[1]) \/ t[1] \in Reckless
      BY <2>3 DEF UnlinkLock, IInv, KeyedInv, HeldInv, ForceInv, TypeOK, FileTypeOK
    <3>2. UNCHANGED files \/ UnlinkPath(t[1])
      BY <2>3 DEF UnlinkLock
    <3> QED BY <1>2, <2>1, <3>1, <3>2, UnlinkReleases DEF files
  <2> QED BY <1>6, <2>2, <2>3 DEF RemoveStep
<1>7. ASSUME NEW s \in Sessions, MainStep(s)
      PROVE  Same \/ DbLock!Acquire(s) \/ DbLock!Release(s) \/ DbLock!Steal(s)
  <2>1. CASE OpenLock(s) \/ TransInit(s)
    BY <1>2, <2>1, CreateAcquires DEF OpenLock, TransInit, files
  <2>2. CASE OpenLockFails(s) \/ WriteKey(s) \/ WriteKeyFails(s) \/ Fork(s)
             \/ ForkFails(s) \/ Wait(s)
    BY <1>2, <2>2 DEF OpenLockFails, WriteKey, WriteKeyFails, Fork, ForkFails,
                      Wait, files
  <2>3. CASE UndoLock(s) \/ TransRelease(s)
    <3>1. stolen \/ Owns(s)
      BY <2>3 DEF UndoLock, TransRelease, IInv, KeyedInv, HeldInv, InUse,
                  TypeOK, FileTypeOK
    <3>2. UNCHANGED files \/ UnlinkPath(s)
      BY <2>3 DEF UndoLock, TransRelease
    <3> QED BY <1>2, <3>1, <3>2, UnlinkReleases DEF files
  <2>4. CASE RemoveStep(main(s))
    BY <1>6, <2>4, ThreadFacts
  <2> QED BY <1>7, <2>1, <2>2, <2>3, <2>4 DEF MainStep
<1>8. ASSUME NEW s \in Sessions, ChildStep(s)
      PROVE  Same \/ DbLock!Release(s) \/ DbLock!Steal(s)
  <2>1. CASE Exec(s) \/ CommandEnds(s) \/ Reap(s)
    BY <1>2, <2>1 DEF Exec, CommandEnds, Reap, files
  <2>2. CASE RemoveStep(child(s))
    BY <1>6, <2>2, ThreadFacts
  <2> QED BY <1>8, <2>1, <2>2 DEF ChildStep
<1> HIDE DEF Same
<1> QED BY <1>1, <1>3, <1>4, <1>5, <1>7, <1>8 DEF Next, Finished, DbLock!Next

\* The lock file protocol implements DbLock: until a session that skips the key
\* check takes a lock away, only the holder gives it up.
THEOREM Refinement == ASSUME KeysDistinct PROVE Spec => ImplementsDbLock
<1>1. Init => DbLock!Init
  BY DEF Init, DbLock!Init
<1>2. IInv /\ [Next]_vars => [DbLock!Next]_(DbLock!vars)
  BY StepRefines
<1> QED BY <1>1, <1>2, Invariant, PTL DEF Spec, ImplementsDbLock, DbLock!Spec

\* Where every session checks keys, no lock is ever stolen: every theorem above
\* then holds without its proviso.
THEOREM NoTheft ==
    ASSUME KeysDistinct, Reckless = {}
    PROVE  Spec => []~stolen
<1>1. Init => ~stolen
  BY DEF Init
<1>2. IInv /\ ~stolen /\ [Next]_vars => ~stolen'
  BY StepRefines DEF DbLock!Next, DbLock!Acquire, DbLock!Release,
                     DbLock!Steal, DbLock!vars
<1> QED BY <1>1, <1>2, Invariant, PTL DEF Spec
=============================================================================
