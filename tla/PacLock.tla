------------------------------ MODULE PacLock ------------------------------
(***************************************************************************)
(* paclock (src/src/paclock.c) and the other takers of the ALPM database   *)
(* lock.  The lock is a file: open(2) with O_EXCL takes it, unlink(2) gives *)
(* it up, and the key written into it says whose it is.  Taking, keying,   *)
(* checking and removing are separate system calls, so every one of them   *)
(* is a step of its own here and any other process may run in between.     *)
(*                                                                         *)
(* A session is a script with an identity key.  It runs one program after  *)
(* another: paclock --lock, --unlock, --run or --print, or a libalpm        *)
(* transaction (pactrans, pacrepairdb), which locks the same file without  *)
(* a key.  The main thread is the program, the child thread the process    *)
(* that run_cmd forks.  Any process may be killed at any point.            *)
(***************************************************************************)
EXTENDS Naturals

CONSTANTS
    Sessions,
    Keys,
    Key,        \* the --key each session uses
    Options,    \* the command lines each session may use
    Inodes,     \* identities of lock files; bounds those alive at one time
    MaxCalls,   \* bound: programs each session runs
    Empty,      \* content of a lock file nothing was written to
    None

Actions == {"lock", "unlock", "run", "print", "trans"}

\* The globals parse_opts sets.  sigign is the caller's disposition of SIGCHLD,
\* which exec(2) preserves: ignored, waitpid fails and leaves `ret` unset.
Option == [action : Actions, nocheck : BOOLEAN, enoent_ok : BOOLEAN,
           fail_ok : BOOLEAN, sigign : BOOLEAN]

ASSUME KeyAssumption == Key \in [Sessions -> Keys] /\ Empty \notin Keys
ASSUME OptionsAssumption ==
    Options \in [Sessions -> SUBSET Option] /\ None \notin Option
ASSUME NoneAssumption == None \notin Inodes /\ None \notin Sessions
ASSUME MaxCallsAssumption == MaxCalls \in Nat

VARIABLES
    link,       \* the file that the lock file's path names, if any
    content,    \* what was written to each file
    creator,    \* history: the session that created each file
    fh,         \* the file each thread has open
    pc,         \* the system call each thread makes next
    opt,        \* the session's current or last command line
    failed,     \* run_cmd has already decided to return non-zero
    cmd,        \* how the command run_cmd forked ended
    status,     \* exit status of the session's last program
    calls,      \* programs started, up to MaxCalls
    stolen      \* history: some session removed another one's lock

vars == <<link, content, creator, fh, pc, opt, failed, cmd, status, calls,
          stolen>>

main(s) == <<s, "main">>
child(s) == <<s, "child">>
Threads == Sessions \X {"main", "child"}

RemovePC == {"fopen", "read", "unlink", "force"}
MainPC == {"idle", "open", "write", "undo", "fork", "wait", "init", "trans"}
ChildPC == {"absent", "exec", "running", "zombie"}
PCs == MainPC \cup ChildPC \cup RemovePC
Fates == {"none", "zero", "nonzero", "signal", "noexec", "aborted"}
Statuses == {"none", "ok", "fail", "killed"}

Reckless ==
    {s \in Sessions : \E o \in Options[s] : o.nocheck \/ o.enoent_ok}

Init ==
    /\ link = None
    /\ content = [i \in Inodes |-> Empty]
    /\ creator = [i \in Inodes |-> None]
    /\ fh = [t \in Threads |-> None]
    /\ pc = [t \in Threads |-> IF t[2] = "main" THEN "idle" ELSE "absent"]
    /\ opt = [s \in Sessions |-> None]
    /\ failed = [s \in Sessions |-> FALSE]
    /\ cmd = [s \in Sessions |-> "none"]
    /\ status = [s \in Sessions |-> "none"]
    /\ calls = [s \in Sessions |-> 0]
    /\ stolen = FALSE

files == <<link, content, creator, stolen>>

Goto(t, label) == pc' = [pc EXCEPT ![t] = label]

\* The session's program returns r from main.
Exit(s, r) ==
    /\ Goto(main(s), "idle")
    /\ status' = [status EXCEPT ![s] = r]

-----------------------------------------------------------------------------
\* Mutant: the test of --no-check-keys is lost.
RemoveUnchecked(o) == "force"

\* remove_lock begins with check_key unless --no-check-keys was given.
RemoveEntry(o) == IF o.nocheck THEN "force" ELSE "fopen"

\* main: the switch on the action, after the lock file's path is known.
EntryPC(o) ==
    CASE o.action \in {"lock", "run"} -> "open"
      [] o.action = "unlock" -> RemoveEntry(o)
      [] o.action = "trans" -> "init"
      [] OTHER -> "idle"

\* A session starts a program when the processes of the last one are gone.
\* --print touches nothing; nor does a program that cannot find its lock file.
Start(s) ==
    /\ pc[main(s)] = "idle" /\ pc[child(s)] = "absent"
    /\ calls[s] < MaxCalls
    /\ calls' = [calls EXCEPT ![s] = @ + 1]
    /\ \E o \in Options[s] :
         /\ opt' = [opt EXCEPT ![s] = o]
         /\ \/ /\ Goto(main(s), EntryPC(o))
               /\ status' = [status EXCEPT ![s] =
                                IF o.action = "print" THEN "ok" ELSE "none"]
            \/ Exit(s, "fail")
    /\ failed' = [failed EXCEPT ![s] = FALSE]
    /\ cmd' = [cmd EXCEPT ![s] = "none"]
    /\ UNCHANGED <<files, fh>>

\* Files that still exist: named by the path or open in some thread.
Alive == {link} \cup {fh[t] : t \in Threads}

\* Mutant: open without O_EXCL.
PathShared == TRUE

\* O_EXCL: the path must be free.
PathFree == link = None

\* A new, empty file at the lock file's path.
Create(s, i) ==
    /\ PathFree
    /\ i \in Inodes \ Alive
    /\ link' = i
    /\ content' = [content EXCEPT ![i] = Empty]
    /\ creator' = [creator EXCEPT ![i] = s]
    /\ UNCHANGED stolen

\* create_lock, open(O_CREAT | O_EXCL).
OpenLock(s) ==
    /\ pc[main(s)] = "open"
    /\ \E i \in Inodes :
         /\ Create(s, i)
         /\ fh' = [fh EXCEPT ![main(s)] = i]
    /\ Goto(main(s), "write")
    /\ UNCHANGED <<opt, failed, cmd, status, calls>>

\* open fails: EEXIST, or any other error, which it does not tell apart.
OpenLockFails(s) ==
    /\ pc[main(s)] = "open"
    /\ Exit(s, "fail")
    /\ UNCHANGED <<files, fh, opt, failed, cmd, calls>>

\* create_lock, dprintf: the key reaches the file that was created, even if the
\* path names another one by now.
WriteKey(s) ==
    /\ pc[main(s)] = "write"
    /\ content' = [content EXCEPT ![fh[main(s)]] = Key[s]]
    /\ fh' = [fh EXCEPT ![main(s)] = None]
    /\ IF opt[s].action = "run"
         THEN Goto(main(s), "fork") /\ UNCHANGED status
         ELSE Exit(s, "ok")
    /\ UNCHANGED <<link, creator, opt, failed, cmd, calls, stolen>>

WriteKeyFails(s) ==
    /\ pc[main(s)] = "write"
    /\ Goto(main(s), "undo")
    /\ UNCHANGED <<files, fh, opt, failed, cmd, status, calls>>

\* unlink(2) of the lock file's path by session s, whatever file it names.
UnlinkPath(s) ==
    /\ link # None
    /\ link' = None
    /\ stolen' = (stolen \/ creator[link] # s)
    /\ UNCHANGED <<content, creator>>

\* The unlink after a failed dprintf: no key is checked, and its result is not
\* looked at.
UndoLock(s) ==
    /\ pc[main(s)] = "undo"
    /\ UnlinkPath(s) \/ (link = None /\ UNCHANGED files)
    /\ fh' = [fh EXCEPT ![main(s)] = None]
    /\ Exit(s, "fail")
    /\ UNCHANGED <<opt, failed, cmd, calls>>

-----------------------------------------------------------------------------
\* Mutant: the child returns into main instead of exiting.
ChildReturns(t, r) ==
    Goto(t, "idle") /\ status' = [status EXCEPT ![t[1]] = r]

\* Mutant: remove_lock reports success whatever happened.
RemoveSaysOk(t, r) ==
    IF t[2] = "main"
      THEN Exit(t[1], "ok")
      ELSE Goto(t, "zombie") /\ UNCHANGED status

\* remove_lock returns r.  run_cmd ignores r when it is returning non-zero
\* anyway, and a child that could not exec exits 1 whatever r is.
RemoveReturns(t, r) ==
    IF t[2] = "main"
      THEN Exit(t[1], IF failed[t[1]] THEN "fail" ELSE r)
      ELSE Goto(t, "zombie") /\ UNCHANGED status

\* check_key, fopen.  A missing file passes the check under --enoent-ok.
FopenLock(t) ==
    /\ pc[t] = "fopen"
    /\ \/ /\ link # None
          /\ fh' = [fh EXCEPT ![t] = link]
          /\ Goto(t, "read")
          /\ UNCHANGED status
       \/ /\ link = None /\ opt[t[1]].enoent_ok
          /\ Goto(t, "force")
          /\ UNCHANGED <<fh, status>>
       \/ /\ RemoveReturns(t, "fail")
          /\ link = None => ~opt[t[1]].enoent_ok
          /\ UNCHANGED fh
    /\ UNCHANGED <<files, opt, failed, cmd, calls>>

\* Mutant: the keys are read but not compared.
AnyKey(t) == content[fh[t]] # Empty

\* check_key, strcmp.  getdelim reports an empty file as an error.
KeyMatches(t) ==
    /\ content[fh[t]] # Empty
    /\ content[fh[t]] = Key[t[1]]

\* check_key, getdelim and fclose.
ReadKey(t) ==
    /\ pc[t] = "read"
    /\ fh' = [fh EXCEPT ![t] = None]
    /\ \/ KeyMatches(t) /\ Goto(t, "unlink") /\ UNCHANGED status
       \/ RemoveReturns(t, "fail")
    /\ UNCHANGED <<files, opt, failed, cmd, calls>>

\* remove_lock, unlink.  "force" is the unlink no key comparison came before.
UnlinkLock(t) ==
    /\ pc[t] \in {"unlink", "force"}
    /\ \/ UnlinkPath(t[1]) /\ RemoveReturns(t, "ok")
       \/ /\ link = None /\ opt[t[1]].enoent_ok
          /\ RemoveReturns(t, "ok") /\ UNCHANGED files
       \/ /\ link = None => ~opt[t[1]].enoent_ok
          /\ RemoveReturns(t, "fail") /\ UNCHANGED files
    /\ UNCHANGED <<fh, opt, failed, cmd, calls>>

-----------------------------------------------------------------------------
\* run_cmd, fork.
Fork(s) ==
    /\ pc[main(s)] = "fork"
    /\ pc' = [pc EXCEPT ![main(s)] = "wait", ![child(s)] = "exec"]
    /\ UNCHANGED <<files, fh, opt, failed, cmd, status, calls>>

ForkFails(s) ==
    /\ pc[main(s)] = "fork"
    /\ failed' = [failed EXCEPT ![s] = TRUE]
    /\ Goto(main(s), RemoveEntry(opt[s]))
    /\ UNCHANGED <<files, fh, opt, cmd, status, calls>>

\* The child: the command starts, or the child removes the lock and exits 1.
Exec(s) ==
    /\ pc[child(s)] = "exec"
    /\ \/ Goto(child(s), "running") /\ UNCHANGED cmd
       \/ /\ Goto(child(s), RemoveEntry(opt[s]))
          /\ cmd' = [cmd EXCEPT ![s] = "noexec"]
    /\ UNCHANGED <<files, fh, opt, failed, status, calls>>

\* The command exits, or a signal ends it.
CommandEnds(s) ==
    /\ pc[child(s)] = "running"
    /\ Goto(child(s), "zombie")
    /\ \E f \in {"zero", "nonzero", "signal"} : cmd' = [cmd EXCEPT ![s] = f]
    /\ UNCHANGED <<files, fh, opt, failed, status, calls>>

\* What WEXITSTATUS makes of the wait status: zero also for a process that a
\* signal ended, anything if waitpid never set it.
ExitStatusZero(s) ==
    {cmd[s] \in {"zero", "signal", "aborted"}}
        \cup (IF opt[s].sigign THEN BOOLEAN ELSE {})

\* Mutant: the lock is removed after every command.
NeverLeavesLock(s, zero) == FALSE

\* run_cmd leaves the lock in place when the command failed, unless --fail-ok.
LeavesLock(s, zero) == ~zero /\ ~opt[s].fail_ok

\* Mutant: waitpid is called again after every error, not only after EINTR.
WaitRetried(s) == pc[child(s)] = "zombie" /\ ~opt[s].sigign

\* The waitpid loop is left once the child is gone: by its wait status, or, with
\* SIGCHLD ignored, by ECHILD, which is not tried again.
WaitOver(s) == pc[child(s)] = "zombie"

\* run_cmd, waitpid and what follows it.
Wait(s) ==
    /\ pc[main(s)] = "wait" /\ WaitOver(s)
    /\ \E zero \in ExitStatusZero(s) :
         /\ failed' = [failed EXCEPT ![s] = ~zero]
         /\ pc' = [pc EXCEPT ![child(s)] = "absent",
                             ![main(s)] = IF LeavesLock(s, zero) THEN "idle"
                                                       ELSE RemoveEntry(opt[s])]
         /\ status' = [status EXCEPT ![s] =
                          IF LeavesLock(s, zero) THEN "fail" ELSE @]
    /\ UNCHANGED <<files, fh, opt, cmd, calls>>

\* init(1) reaps a child whose parent was killed.
Reap(s) ==
    /\ pc[main(s)] = "idle" /\ pc[child(s)] = "zombie"
    /\ Goto(child(s), "absent")
    /\ UNCHANGED <<files, fh, opt, failed, cmd, status, calls>>

-----------------------------------------------------------------------------
\* alpm_trans_init takes the same lock, leaves the file empty and keeps it
\* open; a transaction that is not given the lock ends there.
TransInit(s) ==
    /\ pc[main(s)] = "init"
    /\ \/ /\ \E i \in Inodes : /\ Create(s, i)
                               /\ fh' = [fh EXCEPT ![main(s)] = i]
          /\ Goto(main(s), "trans")
          /\ UNCHANGED status
       \/ Exit(s, "fail") /\ UNCHANGED <<files, fh>>
    /\ UNCHANGED <<opt, failed, cmd, calls>>

\* alpm_trans_release unlinks the path without looking at the file, and the
\* transaction ends with or without an error of its own.
TransRelease(s) ==
    /\ pc[main(s)] = "trans"
    /\ UnlinkPath(s) \/ (link = None /\ UNCHANGED files)
    /\ fh' = [fh EXCEPT ![main(s)] = None]
    /\ \E r \in {"ok", "fail"} : Exit(s, r)
    /\ UNCHANGED <<opt, failed, cmd, calls>>

\* A process is killed: its files are closed, what it did to the disk stays.
Kill(t) ==
    /\ pc[t] \notin {"idle", "absent", "zombie"}
    /\ fh' = [fh EXCEPT ![t] = None]
    /\ IF t[2] = "main"
         THEN Exit(t[1], "killed") /\ UNCHANGED cmd
         ELSE /\ Goto(t, "zombie")
              /\ cmd' = [cmd EXCEPT ![t[1]] =
                            IF pc[t] = "running" THEN "signal" ELSE "aborted"]
              /\ UNCHANGED status
    /\ UNCHANGED <<files, opt, failed, calls>>

RemoveStep(t) == FopenLock(t) \/ ReadKey(t) \/ UnlinkLock(t)

MainStep(s) ==
    \/ OpenLock(s) \/ OpenLockFails(s)
    \/ WriteKey(s) \/ WriteKeyFails(s) \/ UndoLock(s)
    \/ Fork(s) \/ ForkFails(s) \/ Wait(s)
    \/ TransInit(s) \/ TransRelease(s)
    \/ RemoveStep(main(s))

ChildStep(s) ==
    Exec(s) \/ CommandEnds(s) \/ RemoveStep(child(s)) \/ Reap(s)

\* Every session has run all its programs.
Finished ==
    /\ \A s \in Sessions : /\ pc[main(s)] = "idle" /\ pc[child(s)] = "absent"
                           /\ calls[s] = MaxCalls
    /\ UNCHANGED vars

Next ==
    \/ \E s \in Sessions : Start(s) \/ MainStep(s) \/ ChildStep(s)
    \/ \E t \in Threads : Kill(t)
    \/ Finished

Spec == Init /\ [][Next]_vars

\* The scheduler runs every process that can run, and a command comes to an
\* end.  Starting another program is the session's choice.
Fairness ==
    \A s \in Sessions : WF_vars(MainStep(s)) /\ WF_vars(ChildStep(s))

FairSpec == Spec /\ Fairness

-----------------------------------------------------------------------------
FileTypeOK ==
    /\ link \in Inodes \cup {None}
    /\ content \in [Inodes -> Keys \cup {Empty}]
    /\ creator \in [Inodes -> Sessions \cup {None}]
    /\ fh \in [Threads -> Inodes \cup {None}]
    /\ stolen \in BOOLEAN

ThreadTypeOK ==
    /\ pc \in [Threads -> PCs]
    /\ \A s \in Sessions : /\ pc[main(s)] \in MainPC \cup RemovePC
                           /\ pc[child(s)] \in ChildPC \cup RemovePC
    /\ \A t \in Threads :
         fh[t] # None <=> pc[t] \in {"write", "undo", "read", "trans"}

SessionTypeOK ==
    /\ opt \in [Sessions -> Option \cup {None}]
    /\ \A s \in Sessions : opt[s] # None => opt[s] \in Options[s]
    /\ failed \in [Sessions -> BOOLEAN]
    /\ cmd \in [Sessions -> Fates]
    /\ status \in [Sessions -> Statuses]
    /\ calls \in [Sessions -> 0 .. MaxCalls]

\* Types; and a thread has a file open exactly in the calls that need it: every
\* path through create_lock and check_key closes what it opened.
TypeOK == FileTypeOK /\ ThreadTypeOK /\ SessionTypeOK

\* Session s holds the lock: the file at the path is one it created.
Owns(s) == link # None /\ creator[link] = s

\* The calls that rely on the lock: keying it, a command or a transaction that
\* works on the database.
InUse(s) ==
    \/ pc[main(s)] \in {"write", "undo", "fork", "trans"}
    \/ pc[child(s)] \in {"exec", "running"}

\* As long as no lock was stolen, whoever works under the lock holds it; so two
\* sessions never work on the database at once.  It is what create_lock,
\* remove_lock and run_cmd, interleaved at every system call, are for.
HeldWhileInUse == ~stolen => \A s \in Sessions : InUse(s) => Owns(s)

\* As long as no lock was stolen, the file that a thread removes after
\* check_key compared the keys is still the file it read, with its own key:
\* the gap between check_key and unlink in remove_lock does no harm.
CheckedUnlinkHasKey ==
    ~stolen => \A t \in Threads :
        pc[t] = "unlink" => link # None /\ content[link] = Key[t[1]]

Idle(s, action) == pc[main(s)] = "idle" /\ opt[s] # None /\ opt[s].action = action

\* The exit status tells the script the truth: after paclock --lock returned 0
\* the lock is the session's and carries its key, and after --unlock or --run
\* returned 0 it is not the session's any more.
StatusTellsTruth ==
    ~stolen => \A s \in Sessions : status[s] = "ok" =>
        /\ Idle(s, "lock") => Owns(s) /\ content[link] = Key[s]
        /\ Idle(s, "unlock") \/ Idle(s, "run") => ~Owns(s)

\* run_cmd keeps its promise for commands that exit non-zero: unless --fail-ok
\* was given, the lock stays in place after the program is gone.
FailureLeavesLock ==
    ~stolen => \A s \in Sessions :
        Idle(s, "run") /\ cmd[s] = "nonzero" /\ ~opt[s].fail_ok /\ ~opt[s].sigign
            => Owns(s)

\* The lock file implements the abstract lock: only its holder gives it up,
\* until a session that skips the key check removes a lock of somebody else.
DbLock == INSTANCE DbLock WITH
    Free <- None,
    holder <- IF link = None THEN None ELSE creator[link]

ImplementsDbLock == DbLock!Spec

\* Every program comes to an end: no process waits for ever for the lock, for
\* another session or for a child, however the child ended and even where its
\* status is not kept for the parent.
ProgramsEnd ==
    \A s \in Sessions : pc[main(s)] # "idle" ~> pc[main(s)] = "idle"

\* doc/paclock.pod:70: "By default, --unlock will only operate if the lock file
\* was previously locked with the same key."  A thread whose command line does
\* not say --no-check-keys removes only a file that carries its key.
UnlockNeedsKey ==
    [][\A t \in Threads :
         pc[t] \in {"unlink", "force"} /\ ~opt[t[1]].nocheck /\ pc'[t] # pc[t]
             /\ link' # link
             => content[link] = Key[t[1]]]_vars

\* paclock.c:233: "if something went wrong, leave the lock to indicate an
\* error, unless the caller indicated otherwise".  A command that a signal
\* killed went wrong.
KilledCommandLeavesLock ==
    ~stolen => \A s \in Sessions :
        Idle(s, "run") /\ cmd[s] = "signal" /\ ~opt[s].fail_ok => Owns(s)
=============================================================================
