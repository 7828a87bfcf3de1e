------------------------------- MODULE DbLock -------------------------------
(***************************************************************************)
(* What the ALPM database lock promises the scripts that take it, whatever *)
(* the programs do to get there: one holder at a time, and a holder that   *)
(* keeps the lock until it gives it up.  The promise is void for everyone  *)
(* once a session that was told not to check keys has taken the lock from  *)
(* its holder; `stolen` remembers that.  PacLock implements this module.   *)
(***************************************************************************)
CONSTANTS
    Sessions,   \* the scripts (and transactions) that compete for the lock
    Reckless,   \* the sessions that use --no-check-keys or --enoent-ok
    Free        \* "nobody holds the lock"; not a session

VARIABLES holder, stolen

vars == <<holder, stolen>>

Init == holder = Free /\ stolen = FALSE

\* A session takes the lock only when nobody holds it.
Acquire(s) ==
    /\ holder = Free
    /\ holder' = s
    /\ UNCHANGED stolen

\* A holder gives up its own lock.
Release(s) ==
    /\ holder = s
    /\ holder' = Free
    /\ UNCHANGED stolen

\* A session removes a lock that is not its own: only a reckless one does so
\* first, and after that anybody may find that its lock is not its own.
Steal(s) ==
    /\ holder \notin {Free, s}
    /\ s \in Reckless \/ stolen
    /\ holder' = Free
    /\ stolen' = TRUE

Next == \E s \in Sessions : Acquire(s) \/ Release(s) \/ Steal(s)

Spec == Init /\ [][Next]_vars
=============================================================================
