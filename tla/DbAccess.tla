------------------------------ MODULE DbAccess ------------------------------
(***************************************************************************)
(* What the programs that change the system promise each other about the   *)
(* local database: a program works on it from the moment it was given the  *)
(* lock until it gives the lock up itself, only the program at work changes *)
(* anything, and a program that dies at work leaves the lock in place.     *)
(* TransSystem implements this module.                                     *)
(***************************************************************************)
CONSTANTS
    Programs,
    Free        \* "nobody holds the lock"; not a program

VARIABLES
    holder,     \* who holds the lock
    working,    \* the programs at work
    db          \* the local database

vars == <<holder, working, db>>

Init == holder = Free /\ working = {}

Begin(p) ==
    /\ holder = Free
    /\ holder' = p
    /\ working' = working \cup {p}
    /\ UNCHANGED db

\* Whatever the change is, it is made at work and with the lock.
Change(p) ==
    /\ holder = p /\ p \in working
    /\ UNCHANGED <<holder, working>>

\* Nobody gives up the lock of somebody else.
End(p) ==
    /\ holder = p /\ p \in working
    /\ holder' = Free
    /\ working' = working \ {p}
    /\ UNCHANGED db

Die(p) ==
    /\ p \in working
    /\ working' = working \ {p}
    /\ UNCHANGED <<holder, db>>

Next == \E p \in Programs : Begin(p) \/ Change(p) \/ End(p) \/ Die(p)

Spec == Init /\ [][Next]_vars
=============================================================================
