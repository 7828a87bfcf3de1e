----------------------------- MODULE MCPacLock -----------------------------
(***************************************************************************)
(* Small instances of PacLock.  "alice" always checks keys; "bob" may use   *)
(* --no-check-keys and --enoent-ok.                                        *)
(***************************************************************************)
EXTENDS PacLock, TLC

CONSTANTS i1, i2, i3

MCSessions == {"alice", "bob"}
MCKeys == {"ka", "kb"}
MCKey == [s \in MCSessions |-> IF s = "alice" THEN "ka" ELSE "kb"]
MCInodes == {i1, i2, i3}
InodeSymmetry == Permutations(MCInodes)

\* A command line without switches.
Plain(a) == [action |-> a, nocheck |-> FALSE, enoent_ok |-> FALSE,
             fail_ok |-> FALSE, sigign |-> FALSE]

Careful == {Plain("lock"), Plain("unlock"), Plain("run"), Plain("print"),
            [Plain("run") EXCEPT !.fail_ok = TRUE],
            [Plain("run") EXCEPT !.sigign = TRUE]}

Loose == {Plain("run"), Plain("lock"), Plain("trans"),
          [Plain("unlock") EXCEPT !.nocheck = TRUE],
          [Plain("unlock") EXCEPT !.enoent_ok = TRUE],
          [Plain("run") EXCEPT !.enoent_ok = TRUE, !.fail_ok = TRUE]}

MCOptions == [s \in MCSessions |-> IF s = "alice" THEN Careful ELSE Loose]

\* Nobody skips the key check by --no-check-keys.
CheckedOptions ==
    [s \in MCSessions |->
        {Plain("lock"), [Plain("unlock") EXCEPT !.enoent_ok = TRUE]}]

\* One session, one command.
RunOptions == [s \in MCSessions |-> {Plain("run")}]
=============================================================================
