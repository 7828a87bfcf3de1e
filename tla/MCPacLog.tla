------------------------------ MODULE MCPacLog ------------------------------
(***************************************************************************)
(* Small logs and filters for PacLog.                                      *)
(***************************************************************************)
EXTENDS PacLog

Line(kind, min, sec, caller, what) ==
    [kind |-> kind, min |-> min, sec |-> sec, caller |-> caller, what |-> what]
Says(op) == [op |-> op, pkg |-> None, new |-> None]
Does(op, pkg, new) == [op |-> op, pkg |-> pkg, new |-> new]

Rest == Line("none", 0, 0, None, Says("text"))

MCCallers == {None, "ALPM", "PACMAN"}
MCWhats == [op : {"text", "running", "warning"}, pkg : {None}, new : {None}] \cup
           [op : {"install", "upgrade", "remove", "reinstall"}, pkg : {"a", "b"}, new : {None, 1, 2}]

\* Entries with seconds, with lines that continue them.
IsoPieces ==
    {Line("iso", 1, 0, "ALPM", Does("install", "a", 1)),
     Line("iso", 1, 30, "ALPM", Does("upgrade", "a", 2)),
     Line("iso", 2, 0, "ALPM", Does("remove", "a", None)),
     Line("iso", 2, 30, "PACMAN", Says("running")),
     Line("iso", 2, 30, None, Says("warning")),
     Line("iso", 3, 0, "ALPM", Does("install", "b", 1)),
     Line("broken", 3, 30, None, Says("text")), Rest}
OldPieces ==
    {Line("old", 1, 0, None, Does("install", "a", 1)),
     Line("old", 2, 0, "ALPM", Does("reinstall", "b", 1)),
     Line("old", 2, 0, None, Says("warning")), Rest}

\* Logs in one format, or in the old one and then in the new one.
MCLogs == BoundedSeq(IsoPieces, 3) \cup
    {o \o i : o \in BoundedSeq(OldPieces, 2), i \in BoundedSeq(IsoPieces, 2)}

\* They are what the theorems of LogProofs ask for.
ASSUME MCLogsAssumption == \A l \in MCLogs : OneFormat(l)

\* Logs in which an old timestamp follows one with seconds.
MixedLogs ==
    {<<a, b, c>> : a \in IsoPieces \ {Rest}, b \in IsoPieces, c \in OldPieces}

F(f, x) == [NoFilter EXCEPT ![f] = x]
MCFilters ==
    {NoFilter, F("after", 2), F("caller", {"ALPM"}), F("actions", {"install"}),
     [F("actions", {"all"}) EXCEPT !.warnings = TRUE], F("commandline", TRUE),
     [F("before", 1) EXCEPT !.pkgs = {"b"}]}
=============================================================================
