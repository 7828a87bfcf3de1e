------------------------------- MODULE PacLog -------------------------------
(***************************************************************************)
(* paclog: entries that match any of the filters, alone or in a pipe of    *)
(* two, and the list of packages that are installed according to the log.  *)
(***************************************************************************)
EXTENDS LogReader, Lists

CONSTANTS
    Logs,       \* the log files
    Filters     \* the filters of a command line

ASSUME LogsAssumption == \A l \in Logs : l \in Seq(Piece)

VARIABLES
    log,        \* the file
    mode,       \* "filter" or "pkglist"
    filters,    \* the filters of the first and the second paclog
    stage,      \* which of the two runs
    read,       \* history: the entries the first one read
    out         \* what it prints: entries, or packages with versions

vars == <<logVars, log, mode, filters, stage, read, out>>

NoFilter == [after |-> None, before |-> None, caller |-> {}, actions |-> {}, pkgs |-> {},
             warnings |-> FALSE, commandline |-> FALSE]

Init ==
    /\ log \in Logs
    /\ mode \in {"filter", "pkglist"}
    /\ filters \in [{1, 2} -> IF mode = "filter" THEN Filters ELSE {NoFilter}]
    /\ stage = 1 /\ read = << >> /\ out = << >>
    /\ Open(log)

-----------------------------------------------------------------------------
Operations == {"install", "reinstall", "upgrade", "downgrade", "remove"}

\* pu_log_action_parse: the message is one line, and says what was done to what.
IsAction(e) == Len(e.message) = 1 /\ e.message[1].what.op \in Operations
Action(e) == e.message[1].what
Begins(e, words) == e.message[1].what.op \in words

\* The time of an entry, in seconds.
Time(e) == 60 * e.min + e.sec

Matches(f, e) ==
    \/ f = NoFilter
    \/ f.after # None /\ Time(e) >= 60 * f.after
    \/ f.before # None /\ Time(e) <= 60 * f.before
    \/ e.caller \in f.caller
    \/ f.commandline /\ Begins(e, {"running"}) /\ e.caller \notin {"ALPM", "ALPM-SCRIPTLET"}
    \/ f.warnings /\ Begins(e, {"error", "warning", "note"})
    \/ IsAction(e) /\ (Action(e).op \in f.actions \/ "all" \in f.actions)
    \/ IsAction(e) /\ Action(e).pkg \in f.pkgs

\* Mutant: every entry is printed with the timestamp of the old format.
PrintedAsOld(e) ==
    <<[Head(e.message) EXCEPT !.kind = "old", !.min = e.min, !.caller = e.caller]>>
      \o Tail(e.message)

\* pu_log_fprint_entry: seconds are printed with an iso timestamp only.
Printed(e) ==
    <<[Head(e.message) EXCEPT !.kind = IF e.iso THEN "iso" ELSE "old", !.min = e.min,
                              !.sec = IF e.iso THEN e.sec ELSE 0, !.caller = e.caller]>>
      \o Tail(e.message)
Stream(es) == FlattenSeq([i \in DOMAIN es |-> Printed(es[i])])

\* Mutant: a package that was removed is looked for further back.
SeesInstalled(a) == a.op # "remove"

Sees(a) == TRUE

Look(acc, e) ==
    IF ~IsAction(e) \/ Action(e).pkg \in acc.seen THEN acc
    ELSE [seen |-> IF Sees(Action(e)) THEN acc.seen \cup {Action(e).pkg} ELSE acc.seen,
          list |-> IF Action(e).op = "remove" THEN acc.list
                   ELSE Append(acc.list, <<Action(e).pkg, Action(e).new>>)]

\* From the newest entry backwards; a package counts where it is seen first.
Installed ==
    LET n == Len(entries)
        after[k \in 0..n] == IF k = 0 THEN [seen |-> {}, list |-> << >>]
                             ELSE Look(after[k - 1], entries[n + 1 - k])
    IN  after[n].list

-----------------------------------------------------------------------------
Read == ReadStep /\ UNCHANGED <<log, mode, filters, stage, read, out>>

PrintMatches ==
    /\ ~reading /\ mode = "filter" /\ stage \in {1, 2}
    /\ out' = Select(entries, {e \in ToSet(entries) : Matches(filters[stage], e)})
    /\ stage' = stage + 1
    /\ IF stage = 1 THEN read' = entries /\ Reopen(Stream(out')) ELSE UNCHANGED <<logVars, read>>
    /\ UNCHANGED <<log, mode, filters>>

PrintInstalled ==
    /\ ~reading /\ mode = "pkglist" /\ stage = 1
    /\ out' = Installed
    /\ stage' = 3
    /\ UNCHANGED <<logVars, log, mode, filters, read>>

Finished == stage = 3 /\ UNCHANGED vars

Next == Read \/ PrintMatches \/ PrintInstalled \/ Finished

Spec == Init /\ [][Next]_vars

-----------------------------------------------------------------------------
\* The entries of a log: each begins with a timestamp and goes on to the next one.
\* A log that does not begin with one has none.
Starts(s) == Select([i \in DOMAIN s |-> i], {i \in DOMAIN s : Stamped(s[i])})
Until(s, at, j) == IF j = Len(at) THEN Len(s) ELSE at[j + 1] - 1
EntryAt(s, at, j) ==
    [Begin(s[at[j]], s[at[j]].sec) EXCEPT !.message = @ \o SubSeq(s, at[j] + 1, Until(s, at, j))]
EntriesOf(s) ==
    LET at == Starts(s)
    IN  IF s = << >> \/ ~Stamped(s[1]) THEN << >>
        ELSE [j \in DOMAIN at |-> EntryAt(s, at, j)]

\* The reader, which has one buffer for the line it read ahead and the one it reads,
\* puts every piece of the log into exactly one entry, in order, long lines and
\* messages of several lines included, and gives it the time and the program of the
\* line it begins with.
EntriesAreComplete ==
    /\ IsPrefix(entries, EntriesOf(input))
    /\ ~reading => entries = EntriesOf(input)

\* doc/paclog.pod: filters that are connected by a pipe display the intersection of
\* what they display alone.  So what the first paclog prints must be read by the
\* second as the entries it was, with the same time, program and message, and none of
\* them may depend on entries that were left out.
PipeIsIntersection ==
    stage = 3 /\ mode = "filter" =>
      Stream(out) = Stream(Select(read, {e \in ToSet(read) :
                                           \A n \in {1, 2} : Matches(filters[n], e)}))

\* --pkglist prints what is left when the log is replayed from its beginning: each
\* package whose last action is no removal, once and with the version of that action.
PkgListIsReplay ==
    stage = 3 /\ mode = "pkglist" =>
      LET es == EntriesOf(log)
          Of(pkg) == {i \in DOMAIN es : IsAction(es[i]) /\ Action(es[i]).pkg = pkg}
          pkgs == {Action(es[i]).pkg : i \in {j \in DOMAIN es : IsAction(es[j])}}
          Newest(pkg) == Action(es[Max(Of(pkg))])
      IN  /\ ToSet(out) = {<<p, Newest(p).new>> : p \in {q \in pkgs : Newest(q).op # "remove"}}
          /\ IsInjective(out)
=============================================================================
