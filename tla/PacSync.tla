------------------------------- MODULE PacSync -------------------------------
(***************************************************************************)
(* pacsync: updates databases.  libalpm downloads them at once and tells   *)
(* the program of each, which shows it; a server that fails is replaced by *)
(* the next, which begins anew or where the first one stopped.             *)
(***************************************************************************)
EXTENDS ToolState, Download

CONSTANTS
    Size,           \* of each file
    MaxRetries      \* servers but the first

ASSUME SizesAssumption == Size \in Nat /\ MaxRetries \in Nat

SyncOptions ==
    [set |-> [force |-> <<"force", TRUE>>, updated |-> <<"updated", TRUE>>],
     count |-> NoOptions, assign |-> NoOptions, add |-> [repo |-> "repos"]]

SyncDefaults == [force |-> FALSE, updated |-> FALSE, repos |-> << >>]

\* The last lines of main: with --updated it is a failure that nothing was updated.
SyncStatus(status, updated, wanted) == IF status = 0 /\ wanted /\ ~updated THEN 1 ELSE status

SyncSetup ==
    LET parsed == Parse(SyncOptions, SyncDefaults) IN
    Setup("pacsync", parsed, "targets", {1, SyncStatus(0, FALSE, parsed.updated)})

\* A download in libalpm: of what is kept from an earlier server and what this one sent.
NewDownload(name) ==
    [file |-> name, stage |-> "waiting", kept |-> 0, got |-> 0, retries |-> 0,
     fresh |-> TRUE, result |-> 0]

SyncTargets ==
    /\ At("pacsync", "targets")
    /\ LET targets == IF o.repos = << >> THEN sys.dbs ELSE o.repos IN
       IF sys.dbs = << >> \/ ~(ToSet(targets) \subseteq ToSet(sys.dbs))
       THEN Exit(1) /\ UNCHANGED acc
       ELSE /\ acc' = [context |-> NewContext,
                       lib |-> [i \in DOMAIN targets |-> NewDownload(targets[i])]]
            /\ Goto("update") /\ UNCHANGED ret
    /\ Stays /\ UNCHANGED <<todo, out>>

-----------------------------------------------------------------------------
\* An event of alpm_db_update for the i-th download: what it is to the library, what the
\* callback makes of it.
Event(i, download, active, completed) ==
    /\ \E tick \in Ticks :
         acc' = [context |-> AfterEvent(acc.context, active, completed, tick),
                 lib |-> [acc.lib EXCEPT ![i] = download]]
    /\ Stays /\ UNCHANGED <<pc, todo, ret>>

Shown == acc.context.active

DownloadInit(i) ==
    LET d == acc.lib[i] IN
    /\ d.stage = "waiting"
    /\ Event(i, [d EXCEPT !.stage = "active"], OnInit(Shown, d.file, d.file \in sys.optional), FALSE)
    /\ UNCHANGED out

\* The total is 0 if the server does not tell it.
DownloadProgress(i) ==
    LET d == acc.lib[i] IN
    /\ d.stage = "active"
    /\ \E got \in (d.got + 1)..(Size - d.kept) :
         Event(i, [d EXCEPT !.got = got, !.fresh = TRUE],
               OnProgress(Shown, d.file, got, IF d.file \in sys.sized THEN Size ELSE 0), FALSE)
    /\ UNCHANGED out

DownloadRetry(i) ==
    LET d == acc.lib[i]
        kept == IF sys.resumes THEN d.kept + d.got ELSE 0
    IN
    /\ d.stage = "active" /\ d.retries < MaxRetries
    /\ Event(i, [d EXCEPT !.kept = kept, !.got = 0, !.retries = d.retries + 1, !.fresh = FALSE],
             OnRetry(Shown, d.file, sys.resumes), FALSE)
    /\ UNCHANGED out

\* Done, up to date, or failed; a file that may be missing fails silently.
DownloadCompleted(i) ==
    LET d == acc.lib[i] IN
    /\ d.stage = "active"
    /\ \E result \in {0, 1, -1} :
         /\ result = 0 => d.kept + d.got = Size
         /\ result = 1 => d.kept + d.got = 0
         /\ Event(i, [d EXCEPT !.stage = "completed", !.result = result],
                  OnCompleted(Shown, d.file), TRUE)
         /\ out' = IF result = -1 /\ Shown[FirstWith(Shown, d.file)].optional THEN out
                   ELSE Append(out, <<d.file, result>>)

DownloadEvent ==
    /\ At("pacsync", "update")
    /\ \E i \in DOMAIN acc.lib :
         DownloadInit(i) \/ DownloadProgress(i) \/ DownloadRetry(i) \/ DownloadCompleted(i)

\* alpm_db_update returns: -1 if it cannot lock or a file is missing; that all were up to
\* date is not told apart from an update.
SyncEnd ==
    /\ At("pacsync", "update")
    /\ LET all == {acc.lib[i] : i \in DOMAIN acc.lib}
           over == \A d \in all : d.stage = "completed"
           missing == \E d \in all : d.result = -1 /\ d.file \notin sys.optional
       IN  \/ /\ over /\ ~missing /\ Exit(SyncStatus(0, TRUE, o.updated))
           \/ /\ (over /\ missing) \/ \A d \in all : d.stage = "waiting"
              /\ Exit(SyncStatus(1, FALSE, o.updated))
    /\ Stays /\ UNCHANGED <<todo, acc, out>>

SyncStep == SyncSetup \/ SyncTargets \/ DownloadEvent \/ SyncEnd

-----------------------------------------------------------------------------
\* The callback shows the downloads that have begun and not ended, one of them in a line,
\* with the bytes that file has by then.  Left out is what pu_ui_cb_download does not
\* show: between a retry and the next progress, after a second resumed retry (the sum
\* forgets what the first server sent), while the total is unknown, and two downloads of
\* the same name.
DownloadsAddUp ==
    At("pacsync", "update") =>
      LET line == acc.context.line
          names == {acc.lib[i].file : i \in DOMAIN acc.lib}
          running == {i \in DOMAIN acc.lib : acc.lib[i].stage = "active"}
      IN  /\ Len(Shown) = Cardinality(running)
          /\ \A name \in names : Cardinality({i \in running : acc.lib[i].file = name})
                               = Cardinality({i \in DOMAIN Shown : Shown[i].file = name})
          /\ acc.context.index = 0 \/ acc.context.index < Len(Shown)
          /\ line # NoLine => line.n \in 1..line.of /\ Shown[line.n].file = line.file
          /\ Cardinality(names) = Len(acc.lib) =>
               \A i \in running :
                 LET d == acc.lib[i] IN
                 line.file = d.file /\ line.total # 0 /\ d.fresh /\ (d.retries < 2 \/ ~sys.resumes) =>
                   line.downloaded = d.kept + d.got
=============================================================================
