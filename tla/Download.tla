------------------------------ MODULE Download ------------------------------
(***************************************************************************)
(* pu_ui_cb_download (lib/pacutils/ui.c): libalpm's events of several      *)
(* downloads at once become one line for one of them, each in its turn.    *)
(***************************************************************************)
EXTENDS Integers, Sequences, SequencesExt

NoLine == [file |-> "", n |-> 0, of |-> 0, downloaded |-> 0, total |-> 0]

\* pu_ui_ctx_download_t, and the line the last event printed.
NewContext == [active |-> << >>, index |-> 0, line |-> NoLine]

NewStatus(file, optional) ==
    [file |-> file, optional |-> optional, initial |-> 0, downloaded |-> 0, total |-> 0]

\* The first with the name of the file.
FirstWith(active, file) ==
    CHOOSE i \in DOMAIN active :
      active[i].file = file /\ \A j \in 1..(i - 1) : active[j].file # file

OnInit(active, file, optional) == Append(active, NewStatus(file, optional))

OnProgress(active, file, downloaded, total) ==
    [active EXCEPT ![FirstWith(active, file)].downloaded = downloaded,
                   ![FirstWith(active, file)].total = total]

\* Mutant: what was downloaded before the retry is forgotten.
OnRetryAnew(active, file, resume) ==
    [active EXCEPT ![FirstWith(active, file)].downloaded = 0]

\* With resume, what was downloaded is what the rest comes after.
OnRetry(active, file, resume) ==
    IF resume
    THEN [active EXCEPT ![FirstWith(active, file)].initial =
                            active[FirstWith(active, file)].downloaded]
    ELSE [active EXCEPT ![FirstWith(active, file)].downloaded = 0]

OnCompleted(active, file) == RemoveAt(active, FirstWith(active, file))

\* The time since the last line: too short for a new one, enough for one of the same
\* download, or enough to go on to the next.
Ticks == {"none", "same", "next"}

Line(s, n, of) ==
    [file |-> s.file, n |-> n, of |-> of, total |-> s.total,
     downloaded |-> s.downloaded + (IF s.total # 0 THEN s.initial ELSE 0)]

\* The end of the callback, whatever the event was.
AfterEvent(c, active, completed, tick) ==
    LET advances == completed \/ tick = "next"
        shows == advances \/ tick = "same"
        next == c.index + (IF advances THEN 1 ELSE 0)
        index == IF ~shows THEN next ELSE IF next >= Len(active) THEN 0 ELSE next
    IN  [active |-> active, index |-> index,
         line |-> IF shows /\ active # << >>
                  THEN Line(active[index + 1], index + 1, Len(active)) ELSE NoLine]
=============================================================================
