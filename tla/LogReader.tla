------------------------------ MODULE LogReader ------------------------------
(***************************************************************************)
(* pu_log_reader_next: the entries of a log.  The input is the sequence of *)
(* what fgets returns, a line or a part of one that does not fit into the  *)
(* buffer.  A piece of kind "old" begins with a timestamp without seconds, *)
(* one of kind "iso" with one that has them, one of kind "broken" with the *)
(* date and time of an iso timestamp but not its zone, which the parser    *)
(* reads before it gives up; "none" has no timestamp.                      *)
(***************************************************************************)
EXTENDS Integers, SequencesExt

CONSTANTS
    None,
    Callers,    \* the programs that write to the log, and None
    Whats       \* what a line can say

Piece == [kind : {"old", "iso", "broken", "none"}, min : Nat, sec : Nat,
          caller : Callers, what : Whats]
Entry == [min : Nat, sec : Nat, iso : BOOLEAN, caller : Callers, message : Seq(Piece)]

ASSUME NoneAssumption == None \in Callers /\ None \notin Entry

VARIABLES
    input, pos,     \* the stream, and how much of it was read
    next,           \* reader->_next: the last piece read begins the next entry
    nextSec,        \* reader->_next_ts.tm.tm_sec
    entry, entries, \* the entry that is put together, and those returned
    reading

logVars == <<input, pos, next, nextSec, entry, entries, reading>>

Open(stream) ==
    /\ input = stream /\ pos = 0
    /\ next = FALSE /\ nextSec = 0
    /\ entry = None /\ entries = << >>
    /\ reading = TRUE

\* The same for a second reader.
Reopen(stream) ==
    /\ input' = stream /\ pos' = 0
    /\ next' = FALSE /\ nextSec' = 0
    /\ entry' = None /\ entries' = << >>
    /\ reading' = TRUE

Stamped(piece) == piece.kind \in {"old", "iso"}

\* tm_sec after _pu_log_parse_timestamp: only %S writes it.
SecondsAfter(piece, sec) == IF piece.kind \in {"iso", "broken"} THEN piece.sec ELSE sec

\* The rest of the first piece is the beginning of the message.
Message(piece) == [piece EXCEPT !.kind = "none", !.min = 0, !.sec = 0, !.caller = None]

Begin(piece, sec) ==
    [min |-> piece.min, sec |-> sec, iso |-> piece.kind = "iso", caller |-> piece.caller,
     message |-> <<Message(piece)>>]

-----------------------------------------------------------------------------
AtEnd == pos = Len(input)
Ahead == input[pos + 1]

\* The first call, which has no line read ahead.
FirstEntry ==
    /\ reading /\ entry = None /\ ~next /\ ~AtEnd /\ Stamped(Ahead)
    /\ entry' = Begin(Ahead, SecondsAfter(Ahead, 0))
    /\ pos' = pos + 1
    /\ UNCHANGED <<input, next, nextSec, entries, reading>>

\* The log does not begin with an entry, or it is at its end.
Stop ==
    /\ reading /\ entry = None /\ ~next
    /\ ~AtEnd => ~Stamped(Ahead)
    /\ reading' = FALSE
    /\ UNCHANGED <<input, pos, next, nextSec, entry, entries>>

\* A further call, with the line that ended the last one.
NextEntry ==
    /\ reading /\ entry = None /\ next
    /\ entry' = Begin(input[pos], nextSec)
    /\ UNCHANGED <<input, pos, next, nextSec, entries, reading>>

\* Mutant: a piece without a timestamp is only kept while the message is short.
ContinuedOnce(message, piece) == IF Len(message) < 2 THEN Append(message, piece) ELSE message

Continued(message, piece) == Append(message, piece)

Continue ==
    /\ reading /\ entry # None /\ ~AtEnd /\ ~Stamped(Ahead)
    /\ entry' = [entry EXCEPT !.message = Continued(@, Ahead)]
    /\ nextSec' = SecondsAfter(Ahead, nextSec)
    /\ pos' = pos + 1
    /\ UNCHANGED <<input, next, entries, reading>>

ReadAhead == ~AtEnd

Return ==
    /\ reading /\ entry # None
    /\ ~AtEnd => Stamped(Ahead)
    /\ next' = ReadAhead
    /\ IF AtEnd THEN UNCHANGED <<pos, nextSec>>
                ELSE pos' = pos + 1 /\ nextSec' = SecondsAfter(Ahead, nextSec)
    /\ entries' = Append(entries, entry) /\ entry' = None
    /\ UNCHANGED <<input, reading>>

ReadStep == FirstEntry \/ Stop \/ NextEntry \/ Continue \/ Return

-----------------------------------------------------------------------------
\* pacman changed the format of its timestamps once: an old one, which has no seconds,
\* comes before all that have them.  The reader keeps the seconds of an earlier line
\* for an old timestamp that follows it, as the run log_seconds shows.
OneFormat(s) ==
    \A i \in DOMAIN s : s[i].kind = "old" =>
      s[i].sec = 0 /\ \A j \in 1..(i - 1) : s[j].kind \notin {"iso", "broken"}
=============================================================================
