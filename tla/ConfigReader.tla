---------------------------- MODULE ConfigReader ----------------------------
(***************************************************************************)
(* Loading a configuration: pu_ui_config_load_sysroot around the loop over *)
(* pu_config_reader_next.  The reader keeps one file open for each Include *)
(* it is in; section and repository are shared by all of them.  A step is  *)
(* one call of pu_config_reader_next, or one of its calls of itself.       *)
(*                                                                         *)
(* A file is a sequence of lines.  A line has a key and a value; the value *)
(* is None without an equals sign.  The key Header begins a section, Blank *)
(* is a line without content, and the value of an Include is what the      *)
(* pattern expands to.                                                     *)
(***************************************************************************)
EXTENDS ConfigValues

CONSTANTS
    Texts,          \* functions from the files that can be opened to their lines
    Presets,        \* configurations as the command line leaves them
    Sysroots,       \* << >> or the path of the sysroot
    Main,           \* the file that is loaded
    MaxOpen         \* files a process can have open at once

ASSUME MaxOpenPositive == MaxOpen \in Nat \ {0}

\* The values a line can have.  A pattern that nothing matches stands for itself, so that
\* an Include names at least one file.  Servers and signature levels have a value: in the
\* section of a repository the code counts on it.
IsLine(l) ==
    /\ l.key = "Include" => IsList(l.value) /\ l.value # << >>
    /\ l.key = "Header" => l.value # None
    /\ l.key \in ServerLists \cup {"SigLevel"} => l.value # None
    /\ l.key \in FirstWins \cup ServerLists \cup Lists \cup Levels /\ l.value # None =>
         IsList(l.value)
    /\ l.key \in RootedLists /\ l.value # None => \A p \in ToSet(l.value) : IsList(p)
    /\ l.key \in Levels /\ l.value # None =>
         \A w \in ToSet(l.value) : w.parts \subseteq {"Package", "Database"}

\* Files are lists of lines.
IsFile(lines) == IsList(lines) /\ \A l \in ToSet(lines) : IsLine(l)

ASSUME TextsAssumption == \A t \in Texts : \A f \in DOMAIN t : IsFile(t[f])

\* The command line sets paths, lists and flags, no repositories and no SigLevel.
IsPreset(c) ==
    /\ c.repos = << >> /\ c.level["SigLevel"].mask = {}
    /\ \A k \in FirstWins : c.str[k] # None => IsList(c.str[k])
    /\ \A k \in Lists : IsList(c.list[k])
    /\ \A k \in RootedLists : \A p \in ToSet(c.list[k]) : IsList(p)

ASSUME PresetsAssumption == \A c \in Presets : IsPreset(c)

ASSUME SysrootsAssumption == \A s \in Sysroots : IsList(s)

VARIABLES
    text, sysroot, dest,            \* the environment and the caller's configuration
    reader, parents, section, repo, config, status, line,     \* pu_config_reader_t
    pc,
    taken,      \* history: the lines that were read, as <<file, number>>
    warned      \* history: the places of the warnings

env == <<text, sysroot>>
readerVars == <<reader, parents, section, repo, config, status, line>>
vars == <<env, dest, readerVars, pc, taken, warned>>

\* repo is the place in config.repos, 0 for NULL.  reader.includes are the files
\* that are still to be included in its place once its current child is read.
Opened(file) == [file |-> file, lineno |-> 0, includes |-> << >>]

Init ==
    /\ text \in Texts
    /\ sysroot \in Sysroots
    /\ dest \in Presets
    /\ reader = Opened(Main) /\ parents = << >>
    /\ section = None /\ repo = 0
    /\ config = NewConfig
    /\ status = "ok" /\ line = 0
    /\ pc = IF Main \in DOMAIN text THEN "reading" ELSE "failed"
    /\ taken = << >> /\ warned = << >>

\* Mutant: there is no limit.
CanOpenMore(file, above) == file \in DOMAIN text

CanOpen(file, above) == file \in DOMAIN text /\ Len(above) < MaxOpen

-----------------------------------------------------------------------------
(***************************************************************************)
(* mini_next.                                                              *)
(***************************************************************************)
Ahead == {n \in DOMAIN text[reader.file] : n > reader.lineno
                                           /\ text[reader.file][n].key # "Blank"}
AtEof == Ahead = {}
Number == CHOOSE n \in Ahead : \A m \in Ahead : n <= m
Line == text[reader.file][Number]

Reads == pc = "reading" /\ ~AtEof

\* Mutant: lines are counted as they are returned, whatever file they are in.
CountedLine == line + 1

CurrentLine == Number

\* The line becomes the current one.
Advance ==
    /\ reader' = [reader EXCEPT !.lineno = Number]
    /\ line' = CurrentLine

Takes == taken' = Append(taken, <<reader.file, Number>>)

\* reader->status = s; anything but a warning ends the loop.
Returns(s) ==
    /\ status' = s
    /\ pc' = IF s \in {"ok", "unknown_option"} THEN "reading" ELSE "failed"

-----------------------------------------------------------------------------
(***************************************************************************)
(* pu_config_reader_next.                                                  *)
(***************************************************************************)
Section ==
    /\ Reads /\ Line.key = "Header"
    /\ Advance /\ Takes
    /\ section' = Line.value
    /\ IF Line.value = "options"
         THEN repo' = 0 /\ UNCHANGED config
         ELSE /\ config' = [config EXCEPT !.repos = Append(@, NewRepo(Line.value))]
              /\ repo' = Len(config'.repos)
    /\ Returns("ok")
    /\ UNCHANGED <<env, dest, parents, warned>>

\* Mutant: a setting in an included file counts for [options] until the file has a
\* section of its own.
TargetOfFile == IF Len(parents) > 0 /\ section = None THEN "options" ELSE section

Target == section

Assigned == IF repo # 0 THEN [config EXCEPT !.repos[repo] = SetInRepo(@, Line)]
                        ELSE SetInOptions(config, Line)

Setting ==
    /\ Reads /\ Line.key \notin {"Header", "Include"}
    /\ Advance /\ Takes
    /\ IF KnownIn(Target, Line)
         THEN /\ config' = Assigned
              /\ Returns(IF Valid(Line.key, Line.value) THEN "ok" ELSE "invalid_value")
              /\ UNCHANGED warned
         ELSE /\ Returns("unknown_option")
              /\ warned' = Append(warned, <<reader.file, line'>>)
              /\ UNCHANGED config
    /\ UNCHANGED <<env, dest, parents, section, repo>>

\* The first of the files is opened and the reader goes on in it; the others wait
\* in the parent.  The reader's line is 0 until the file's first line is read.  A
\* pattern that nothing matches stands for itself, so there is always a first.
Include ==
    /\ Reads /\ Line.key = "Include"
    /\ CanOpen(Head(Line.value), <<reader>> \o parents)
    /\ parents' = <<[reader EXCEPT !.lineno = Number, !.includes = Tail(Line.value)]>>
                  \o parents
    /\ reader' = Opened(Head(Line.value))
    /\ line' = 0
    /\ Returns("ok")
    /\ UNCHANGED <<env, dest, section, repo, config, taken, warned>>

\* The pattern cannot be expanded, or the first file cannot be opened.
IncludeFails ==
    /\ Reads /\ Line.key = "Include"
    /\ Advance
    /\ Returns("error")
    /\ UNCHANGED <<env, dest, parents, section, repo, config, taken, warned>>

\* The line is longer than the buffer, or the file cannot be read.
ReadFails ==
    /\ pc = "reading"
    /\ Returns("error")
    /\ UNCHANGED <<env, dest, reader, parents, section, repo, config, line, taken, warned>>

\* Mutant: the file that is switched to is not taken off the list.
RestRepeated(includes) == includes

Rest(includes) == Tail(includes)

\* The end of an included file with more to include: the next one takes its place.
NextInclude ==
    /\ pc = "reading" /\ AtEof
    /\ parents # << >> /\ Head(parents).includes # << >>
    /\ LET file == Head(Head(parents).includes) IN
         /\ parents' = [parents EXCEPT ![1].includes = Rest(@)]
         /\ reader' = Opened(file)
         /\ Returns(IF CanOpen(file, parents) THEN "ok" ELSE "error")
    /\ UNCHANGED <<env, dest, section, repo, config, line, taken, warned>>

\* Mutant: the parent's own position is not restored.
ResumedAtStart == [Head(parents) EXCEPT !.lineno = 0]

Resumed == Head(parents)

\* The end of the last one: back to the parent.  Section and repository stay.
BackToParent ==
    /\ pc = "reading" /\ AtEof
    /\ parents # << >> /\ Head(parents).includes = << >>
    /\ reader' = Resumed
    /\ parents' = Tail(parents)
    /\ Returns("ok")
    /\ UNCHANGED <<env, dest, section, repo, config, line, taken, warned>>

Eof ==
    /\ pc = "reading" /\ AtEof /\ parents = << >>
    /\ pc' = "read" /\ status' = "ok"
    /\ UNCHANGED <<env, dest, reader, parents, section, repo, config, line, taken, warned>>

-----------------------------------------------------------------------------
(***************************************************************************)
(* The rest of pu_ui_config_load_sysroot.                                  *)
(***************************************************************************)
MergeRead ==
    /\ pc = "read"
    /\ pc' = "merged"
    /\ dest' = Merge(dest, config)
    /\ UNCHANGED <<env, readerVars, taken, warned>>

\* A configuration that cannot be resolved is not used.
ResolveRead ==
    /\ pc = "merged"
    /\ IF Resolvable(dest)
         THEN dest' = PrependSysroot(sysroot, Resolve(dest)) /\ pc' = "loaded"
         ELSE pc' = "failed" /\ UNCHANGED dest
    /\ UNCHANGED <<env, readerVars, taken, warned>>

Finished == pc \in {"loaded", "failed"} /\ UNCHANGED vars

Next ==
    \/ Section \/ Setting \/ Include \/ IncludeFails \/ ReadFails
    \/ NextInclude \/ BackToParent \/ Eof
    \/ MergeRead \/ ResolveRead
    \/ Finished

Spec == Init /\ [][Next]_vars

\* The program is not stopped.
FairSpec == Spec /\ WF_vars(Next)

-----------------------------------------------------------------------------
Frames(files) == [file : files, lineno : Nat, includes : Seq(files)]

\* Types; and while the file is read, the reader is in a file that is open.
TypeOK ==
    LET files == DOMAIN text \cup {reader.file}
                   \cup UNION {ToSet(parents[i].includes) : i \in DOMAIN parents} IN
    /\ pc \in {"reading", "read", "merged", "loaded", "failed"}
    /\ status \in {"ok", "unknown_option", "invalid_value", "error"}
    /\ reader \in Frames(files) /\ parents \in Seq(Frames(files))
    /\ pc = "reading" => reader.file \in DOMAIN text /\ Len(parents) < MaxOpen
    /\ repo \in 0..Len(config.repos) /\ line \in Nat
    /\ repo # 0 => config.repos[repo].name = section
    /\ repo = 0 => section \in {None, "options"}
=============================================================================
