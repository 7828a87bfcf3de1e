--------------------------- MODULE ConfigMeaning ----------------------------
(***************************************************************************)
(* What ConfigReader promises: the text with the included files in place,  *)
(* what that text means, and what the programs are given in the end.       *)
(***************************************************************************)
EXTENDS ConfigReader

\* Lines that were read, and whether all of them could be; what follows counts only then.
Nothing == [lines |-> << >>, whole |-> FALSE]
Whole(lines) == [lines |-> lines, whole |-> TRUE]
Then(a, b) == IF a.whole THEN [lines |-> a.lines \o b.lines, whole |-> b.whole] ELSE a

\* The texts of several files, if place has the text of each that can be opened.
FileText(f, place) == IF f \in DOMAIN place THEN place[f] ELSE Nothing
FilesText(files, place) ==
    LET last[j \in 0..Len(files)] ==
          IF j = 0 THEN Whole(<< >>)
          ELSE Then(FileText(files[Len(files) + 1 - j], place), last[j - 1])
    IN  last[Len(files)]

\* What line n of the file f of the files t stands for, and the lines after it.
LineText(t, f, n, place) ==
    CASE t[f][n].key = "Blank" -> Whole(<< >>)
      [] t[f][n].key = "Include" -> FilesText(t[f][n].value, place)
      [] OTHER -> Whole(<<<<f, n>>>>)
TextAfter(t, f, n, place) ==
    LET last[j \in 0..(Len(t[f]) - n)] ==
          IF j = 0 THEN Whole(<< >>)
          ELSE Then(LineText(t, f, Len(t[f]) + 1 - j, place), last[j - 1])
    IN  last[Len(t[f]) - n]

\* The text of each file with the included files in the place of their Include, as far
\* as they can be opened when d files may be open.
InPlace(t) ==
    LET place[d \in 0..MaxOpen] ==
          [f \in DOMAIN t |-> IF d = 0 THEN Nothing ELSE TextAfter(t, f, 0, place[d - 1])]
    IN  place
TextInPlace == FileText(Main, InPlace(text)[MaxOpen])

\* The reader returns the lines of the text with the includes in place, each once
\* and in order, and reaches the end only if all of them could be opened: nested
\* includes, several files of one Include, a file that ends in the middle of an
\* include and one that is missing change nothing about that.
ReadsInPlace ==
    pc \in {"read", "failed"} =>
      LET whole == TextInPlace IN
      /\ IsPrefix(taken, whole.lines)
      /\ pc = "read" => whole.whole /\ taken = whole.lines

-----------------------------------------------------------------------------
(***************************************************************************)
(* The meaning of the lines that were taken, without regard to files.      *)
(***************************************************************************)
TakenLine(i) == text[taken[i][1]][taken[i][2]]
Headers == {i \in DOMAIN taken : TakenLine(i).key = "Header"}
HeaderOf(i) == LET hs == {h \in Headers : h <= i} IN IF hs = {} THEN 0 ELSE Max(hs)
SectionOf(i) == IF HeaderOf(i) = 0 THEN None ELSE TakenLine(HeaderOf(i)).value

Known == {i \in DOMAIN taken \ Headers : KnownIn(SectionOf(i), TakenLine(i))}

InOrder(places) == Select([i \in DOMAIN taken |-> i], places)
ValuesAt(places) ==
    [j \in DOMAIN InOrder(places) |-> TakenLine(InOrder(places)[j]).value]

\* The values of the settings of k in [options], and in the section at h.
InOptions(k) ==
    ValuesAt({i \in Known : TakenLine(i).key = k /\ SectionOf(i) = "options"})
InSection(k, h) == ValuesAt({i \in Known : TakenLine(i).key = k /\ HeaderOf(i) = h})

RepoHeaders == InOrder({i \in Headers : TakenLine(i).value # "options"})

\* The words that say anything about a bit; the last of them decides.
Mentions(words, b) == {i \in DOMAIN words : b \in On(words[i]) \cup Off(words[i])}
Says(words, b) == b \in On(words[Max(Mentions(words, b))])
SigBits == {"Package", "Database"} \X {"check", "optional", "marginal", "unknown"}
Said(words) == {b \in SigBits : Mentions(words, b) # {}}

LevelIs(level, values) ==
    LET words == FlattenSeq(values) IN
    /\ level.mask = Said(words)
    /\ level.bits = IF values = << >> THEN {UseDefault}
                    ELSE {b \in Said(words) : Says(words, b)}

\* What was read of the options, and of the repositories.
OptionsMeanText ==
    /\ \A k \in FirstWins : config.str[k] =
         IF InOptions(k) = << >> THEN None ELSE Head(InOptions(k))
    /\ \A k \in LastWins : config.str[k] =
         IF InOptions(k) = << >> THEN None ELSE Last(InOptions(k))
    /\ \A k \in Lists : config.list[k] = FlattenSeq(InOptions(k))
    /\ \A k \in Flags : config.flag[k] = IF InOptions(k) = << >> THEN Unset ELSE 1
    /\ \A k \in Levels : LevelIs(config.level[k], InOptions(k))
RepoMeansText(r, h) ==
    /\ r.name = TakenLine(h).value
    /\ \A k \in ServerLists : r.server[k] = InSection(k, h)
    /\ LevelIs(r.level, InSection("SigLevel", h))
ReposMeanText ==
    /\ Len(config.repos) = Len(RepoHeaders)
    /\ \A r \in DOMAIN config.repos : RepoMeansText(config.repos[r], RepoHeaders[r])

\* What was read is what the lines mean when they are taken as one text: the
\* first RootDir counts and the last XferCommand, lists and servers are complete and
\* in order, the last word about a signature counts, and each server belongs to the
\* section whose header was the last one before it, in whichever file that was.
ConfigMeansText == pc = "read" => OptionsMeanText /\ ReposMeanText

\* Each line that means nothing in its section is warned about once, by the file and
\* the line it is in, also after the reader came back from an include; and the place
\* that is reported with an invalid value is that of the value.
PlacesAreTrue ==
    pc \in {"read", "failed"} =>
      LET unknown == InOrder(DOMAIN taken \ (Headers \cup Known)) IN
      /\ warned = [j \in DOMAIN unknown |-> taken[unknown[j]]]
      /\ status = "invalid_value" =>
           /\ <<reader.file, line>> = Last(taken)
           /\ ~Valid(TakenLine(Len(taken)).key, TakenLine(Len(taken)).value)

-----------------------------------------------------------------------------
(***************************************************************************)
(* What the programs are given.                                            *)
(***************************************************************************)
\* A repository checks what its own SigLevel says; on what that says nothing about,
\* what the one in [options] says; and if there is none, signatures are checked if
\* they are there.  Without a SigLevel of its own it uses libalpm's default.
SigLevelsInherit ==
    pc = "loaded" => \A r \in DOMAIN dest.repos :
      LET own == FlattenSeq(InSection("SigLevel", RepoHeaders[r]))
          global == FlattenSeq(InOptions("SigLevel"))
          Checks(b) ==
            CASE b \in Said(own) -> Says(own, b)
              [] b \notin Said(own) /\ Said(global) = {} -> b[2] \in {"check", "optional"}
              [] OTHER -> b \in Said(global) /\ Says(global, b)
      IN  dest.repos[r].level.bits =
            IF Said(own) = {} THEN {UseDefault} ELSE {b \in SigBits : Checks(b)}

Below1(path) == IsPrefix(sysroot, path)
                /\ ~IsPrefix(sysroot, SubSeq(path, Len(sysroot) + 1, Len(path)))

\* doc/pacutils-sysroot.pod: the sysroot is prepended to all paths, and once, also to
\* those of the command line, the defaults, and the servers that are directories.
AllUnderSysroot ==
    pc = "loaded" /\ sysroot # << >> =>
      /\ \A k \in FirstWins : Below1(dest.str[k])
      /\ \A k \in RootedLists : \A p \in ToSet(dest.list[k]) : Below1(p)
      /\ \A r \in DOMAIN dest.repos, k \in ServerLists :
           \A s \in ToSet(dest.repos[r].server[k]) :
             s # << >> /\ Head(s) = "file://" => Below1(Tail(s))

\* The first part of the sysroot is in no path that is written, set or a default, and in
\* no name that is put into one.  Otherwise a path below the sysroot twice may be right.
SysrootApart ==
    \A s \in Sysroots \ {<< >>} :
      LET Apart(path) == Head(s) \notin ToSet(path) IN
      /\ Head(s) \notin {None, Machine}
      /\ Apart(RootDefault) /\ \A k \in DOMAIN Default : Apart(Default[k])
      /\ \A c \in Presets :
           /\ \A k \in FirstWins : c.str[k] # None => Apart(c.str[k])
           /\ \A k \in RootedLists : \A p \in ToSet(c.list[k]) : Apart(p)
           /\ Apart(c.list["Architecture"])
      /\ \A t \in Texts : \A f \in DOMAIN t : \A l \in ToSet(t[f]) :
           /\ l.key = "Header" => l.value # Head(s)
           /\ l.key \in FirstWins \cup ServerLists \cup {"Architecture"}
                /\ l.value # None => Apart(l.value)
           /\ l.key \in RootedLists /\ l.value # None => \A p \in ToSet(l.value) : Apart(p)

\* Nothing that is put into a server has the name of a variable itself.
Variables == {"$repo", "$arch"}
NoVariables ==
    /\ Machine \notin Variables /\ "file://" \notin Variables
    /\ \A s \in Sysroots : ToSet(s) \cap Variables = {}
    /\ \A c \in Presets : ToSet(c.list["Architecture"]) \cap Variables = {}
    /\ \A t \in Texts : \A f \in DOMAIN t : \A l \in ToSet(t[f]) :
         /\ l.key = "Header" => l.value \notin Variables
         /\ l.key = "Architecture" /\ l.value # None => ToSet(l.value) \cap Variables = {}

\* No server is handed to libalpm with a variable in it: each has the name of its
\* repository and the first of the architectures.
ServersResolved ==
    pc = "loaded" =>
      \A r \in DOMAIN dest.repos, k \in ServerLists :
        LET written == InSection(k, RepoHeaders[r])
            used == dest.repos[r].server[k]
        IN  /\ Len(used) = Len(written)
            /\ \A j \in DOMAIN used :
                 /\ ToSet(used[j]) \cap Variables = {}
                 /\ "$repo" \in ToSet(written[j]) => dest.repos[r].name \in ToSet(used[j])
                 /\ "$arch" \in ToSet(written[j]) =>
                      Head(dest.list["Architecture"]) \in ToSet(used[j])

\* Reading comes to an end, also of files that include each other: every Include
\* holds a file open, and there is an end to that.
ReadingEnds == <>(pc \in {"loaded", "failed"})
=============================================================================
