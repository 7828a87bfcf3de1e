---------------------------- MODULE ConfigValues ----------------------------
(***************************************************************************)
(* pu_config_t: what a setting does to it, how two are merged, and how the *)
(* values are resolved.  A string is the sequence of the parts that the    *)
(* code joins, substitutes or prepends: a path is a sequence of names, a   *)
(* server may have the parts "$repo", "$arch" and begin with "file://".    *)
(* Signature levels are sets of bits.                                      *)
(***************************************************************************)
EXTENDS Integers, SequencesExt, Lists

CONSTANTS
    None,
    Machine         \* what uname says the architecture is

Unset == -1

FirstWins == {"RootDir", "DBPath", "LogFile", "GPGDir"}
LastWins == {"XferCommand", "DownloadUser"}
Strings == FirstWins \cup LastWins
Lists == {"Architecture", "CacheDir", "HoldPkg", "HookDir", "IgnorePkg",
          "IgnoreGroup", "NoUpgrade", "NoExtract"}
Flags == {"Color", "NoProgressBar", "UseSyslog", "CheckSpace", "VerbosePkgLists",
          "ILoveCandy", "DisableDownloadTimeout", "DisableSandbox"}
Levels == {"SigLevel", "LocalFileSigLevel", "RemoteFileSigLevel"}
ServerLists == {"Server", "CacheServer"}

UseDefault == <<"use", "default">>

NewConfig ==
    [str |-> [k \in Strings |-> None],
     list |-> [k \in Lists |-> << >>],
     flag |-> [k \in Flags |-> Unset],
     level |-> [k \in Levels |-> [bits |-> {UseDefault}, mask |-> {}]],
     cleanmethod |-> {},
     paralleldownloads |-> 0,
     repos |-> << >>]

NewRepo(name) ==
    [name |-> name, server |-> [k \in ServerLists |-> << >>], usage |-> {},
     level |-> [bits |-> {UseDefault}, mask |-> {}]]

-----------------------------------------------------------------------------
(***************************************************************************)
(* Values.                                                                 *)
(***************************************************************************)
\* A word of a signature level: the parts it is about (both, without one of the
\* prefixes Package and Database) and its mode.
SetsOf == [Never |-> {}, Optional |-> {"check", "optional"}, Required |-> {"check"},
           TrustedOnly |-> {}, TrustAll |-> {"marginal", "unknown"}]
ClearsOf == [Never |-> {"check", "optional"}, Optional |-> {}, Required |-> {"optional"},
             TrustedOnly |-> {"marginal", "unknown"}, TrustAll |-> {}]

On(w) == w.parts \X SetsOf[w.mode]
Off(w) == w.parts \X ClearsOf[w.mode]
KnownWord(w) == w.mode \in DOMAIN SetsOf

ApplyWord(level, w) ==
    IF KnownWord(w)
      THEN [bits |-> (level.bits \cup On(w)) \ Off(w),
            mask |-> level.mask \cup On(w) \cup Off(w)]
      ELSE level

ParseSigLevel(words, level) ==
    LET parsed[n \in 0..Len(words)] ==
          IF n = 0 THEN level ELSE ApplyWord(parsed[n - 1], words[n])
    IN  [parsed[Len(words)] EXCEPT !.bits = @ \ {UseDefault}]

Usages == {"Sync", "Search", "Install", "Upgrade"}
UsageBits == [w \in Usages \cup {"All"} |-> IF w = "All" THEN Usages ELSE {w}]
CleanMethods == {"KeepInstalled", "KeepCurrent"}

\* Words that are not known are an error, the others count all the same.
ParseUsage(words, usage) ==
    usage \cup UNION {UsageBits[w] : w \in ToSet(words) \cap DOMAIN UsageBits}
ParseCleanMethod(words, method) == method \cup (ToSet(words) \cap CleanMethods)

\* Whether the code takes a value; a number that is none is a zero here.
Valid(key, value) ==
    CASE key \in Levels -> \A w \in ToSet(value) : KnownWord(w)
      [] key = "Usage" -> ToSet(value) \subseteq DOMAIN UsageBits
      [] key = "CleanMethod" -> ToSet(value) \subseteq CleanMethods
      [] key = "ParallelDownloads" -> Head(value) >= 1
      [] OTHER -> TRUE

-----------------------------------------------------------------------------
(***************************************************************************)
(* What a setting does, in the section of a repository and in [options].   *)
(***************************************************************************)
KnownIn(section, l) ==
    \/ section \notin {None, "options"} /\ l.key \in ServerLists \cup {"SigLevel", "Usage"}
    \/ section = "options" /\ l.value = None /\ l.key \in Flags
    \/ section = "options" /\ l.value # None
       /\ l.key \in Strings \cup Lists \cup Levels \cup {"CleanMethod", "ParallelDownloads"}

SetInRepo(r, l) ==
    CASE l.key \in ServerLists -> [r EXCEPT !.server[l.key] = Append(@, l.value)]
      [] l.key = "SigLevel" -> [r EXCEPT !.level = ParseSigLevel(l.value, @)]
      [] l.key = "Usage" -> [r EXCEPT !.usage = ParseUsage(l.value, @)]

SetInOptions(c, l) ==
    CASE l.key \in FirstWins ->
           [c EXCEPT !.str[l.key] = IF @ = None THEN l.value ELSE @]
      [] l.key \in LastWins -> [c EXCEPT !.str[l.key] = l.value]
      [] l.key \in Lists -> [c EXCEPT !.list[l.key] = @ \o l.value]
      [] l.key \in Flags -> [c EXCEPT !.flag[l.key] = 1]
      [] l.key \in Levels -> [c EXCEPT !.level[l.key] = ParseSigLevel(l.value, @)]
      [] l.key = "CleanMethod" ->
           [c EXCEPT !.cleanmethod = ParseCleanMethod(l.value, @)]
      [] l.key = "ParallelDownloads" ->
           [c EXCEPT !.paralleldownloads = IF Head(l.value) >= 1 THEN Head(l.value) ELSE @]

-----------------------------------------------------------------------------
(***************************************************************************)
(* Merging and resolving.                                                  *)
(***************************************************************************)
FirstOf(a, b, unset) == IF a = unset THEN b ELSE a

Merge(dest, src) ==
    [str |-> [k \in Strings |-> FirstOf(dest.str[k], src.str[k], None)],
     list |-> [k \in Lists |-> dest.list[k] \o src.list[k]],
     flag |-> [k \in Flags |-> FirstOf(dest.flag[k], src.flag[k], Unset)],
     level |-> [k \in Levels |->
                 IF dest.level[k].mask = {} THEN src.level[k] ELSE dest.level[k]],
     cleanmethod |-> FirstOf(dest.cleanmethod, src.cleanmethod, {}),
     paralleldownloads |-> FirstOf(dest.paralleldownloads, src.paralleldownloads, 0),
     repos |-> dest.repos \o src.repos]

RootDefault == <<"/">>
Default == [DBPath |-> <<"var", "lib", "pacman">>, LogFile |-> <<"var", "log", "pacman.log">>,
            GPGDir |-> <<"etc", "gnupg">>, CacheDir |-> <<"var", "cache">>,
            HookDir |-> <<"etc", "hooks">>]
Below(root, path) == IF root = None THEN path ELSE root \o path

Paths(str) ==
    [k \in Strings |->
      IF str[k] # None THEN str[k]
      ELSE CASE k = "RootDir" -> RootDefault
             [] k \in {"DBPath", "LogFile"} -> Below(str["RootDir"], Default[k])
             [] k = "GPGDir" -> Default[k]
             [] OTHER -> None]

DefaultLevel == {"Package", "Database"} \X {"check", "optional"}

\* Mutant: a repository that has a level of its own takes nothing from [options].
InheritNothing(level, global) ==
    [level EXCEPT !.bits = IF level.mask = {} THEN {UseDefault} ELSE @ \cap level.mask]

Inherit(level, global) ==
    [level EXCEPT !.bits = IF level.mask = {} THEN {UseDefault}
                           ELSE (@ \cap level.mask) \cup (global \ level.mask)]

Global(level) == IF level.mask = {} THEN DefaultLevel ELSE level.bits

\* Mutant: only the name of the repository is put in.
SubstituteRepo(s, arch, repo) == ReplaceAll(s, "$repo", repo)

Substitute(s, arch, repo) == ReplaceAll(ReplaceAll(s, "$arch", arch), "$repo", repo)

Architectures(c) ==
    [i \in DOMAIN c.list["Architecture"] |->
      IF c.list["Architecture"][i] = "auto" THEN Machine ELSE c.list["Architecture"][i]]

\* A server that needs the architecture cannot do without one.
Resolvable(c) ==
    \/ c.list["Architecture"] # << >>
    \/ \A i \in DOMAIN c.repos, k \in ServerLists :
         \A j \in DOMAIN c.repos[i].server[k] : "$arch" \notin ToSet(c.repos[i].server[k][j])

ResolvedRepo(c, r) ==
    [r EXCEPT
      !.usage = IF @ = {} THEN Usages ELSE @,
      !.level = Inherit(@, Global(c.level["SigLevel"])),
      !.server = [k \in ServerLists |->
        [j \in DOMAIN @[k] |->
          Substitute(@[k][j], IF c.list["Architecture"] = << >> THEN None
                              ELSE Head(Architectures(c)), r.name)]]]

Resolve(c) ==
    [c EXCEPT
      !.str = Paths(@),
      !.list = [k \in Lists |->
        CASE k = "Architecture" -> Architectures(c)
          [] k \in {"CacheDir", "HookDir"} /\ @[k] = << >> -> <<Default[k]>>
          [] OTHER -> @[k]],
      !.cleanmethod = IF @ = {} THEN {"KeepInstalled"} ELSE @,
      !.paralleldownloads = IF @ = 0 THEN 1 ELSE @,
      !.flag = [k \in Flags |-> IF @[k] = Unset THEN 0 ELSE @[k]],
      !.level = [k \in Levels |->
        IF k = "SigLevel" THEN [@[k] EXCEPT !.bits = Global(c.level[k])]
        ELSE Inherit(@[k], Global(c.level["SigLevel"]))],
      !.repos = [i \in DOMAIN @ |-> ResolvedRepo(c, @[i])]]

-----------------------------------------------------------------------------
(***************************************************************************)
(* The sysroot.                                                            *)
(***************************************************************************)
RootedLists == {"CacheDir", "HookDir"}

\* Mutant: the servers are left alone.
PrependServerNot(sysroot, s) == s

PrependServer(sysroot, s) ==
    IF s # << >> /\ Head(s) = "file://" THEN <<"file://">> \o sysroot \o Tail(s) ELSE s

RootedRepo(sysroot, r) ==
    [r EXCEPT !.server = [k \in ServerLists |->
      [j \in DOMAIN @[k] |-> PrependServer(sysroot, @[k][j])]]]

PrependSysroot(sysroot, c) ==
    IF sysroot = << >> THEN c
    ELSE [c EXCEPT
           !.str = [k \in Strings |-> IF k \in FirstWins THEN sysroot \o @[k] ELSE @[k]],
           !.list = [k \in Lists |->
             IF k \in RootedLists THEN [i \in DOMAIN @[k] |-> sysroot \o @[k][i]] ELSE @[k]],
           !.repos = [i \in DOMAIN @ |-> RootedRepo(sysroot, @[i])]]
=============================================================================
