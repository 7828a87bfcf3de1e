# Verification of pacutils in TLA+

pacutils is a set of small programs around libalpm, the library of Arch
Linux's package manager.  This directory holds TLA+ models of the parts of it
that are hard to test, the TLC configurations that check them on small
instances, and proofs of the most important results for every instance.
Source paths are relative to the repository.

Run a check with `tlc -config X.cfg M` and a proof with `tlapm M.tla`;
`PROJECT.json` lists every run with its module, its properties and a mutant of
the code for each property, and maps every definition to the lines it models.

## 1. Inventory

### Programs that change the system

| part | state | operations | what is hard | what makes it correct |
|---|---|---|---|---|
| **paclock** `src/paclock.c` | the lock file (`db.lck`) and the key in it | `create_lock`, `check_key`, `remove_lock`, `run_cmd`, `print_lockfile` | several processes between any two system calls; check and unlink are not atomic; fork, exec and wait each fail; kills | one holder at a time; only the holder's key opens the lock; a failed command leaves it; the exit status is true |
| **pactrans** `src/pactrans.c` (also `pacinstall`, `pacremove`, `pacupgrade`) | option globals, four target lists, flags; libalpm's transaction | `parse_opts`, `load_*`, `find_*_pkg`, `main`, `cb_question` | twenty exits through two cleanup labels; option order; questions asked during prepare and commit; `--print-only` without a lock | nothing is changed without lock or consent; all targets or none; the lock is freed at every exit |
| **pacrepairdb** `src/pacrepairdb.c` | packages to repair, list of cached files | `parse_opts`, `find_cached_pkgs`, `fix_db_entry`, `install_packages`, `main` | the database is read before it is locked; failures after some entries were touched | an entry is only ever improved; versions never change |
| **pacrepairfile** `src/pacrepairfile.c` | files and the package's mtree | `fix_file`, `fix_file_*` | several attributes are restored one after another | a fixed file has the recorded attributes |
| **pacsync** `src/pacsync.c` | sync databases | `main`, `dbext` handling | one failing database of several | exit status says whether anything was updated |

### Library `lib/pacutils`

| part | state | operations | what is hard | what makes it correct |
|---|---|---|---|---|
| **prompts** `ui.c` | stdin | `pu_ui_confirm`, `pu_ui_select_index`, `pu_ui_cb_question` | end of input in the middle of a line | default answers; a prompt always ends |
| **callbacks** `ui.c` | `active_downloads`, the last percentage | `pu_ui_cb_download`, `pu_ui_cb_progress` | events of several downloads in any order, retries with and without resumption | sizes add up; every line is drawn once |
| **configuration reader** `config.c`, `ext/mini.c`, `ext/globdir.c` | a stack of readers, one for each Include; section and repository shared by them | `pu_config_reader_next`, `_pu_glob_at`, `mini_next` | sections that begin inside an include; an include that cannot be opened in the middle of a list; recursion; ownership of shared state | the stream of events is that of the text with the includes put in place |
| **configuration values** `config.c` | `pu_config_t` | `pu_config_merge`, `pu_config_resolve*`, signature levels, `register_syncdbs` | inherited signature levels; first setting wins against last setting wins | a merged configuration equals reading both |
| **log reader** `log.c`, `src/paclog.c` | a line read ahead, a 256 byte buffer | `pu_log_reader_next`, `pu_log_action_parse`, `pu_log_transaction_parse` | continuation lines, long lines, errors between entries | every line is part of exactly one entry; filters in a pipe intersect |
| **mtree reader** `mtree.c` | position in the archive | `pu_mtree_reader_next` | malformed lines | an entry has the last default before it |
| **paths, package specs, lists** `pacutils.c`, `util.c`, `depends.c` | none | `pu_pathcmp`, `pu_filelist_contains_path`, `pu_find_pkgspec`, `pu_list_shift`, satisfier lookup | a binary search over an order that ignores repeated slashes | the comparison is an order |

### Programs that only read

**paccheck** (integrity and dependency checks of installed packages, with a
recursive dependency closure), **pacreport** (unneeded packages, chains of
packages and their sizes, unowned files), **pacsift** (filters combined by and,
or, invert and any), **paclog**, **pacinfo**, **pacfile**, **pacconf**,
**pacini**, **paccapability**.  They run alone; what is hard in them are
algorithms over the dependency graph, and orders.  The first three are modelled beside
pacrepairfile and pacsync.

### Interactions

The only state several processes share is the **lock file** and the **local
database** below it.  paclock takes and removes the lock file for scripts;
pactrans, pacrepairdb and pacsync take it through libalpm.  paclock's lock holds
a key, libalpm's is empty.  Within a process control goes from a program into
libalpm and back through callbacks (`cb_question`, `pu_ui_cb_download`,
`pu_ui_cb_progress`), and from there to the terminal.  All programs read their
configuration through `pu_ui_config_load_sysroot` and `pu_config_reader_next`.

## 2. Modules

| module | what it is |
|---|---|
| `DbLock` | abstract specification: what the database lock promises |
| `PacLock` | paclock, call by call, with competing sessions, children, kills and libalpm transactions |
| `PacLockProofs` | the theorems about `PacLock` |
| `AlpmTrans` | shared by the next two: libalpm's transaction, the local database, the prompts |
| `TransOpts` | `parse_opts` of pactrans as a fold over the command line |
| `OptionLoop` | the same one argument at a time |
| `PacTrans` | `main` and `cb_question` of pactrans |
| `PacRepairDb` | `main`, `find_cached_pkgs`, `install_packages` of pacrepairdb |
| `DbAccess` | abstract specification: how programs may use the database |
| `TransSystem` | the composition of pactrans and pacrepairdb processes |
| `Lists` | what the loops of the programs do to a list: keep some of its members, or one of those alike |
| `ListProofs` | induction over the naturals, and lemmas about lists |
| `OptionLoopProofs`, `TransOptsProofs` | the theorems about the parsing of options |
| `TransSystemProofs` | the theorems about `TransSystem`: the lock; plan, consent and commit; types; targets, removals and repairs |
| `ConfigValues` | what a setting does to `pu_config_t`; merge, resolve, sysroot |
| `ConfigReader` | the reader with its stack of includes, and the loading around it |
| `ConfigMeaning` | reference: the text with the includes in place and what it means |
| `ConfigProofs` | the theorems about the configuration |
| `LogReader` | `pu_log_reader_next`: the entries of a log, with the line read ahead |
| `PacLog` | filters and package list of paclog, alone or two in a pipe |
| `LogProofs` | the theorems about the log |
| `ToolState` | what the programs that run alone have in common |
| `Depends` | dependencies: libalpm's lookup of a satisfier and `depends.c` |
| `Mtree`, `Paths`, `Download` | the mtree reader; comparison and search of paths; the download callback |
| `PacSift`, `PacReport`, `PacCheck`, `PacRepairFile`, `PacSync` | `main` of the program and what it calls |
| `Tools` | one of these five, from any of its command lines |
| `ToolsProofs` | the theorems about the five |
| `MCPacLock`, `MCOptionLoop`, `MCTransSystem`, `MCConfig`, `MCPacLog`, `MCTools` | instances for TLC |

An operator whose comment begins with "Mutant:" is no part of a model.  It is a
plausible mistake in the definition that follows it, and shows that some
property would notice: see the mutants in `PROJECT.json`.

### 2.1 The database lock

`PacLock` has one action for each system call of `create_lock` (`OpenLock`,
`WriteKey`, `UndoLock`), `check_key` (`FopenLock`, `ReadKey`), `remove_lock`
(`UnlinkLock`) and `run_cmd` (`Fork`, `Exec`, `Wait`), and one for each way a
call can fail.  `link` is the file the path names, `content` what was written to
each file, `fh` the file a thread has open: a file that was unlinked lives on as
long as somebody has it open, and a new one may be at its path.  `pc[<<s,
"main">>]` is the program, `pc[<<s, "child">>]` the process that `run_cmd` forks;
the child that cannot exec runs `remove_lock` itself, so the actions of
`remove_lock` take a thread.  `Kill` ends any process at any point.

*Environment.*  A session is one script with one key.  It runs its next program
when the last one and its child are gone.  A program that is started with SIGCHLD
ignored (`sigign`) finds no child to wait for and uses an uninitialised wait
status, so its branch is a choice.  A lock that was left empty by a program that
was killed, or keyed by one that is gone, is removed only by an unlock without key
check.

*What `stolen` means.*  `--no-check-keys` and `--enoent-ok` may remove somebody
else's lock.  From then on no session can rely on anything: a thief lets a third
session in, whose lock the first one may remove in good faith.  `stolen` records
the first theft, and the promises hold until then.  Theorem `NoTheft` says that
without these options there is none.

### 2.2 Transactions

`TransSystem` composes pactrans processes (`Installers`) and pacrepairdb
processes (`Repairers`) over one lock and one local database.  `pc` is the place
in `main`; the labels `release` and `exited` are the labels `transcleanup` and
`cleanup` of the source.  Every call that can fail has a failing alternative.
`view` is libalpm's cache of the local database: it is read when it is first
needed, which for `pacremove a` is *before* the lock is taken.  `plan` is the
transaction, `consent` what the confirmation agreed to, `applied` what was done.

libalpm is not part of the repository.  Its operations are in `AlpmTrans` by what
the programs rely on: `trans_init` takes the lock unless NOLOCK is set and
`trans_release` removes it; `commit` works change by change, removals first, and
may fail after any of them; `prepare` may add a dependency, and with `--cascade`
or `--recursive` a removal; a question has an initial answer which an unanswered
question keeps (`InitialAnswer`: no, or the first provider).  These definitions
are marked external in the map.

A prompt reads a line: `Replies` is what it can find.  Without a terminal the
targets were read from stdin, so that every prompt finds its end and takes its
default, also the final confirmation.  A line that ends before its newline
(`cut`) makes `pu_ui_confirm` read for ever; this is the state `hung`.

`DbAccess` is what the programs promise each other: a program is at work from the
moment it was given the lock until it gives it up itself, only the program at work
changes the database, and one that dies at work leaves the lock in place.  The
refinement maps `working` to the programs between `trans_init` with the lock and
the release, and those that refresh the sync databases (`AtWork`); a
`--print-only` run is never among them.

`TransOpts` keeps of each option the globals it changes.  Options that set a path
or a configuration value are left out.

### 2.3 Configuration

A step of `ConfigReader` is one call of `pu_config_reader_next`, or one of its calls
of itself: a section (`Section`), a setting (`Setting`), an Include (`Include`,
`IncludeFails`), the end of an included file with more of them to read
(`NextInclude`) or with none (`BackToParent`), the end of the main file (`Eof`) and
a read that fails (`ReadFails`).  `reader` and `parents` are the readers in the code;
`section`, `repo` and `config` are shared by them.  `MergeRead` and `ResolveRead`
are the rest of `pu_ui_config_load_sysroot`.

A line is a record of key and value.  `mini_next` is the choice of the next line
with content; a line longer than its buffer is a failing read.  A pattern is the
list of files it expands to, never empty, because `_pu_glob_at` asks for the pattern
itself when nothing matches.  A string is the sequence of the parts that are joined,
substituted or prepended, and a signature level a set of bits.  Every setting has the
effect it has in the code, by its kind (`FirstWins`, `LastWins`, `Lists`, `Flags`,
`Levels`); a setting of a kind that takes a value is read with one when it stands in
the section of a repository.

`ConfigMeaning` says the same without a reader: `TextInPlace` is the text with the
included files in place, as a recursive function of the number of files that may
still be opened, and the meaning of its lines is stated by the last header before a
line, the first or last line of a key, and the last word that mentions a bit.
`taken` and `warned` are the lines that were read and the places of the warnings.

### 2.4 The log

The input of `LogReader` is what `fgets` returns, line by line or in pieces of a line
that is longer than the buffer.  A call of `pu_log_reader_next` begins with the line
that ended the one before (`NextEntry`) or reads its first (`FirstEntry`), takes what
has no timestamp (`Continue`) and returns with the next timestamp or at the end of the
file (`Return`).  `nextSec` is `tm_sec` of `reader->_next_ts`, which only a timestamp
with seconds writes, a broken one too.  A message is the sequence of its pieces, and
its first piece says what `pu_log_action_parse` and the filters find in it; a message
of several lines is no action, because it does not end with the version.

`PacLog` reads a log and prints what the filters match, or with `--pkglist` the
packages; with filters a second `PacLog` reads what the first one printed.  `read`
keeps the entries of the first.  Dates are minutes.  `mktime` takes every timestamp
as local time whatever its offset says, so the model has one zone.

### 2.5 The programs that run alone

pacsift, pacreport, paccheck, pacrepairfile and pacsync share nothing with other
processes that they rely on, so a behaviour of `Tools` is one run of one of them.
`ToolState` holds what they have in common: `argv`, what the program finds on the
system (`sys`), the option globals (`o`), the place in `main` (`pc`), the list that the
current loop goes through (`todo`), what it builds (`acc`), the output (`out`) and the
status (`ret`).  A `getopt_long` loop is four tables, for options that set a value,
count, assign and add to a list.  `Setup` is everything before the first loop, with
the status that each program returns when it fails.

*PacSift.*  `filter_pkgs` takes the filters in the order of the source; each moves the
packages it matches from the haystack to the matches, and without `--any` the matches
are the next haystack.  A regular expression is the set of the strings it matches.
libalpm's list difference, which `--invert` uses, orders packages by their addresses, so
the result is compared as a bag.  `SiftIsSearch` says it without lists: a package is
printed as often as the haystack has it or not at all, and, with the terms taken as the
manual takes them (`Meant`, `IsMeant`), it is printed if it is what the search asks for.
The last part has the premise `AsDocumented`, which excludes the three cases in which
the code departs from the manual (see below).  The model has these cases, the run reaches
them, and the rest of the property is checked in them too.

*PacReport.*  One place of `pc` for each report.  `_scan_filesystem` is a
stack of directories; `print_unneeded_packages` lists the leaves and then connects what
they lead to; `get_pkg_chain_size` works off the dependencies that only the chain
needs.  `UnneededAreUnreached` and `ChainsAreOwn` state the results by the dependency
graph.  `OnlyNeededBy` are the dependencies, direct or not, that only the package and
they need, so the members of a cycle behind the package are among them.  The code misses
those, and `ChainsAreOwn` says that it misses nothing else: each package missed is needed by
another one missed.  Where a dependency has several satisfiers, only soundness is stated,
because the code follows the first of them.  `ScanReportsOnce` is about reachable
directories; a file where a package has a directory is unowned.  `--optional-for` ends
the program with its usage and status 2, as it does in the code.

*PacCheck.*  The recursion of `add_deps` is the list of the dependencies it has still to
look at, those of a package it adds before the others.  A check is the set of problems it finds in a package, and the
six of them run package by package.  `BrokenAreReported` states the packages that must
be checked as a closure and the status by what is sound.  A digest has two halves in the
model, because the code compares only the first of a sha256sum.  A file is sound if both
agree: status 0 then promises that all files are sound only if none differs in the second
half alone (`HalvesTell`).

*PacRepairFile.*  A path is looked up in the lists of files (`Paths`) and in the
`.MTREE` of the owner (`Mtree`), and its uid, gid, mode and mtime are restored in this
order.  `PathCmp` is the loop of `pu_pathcmp` over two places (`Along`) and `BSearch` that of
the C library over two bounds (`Narrowed`).  `chown` clears the set-id bits, and each call may be refused.
`RepairedAsRecorded`: a run that succeeds leaves each file as a record of it says, and
`pu_filelist_contains_path` finds what is in a list that is in its order.  Only the
attributes that were asked for are promised: the set-id bits that `--uid` alone costs are not.

*PacSync.*  libalpm downloads all databases at once: events of the downloads come in
any order, with retries on another server that resume or not, sizes that are not
known, and files that may be missing.  `DownloadsAddUp` says what
`pu_ui_cb_download` shows at each event.

## 3. Runs

| run | states | what it shows |
|---|---|---|
| `lock` | 978,585 | two sessions of two programs each: `HeldWhileInUse`, `CheckedUnlinkHasKey`, `StatusTellsTruth`, `FailureLeavesLock`, and `PacLock` implements `DbLock` |
| `lock_live` | 108,564 | every program ends |
| `lock_enoent` | violated | `--enoent-ok` removes a lock whose key was not compared |
| `lock_signal` | violated | a command killed by a signal counts as successful |
| `trans` | 1,502,422 | one pactrans and one pacrepairdb: changes only under the lock and only as agreed, all targets or none, removals justified, lock freed at exit, repairs complete and harmless, and the composition implements `DbAccess` |
| `trans_live` | 271,768 | without a terminal both programs end |
| `trans_noconfirm` | violated | `--no-confirm` does not take the defaults of the prompts |
| `config` | 377,268 | reading a configuration is reading the text with the includes in place, to its end or to the first failure; sections, precedence, warnings, signature levels, sysroot and server variables come out as the text says; reading ends |
| `log` | 1,197,652 | every piece of a log is part of one entry, which has the time and the program of its first line; two paclogs in a pipe display the intersection; `--pkglist` is what a replay of the log leaves |
| `log_seconds` | violated | a timestamp without seconds gets those of an earlier entry |
| `options` | 427,803 | every command line of up to four of twenty arguments under three names |
| `tools` | 65,156 | five programs that run alone, each on systems where its algorithm can go wrong: the properties of 2.5, and all of them end |

**Bounds.**  Two sessions are enough for every race on one path: a third party is
only needed once a lock was stolen, and then nothing is promised.  `MaxCalls = 2`
lets a session meet what its own first program left behind, such as its lock or an
empty file after a kill.  Three inodes are needed at most by two sessions: one at
the path and one open in each other thread; `Inodes` are interchangeable, so they
are symmetric.  In `trans`, two packages give a target that is installed and one
that is not, a name in two repositories, an upgrade, and a package without a
cached file.  Six command lines cover removal by `local/`, installation from a
named repository, an update without prompts, an unlocked run, download only, and
a contradiction; each with a terminal or a pipe.  `MaxQuestions = 1` bounds the
questions of one run: an answer changes the transaction only in a way that the
confirmation, or the commit, sees, so that a second question adds no new kind of
interaction.  In `options`, four arguments are two switches and two targets, or
the same switch given three times and something that follows.  In `config`, three
files and three files open at once allow an include in an include and files that
include each other until the limit is reached; the first of two files in one Include
has up to two chosen lines, so that a section can begin in it and a server follow
there, in the next file, or in the main file after both.  In `log`, three pieces are
an entry, one that ends it and one that continues that, or an installation, an upgrade
and a removal of one package; logs that change from the old format to the one with
seconds have up to four.  A log in which an old timestamp follows one with
seconds is the subject of `log_seconds`.

In `tools`, pacsift gets four packages (two local, one in a repository, one in the cache,
with equal names among them) and each list of switches with each of thirteen terms, and
pairs of seven of them.  pacreport gets every dependency graph of three packages with
both install reasons, which has each cycle and each chain that a third package breaks;
one graph of four with a provider, an optional dependency and a cycle; and a small file
system with directories that are unreadable, unowned or cannot be examined.  paccheck
gets a chain of four packages with a cycle and missing dependencies, and one package
that is spoiled in thirteen ways, one for each problem a check can report.  pacrepairfile
gets the listings `d`, `d-`, `d-/f`, whose byte order is not that of their paths.
pacsync gets two databases of two bytes with at most two retries, so that a download
can be resumed twice.

**Fairness.**  `PacLock!Fairness` is weak fairness of each process: the scheduler
runs it, and a command that was started ends (paclock waits for it without a
timeout).  No fairness is assumed of starting another program nor of kills.  The
loop never waits for the lock, so weak fairness is enough.  `TransSystem!Fairness`
is weak fairness of each program: libalpm's calls return.  `ConfigReader!FairSpec` is
weak fairness of the only program: each call of the loop returns.  `Tools!FairSpec`
is the same for the programs that run alone: nothing stops them but their system calls,
which return, and a download gives up after `MaxRetries`.  `ProgramsEnd` is about
programs without a terminal.  With one, a prompt may wait for ever.

**Deadlock** is checked in all runs; `Finished` is the stuttering step of a system
in which every program has ended.

### Disagreements between the code and its documentation

* `lock_enoent`: doc/paclock.pod:70 says that without `--no-check-keys` a lock is
  removed only with its key; with `--enoent-ok` the file may appear between the
  failed `fopen` and the `unlink`.
* `lock_signal`: src/paclock.c:233-234 says that the lock is left if something
  went wrong; `WEXITSTATUS` of a signalled child is 0.
* `log_seconds`: doc/paclog.pod:14-17 says that a pipe displays the intersection; a
  timestamp without seconds (lib/pacutils/log.c:182) keeps `tm_sec` of a line that was
  read before it, which a first filter may have left out.
* `trans_noconfirm`: doc/pactrans.pod:103-105 says that `--no-confirm` assumes the
  default responses; an unanswered question keeps libalpm's initial answer.  This
  one rests on the external assumption `InitialAnswer`.

Seen while reading, modelled as they are where they are modelled, and not claimed
as findings: a configuration that cannot be read ends pactrans with status 0
(src/pactrans.c:832); `ret` counts package files that cannot be loaded and wraps at
256 (945); `pu_config_reader_free` frees the parents of a reader
that failed inside an include, which hold the same `section` and `sysroot` and the
same descriptor (lib/pacutils/config.c:969, 756): memory is not modelled; when the
second file of an Include cannot be opened the reader has no file any more, and its
line is still the one of the file before; a log whose first line has no timestamp
is refused as a whole (lib/pacutils/log.c:209); the branch for an invalid value in
lib/pacutils/ui.c:589 is not reached, because the reader returns -1 for it; the result of the database refresh is ignored, and the refresh is done
with `--print-only` too; pacrepairdb strips the prefix `local/` of an argument but
looks up the whole word (src/pacrepairdb.c:566-577).

In the programs that run alone the code departs from its manual in these places.  The
model follows the code and the properties the manual, so that each is a premise or a
clause of a property:

* pacsift `--any --invert` prints the packages that match (src/pacsift.c:605-612), where
  doc/pacsift.pod:63 has "Return packages that DO NOT match the provided search terms".
* pacsift `--exact` compares single words with `strcasecmp` (457), where doc/pacsift.pod:113-114
  has "must match val exactly".
* pacsift reads a size without a unit into a variable it does not initialise (290-295),
  where doc/pacsift.pod:176 has "The size may be followed by abbreviated unit".
  These three are what `AsDocumented` excludes.
* pacreport `--optional-for` is declared with a flag pointer (src/pacreport.c:709), so
  `getopt_long` returns 0, for which the switch has no case: usage, status 2.
  doc/pacreport.pod:87-89 has "Show which packages optionally depend on listed packages".
  `print_pkg_info` with that option is modelled and not reached.
* pacreport leaves the members of a dependency cycle behind a package out of its size,
  where src/pacreport.c:105 has "the total size of all unneeded dependencies of a package" and
  doc/pacreport.pod:36 has "Package sizes include dependencies not needed by other packages".
* paccheck compares 32 of the 64 digits of a sha256 digest (src/paccheck.c:708), where
  doc/paccheck.pod:74-76 has "Check file sha256sums against MTREE data".

And, without a line that says otherwise:

* pacsift: an empty `--size=` puts NULL into the list; a configuration that cannot be read ends it with status 0, as it does
  pacreport and pacsync (pacsync returns 1 with `--updated`).
* `pu_filelist_contains_path` searches with `pu_pathcmp` in a list that is sorted by
  bytes: `d` is not found in `d-`, `d-/f`, `d/`.  t/10-filelist_contains_path.c expects
  a directory to be found without its slash, in a list where the two orders agree.
  `OwnerIsFound` has that agreement, `InOrder`, as its condition.
* pacreport: the scan ignores `--root`; backups in ignored directories are found with
  one `--backups` and not with two.
* paccheck: a digest that cannot be read is a warning only, and "all files match" follows; an archive error
  ends the loop over the mtree without a message; the documentation of `--db-files` and
  the files that are always checked do not agree.
* pacrepairfile: the set-id bits are lost with `--uid` or `--gid` and without `--mode`;
  the mode of a symbolic link cannot be restored; an error message lacks its argument.
* pacsync: a database that is up to date counts as updated when
  `alpm_db_update` says so; `--version` does not exit.
* downloads: after a resumed retry the bytes are counted twice until the next
  progress; a second one forgets those of the first server; without a total only the
  bytes of the current server are shown.  `DownloadsAddUp` leaves these moments out and
  says so.  `pu_ui_cb_progress` does not draw a percentage that equals the last of the
  operation before.

## 4. Proofs

### paclock

`PacLockProofs` proves, for any sets of sessions, keys and inodes and any command
lines:

| theorem | statement |
|---|---|
| `Invariant` | `Spec => []IInv` |
| `TypeCorrect` | `Spec => []TypeOK` |
| `LockHeld`, `MutualExclusion` | whoever works under the lock holds it; no two sessions do |
| `CheckedUnlink` | the file removed after a key check is the one that was checked |
| `StatusTrue`, `FailureKept` | exit status zero is true; a failed command leaves the lock |
| `Refinement` | `Spec => DbLock!Spec` |
| `NoTheft` | without reckless sessions `stolen` stays FALSE |

All but the first two assume `KeysDistinct`: different sessions use different
keys.  Two sessions that share a key share the lock, which is what a shared key is
for.

*Argument.*  `HeldWhileInUse` is not inductive.  That a session's lock file is
still there when its child starts depends on which calls can remove it, and a
checked removal depends on what was read earlier.  `IInv` adds: `ActionInv` (each
call belongs to the action it is reached by), `OneWorker` (the parent waits, or is
gone, while its child lives),
`ForceInv` (an unchecked removal is reached only by a reckless session), `FileInv`
(a file's content is empty or its creator's key, and a file open for writing was
created by the one who writes), and `KeyedInv`, under `KeysDistinct` (who works
under the lock, or has compared the keys, owns the file at the path; what was read
earlier is still there).  `Lemma`s show that each action preserves each part, and
the refinement takes one case for each action that changes `link`.  `IInv` was
also checked with TLC before it was proved.

The other proofs need facts about recursive functions, lists and sums, which
`ListProofs` has.  The induction theorem of the library takes a predicate, which the
installed provers cannot instantiate; `NatSetInduction` is about a set, and a proof takes
for it the set of the numbers that have the property.  `SelectSeq`, `FoldLeft` and
`Reverse` are built on recursive operators or on predicates, so the models use `Select` and
`Firsts` of `Lists`, which are recursive functions.

### pactrans: options

`OptionLoopProofs` proves, for command lines of any length over any arguments,
known options or not, `PrintOnlyUnlocked` (NOLOCK and `printonly` are set together
and by nothing else), `ReasonsExclusive`, `LastAnswers` (`LastAnswerCounts`: each question
is answered as the last option that decides it says, `--yolo` being one for all of them) and
`TargetsInTheirList` (`TargetsFollowOperation`).  The first three are inductive, and the
proof goes through the kinds of options.  The last one needs that the list targets are put
into is always that of the last argument that names an operation; each of the four lists is
then a selection of the arguments, and grows by one as they do.  `TransOptsProofs` has
the first of the fold `Parse` that `TransSystem` uses (`ParseSound`), by induction over the
length of the command line.

### pactrans and pacrepairdb

`TransSystemProofs` proves every safety property of the run `trans`, for any number of
processes, packages, repositories, versions and command lines.  It assumes what the
modules say of their constants: that command lines, cached files, databases and
repositories are of their kinds, and that pactrans and pacrepairdb are different
processes.

| theorem | statement |
|---|---|
| `AccessRefinement` | `Spec => ImplementsDbAccess` |
| `LockFreed`, `OneAtWork` | whoever exits has no lock; at most one program is at work |
| `ShownFirst` | what is applied was planned, shown and agreed to |
| `StatusIsTrue` | exit status zero is true |
| `TypeCorrect` | `Spec => []TypeOK` |
| `AllAreFound` | a transaction is all the targets of the command line or nothing |
| `RemovalsAreJustified` | only targets, conflicts, and what cascading or recursion asks for are removed |
| `RepairsComplete`, `RepairsImprove` | a repair that succeeds repaired everything; none changes a version or spoils an entry |

*Argument.*  `LockInv` says that whoever is at work has the lock, that whoever has
the lock is at work or dead, and that a `--print-only` run does not reach the commit.
Each action is of one of four kinds (stays, enters, leaves, dies), and each kind keeps the
invariant and is a step of `DbAccess`.  `AgreementInv` gives each label of `main` what is
true of `plan`, `consent` and `applied` there: nothing is applied and nothing agreed
before the confirmation (`Undecided`), and after it the consent is the plan, or a
download, or an unlocked run (`Decided`).  It is what `AppliedWasShown` and
`StatusTellsTruth` lack to be inductive.  `TransTypes` adds the types, by label
too, because a list has another type before and after the lookup.  `PlansInv` says of
pactrans what was found before each label and why each removal is in the plan;
`RepairsInv` says of pacrepairdb that the planned entries are the broken
ones, and that they keep existing while it holds the lock: this is where the proof
needs mutual exclusion, as `HolderChanges` shows that only the holder changes the
database.  Each invariant is proved with the ones before it.

tlapm 1.4.5 simplifies the intersection of two enumerated sets wrongly (it takes
`{a} \cap {"x"}` to be empty for any `a`), so no proof contains one.

### Configuration

`ConfigProofs` proves, for any files that include each other in any way and to any depth:

| theorem | statement |
|---|---|
| `ReadingInPlace` | reading with includes is reading the text with the includes in place, as far as it can be read |
| `ReadingKeepsMeaning` | what was read is what the lines mean |
| `ReportedPlaces` | warnings and errors name the file and the line they are about |
| `ReaderTypes` | `Spec => []TypeOK` |
| `LevelsAreInherited` | a repository checks what its own SigLevel says and otherwise what that of [options] says |
| `ServersAreResolved` | no server has a variable left, and none is lost (under `NoVariables`) |
| `AllAreRooted` | every path is below the sysroot, once (under `SysrootApart`) |

*Argument.*  `Remaining` is what the readers still have to read: the rest of the current
file, and for each reader above it the files that wait for their Include and the rest of its
own file, with the includes in place as far as files may still be opened at that depth.
The invariant `TextInv` is that the text in place is what was taken followed by what
remains.  An Include replaces itself by the files it names, the end of a file takes an empty
text away, and a failure leaves a beginning; each action is one of these.  `MeaningInv` says
for every prefix of the text what `ConfigMeansText` says of the whole, together with the
section that is current; a new line is the last one of its key, of its section or with its
bit, and leaves all others as they were.  `PlacesInv` does the same for the warnings.
`DestInv` says that a program is given the merged configuration, resolved and put below the
sysroot, so that the last three theorems are about values only.

*Assumptions.*  `TextsAssumption` has the kinds of the values, and that servers and
signature levels have one: the code takes `Server` without a value for a NULL.
`PresetsAssumption`: no program's command line sets a repository or SigLevel.  `NoVariables`
(no section, architecture or sysroot is called `$repo` or `$arch`) and `SysrootApart` (the
first directory of the sysroot is in no path of the configuration) are hypotheses of one
theorem each, because the code does not ensure them and without them the properties say
nothing sensible: a section named `$arch` is substituted too, and a path that already begins
with the sysroot gets it again.  `MCConfig` asserts that the files of the run `config`
satisfy them.

### The log

`LogProofs` proves `EntriesComplete` (`EntriesAreComplete`), `PipeIntersects`
(`PipeIsIntersection`) and `PkgListReplays` (`PkgListIsReplay`), for logs of any length.

*Argument.*  The entries of the pieces that were read so far are those that were returned
and one more: the one that is being read, or the one that the line read ahead begins.  A
piece without a timestamp makes the last entry longer and any other begins one, so
`Continue` and `Return` keep the invariant.  Printed entries are read back as they were: the
second paclog reads what the first one matched.  The package list walks the log from its
end and keeps what it has seen; the first entry it meets about a package is the one with the
greatest place, by induction over the entries that were looked at.

All three assume `OneFormat`: no timestamp without seconds follows one with them.  Otherwise
an entry has the seconds of an earlier one, and `log_seconds` shows what comes of it.  pacman
changed its format once, and in that direction; `MCPacLog` asserts `OneFormat` of the logs
of the run `log`.

### The programs that run alone

| theorem of `ToolsProofs` | statement |
|---|---|
| `LeftAreUnneeded` | pacreport lists what no explicitly installed package leads to (`UnneededAreUnreached`) |
| `ChainsComplete` | a chain has only what the package leads to and only it needs, and misses nothing of it but cycles (`ChainsAreOwn`) |
| `ScanIsComplete` | the scan names every unowned file and backup it can reach once (`ScanReportsOnce`) |
| `BrokenReported` | paccheck reports only packages that are broken, and, under `HalvesTell`, all of them (`BrokenAreReported`) |
| `SearchIsAnswered` | pacsift prints packages as often as they were there, and, under `AsDocumented`, those searched for (`SiftIsSearch`) |
| `RepairsAsRecorded` | pacrepairfile leaves files as recorded, and finds their owners (`RepairedAsRecorded`) |
| `DownloadsShown` | the callback's sums are those of the downloads (`DownloadsAddUp`) |
| `TypeCorrect` | `Spec => []TypeOK`, with `NoneIsNoFunction` |

They hold for systems of any size: any packages and dependency graphs, trees of directories,
terms, downloads, file lists and paths.  What is assumed of them is in `SiftRunsAssumption` and the other
assumptions of `Tools`: that libalpm's lists are lists, that a database has no name twice,
that a path is one file and its directories are there, that paths have no repeated slashes
and a target, which `lrealpath` resolved, none at its end.  `NoneIsNoFunction` says of the value
`None`, which is no options yet, that it is none of the records options are parsed into: TLC,
for which it is a model value, knows that already.

*Argument.*  `print_unneeded_packages` and `add_deps` compute closures with a work list: the
invariant is that what has been found contains the start, that each of its dependencies has
been found or waits in the list, and that everything found or waiting belongs to the least
such set (`Followed`, `Gathered`).  A chain has in addition the sum of the sizes so far
(`OwnChain`); that it misses only cycles follows because a package all of whose dependents are
in the chain joins it when the last of them is looked at.  The *scan* keeps a stack of directories which are below no other of the
stack (`Entries`).  `ScanHolds` says that what was reported is exactly what is to be reported
and that nothing on the stack is above; each pop moves the boundary by one entry
(`SkipStep`) or replaces it by its children (`DescentStep`), and with an empty stack all is
reported.  *paccheck* goes check by check: the list is what was checked followed by the rest
(`Split`), and the status and the lines are those of the first part (`Checked`).
*pacsift* is counted: a field moves each copy of a package from the haystack to the matches or
leaves it (`Moved`), so that after some fields the haystack has each package as
often as before or never (`SearchedBy`), which the comparison as bags needs.  The options
are the command line with the sizes read (`OptionsRead`), so that under `AsDocumented` each
term matches what it means (`FieldIsMeant`).  For *downloads*
the callback has as many entries of each name as libalpm runs (`AsMany`), the amounts of a
name that is downloaded once agree (`Amounts`) and the line that is drawn is that of an
active download (`InLine`).

*pacrepairfile* has two parts.  `RepairInv` says that as long as the status is zero the files
that are done are as recorded (`RepairLoop`), and of the one it is at that every attribute
asked for has been set or is still to be set (`Mending`, `StillToSet`).  A kind that is set must not undo
an earlier one, which is where the order of `Kinds` matters: `chown` changes the mode, and
the mode is set after it (`KindsInOrder`).  The file that is set may be another target's too,
as two targets can name one path; then it is set to what that path has recorded.  The second
part is the search.  The loop of `pu_pathcmp` is over after as many rounds as the path has
characters (`CmpEnds`), and a target equals only itself, with or without a slash at its end
(`CmpZero`).  Each round of `bsearch` leaves a smaller interval that still has
the index looked for (`RoundNarrows`), so that the list is exhausted when the rounds are,
and what was found is equal (`SearchSound`) and what is there is found (`SearchFinds`).

`TypeOK` comes last.  That a program's work list is a list depends on what it read,
so the inductive invariant `Typed` says little more than `TypeOK` does, and a step preserves
it by the invariants above, in the state before it and in the one after.

### Model-checked only

Liveness, which is out of the prover's reach (`ProgramsEnd`, `ReadingEnds`, `ToolsEnd`).
Every invariant and action property of a run that passes is a theorem.

## 5. What is not modelled

* `pu_ui_cb_progress`, which draws a bar and keeps the last percentage; no program
  decides anything by it.
* pacinfo, pacfile, pacconf, pacini and paccapability, and `uix.c`: they format what
  libalpm or the configuration says in one pass over their arguments.
* `pu_log_transaction_parse`, which no program calls, and `--grep` of paclog.
* The handle and the registration of databases, which pass configuration values on.
* Memory: see the reader of configurations above.
* Text of messages; `ext/tap.c` and the tests, which were read as a source of intended
  behaviour.

What would come next: pactrans in competition with pacsync for the lock, pacsync being
modelled alone here; the search of pacfile in `.MTREE`, which is that of
pacrepairfile.
