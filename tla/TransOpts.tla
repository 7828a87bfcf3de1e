------------------------------ MODULE TransOpts ------------------------------
(***************************************************************************)
(* The command line of pactrans: parse_opts in src/src/pactrans.c, as a    *)
(* fold over the arguments.  An argument is a pair <<option, value>> with   *)
(* the option's long name, - written as _; a target is <<"target", t>>.     *)
(* Options that only set a path or a limit of the configuration do not     *)
(* change what the program does and are left out.                          *)
(***************************************************************************)
EXTENDS Naturals, Sequences, SequencesExt

Lists == {"spec", "add", "rem", "files"}
Methods == {"prompt", "all", "none", "provided", "depends", "provided_depends"}
BoolMethods == {"prompt", "yes", "no"}

\* The questions that have a yes/no disposition, by the variable that holds it.
BoolQuestions == {"install_ignored", "remove_corrupted", "default_provider",
                  "skip_unresolvable", "import_keys"}

Flags == {"NOLOCK", "DBONLY", "NOSCRIPTLET", "NOHOOKS", "NODEPVERSION",
          "NODEPS", "ALLDEPS", "ALLEXPLICIT", "DOWNLOADONLY", "NOCONFLICTS",
          "CASCADE", "NOSAVE", "RECURSE", "RECURSEALL", "UNNEEDED"}

\* The globals before parse_opts; main picks the list by the program's name.
Defaults(myname) ==
    [list |-> CASE myname = "pacinstall" -> "add"
                [] myname = "pacremove" -> "rem"
                [] OTHER -> "spec",
     targets |-> [l \in Lists |-> << >>],
     flags |-> {}, printonly |-> FALSE, noconfirm |-> FALSE,
     sysupgrade |-> FALSE, downgrade |-> FALSE, dbsync |-> FALSE,
     conflict |-> "prompt", replacement |-> "prompt",
     disposition |-> [q \in BoolQuestions |-> "prompt"],
     fatal |-> FALSE]

Operation == [install |-> "add", file |-> "files", remove |-> "rem",
              spec |-> "spec"]

\* Switches that set one flag, or several.
Switch ==
    [dbonly |-> {"DBONLY", "NOSCRIPTLET", "NOHOOKS"},
     no_hooks |-> {"NOHOOKS"}, no_scriptlet |-> {"NOSCRIPTLET"},
     download_only |-> {"DOWNLOADONLY", "NOCONFLICTS"},
     cascade |-> {"CASCADE"}, no_backup |-> {"NOSAVE"}, unneeded |-> {"UNNEEDED"}]

\* Given twice, the switch sets a second flag.
Twice == [no_deps |-> <<"NODEPVERSION", "NODEPS">>,
          recursive |-> <<"RECURSE", "RECURSEALL">>]

Reason == [as_deps |-> <<"ALLDEPS", "ALLEXPLICIT">>,
           as_explicit |-> <<"ALLEXPLICIT", "ALLDEPS">>]

\* Options that set one variable.
Setting == [no_confirm |-> "noconfirm", sysupgrade |-> "sysupgrade",
            downgrade |-> "downgrade", dbsync |-> "dbsync"]

\* Options that take a method, and options that take a yes/no disposition.
Resolve == [resolve_conflicts |-> "conflict",
            resolve_replacements |-> "replacement"]

Prompt == [install_ignored_packages |-> "install_ignored",
           delete_corrupt_files |-> "remove_corrupted",
           use_first_provider |-> "default_provider",
           skip_unresolvable |-> "skip_unresolvable",
           import_pgp_keys |-> "import_keys"]

Enable(o, variable) == [o EXCEPT ![variable] = TRUE]
Assign(o, variable, value) == [o EXCEPT ![variable] = value]
Dispose(o, question, value) == [o EXCEPT !.disposition[question] = value]
SetFlags(o, fs) == [o EXCEPT !.flags = @ \cup fs]
Fatal(o) == [o EXCEPT !.fatal = TRUE]

\* Mutant: --print-only leaves the lock to the transaction.
SetPrintOnlyLocked(o) == [o EXCEPT !.printonly = TRUE]

SetPrintOnly(o) == SetFlags([o EXCEPT !.printonly = TRUE], {"NOLOCK"})

\* --as-deps and --as-explicit exclude each other.
SetReason(o, r) == IF r[2] \in o.flags THEN Fatal(o) ELSE SetFlags(o, {r[1]})

SetTwice(o, f) == SetFlags(o, {f[IF f[1] \in o.flags THEN 2 ELSE 1]})

\* Mutant: --yolo leaves the answers alone that were given before it.
YoloYields(o) ==
    LET unless(answer, value) == IF answer = "prompt" THEN value ELSE answer
    IN [o EXCEPT !.conflict = unless(@, "all"), !.replacement = unless(@, "all"),
                 !.disposition = [q \in BoolQuestions |-> unless(@[q], "yes")],
                 !.noconfirm = TRUE]

Yolo(o) == [o EXCEPT !.conflict = "all", !.replacement = "all",
                     !.disposition = [q \in BoolQuestions |-> "yes"],
                     !.noconfirm = TRUE]

\* Mutant: every target goes to the list that was current at the start.
AddTargetToSpec(o, t) == [o EXCEPT !.targets["spec"] = Append(@, t)]

AddTarget(o, t) == [o EXCEPT !.targets[o.list] = Append(@, t)]

\* parse_replacement_disposition knows the value.
IsMethod(value) == value \in Methods

\* The options without a value; any other option is not known.
ParseSwitch(o, name) ==
    CASE name \in DOMAIN Switch -> SetFlags(o, Switch[name])
      [] name \in DOMAIN Twice -> SetTwice(o, Twice[name])
      [] name \in DOMAIN Reason -> SetReason(o, Reason[name])
      [] name \in DOMAIN Setting -> Enable(o, Setting[name])
      [] name = "print_only" -> SetPrintOnly(o)
      [] name = "yolo" -> Yolo(o)
      [] OTHER -> Fatal(o)

\* One turn of the getopt_long loop.  exit(1) ends the parsing.
ParseOpt(o, a) ==
    LET name == a[1]  value == a[2] IN
    IF o.fatal THEN o ELSE
    CASE name = "target" -> AddTarget(o, value)
      [] name \in DOMAIN Operation -> Assign(o, "list", Operation[name])
      [] name \in DOMAIN Resolve /\ IsMethod(value) ->
            Assign(o, Resolve[name], value)
      [] name \in DOMAIN Prompt /\ value \in BoolMethods ->
            Dispose(o, Prompt[name], value)
      [] OTHER -> ParseSwitch(o, name)

\* The whole loop: the globals after all arguments.
Parse(myname, argv) ==
    LET after[n \in 0 .. Len(argv)] ==
          IF n = 0 THEN Defaults(myname) ELSE ParseOpt(after[n - 1], argv[n])
    IN  after[Len(argv)]

=============================================================================
