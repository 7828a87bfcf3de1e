------------------------------ MODULE ToolState ------------------------------
(***************************************************************************)
(* What the programs have in common that run alone: each parses its        *)
(* arguments, sets up libalpm, and then goes through lists of packages and *)
(* files, building other lists on the way.                                 *)
(***************************************************************************)
EXTENDS Integers, Sequences, SequencesExt, FiniteSetsExt, Functions, Lists

CONSTANT None

VARIABLES
    tool,       \* the program
    argv,       \* its arguments, <<option, value>>
    sys,        \* what it finds: databases, files, input
    o,          \* the globals of its options
    pc,         \* the place in main
    todo,       \* what the loop has still to go through
    acc,        \* the lists and sums it has built
    out,        \* what it printed
    ret         \* the exit status

toolVars == <<tool, argv, sys, o, pc, todo, acc, out, ret>>

\* Before parse_opts.
Started(program, arguments, system) ==
    /\ tool = program /\ argv = arguments /\ sys = system
    /\ o = None /\ pc = "start" /\ todo = << >> /\ acc = None /\ out = << >> /\ ret = 0

-----------------------------------------------------------------------------
\* A getopt_long loop.  A program's options are in four tables: those that set a
\* global to a value, those that count, those that assign their argument, and those
\* that add it to a list.
Takes(t, g, a) ==
    LET name == a[1] IN
    CASE name \in DOMAIN t.set -> [g EXCEPT ![t.set[name][1]] = t.set[name][2]]
      [] name \in DOMAIN t.count -> [g EXCEPT ![t.count[name]] = @ + 1]
      [] name \in DOMAIN t.assign -> [g EXCEPT ![t.assign[name]] = a[2]]
      [] name \in DOMAIN t.add -> [g EXCEPT ![t.add[name]] = Append(@, a[2])]

Parse(t, defaults) ==
    LET after[n \in 0..Len(argv)] == IF n = 0 THEN defaults ELSE Takes(t, after[n - 1], argv[n])
    IN  after[Len(argv)]

\* getopt_long refuses an option that is in none of the tables.
Accepts(t, arguments) ==
    /\ IsList(arguments)
    /\ \A a \in ToSet(arguments) :
         a[1] \in DOMAIN t.set \cup DOMAIN t.count \cup DOMAIN t.assign \cup DOMAIN t.add

NoOptions == [x \in {} |-> None]

\* Parsing, the configuration and the handle; each may fail, with a status of its own.
Setup(program, parsed, next, failures) ==
    /\ tool = program /\ pc = "start"
    /\ o' = parsed
    /\ \/ pc' = next /\ UNCHANGED ret
       \/ \E status \in failures : pc' = "failed" /\ ret' = status
    /\ UNCHANGED <<tool, argv, sys, todo, acc, out>>

At(program, place) == tool = program /\ pc = place

\* The loop of main ends and the program goes on at another place.
Goto(place) == pc' = place

Stays == UNCHANGED <<tool, argv, sys, o>>

Exit(status) == pc' = "exited" /\ ret' = status

Over == pc \in {"exited", "failed"}
=============================================================================
