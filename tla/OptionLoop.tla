----------------------------- MODULE OptionLoop -----------------------------
(***************************************************************************)
(* The getopt_long loop of pactrans' parse_opts, one argument at a time.   *)
(* The options are meant to be combined in any order; this module checks   *)
(* that no order of them reaches a combination main does not expect.       *)
(***************************************************************************)
EXTENDS TransOpts, Lists

CONSTANTS
    ProgramNames,   \* the names the program is installed under
    Arguments,      \* the arguments, <<option, value>>
    MaxArgs         \* bound: length of the command line

VARIABLES
    myname,
    argv,           \* history: the arguments so far
    o               \* the globals

vars == <<myname, argv, o>>

Init ==
    /\ myname \in ProgramNames
    /\ argv = << >>
    /\ o = Defaults(myname)

GetOpt ==
    /\ Len(argv) < MaxArgs /\ ~o.fatal
    /\ \E a \in Arguments :
         /\ argv' = Append(argv, a)
         /\ o' = ParseOpt(o, a)
    /\ UNCHANGED myname

\* The command line is at its end, or a bad option has ended the program.
Done ==
    /\ Len(argv) = MaxArgs \/ o.fatal
    /\ UNCHANGED vars

Next == GetOpt \/ Done

Spec == Init /\ [][Next]_vars

Given(i) == argv[i][1]

\* A transaction works without the lock exactly if it is not to be committed:
\* printonly and NOLOCK are set together and by nothing else.
NoLockIffPrintOnly == "NOLOCK" \in o.flags <=> o.printonly

\* doc/pactrans.pod:25-26: operation options affect the targets that follow them
\* up to the next operation option; before the first one, the program's name
\* decides.  So every target is in the list of the last operation before it.
OperationAt(i) ==
    LET ops == {j \in 1 .. i : Given(j) \in DOMAIN Operation}
    IN IF ops = {} THEN Defaults(myname).list
       ELSE Operation[Given(CHOOSE j \in ops : \A k \in ops : k <= j)]

TargetsOf(l) == {i \in DOMAIN argv : Given(i) = "target" /\ OperationAt(i) = l}

TargetsFollowOperation ==
    ~o.fatal => \A l \in Lists :
        LET mine == Select([i \in DOMAIN argv |-> i], TargetsOf(l))
        IN  o.targets[l] = [k \in DOMAIN mine |-> argv[mine[k]][2]]

\* No order of the switches gets past the test that --as-deps and --as-explicit
\* exclude each other: libalpm sees at most one of the two reasons.
OneReason == ~({"ALLDEPS", "ALLEXPLICIT"} \subseteq o.flags)

\* The questions that pactrans may be told how to answer, and what it is told.
Questions == BoolQuestions \cup {"conflict", "replacement"}

Answer(r, q) == IF q \in BoolQuestions THEN r.disposition[q] ELSE r[q]

\* An argument decides a question if it is the question's own option, or --yolo,
\* which decides them all.
Decides(a, q) ==
    \/ a[1] = "yolo"
    \/ a[1] \in DOMAIN Prompt /\ Prompt[a[1]] = q
    \/ a[1] \in DOMAIN Resolve /\ Resolve[a[1]] = q

Decision(a, q) ==
    IF a[1] # "yolo" THEN a[2] ELSE IF q \in BoolQuestions THEN "yes" ELSE "all"

DecidedAt(q) == {i \in DOMAIN argv : Decides(argv[i], q)}

\* doc/pactrans.pod:209-306: each question is answered as the last of the options
\* says that decide it.  So --yolo overrides the answers before it, an option after
\* it takes back the answer to its own question and no other, and a question that
\* no option decides is asked.
LastAnswerCounts ==
    ~o.fatal => \A q \in Questions :
        Answer(o, q) =
            IF DecidedAt(q) = {} THEN "prompt"
            ELSE Decision(argv[CHOOSE i \in DecidedAt(q) : \A j \in DecidedAt(q) : j <= i], q)
=============================================================================
