-------------------------- MODULE OptionLoopProofs --------------------------
(***************************************************************************)
(* Theorems about OptionLoop for command lines of any length over any set  *)
(* of arguments, known options or not.                                     *)
(***************************************************************************)
EXTENDS OptionLoop, TransOptsProofs, TLAPS

OptionInv == Sound(o)

\* The globals are sound before the first option.
LEMMA InitSound == Init => OptionInv
BY DEF Init, Defaults, OptionInv, Sound, Fields, Locked, Reasoned

LEMMA StepSound == ASSUME OptionInv, [Next]_vars PROVE OptionInv'
<1>1. CASE GetOpt
  BY <1>1, ParseOptSound DEF GetOpt, OptionInv
<1>2. CASE UNCHANGED vars
  BY <1>2 DEF vars, OptionInv, Sound, Fields, Locked, Reasoned
<1> QED BY <1>1, <1>2 DEF Next, Done

\* The inductive invariant holds for every command line.
THEOREM OptionInvariant == Spec => []OptionInv
BY InitSound, StepSound, PTL DEF Spec

\* NOLOCK and printonly stay equal over every command line: only transactions
\* that will not be committed work without the lock.
THEOREM PrintOnlyUnlocked == Spec => []NoLockIffPrintOnly
<1>1. OptionInv => NoLockIffPrintOnly
  BY DEF OptionInv, Sound, Locked, NoLockIffPrintOnly
<1> QED BY <1>1, OptionInvariant, PTL

\* No command line gives libalpm both install reasons.
THEOREM ReasonsExclusive == Spec => []OneReason
<1>1. OptionInv => OneReason
  BY DEF OptionInv, Sound, Reasoned, OneReason
<1> QED BY <1>1, OptionInvariant, PTL

-----------------------------------------------------------------------------
(***************************************************************************)
(* The answers to libalpm's questions.                                     *)
(***************************************************************************)

AnswerFields(r) ==
    /\ {"fatal", "conflict", "replacement", "disposition"} \subseteq DOMAIN r
    /\ DOMAIN r.disposition = BoolQuestions

\* r answers as q does.
SameAnswers(q, r) == AnswerFields(r) /\ \A x \in Questions : Answer(r, x) = Answer(q, x)

\* r answers as the argument a says, and else as q does.
Answers(q, r, a) ==
    /\ AnswerFields(r)
    /\ ~r.fatal => \A x \in Questions :
         Answer(r, x) = IF Decides(a, x) THEN Decision(a, x) ELSE Answer(q, x)

LEMMA KindsOfQuestions == "conflict" \notin BoolQuestions /\ "replacement" \notin BoolQuestions
BY DEF BoolQuestions

LEMMA FlagsSameAnswers ==
    ASSUME NEW q, AnswerFields(q), NEW fs
    PROVE  SameAnswers(q, SetFlags(q, fs))
BY DEF AnswerFields, SameAnswers, Answer, Questions, SetFlags

LEMMA OthersSameAnswers ==
    ASSUME NEW q, AnswerFields(q), NEW v
    PROVE  /\ SameAnswers(q, AddTarget(q, v))
           /\ SameAnswers(q, Assign(q, "list", v))
           /\ SameAnswers(q, SetPrintOnly(q))
           /\ AnswerFields(Fatal(q)) /\ Fatal(q).fatal
BY DEF AnswerFields, SameAnswers, Answer, Questions, AddTarget, SetPrintOnly, SetFlags, Fatal, Assign

LEMMA SettingSameAnswers ==
    ASSUME NEW q, AnswerFields(q), NEW name \in DOMAIN Setting
    PROVE  SameAnswers(q, Enable(q, Setting[name]))
<1>1. Setting[name] \notin {"fatal", "conflict", "replacement", "disposition"}
  BY DEF Setting
<1> QED BY <1>1 DEF AnswerFields, SameAnswers, Answer, Questions, Enable

\* The switches decide nothing, except for --yolo.
LEMMA SwitchAnswers ==
    ASSUME NEW q, AnswerFields(q), NEW a,
           a[1] \notin DOMAIN Prompt, a[1] \notin DOMAIN Resolve
    PROVE  Answers(q, ParseSwitch(q, a[1]), a)
<1>1. PICK r : r = ParseSwitch(q, a[1])
  OBVIOUS
<1>2. CASE a[1] = "yolo"
  <2>1. r = Yolo(q)
    BY <1>1, <1>2, SMT DEF ParseSwitch, Switch, Twice, Reason, Setting
  <2>2. \A x \in Questions : Decides(a, x) /\ Decision(a, x) = IF x \in BoolQuestions THEN "yes" ELSE "all"
    BY <1>2 DEF Decides, Decision
  <2>3. AnswerFields(r) /\ r.conflict = "all" /\ r.replacement = "all"
        /\ \A x \in BoolQuestions : r.disposition[x] = "yes"
    BY <2>1 DEF Yolo, AnswerFields
  <2>4. \A x \in Questions : Answer(r, x) = IF x \in BoolQuestions THEN "yes" ELSE "all"
    BY <2>3 DEF Answer, Questions
  <2> QED BY <1>1, <2>2, <2>3, <2>4 DEF Answers
<1>3. CASE a[1] # "yolo"
  <2>1. \A x \in Questions : ~Decides(a, x)
    BY <1>3 DEF Decides
  <2>2. \/ r = SetFlags(q, Switch[a[1]])
        \/ r = SetTwice(q, Twice[a[1]])
        \/ r = SetReason(q, Reason[a[1]])
        \/ a[1] \in DOMAIN Setting /\ r = Enable(q, Setting[a[1]])
        \/ r = SetPrintOnly(q)
        \/ r = Fatal(q)
    BY <1>1, <1>3, SMT DEF ParseSwitch
  <2>3. SameAnswers(q, SetFlags(q, Switch[a[1]]))
    BY FlagsSameAnswers
  <2>4. SameAnswers(q, SetTwice(q, Twice[a[1]]))
    BY FlagsSameAnswers DEF SetTwice
  <2>5. SetReason(q, Reason[a[1]]) = Fatal(q) \/ SameAnswers(q, SetReason(q, Reason[a[1]]))
    BY FlagsSameAnswers DEF SetReason
  <2>6. a[1] \in DOMAIN Setting => SameAnswers(q, Enable(q, Setting[a[1]]))
    BY SettingSameAnswers
  <2>7. SameAnswers(q, SetPrintOnly(q)) /\ AnswerFields(Fatal(q)) /\ Fatal(q).fatal
    BY OthersSameAnswers
  <2>8. SameAnswers(q, r) \/ (AnswerFields(r) /\ r.fatal)
    BY <2>2, <2>3, <2>4, <2>5, <2>6, <2>7, Zenon
  <2> QED BY <1>1, <2>1, <2>8 DEF SameAnswers, Answers
<1> QED BY <1>2, <1>3

\* An option that takes an answer decides its own question.
LEMMA ResolveAnswers ==
    ASSUME NEW q, AnswerFields(q), NEW a, a[1] \in DOMAIN Resolve
    PROVE  Answers(q, Assign(q, Resolve[a[1]], a[2]), a)
<1>1. PICK r, y : r = Assign(q, y, a[2]) /\ y = Resolve[a[1]] /\ y \in {"conflict", "replacement"}
  BY DEF Resolve
<1>2. a[1] # "yolo" /\ a[1] \notin DOMAIN Prompt
  BY DEF Resolve, Prompt
<1>3. \A x \in Questions : (Decides(a, x) <=> x = y) /\ Decision(a, x) = a[2]
  BY <1>1, <1>2 DEF Decides, Decision
<1>4. AnswerFields(r) /\ r.disposition = q.disposition /\ r[y] = a[2]
      /\ \A x \in {"conflict", "replacement"} : x # y => r[x] = q[x]
  BY <1>1 DEF Assign, AnswerFields
<1>5. \A x \in Questions : Answer(r, x) = IF x = y THEN a[2] ELSE Answer(q, x)
  BY <1>1, <1>4, KindsOfQuestions DEF Answer, Questions
<1> QED BY <1>1, <1>3, <1>4, <1>5 DEF Answers

LEMMA PromptAnswers ==
    ASSUME NEW q, AnswerFields(q), NEW a, a[1] \in DOMAIN Prompt
    PROVE  Answers(q, Dispose(q, Prompt[a[1]], a[2]), a)
<1>1. PICK r, y : r = Dispose(q, y, a[2]) /\ y = Prompt[a[1]] /\ y \in BoolQuestions
  BY DEF Prompt, BoolQuestions
<1>2. a[1] # "yolo" /\ a[1] \notin DOMAIN Resolve
  BY DEF Resolve, Prompt
<1>3. \A x \in Questions : (Decides(a, x) <=> x = y) /\ Decision(a, x) = a[2]
  BY <1>1, <1>2 DEF Decides, Decision
<1>4. /\ AnswerFields(r) /\ r.conflict = q.conflict /\ r.replacement = q.replacement
      /\ r.disposition = [q.disposition EXCEPT ![y] = a[2]]
  BY <1>1 DEF Dispose, AnswerFields
<1>5. \A x \in Questions : Answer(r, x) = IF x = y THEN a[2] ELSE Answer(q, x)
  BY <1>1, <1>4, KindsOfQuestions DEF Answer, Questions, AnswerFields
<1> QED BY <1>1, <1>3, <1>4, <1>5 DEF Answers

\* One turn of the loop leaves every question as it was, but for those that the
\* argument decides.
LEMMA ParseOptAnswers ==
    ASSUME NEW q, AnswerFields(q), ~q.fatal, NEW a
    PROVE  Answers(q, ParseOpt(q, a), a)
<1>1. PICK r : r = ParseOpt(q, a)
  OBVIOUS
<1>2. /\ "target" \notin DOMAIN Prompt \cup DOMAIN Resolve
      /\ \A x \in DOMAIN Operation : x \notin DOMAIN Prompt \cup DOMAIN Resolve /\ x # "yolo"
  BY DEF Operation, Prompt, Resolve
<1>3. CASE a[1] = "target" \/ a[1] \in DOMAIN Operation
  <2>1. r = AddTarget(q, a[2]) \/ r = Assign(q, "list", Operation[a[1]])
    <3>1. a[1] \notin DOMAIN Resolve /\ a[1] \notin DOMAIN Prompt
      BY <1>2, <1>3
    <3> QED BY <1>1, <1>3, <3>1, SMT DEF ParseOpt
  <2>2. SameAnswers(q, r)
    BY <2>1, OthersSameAnswers
  <2>3. \A x \in Questions : ~Decides(a, x)
    BY <1>2, <1>3 DEF Decides
  <2> QED BY <1>1, <2>2, <2>3 DEF Answers, SameAnswers
<1>4. CASE a[1] # "target" /\ a[1] \notin DOMAIN Operation
  <2>1. \/ a[1] \in DOMAIN Resolve /\ r = Assign(q, Resolve[a[1]], a[2])
        \/ a[1] \in DOMAIN Prompt /\ r = Dispose(q, Prompt[a[1]], a[2])
        \/ r = ParseSwitch(q, a[1])
    BY <1>1, <1>4, SMT DEF ParseOpt
  <2>2. CASE r = ParseSwitch(q, a[1])
    <3>1. CASE a[1] \in DOMAIN Prompt \cup DOMAIN Resolve
      <4>1. r = Fatal(q)
        BY <2>2, <3>1, SMT DEF ParseSwitch, Prompt, Resolve, Switch, Twice, Reason, Setting
      <4> QED BY <1>1, <4>1, OthersSameAnswers DEF Answers
    <3>2. CASE a[1] \notin DOMAIN Prompt \cup DOMAIN Resolve
      BY <1>1, <2>2, <3>2, SwitchAnswers
    <3> QED BY <3>1, <3>2
  <2> QED BY <1>1, <2>1, <2>2, ResolveAnswers, PromptAnswers
<1> QED BY <1>3, <1>4

\* The last of a set of arguments.
LatestOf(S) == CHOOSE i \in S : \A j \in S : j <= i

Told(q) == IF DecidedAt(q) = {} THEN "prompt" ELSE Decision(argv[LatestOf(DecidedAt(q))], q)

AnswerInv ==
    /\ argv \in Seq(Arguments)
    /\ AnswerFields(o)
    /\ ~o.fatal => \A q \in Questions : Answer(o, q) = Told(q)

\* An argument that is added has the last word in what it decides.
LEMMA ToldGrows ==
    ASSUME argv \in Seq(Arguments), NEW a \in Arguments, argv' = Append(argv, a), NEW q
    PROVE  Told(q)' = IF Decides(a, q) THEN Decision(a, q) ELSE Told(q)
<1>1. PICK n \in Nat : n = Len(argv)
  OBVIOUS
<1>2. argv'[n + 1] = a /\ DOMAIN argv' = 1 .. n + 1 /\ DOMAIN argv = 1 .. n
      /\ \A i \in 1 .. n : argv'[i] = argv[i]
  BY <1>1
<1>3. PICK S, T : S = DecidedAt(q) /\ T = DecidedAt(q)'
  OBVIOUS
<1>4. S \subseteq 1 .. n /\ T = S \cup (IF Decides(a, q) THEN {n + 1} ELSE {})
  <2>1. S = {i \in 1 .. n : Decides(argv[i], q)}
    BY <1>2, <1>3 DEF DecidedAt
  <2>2. T = {i \in 1 .. n + 1 : Decides(argv'[i], q)}
    BY <1>2, <1>3 DEF DecidedAt, Decides
  <2>3. \A i \in 1 .. n : Decides(argv'[i], q) <=> Decides(argv[i], q)
    BY <1>2
  <2>4. Decides(argv'[n + 1], q) <=> Decides(a, q)
    BY <1>2
  <2>5. \A i : i \in 1 .. n + 1 <=> i \in 1 .. n \/ i = n + 1
    OBVIOUS
  <2>6. \A i : i \in T <=> i \in S \/ (i = n + 1 /\ Decides(a, q))
    <3>1. \A i \in 1 .. n + 1 : i \in T <=> Decides(argv'[i], q)
      BY <2>2
    <3>2. n + 1 \in 1 .. n + 1
      OBVIOUS
    <3> QED BY <2>1, <2>2, <2>3, <2>4, <2>5, <3>1, <3>2, Zenon
  <2> QED BY <2>1, <2>6
<1>5. /\ Told(q) = IF S = {} THEN "prompt" ELSE Decision(argv[LatestOf(S)], q)
      /\ Told(q)' = IF T = {} THEN "prompt" ELSE Decision(argv'[LatestOf(T)], q)
  BY <1>3 DEF Told, Decision, LatestOf
<1>6. CASE Decides(a, q)
  <2>1. n + 1 \in T /\ \A i \in T : i \in 1 .. n + 1
    BY <1>4, <1>6
  <2>2. \A i \in T : (\A j \in T : j <= i) <=> i = n + 1
    BY <2>1
  <2>3. LatestOf(T) = n + 1
    BY <2>1, <2>2 DEF LatestOf
  <2>4. Told(q)' = Decision(argv'[n + 1], q)
    BY <1>5, <2>1, <2>3
  <2> QED BY <1>2, <1>6, <2>4
<1>7. CASE ~Decides(a, q)
  <2>1. T = S
    BY <1>4, <1>7
  <2>2. CASE S = {}
    BY <1>5, <1>7, <2>1, <2>2
  <2>3. CASE S # {}
    <3>1. \E i \in S : \A j \in S : j <= i
      <4>1. S \in SUBSET Nat /\ \A y \in S : y <= n
        BY <1>4
      <4> QED BY <2>3, <4>1, GreatestNat
    <3>2. LatestOf(S) \in S
      BY <3>1 DEF LatestOf
    <3>3. argv'[LatestOf(S)] = argv[LatestOf(S)]
      BY <1>2, <1>4, <3>2
    <3> QED BY <1>5, <1>7, <2>1, <2>3, <3>3
  <2> QED BY <2>2, <2>3
<1> QED BY <1>6, <1>7

LEMMA AnswerStep == ASSUME AnswerInv, [Next]_vars PROVE AnswerInv'
<1>1. CASE GetOpt
  <2>1. PICK a \in Arguments : argv' = Append(argv, a) /\ o' = ParseOpt(o, a) /\ ~o.fatal
    BY <1>1 DEF GetOpt
  <2>2. argv \in Seq(Arguments) /\ argv' \in Seq(Arguments)
    BY <2>1 DEF AnswerInv
  <2>3. Answers(o, o', a)
    BY <2>1, ParseOptAnswers DEF AnswerInv
  <2>4. ASSUME ~o'.fatal, NEW q \in Questions
        PROVE  Answer(o', q) = Told(q)'
    <3>1. Answer(o', q) = IF Decides(a, q) THEN Decision(a, q) ELSE Answer(o, q)
      BY <2>3, <2>4 DEF Answers
    <3>2. Answer(o, q) = Told(q)
      BY <2>1 DEF AnswerInv
    <3>3. Told(q)' = IF Decides(a, q) THEN Decision(a, q) ELSE Told(q)
      BY <2>1, <2>2, ToldGrows
    <3> QED BY <3>1, <3>2, <3>3
  <2> QED BY <2>2, <2>3, <2>4 DEF AnswerInv, Answers
<1>2. CASE UNCHANGED vars
  <2>1. argv' = argv /\ o' = o
    BY <1>2 DEF vars
  <2>2. \A q : Told(q)' = Told(q)
    BY <2>1 DEF Told, DecidedAt
  <2> QED BY <2>1, <2>2 DEF AnswerInv, AnswerFields, Answer
<1> QED BY <1>1, <1>2 DEF Next, Done

\* However long the command line is, each question is answered as the last option
\* says that decides it, --yolo and the question's own option alike.
THEOREM LastAnswers == Spec => []LastAnswerCounts
<1>1. Init => AnswerInv
  <2> SUFFICES ASSUME Init PROVE AnswerInv
    OBVIOUS
  <2>1. argv = << >> /\ o = Defaults(myname)
    BY DEF Init
  <2>2. \A q : DecidedAt(q) = {}
    BY <2>1 DEF DecidedAt
  <2>3. /\ AnswerFields(o) /\ o.conflict = "prompt" /\ o.replacement = "prompt"
        /\ \A q \in BoolQuestions : o.disposition[q] = "prompt"
    BY <2>1 DEF Defaults, AnswerFields
  <2>4. \A q \in Questions : Answer(o, q) = "prompt"
    BY <2>3 DEF Answer, Questions
  <2> QED BY <2>1, <2>2, <2>3, <2>4 DEF AnswerInv, Told
<1>2. AnswerInv => LastAnswerCounts
  BY DEF AnswerInv, LastAnswerCounts, Told, LatestOf
<1> QED BY <1>1, <1>2, AnswerStep, PTL DEF Spec

-----------------------------------------------------------------------------
\* The current list is that of the last operation, and each list has the targets that
\* were given for it.
Numbers(n) == [i \in 1..n |-> i]
Values(mine) == [k \in DOMAIN mine |-> argv[mine[k]][2]]

TargetInv ==
    /\ argv \in Seq(Arguments)
    /\ ~o.fatal =>
         /\ TargetFields(o)
         /\ o.list = OperationAt(Len(argv))
         /\ \A l \in Lists : o.targets[l] = Values(Select(Numbers(Len(argv)), TargetsOf(l)))

LEMMA NumbersGrow ==
    ASSUME NEW n \in Nat
    PROVE  Numbers(n) \in Seq(1..n) /\ Numbers(n + 1) = Append(Numbers(n), n + 1)
BY DEF Numbers

\* An argument that is added changes no operation before it.
LEMMA OperationGrows ==
    ASSUME argv \in Seq(Arguments), NEW a \in Arguments, argv' = Append(argv, a),
           myname' = myname, NEW n \in Nat, n = Len(argv)
    PROVE  /\ \A i \in 0..n : OperationAt(i)' = OperationAt(i)
           /\ OperationAt(n + 1)' =
                IF a[1] \in DOMAIN Operation THEN Operation[a[1]] ELSE OperationAt(n)
<1> DEFINE Ops(i) == {j \in 1..i : Given(j) \in DOMAIN Operation}
           NewOps(i) == {j \in 1..i : argv'[j][1] \in DOMAIN Operation}
<1>2. argv'[n + 1] = a /\ \A j \in 1..n : argv'[j] = argv[j]
  OBVIOUS
<1>3. ASSUME NEW i \in 0..n PROVE NewOps(i) = Ops(i)
  BY <1>2 DEF Given
<1>4. ASSUME NEW i \in 0..n PROVE OperationAt(i)' = OperationAt(i)
  <2>1. \A j \in 1..i : argv'[j] = argv[j]
    BY <1>2
  <2>2. \A j \in Ops(i) : Given(j)' = Given(j)
    BY <2>1 DEF Given
  <2>3. CASE Ops(i) = {}
    BY <1>3, <2>3 DEF OperationAt, Given
  <2>4. CASE Ops(i) # {}
    <3> DEFINE j == CHOOSE j \in Ops(i) : \A k \in Ops(i) : k <= j
    <3>1. Ops(i) \in SUBSET Nat /\ i \in Nat /\ \A y \in Ops(i) : y <= i
      OBVIOUS
    <3>2. j \in Ops(i)
      <4> HIDE DEF Ops
      <4> QED BY <2>4, <3>1, GreatestNat
    <3>3. OperationAt(i) = Operation[Given(j)]
      BY <2>4 DEF OperationAt
    <3>4. OperationAt(i)' = Operation[argv'[j][1]]
      BY <1>3, <2>4 DEF OperationAt, Given
    <3> HIDE DEF j
    <3> QED BY <2>2, <3>2, <3>3, <3>4 DEF Given
  <2> QED BY <2>3, <2>4
<1>5. CASE a[1] \in DOMAIN Operation
  <2>1. n + 1 \in NewOps(n + 1) /\ \A k \in NewOps(n + 1) : k <= n + 1
    BY <1>2, <1>5
  <2>2. n + 1 = CHOOSE j \in NewOps(n + 1) : \A k \in NewOps(n + 1) : k <= j
    <3>1. \A j \in NewOps(n + 1) : (\A k \in NewOps(n + 1) : k <= j) => j = n + 1
      BY <2>1
    <3> HIDE DEF NewOps
    <3> QED BY <2>1, <3>1
  <2>3. OperationAt(n + 1)' = Operation[argv'[n + 1][1]]
    BY <2>1, <2>2 DEF OperationAt, Given
  <2> QED BY <1>2, <1>4, <1>5, <2>3
<1>6. CASE a[1] \notin DOMAIN Operation
  <2>1. NewOps(n + 1) = NewOps(n)
    BY <1>2, <1>6
  <2> DEFINE At(S) == IF S = {} THEN Defaults(myname').list
                      ELSE Operation[argv'[CHOOSE j \in S : \A k \in S : k <= j][1]]
  <2>2. OperationAt(n + 1)' = At(NewOps(n + 1)) /\ OperationAt(n)' = At(NewOps(n))
    BY DEF OperationAt, Given
  <2> HIDE DEF At, NewOps
  <2> QED BY <1>4, <1>6, <2>1, <2>2
<1> QED BY <1>5, <1>6

\* The targets of a list keep their places; the new argument may be one more.
LEMMA TargetsGrow ==
    ASSUME argv \in Seq(Arguments), NEW a \in Arguments, argv' = Append(argv, a),
           myname' = myname, NEW n \in Nat, n = Len(argv), NEW l
    PROVE  /\ Select(Numbers(n), TargetsOf(l)) \in Seq(1..n)
           /\ Select(Numbers(n + 1), TargetsOf(l)') =
                IF a[1] = "target" /\ OperationAt(n) = l
                THEN Append(Select(Numbers(n), TargetsOf(l)), n + 1)
                ELSE Select(Numbers(n), TargetsOf(l))
<1>1. argv'[n + 1] = a /\ \A j \in 1..n : argv'[j] = argv[j]
  OBVIOUS
<1>2. PICK S, T : S = TargetsOf(l) /\ T = TargetsOf(l)'
  OBVIOUS
<1>3. Numbers(n) \in Seq(1..n) /\ \A i \in 1..Len(Numbers(n)) : Numbers(n)[i] = i /\ i \in 1..n
  BY DEF Numbers
<1>4. \A i \in 1..n : i \in S <=> i \in T
  <2> TAKE i \in 1..n
  <2>1. OperationAt(i)' = OperationAt(i) /\ Given(i)' = Given(i)
    BY <1>1, OperationGrows DEF Given
  <2>2. i \in DOMAIN argv /\ i \in DOMAIN argv'
    OBVIOUS
  <2> QED BY <1>2, <2>1, <2>2 DEF TargetsOf
<1>5. n + 1 \in T <=> a[1] = "target" /\ OperationAt(n) = l
  <2>1. "target" \notin DOMAIN Operation
    BY DEF Operation
  <2>2. Given(n + 1)' = a[1] /\ n + 1 \in DOMAIN argv'
    BY <1>1 DEF Given
  <2>3. a[1] = "target" => OperationAt(n + 1)' = OperationAt(n)
    BY <2>1, OperationGrows
  <2> QED BY <1>2, <2>2, <2>3 DEF TargetsOf
<1>6. Select(Numbers(n), S) = Select(Numbers(n), T) /\ Select(Numbers(n), S) \in Seq(1..n)
  <2>1. PICK s \in Seq(1..n) : s = Numbers(n)
    BY <1>3
  <2>2. \A i \in 1..Len(s) : s[i] \in S <=> s[i] \in T
    BY <1>3, <1>4, <2>1
  <2>3. Select(s, S) = Select(s, T)
    BY <2>2, SelectSame
  <2> QED BY <2>1, <2>3, SelectList
<1>7. Select(Numbers(n + 1), T) = With(Select(Numbers(n), T), n + 1, T)
  <2>1. PICK s \in Seq(1..(n + 1)) : s = Numbers(n)
    <3>1. n \in Nat /\ \A i \in 1..n : i \in 1..(n + 1)
      OBVIOUS
    <3>2. Numbers(n) \in Seq(1..(n + 1))
      BY <3>1 DEF Numbers
    <3> QED BY <3>2
  <2>2. Select(Append(s, n + 1), T) = With(Select(s, T), n + 1, T)
    <3>1. n + 1 \in 1..(n + 1)
      OBVIOUS
    <3> QED BY <3>1, SelectAppend
  <2> QED BY <2>1, <2>2, NumbersGrow
<1> QED BY <1>2, <1>5, <1>6, <1>7 DEF With

LEMMA ValuesGrow ==
    ASSUME argv \in Seq(Arguments), NEW a \in Arguments, argv' = Append(argv, a),
           NEW n \in Nat, n = Len(argv), NEW mine \in Seq(1..n)
    PROVE  /\ Values(mine)' = Values(mine)
           /\ Values(Append(mine, n + 1))' = Append(Values(mine), a[2])
<1> DEFINE T == {x[2] : x \in Arguments}
<1>1. argv'[n + 1] = a /\ \A j \in 1..n : argv'[j] = argv[j] /\ argv[j] \in Arguments
  OBVIOUS
<1>2. PICK k \in Nat : k = Len(mine)
  OBVIOUS
<1>3. DOMAIN mine = 1..k /\ \A i \in 1..k : mine[i] \in 1..n
  BY <1>2
<1>4. Values(mine)' = Values(mine) /\ Values(mine) \in Seq(T) /\ Len(Values(mine)) = k
  <2>1. Values(mine) = [i \in 1..k |-> argv[mine[i]][2]]
    BY <1>3 DEF Values
  <2>2. Values(mine)' = [i \in 1..k |-> argv[mine[i]][2]]
    BY <1>1, <1>3 DEF Values
  <2>3. \A i \in 1..k : argv[mine[i]][2] \in T
    BY <1>1, <1>3
  <2> HIDE DEF T
  <2> QED BY <1>2, <2>1, <2>2, <2>3
<1>5. PICK v \in Seq(T) : v = Values(mine) /\ Len(v) = k
  BY <1>4
<1>6. PICK longer \in Seq(1..(n + 1)) :
        /\ longer = Append(mine, n + 1) /\ Len(longer) = k + 1 /\ longer[k + 1] = n + 1
        /\ \A i \in 1..k : longer[i] = mine[i]
  <2>1. PICK m \in Seq(1..(n + 1)) : m = mine /\ Len(m) = k
    BY <1>2, <1>3
  <2>2. n + 1 \in 1..(n + 1)
    OBVIOUS
  <2>3. /\ Append(m, n + 1) \in Seq(1..(n + 1)) /\ Len(Append(m, n + 1)) = k + 1
        /\ Append(m, n + 1)[k + 1] = n + 1 /\ \A i \in 1..k : Append(m, n + 1)[i] = m[i]
    BY <1>2, <2>1, <2>2, AppendProperties
  <2> QED BY <2>1, <2>3
<1>7. Values(longer)' = [i \in 1..(k + 1) |-> argv'[longer[i]][2]]
  BY <1>2, <1>6 DEF Values
<1>8. ASSUME NEW i \in 1..(k + 1) PROVE argv'[longer[i]][2] = IF i = k + 1 THEN a[2] ELSE v[i]
  <2>1. CASE i = k + 1
    BY <1>1, <1>6, <2>1
  <2>2. CASE i \in 1..k
    <3>1. v[i] = argv[mine[i]][2]
      BY <1>3, <1>5, <2>2 DEF Values
    <3> QED BY <1>1, <1>2, <1>3, <1>6, <2>2, <3>1
  <2>3. i = k + 1 \/ i \in 1..k
    BY <1>2, <1>8
  <2> QED BY <2>1, <2>2, <2>3
<1>9. Append(v, a[2]) = [i \in 1..(k + 1) |-> IF i = k + 1 THEN a[2] ELSE v[i]]
  BY <1>2, <1>5
<1>10. Values(longer)' = Append(v, a[2])
  BY <1>7, <1>8, <1>9
<1> QED BY <1>4, <1>5, <1>6, <1>10

LEMMA TargetStep == ASSUME TargetInv, [Next]_vars PROVE TargetInv'
<1>1. CASE GetOpt
  <2>1. PICK a \in Arguments :
          argv' = Append(argv, a) /\ o' = ParseOpt(o, a) /\ ~o.fatal /\ myname' = myname
    BY <1>1 DEF GetOpt
  <2>2. PICK n \in Nat : n = Len(argv)
    BY DEF TargetInv
  <2>3. argv \in Seq(Arguments) /\ argv' \in Seq(Arguments) /\ Len(argv') = n + 1
    BY <2>1, <2>2 DEF TargetInv
  <2>4. TargetFields(o) /\ o.list = OperationAt(n)
    BY <2>1, <2>2 DEF TargetInv
  <2>5. TargetFields(o')
    BY <2>1, <2>4, ParseOptTargets
  <2>6. o'.list = OperationAt(n + 1)'
    <3>1. OperationAt(n + 1)' = IF a[1] \in DOMAIN Operation THEN Operation[a[1]] ELSE OperationAt(n)
      BY <2>1, <2>2, <2>3, OperationGrows
    <3>2. "target" \notin DOMAIN Operation
      BY DEF Operation
    <3>3. /\ a[1] = "target" => o'.list = o.list
          /\ a[1] \in DOMAIN Operation => o'.list = Operation[a[1]]
          /\ a[1] # "target" /\ a[1] \notin DOMAIN Operation => o'.list = o.list
      <4>1. PICK q, r : q = o /\ r = o' /\ r = ParseOpt(q, a) /\ TargetFields(q) /\ ~q.fatal
        BY <2>1, <2>4
      <4>2. TargetFields(q) /\ ~q.fatal
        BY <4>1
      <4>3. a[1] = "target" => ParseOpt(q, a).list = q.list
        BY <4>2, ParseOptTargets
      <4>4. a[1] \in DOMAIN Operation => ParseOpt(q, a).list = Operation[a[1]]
        <5>1. a[1] \in DOMAIN Operation => /\ ParseOpt(q, a).list = Operation[a[1]]
                                          /\ ParseOpt(q, a).targets = q.targets
          BY <4>2, ParseOptTargets, Zenon
        <5> QED BY <5>1
      <4>5. a[1] # "target" /\ a[1] \notin DOMAIN Operation => KeepsTargets(q, ParseOpt(q, a))
        BY <4>2, ParseOptTargets, Zenon
      <4> QED BY <4>1, <4>3, <4>4, <4>5 DEF KeepsTargets
    <3> QED BY <2>4, <3>1, <3>2, <3>3
  <2>7. ASSUME NEW l \in Lists
        PROVE  o'.targets[l] = Values(Select(Numbers(n + 1), TargetsOf(l)))'
    <3>1. PICK mine \in Seq(1..n) : mine = Select(Numbers(n), TargetsOf(l))
      BY <2>1, <2>2, <2>3, TargetsGrow
    <3>2. o.targets[l] = Values(mine)
      BY <2>1, <2>2, <3>1 DEF TargetInv
    <3>3. Values(mine)' = Values(mine) /\ Values(Append(mine, n + 1))' = Append(Values(mine), a[2])
      BY <2>1, <2>2, <2>3, ValuesGrow
    <3>4. Select(Numbers(n + 1), TargetsOf(l)') =
            IF a[1] = "target" /\ OperationAt(n) = l THEN Append(mine, n + 1) ELSE mine
      BY <2>1, <2>2, <2>3, <3>1, TargetsGrow
    <3>5. o'.targets[l] = IF a[1] = "target" /\ o.list = l THEN Append(o.targets[l], a[2])
                          ELSE o.targets[l]
      <4>1. "target" \notin DOMAIN Operation /\ l \in DOMAIN o.targets
        BY <2>4 DEF Operation, TargetFields
      <4>2. /\ a[1] = "target" => o'.targets = [o.targets EXCEPT ![o.list] = Append(o.targets[o.list], a[2])]
            /\ a[1] # "target" => o'.targets = o.targets
        <5>1. PICK q : q = o
          OBVIOUS
        <5>2. TargetFields(q) /\ ~q.fatal /\ o' = ParseOpt(q, a)
          BY <2>1, <2>4, <5>1
        <5>3. PICK r : r = ParseOpt(q, a)
          OBVIOUS
        <5>4. a[1] = "target" => r.targets = [q.targets EXCEPT ![q.list] = Append(q.targets[q.list], a[2])]
          BY <5>2, <5>3, ParseOptTargets, ZenonT(30)
        <5>5. "target" # a[1] /\ a[1] \notin DOMAIN Operation => KeepsTargets(q, r)
          BY <5>2, <5>3, ParseOptTargets, Zenon
        <5>6. a[1] \in DOMAIN Operation => r.targets = q.targets
          BY <5>2, <5>3, ParseOptTargets, Zenon
        <5> QED BY <5>1, <5>2, <5>3, <5>4, <5>5, <5>6 DEF KeepsTargets
      <4> QED BY <4>1, <4>2
    <3>6. PICK all : all = Select(Numbers(n + 1), TargetsOf(l)')
      OBVIOUS
    <3>7. Values(all)' = Values(Select(Numbers(n + 1), TargetsOf(l)))'
      BY <3>6 DEF Numbers
    <3> QED BY <2>4, <3>2, <3>3, <3>4, <3>5, <3>6, <3>7
  <2> QED BY <2>3, <2>5, <2>6, <2>7 DEF TargetInv, Numbers
<1>2. CASE UNCHANGED vars
  <2>1. argv' = argv /\ o' = o /\ myname' = myname
    BY <1>2 DEF vars
  <2>2. OperationAt(Len(argv))' = OperationAt(Len(argv))
    BY <2>1 DEF OperationAt, Given
  <2>3. ASSUME NEW l
        PROVE  Values(Select(Numbers(Len(argv)), TargetsOf(l)))'
                 = Values(Select(Numbers(Len(argv)), TargetsOf(l)))
    BY <2>1, ZenonT(30) DEF Values, TargetsOf, OperationAt, Given, Numbers
  <2> QED BY <2>1, <2>2, <2>3 DEF TargetInv, TargetFields
<1> QED BY <1>1, <1>2 DEF Next, Done

\* On every command line the targets of a list are those that were given after its
\* operation, in their order.
THEOREM TargetsInTheirList == Spec => []TargetsFollowOperation
<1>1. Init => TargetInv
  <2> SUFFICES ASSUME Init PROVE TargetInv
    OBVIOUS
  <2>1. argv = << >> /\ o = Defaults(myname) /\ Len(argv) = 0
    BY DEF Init
  <2>2. OperationAt(0) = Defaults(myname).list
    BY DEF OperationAt
  <2>3. TargetFields(o)
    BY <2>1, DefaultsSound DEF TargetFields, Defaults, Typed
  <2>4. ASSUME NEW l \in Lists
        PROVE  o.targets[l] = Values(Select(Numbers(0), TargetsOf(l)))
    <3>1. Numbers(0) = << >>
      BY DEF Numbers
    <3>2. Values(<< >>) = << >>
      BY DEF Values
    <3> QED BY <2>1, <3>1, <3>2, SelectEmpty DEF Defaults
  <2> QED BY <2>1, <2>2, <2>3, <2>4 DEF TargetInv
<1>2. TargetInv => TargetsFollowOperation
  <2>1. argv \in Seq(Arguments) => Numbers(Len(argv)) = [i \in DOMAIN argv |-> i]
    BY DEF Numbers
  <2> QED BY <2>1 DEF TargetInv, TargetsFollowOperation, Values
<1> QED BY <1>1, <1>2, TargetStep, PTL DEF Spec
=============================================================================
