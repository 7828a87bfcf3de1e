--------------------------- MODULE TransOptsProofs ---------------------------
(***************************************************************************)
(* What the options of pactrans do to the globals, one kind after another, *)
(* one argument, and a whole command line of any length with any           *)
(* arguments, known options or not.                                        *)
(***************************************************************************)
EXTENDS TransOpts, ListProofs, TLAPS

\* The globals that the properties are about are there.
Fields(r) == {"flags", "printonly", "targets"} \subseteq DOMAIN r

\* The properties, of any value of the globals.
Locked(r) == "NOLOCK" \in r.flags <=> r.printonly
Reasoned(r) == "ALLDEPS" \notin r.flags \/ "ALLEXPLICIT" \notin r.flags

Sound(r) == Fields(r) /\ Locked(r) /\ Reasoned(r)

\* r has the flags and printonly of q, and perhaps flags that no property is
\* about.
Harmless(q, r) ==
    /\ Fields(r)
    /\ r.printonly = q.printonly
    /\ \A f \in {"NOLOCK", "ALLDEPS", "ALLEXPLICIT"} :
          f \in r.flags <=> f \in q.flags

LEMMA HarmlessSound == ASSUME NEW q, NEW r, Sound(q), Harmless(q, r) PROVE Sound(r)
BY DEF Sound, Locked, Reasoned, Harmless

-----------------------------------------------------------------------------
(***************************************************************************)
(* What the options do, one kind after another.                            *)
(***************************************************************************)

LEMMA SwitchHarmless ==
    ASSUME NEW q, Sound(q), NEW name \in DOMAIN Switch
    PROVE  Harmless(q, SetFlags(q, Switch[name]))
<1>1. \A f \in {"NOLOCK", "ALLDEPS", "ALLEXPLICIT"} : f \notin Switch[name]
  BY DEF Switch
<1> QED BY <1>1 DEF Sound, Harmless, Fields, SetFlags

LEMMA TwiceHarmless ==
    ASSUME NEW q, Sound(q), NEW name \in DOMAIN Twice
    PROVE  Harmless(q, SetTwice(q, Twice[name]))
<1>1. \A i \in {1, 2} :
         Twice[name][i] \notin {"NOLOCK", "ALLDEPS", "ALLEXPLICIT"}
  BY DEF Twice
<1>2. PICK i \in {1, 2} : SetTwice(q, Twice[name]) = SetFlags(q, {Twice[name][i]})
  BY DEF SetTwice
<1> QED BY <1>1, <1>2 DEF Sound, Harmless, Fields, SetFlags

\* The second of --as-deps and --as-explicit does not get past the test.
LEMMA ReasonSound ==
    ASSUME NEW q, Sound(q), NEW name \in DOMAIN Reason
    PROVE  Sound(SetReason(q, Reason[name]))
<1>1. \/ Reason[name] = <<"ALLDEPS", "ALLEXPLICIT">>
      \/ Reason[name] = <<"ALLEXPLICIT", "ALLDEPS">>
  BY DEF Reason
<1> QED BY <1>1 DEF Sound, Fields, Locked, Reasoned, SetReason, SetFlags, Fatal

LEMMA PrintOnlySound == ASSUME NEW q, Sound(q) PROVE Sound(SetPrintOnly(q))
BY DEF Sound, Fields, Locked, Reasoned, SetPrintOnly, SetFlags

\* The other options set other globals.
LEMMA SettingHarmless ==
    ASSUME NEW q, Sound(q), NEW name \in DOMAIN Setting
    PROVE  Harmless(q, Enable(q, Setting[name]))
<1>1. Setting[name] \notin {"flags", "printonly"}
  BY DEF Setting
<1> QED BY <1>1 DEF Sound, Harmless, Fields, Assign, Enable

LEMMA ResolveHarmless ==
    ASSUME NEW q, Sound(q), NEW name \in DOMAIN Resolve, NEW value
    PROVE  Harmless(q, Assign(q, Resolve[name], value))
<1>1. Resolve[name] \notin {"flags", "printonly"}
  BY DEF Resolve
<1> QED BY <1>1 DEF Sound, Harmless, Fields, Assign, Enable

LEMMA OthersHarmless ==
    ASSUME NEW q, Sound(q), NEW v, NEW d
    PROVE  /\ Harmless(q, AddTarget(q, v))
           /\ Harmless(q, Assign(q, "list", v))
           /\ Harmless(q, Yolo(q))
           /\ Harmless(q, Dispose(q, d, v))
           /\ Harmless(q, Fatal(q))
BY DEF Sound, Harmless, Fields, AddTarget, Yolo, Fatal, Assign, Dispose

\* Whatever the argument is, the globals stay sound.
LEMMA ParseOptSound == ASSUME NEW q, Sound(q), NEW a PROVE Sound(ParseOpt(q, a))
<1>1. \/ ParseOpt(q, a) = q
      \/ ParseOpt(q, a) = AddTarget(q, a[2])
      \/ ParseOpt(q, a) = Assign(q, "list", Operation[a[1]])
      \/ /\ a[1] \in DOMAIN Resolve
         /\ ParseOpt(q, a) = Assign(q, Resolve[a[1]], a[2])
      \/ ParseOpt(q, a) = Dispose(q, Prompt[a[1]], a[2])
      \/ ParseOpt(q, a) = ParseSwitch(q, a[1])
  BY SMT DEF ParseOpt
<1>2. \/ /\ a[1] \in DOMAIN Switch
         /\ ParseSwitch(q, a[1]) = SetFlags(q, Switch[a[1]])
      \/ /\ a[1] \in DOMAIN Twice
         /\ ParseSwitch(q, a[1]) = SetTwice(q, Twice[a[1]])
      \/ /\ a[1] \in DOMAIN Reason
         /\ ParseSwitch(q, a[1]) = SetReason(q, Reason[a[1]])
      \/ /\ a[1] \in DOMAIN Setting
         /\ ParseSwitch(q, a[1]) = Enable(q, Setting[a[1]])
      \/ ParseSwitch(q, a[1]) = SetPrintOnly(q)
      \/ ParseSwitch(q, a[1]) = Yolo(q)
      \/ ParseSwitch(q, a[1]) = Fatal(q)
  BY SMT DEF ParseSwitch
<1>3. a[1] \in DOMAIN Switch => Sound(SetFlags(q, Switch[a[1]]))
  BY SwitchHarmless, HarmlessSound
<1>4. a[1] \in DOMAIN Twice => Sound(SetTwice(q, Twice[a[1]]))
  BY TwiceHarmless, HarmlessSound
<1>5. a[1] \in DOMAIN Reason => Sound(SetReason(q, Reason[a[1]]))
  BY ReasonSound
<1>6. Sound(SetPrintOnly(q))
  BY PrintOnlySound
<1>7. a[1] \in DOMAIN Setting => Sound(Enable(q, Setting[a[1]]))
  BY SettingHarmless, HarmlessSound
<1>8. a[1] \in DOMAIN Resolve => Sound(Assign(q, Resolve[a[1]], a[2]))
  BY ResolveHarmless, HarmlessSound
<1>9. Sound(AddTarget(q, a[2])) /\ Sound(Yolo(q)) /\ Sound(Fatal(q))
  <2>1. Harmless(q, AddTarget(q, a[2])) /\ Harmless(q, Yolo(q)) /\ Harmless(q, Fatal(q))
    BY OthersHarmless
  <2> QED BY <2>1, HarmlessSound
<1>10. /\ Sound(Assign(q, "list", Operation[a[1]]))
       /\ Sound(Dispose(q, Prompt[a[1]], a[2]))
  <2>1. /\ Harmless(q, Assign(q, "list", Operation[a[1]]))
        /\ Harmless(q, Dispose(q, Prompt[a[1]], a[2]))
    BY OthersHarmless
  <2> QED BY <2>1, HarmlessSound
<1> QED BY <1>1, <1>2, <1>3, <1>4, <1>5, <1>6, <1>7, <1>8, <1>9, <1>10, Zenon

-----------------------------------------------------------------------------
(***************************************************************************)
(* The types of the globals.                                               *)
(***************************************************************************)

\* The globals that main and the callbacks make decisions by.
Typed(r) ==
    /\ {"list", "flags", "conflict", "replacement"} \subseteq DOMAIN r
    /\ r.list \in Lists /\ r.flags \subseteq Flags
    /\ r.conflict \in Methods /\ r.replacement \in Methods

LEMMA SwitchTyped ==
    ASSUME NEW q, Typed(q), NEW name
    PROVE  Typed(ParseSwitch(q, name))
<1> USE DEF Typed
<1>1. \/ /\ name \in DOMAIN Switch
         /\ ParseSwitch(q, name) = SetFlags(q, Switch[name])
      \/ /\ name \in DOMAIN Twice
         /\ ParseSwitch(q, name) = SetTwice(q, Twice[name])
      \/ /\ name \in DOMAIN Reason
         /\ ParseSwitch(q, name) = SetReason(q, Reason[name])
      \/ /\ name \in DOMAIN Setting
         /\ ParseSwitch(q, name) = Enable(q, Setting[name])
      \/ ParseSwitch(q, name) = SetPrintOnly(q)
      \/ ParseSwitch(q, name) = Yolo(q)
      \/ ParseSwitch(q, name) = Fatal(q)
  BY SMT DEF ParseSwitch
<1>2. \A fs \in SUBSET Flags : Typed(SetFlags(q, fs))
  BY DEF SetFlags
<1>3. CASE name \in DOMAIN Switch /\ ParseSwitch(q, name) = SetFlags(q, Switch[name])
  <2>1. Switch[name] \subseteq Flags
    BY <1>3 DEF Switch, Flags
  <2> QED BY <1>2, <1>3, <2>1
<1>4. CASE name \in DOMAIN Twice /\ ParseSwitch(q, name) = SetTwice(q, Twice[name])
  <2>1. {Twice[name][1]} \subseteq Flags /\ {Twice[name][2]} \subseteq Flags
    BY <1>4 DEF Twice, Flags
  <2>2. Typed(SetTwice(q, Twice[name]))
    BY <1>2, <2>1 DEF SetTwice
  <2> QED BY <1>4, <2>2
<1>5. CASE name \in DOMAIN Reason /\ ParseSwitch(q, name) = SetReason(q, Reason[name])
  <2>1. {Reason[name][1]} \subseteq Flags
    BY <1>5 DEF Reason, Flags
  <2>2. Typed(SetReason(q, Reason[name]))
    BY <1>2, <2>1 DEF SetReason, Fatal
  <2> QED BY <1>5, <2>2
<1>6. CASE name \in DOMAIN Setting /\ ParseSwitch(q, name) = Enable(q, Setting[name])
  <2>1. Setting[name] \notin {"list", "flags", "conflict", "replacement"}
    BY <1>6 DEF Setting
  <2> QED BY <1>6, <2>1 DEF Enable
<1>7. Typed(SetPrintOnly(q)) /\ Typed(Yolo(q)) /\ Typed(Fatal(q))
  BY DEF SetPrintOnly, SetFlags, Yolo, Fatal, Methods, Flags
<1> QED BY <1>1, <1>3, <1>4, <1>5, <1>6, <1>7

\* A method is taken over only if it is known.
LEMMA ParseOptTyped == ASSUME NEW q, Typed(q), NEW a PROVE Typed(ParseOpt(q, a))
<1>1. \/ ParseOpt(q, a) = q
      \/ ParseOpt(q, a) = AddTarget(q, a[2])
      \/ /\ a[1] \in DOMAIN Operation
         /\ ParseOpt(q, a) = Assign(q, "list", Operation[a[1]])
      \/ /\ a[1] \in DOMAIN Resolve /\ IsMethod(a[2])
         /\ ParseOpt(q, a) = Assign(q, Resolve[a[1]], a[2])
      \/ ParseOpt(q, a) = Dispose(q, Prompt[a[1]], a[2])
      \/ ParseOpt(q, a) = ParseSwitch(q, a[1])
  BY SMT DEF ParseOpt
<1>2. Typed(AddTarget(q, a[2])) /\ Typed(Dispose(q, Prompt[a[1]], a[2]))
  BY DEF AddTarget, Dispose, Typed
<1>3. a[1] \in DOMAIN Operation => Typed(Assign(q, "list", Operation[a[1]]))
  BY DEF Operation, Assign, Lists, Typed
<1>4. a[1] \in DOMAIN Resolve /\ IsMethod(a[2]) => Typed(Assign(q, Resolve[a[1]], a[2]))
  BY DEF Resolve, IsMethod, Assign, Typed
<1> QED BY <1>1, <1>2, <1>3, <1>4, SwitchTyped

-----------------------------------------------------------------------------
(***************************************************************************)
(* A whole command line, by induction over its length.                     *)
(***************************************************************************)

LEMMA DefaultsSound == ASSUME NEW m PROVE Sound(Defaults(m)) /\ Typed(Defaults(m))
<1>1. Defaults(m).list \in Lists
  BY SMT DEF Defaults, Lists
<1> QED BY <1>1 DEF Defaults, Sound, Fields, Locked, Reasoned, Typed, Methods

\* What parse_opts has made of the first n arguments.
Turns(g, m, args, n) ==
    g = [i \in 0 .. n |-> IF i = 0 THEN Defaults(m) ELSE ParseOpt(g[i - 1], args[i])]

LEMMA TurnsExist ==
    ASSUME NEW m, NEW args, NEW n \in Nat
    PROVE  \E g : Turns(g, m, args, n)
<1> DEFINE T == {k \in Nat : \E g : Turns(g, m, args, k)}
<1>1. 0 \in T
  <2> DEFINE g == [i \in 0 .. 0 |-> Defaults(m)]
  <2>1. Turns(g, m, args, 0)
    BY DEF Turns
  <2> QED BY <2>1
<1>2. ASSUME NEW k \in Nat, k \in T PROVE k + 1 \in T
  <2>1. PICK g : Turns(g, m, args, k)
    BY <1>2
  <2> DEFINE h == [i \in 0 .. (k + 1) |-> IF i = k + 1 THEN ParseOpt(g[k], args[k + 1]) ELSE g[i]]
  <2>2. ASSUME NEW i \in 0 .. (k + 1)
        PROVE  h[i] = IF i = 0 THEN Defaults(m) ELSE ParseOpt(h[i - 1], args[i])
    <3>1. CASE i = 0
      BY <2>1, <3>1 DEF Turns
    <3>2. CASE i \in 1 .. k
      <4>1. i - 1 \in 0 .. k /\ i \in 0 .. k /\ i # 0 /\ i # k + 1 /\ i - 1 # k + 1
        BY <3>2
      <4>2. g[i] = ParseOpt(g[i - 1], args[i])
        BY <2>1, <4>1 DEF Turns
      <4> QED BY <4>1, <4>2
    <3>3. CASE i = k + 1
      BY <3>3
    <3> QED BY <3>1, <3>2, <3>3
  <2>3. Turns(h, m, args, k + 1)
    <3> HIDE DEF h
    <3>1. h = [i \in 0 .. (k + 1) |-> h[i]]
      BY DEF h
    <3> QED BY <2>2, <3>1 DEF Turns
  <2> QED BY <2>3
<1>3. Nat \subseteq T
  <2> HIDE DEF T
  <2> QED BY <1>1, <1>2, NatSetInduction
<1> QED BY <1>3

\* The globals after the whole command line, whatever is on it: their types, no
\* lock exactly for --print-only, and not both install reasons.
THEOREM ParseSound ==
    ASSUME NEW m, NEW args, Len(args) \in Nat
    PROVE  Sound(Parse(m, args)) /\ Typed(Parse(m, args))
<1> DEFINE g == CHOOSE g : Turns(g, m, args, Len(args))
           T == {k \in Nat : k <= Len(args) => Sound(g[k]) /\ Typed(g[k])}
<1>1. Parse(m, args) = g[Len(args)]
  BY DEF Parse, Turns
<1>2. Turns(g, m, args, Len(args))
  BY TurnsExist
<1> HIDE DEF g
<1>3. 0 \in T
  BY <1>2, DefaultsSound DEF Turns
<1>4. ASSUME NEW k \in Nat, k \in T PROVE k + 1 \in T
  <2> SUFFICES ASSUME k + 1 <= Len(args) PROVE Sound(g[k + 1]) /\ Typed(g[k + 1])
    OBVIOUS
  <2>1. g[k + 1] = ParseOpt(g[k], args[k + 1])
    BY <1>2 DEF Turns
  <2>2. Sound(g[k]) /\ Typed(g[k])
    BY <1>4
  <2> QED BY <2>1, <2>2, ParseOptSound, ParseOptTyped
<1>5. Nat \subseteq T
  <2> HIDE DEF T
  <2> QED BY <1>3, <1>4, NatSetInduction
<1> QED BY <1>1, <1>5

-----------------------------------------------------------------------------
(***************************************************************************)
(* The lists the targets go to.                                            *)
(***************************************************************************)

TargetFields(r) ==
    /\ {"list", "targets"} \subseteq DOMAIN r
    /\ r.list \in Lists /\ DOMAIN r.targets = Lists

\* r has the targets of q and its current list.
KeepsTargets(q, r) == TargetFields(r) /\ r.list = q.list /\ r.targets = q.targets

LEMMA SettingKeepsTargets ==
    ASSUME NEW q, TargetFields(q), NEW name \in DOMAIN Setting
    PROVE  KeepsTargets(q, Enable(q, Setting[name]))
<1>1. Setting[name] \notin {"list", "targets"}
  BY DEF Setting
<1> QED BY <1>1 DEF TargetFields, KeepsTargets, Enable

LEMMA ResolveKeepsTargets ==
    ASSUME NEW q, TargetFields(q), NEW name \in DOMAIN Resolve, NEW v
    PROVE  KeepsTargets(q, Assign(q, Resolve[name], v))
<1>1. Resolve[name] \notin {"list", "targets"}
  BY DEF Resolve
<1> QED BY <1>1 DEF TargetFields, KeepsTargets, Assign

LEMMA OthersKeepTargets ==
    ASSUME NEW q, TargetFields(q), NEW v, NEW d, NEW fs
    PROVE  /\ KeepsTargets(q, q)
           /\ KeepsTargets(q, SetFlags(q, fs))
           /\ KeepsTargets(q, SetPrintOnly(q))
           /\ KeepsTargets(q, Yolo(q))
           /\ KeepsTargets(q, Dispose(q, d, v))
           /\ KeepsTargets(q, Fatal(q))
BY DEF TargetFields, KeepsTargets, SetFlags, SetPrintOnly, Yolo, Dispose, Fatal

LEMMA SwitchKeepsTargets ==
    ASSUME NEW q, TargetFields(q), NEW name
    PROVE  KeepsTargets(q, ParseSwitch(q, name))
<1>1. \/ ParseSwitch(q, name) = SetFlags(q, Switch[name])
      \/ ParseSwitch(q, name) = SetTwice(q, Twice[name])
      \/ ParseSwitch(q, name) = SetReason(q, Reason[name])
      \/ /\ name \in DOMAIN Setting
         /\ ParseSwitch(q, name) = Enable(q, Setting[name])
      \/ ParseSwitch(q, name) = SetPrintOnly(q)
      \/ ParseSwitch(q, name) = Yolo(q)
      \/ ParseSwitch(q, name) = Fatal(q)
  BY SMT DEF ParseSwitch
<1>2. KeepsTargets(q, SetFlags(q, Switch[name]))
  BY OthersKeepTargets
<1>3. KeepsTargets(q, SetTwice(q, Twice[name]))
  BY OthersKeepTargets DEF SetTwice
<1>4. KeepsTargets(q, SetReason(q, Reason[name]))
  BY OthersKeepTargets DEF SetReason
<1>5. name \in DOMAIN Setting => KeepsTargets(q, Enable(q, Setting[name]))
  BY SettingKeepsTargets
<1>6. KeepsTargets(q, SetPrintOnly(q)) /\ KeepsTargets(q, Yolo(q)) /\ KeepsTargets(q, Fatal(q))
  BY OthersKeepTargets
<1> QED BY <1>1, <1>2, <1>3, <1>4, <1>5, <1>6, Zenon

\* A target goes to the current list, an operation changes which one that is, and no
\* other option does either.
LEMMA ParseOptTargets ==
    ASSUME NEW q, TargetFields(q), ~q.fatal, NEW a
    PROVE  /\ TargetFields(ParseOpt(q, a))
           /\ a[1] = "target" =>
                /\ ParseOpt(q, a).list = q.list
                /\ ParseOpt(q, a).targets =
                     [q.targets EXCEPT ![q.list] = Append(q.targets[q.list], a[2])]
           /\ a[1] \in DOMAIN Operation =>
                /\ ParseOpt(q, a).list = Operation[a[1]]
                /\ ParseOpt(q, a).targets = q.targets
           /\ a[1] # "target" /\ a[1] \notin DOMAIN Operation => KeepsTargets(q, ParseOpt(q, a))
<1> DEFINE r == ParseOpt(q, a)
<1>0. /\ "target" \notin DOMAIN Operation \cup DOMAIN Resolve \cup DOMAIN Prompt
      /\ \A x \in DOMAIN Operation : x \notin DOMAIN Resolve \cup DOMAIN Prompt
  BY DEF Operation, Resolve, Prompt
<1>1. CASE a[1] = "target"
  <2>1. r = AddTarget(q, a[2])
    BY <1>0, <1>1, SMT DEF ParseOpt
  <2> QED BY <1>0, <1>1, <2>1 DEF AddTarget, TargetFields
<1>2. CASE a[1] \in DOMAIN Operation
  <2>1. r = Assign(q, "list", Operation[a[1]])
    BY <1>0, <1>2, SMT DEF ParseOpt
  <2>2. Operation[a[1]] \in Lists
    BY <1>2 DEF Operation, Lists
  <2> QED BY <1>0, <1>2, <2>1, <2>2 DEF Assign, TargetFields
<1>3. CASE a[1] # "target" /\ a[1] \notin DOMAIN Operation
  <2>1. \/ a[1] \in DOMAIN Resolve /\ r = Assign(q, Resolve[a[1]], a[2])
        \/ r = Dispose(q, Prompt[a[1]], a[2])
        \/ r = ParseSwitch(q, a[1])
    BY <1>3, SMT DEF ParseOpt
  <2>2. KeepsTargets(q, Dispose(q, Prompt[a[1]], a[2])) /\ KeepsTargets(q, ParseSwitch(q, a[1]))
    BY OthersKeepTargets, SwitchKeepsTargets
  <2>3. a[1] \in DOMAIN Resolve => KeepsTargets(q, Assign(q, Resolve[a[1]], a[2]))
    BY ResolveKeepsTargets
  <2>4. KeepsTargets(q, r)
    BY <2>1, <2>2, <2>3
  <2> QED BY <1>3, <2>4 DEF KeepsTargets
<1> QED BY <1>1, <1>2, <1>3
=============================================================================
