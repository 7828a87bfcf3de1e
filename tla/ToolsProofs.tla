---------------------------- MODULE ToolsProofs -----------------------------
(***************************************************************************)
(* What holds of the programs that run alone, for all systems they can be  *)
(* started on.                                                             *)
(***************************************************************************)
EXTENDS Tools, ListProofs, FiniteSetTheorems, TLAPS

(***************************************************************************)
(* Parsing: what every option keeps holds of the options that are parsed.  *)
(***************************************************************************)

LEMMA ParseKeeps ==
    ASSUME NEW A, argv \in Seq(A), NEW t, NEW V, NEW defaults \in V,
           \A g \in V, a \in A : Takes(t, g, a) \in V
    PROVE  Parse(t, defaults) \in V
<1> DEFINE N == Len(argv)
           step == [n \in 1..N |-> [g \in V |-> Takes(t, g, argv[n])]]
           F(g) == [n \in 0..N |-> IF n = 0 THEN defaults ELSE Takes(t, g[n - 1], argv[n])]
           g == CHOOSE g : g = F(g)
<1>1. N \in Nat /\ \A n \in 1..N : argv[n] \in A
  OBVIOUS
<1>2. step \in [1..N -> [V -> V]]
  BY <1>1
<1>3. PICK f \in [0..N -> V] : Recursive(f, N, defaults, step)
  <2> HIDE DEF step, N
  <2> QED BY <1>1, <1>2, RecursionExists
<1>4. ASSUME NEW n \in 1..N PROVE f[n] = Takes(t, f[n - 1], argv[n])
  <2>1. n - 1 \in 0..N
    BY <1>1
  <2>2. f[n - 1] \in V
    <3> HIDE DEF N
    <3> QED BY <1>3, <2>1
  <2>3. f[n] = step[n][f[n - 1]]
    BY <1>3 DEF Recursive
  <2> QED BY <2>2, <2>3
<1>5. f[0] = defaults
  BY <1>3 DEF Recursive
<1>6. f = F(f)
  <2>1. f = [n \in 0..N |-> f[n]]
    <3> HIDE DEF N
    <3> QED BY <1>3
  <2>2. ASSUME NEW n \in 0..N
        PROVE  f[n] = IF n = 0 THEN defaults ELSE Takes(t, f[n - 1], argv[n])
    <3>1. n = 0 \/ n \in 1..N
      BY <1>1
    <3> QED BY <1>4, <1>5, <3>1
  <2> QED BY <2>1, <2>2, Zenon
<1>7. g = F(g)
  <2> HIDE DEF F
  <2> QED BY <1>6
<1>8. Parse(t, defaults) = g[N]
  BY DEF Parse
<1> HIDE DEF g, step
<1>9. \A n \in 0..N : g[n] = f[n]
  <2>1. g[0] = f[0]
    <3>1. 0 \in 0..N
      BY <1>1
    <3> QED BY <1>5, <1>7, <3>1
  <2>2. ASSUME NEW n \in 1..N, g[n - 1] = f[n - 1] PROVE g[n] = f[n]
    <3>1. n \in 0..N /\ n # 0
      BY <1>1
    <3>2. g[n] = Takes(t, g[n - 1], argv[n])
      BY <1>7, <3>1
    <3> QED BY <1>4, <2>2, <3>2
  <2>3. Alike(g, f, N)
    BY <2>1, <2>2 DEF Alike
  <2> HIDE DEF N
  <2> QED BY <1>1, <2>3, SameAlong
<1>10. g[N] = f[N] /\ f[N] \in V
  <2>1. N \in 0..N
    BY <1>1
  <2> HIDE DEF N
  <2> QED BY <1>3, <1>9, <2>1
<1> QED BY <1>8, <1>10

-----------------------------------------------------------------------------
(***************************************************************************)
(* pacreport: its options.                                                 *)
(***************************************************************************)

ReportGlobals(values) ==
    [optionalDeps : BOOLEAN, showFor : BOOLEAN, backups : Nat, orphans : Nat, missing : Nat,
     groups : Seq(values)]

LEMMA ReportTakes ==
    ASSUME NEW values, NEW g \in ReportGlobals(values), NEW a, a[2] \in values,
           a[1] \in DOMAIN ReportOptions.set \cup DOMAIN ReportOptions.count
                    \cup DOMAIN ReportOptions.assign \cup DOMAIN ReportOptions.add
    PROVE  Takes(ReportOptions, g, a) \in ReportGlobals(values)
<1> DEFINE t == ReportOptions
<1>1. /\ DOMAIN t.set = {"optional_deps", "optional_for"}
      /\ DOMAIN t.count = {"backups", "unowned_files", "missing_files"}
      /\ DOMAIN t.assign = {} /\ DOMAIN t.add = {"group"}
  BY DEF ReportOptions, NoOptions
<1>2. CASE a[1] \in DOMAIN t.set
  <2>1. Takes(t, g, a) = [g EXCEPT ![t.set[a[1]][1]] = t.set[a[1]][2]]
    <3> HIDE DEF t
    <3> QED BY <1>1, <1>2 DEF Takes
  <2>2. /\ t.set["optional_deps"][1] = "optionalDeps" /\ t.set["optional_deps"][2] = TRUE
        /\ t.set["optional_for"][1] = "showFor" /\ t.set["optional_for"][2] = TRUE
    BY DEF ReportOptions
  <2>3. [g EXCEPT !["optionalDeps"] = TRUE] \in ReportGlobals(values)
        /\ [g EXCEPT !["showFor"] = TRUE] \in ReportGlobals(values)
    BY DEF ReportGlobals
  <2> HIDE DEF t
  <2>4. CASE a[1] = "optional_deps"
    <3>1. Takes(t, g, a) = [g EXCEPT !["optionalDeps"] = TRUE]
      BY <2>1, <2>2, <2>4, Zenon
    <3> QED BY <2>3, <3>1 DEF t
  <2>5. CASE a[1] = "optional_for"
    <3>1. Takes(t, g, a) = [g EXCEPT !["showFor"] = TRUE]
      BY <2>1, <2>2, <2>5, Zenon
    <3> QED BY <2>3, <3>1 DEF t
  <2> QED BY <1>1, <1>2, <2>4, <2>5
<1>3. CASE a[1] \in DOMAIN t.count
  <2>1. Takes(t, g, a) = [g EXCEPT ![t.count[a[1]]] = @ + 1]
    <3> HIDE DEF t
    <3> QED BY <1>1, <1>3 DEF Takes
  <2>2. /\ t.count["backups"] = "backups" /\ t.count["unowned_files"] = "orphans"
        /\ t.count["missing_files"] = "missing"
    BY DEF ReportOptions
  <2> HIDE DEF t
  <2>3. Takes(t, g, a) \in {[g EXCEPT !["backups"] = @ + 1], [g EXCEPT !["orphans"] = @ + 1],
                            [g EXCEPT !["missing"] = @ + 1]}
    BY <1>1, <1>3, <2>1, <2>2
  <2> QED BY <2>3 DEF ReportGlobals, t
<1>4. CASE a[1] = "group"
  <2>1. Takes(t, g, a) = [g EXCEPT !.groups = Append(@, a[2])]
    BY <1>1, <1>4 DEF Takes, ReportOptions
  <2>2. Append(g.groups, a[2]) \in Seq(values)
    BY DEF ReportGlobals
  <2> QED BY <2>1, <2>2 DEF ReportGlobals
<1> QED BY <1>1, <1>2, <1>3, <1>4

LEMMA ReportIsParsed ==
    ASSUME Accepts(ReportOptions, argv)
    PROVE  \E values : Parse(ReportOptions, ReportDefaults) \in ReportGlobals(values)
<1> DEFINE A == ToSet(argv)
           values == {a[2] : a \in A}
<1>1. argv \in Seq(A)
  BY DEF Accepts, IsList
<1>2. ReportDefaults \in ReportGlobals(values)
  BY DEF ReportDefaults, ReportGlobals
<1>3. \A g \in ReportGlobals(values), a \in A : Takes(ReportOptions, g, a) \in ReportGlobals(values)
  BY ReportTakes DEF Accepts
<1> QED BY <1>1, <1>2, <1>3, ParseKeeps

-----------------------------------------------------------------------------
(***************************************************************************)
(* pacreport: the packages that are left when those are taken away that    *)
(* the leaves lead to.                                                     *)
(***************************************************************************)

Local == ToSet(sys.local)

\* D is what is left, T what the loop has still to go through: what was taken away has
\* been followed or will be, and whoever has the leaves and what they need has it.
Followed(D, T) ==
    LET gone == Local \ D IN
    /\ D \subseteq Local /\ T \subseteq Local
    /\ \A p \in Local : IsLeaf(p) => p \in gone \cup T
    /\ \A p \in gone \ T : \A l \in Local : PuDependsOn(p, l) => l \in gone
    /\ \A S \in SUBSET Local : LeavesAndWhatTheyNeed(S) => gone \cup T \subseteq S

LEMMA FollowedFirst ==
    ASSUME NEW T, T = {p \in Local : IsLeaf(p)}
    PROVE  Followed(Local, T)
BY DEF Followed, LeavesAndWhatTheyNeed, Local

LEMMA FollowedStep ==
    ASSUME NEW D, NEW T0, NEW T, NEW p, Followed(D, T0), T0 = {p} \cup T
    PROVE  Followed({l \in D \ {p} : ~PuDependsOn(p, l)}, T \cup {l \in D \ {p} : PuDependsOn(p, l)})
<1> DEFINE E == {l \in D \ {p} : ~PuDependsOn(p, l)}
           R == {l \in D \ {p} : PuDependsOn(p, l)}
           gone == Local \ D
           away == Local \ E
<1>1. /\ D \subseteq Local /\ T0 \subseteq Local
      /\ \A q \in Local : IsLeaf(q) => q \in gone \cup T0
      /\ \A q \in gone \ T0 : \A l \in Local : PuDependsOn(q, l) => l \in gone
      /\ \A S \in SUBSET Local : LeavesAndWhatTheyNeed(S) => gone \cup T0 \subseteq S
  BY DEF Followed
<1>2. away = gone \cup {p} \cup R
  BY <1>1
<1>3. ASSUME NEW q \in away \ (T \cup R), NEW l \in Local, PuDependsOn(q, l) PROVE l \in away
  <2>1. q = p \/ q \in gone \ T0
    BY <1>2
  <2> QED BY <1>1, <1>2, <1>3, <2>1
<1>4. ASSUME NEW S \in SUBSET Local, LeavesAndWhatTheyNeed(S) PROVE away \cup (T \cup R) \subseteq S
  <2>1. gone \cup T0 \subseteq S
    BY <1>1, <1>4
  <2>2. R \subseteq S
    BY <1>1, <1>4, <2>1 DEF LeavesAndWhatTheyNeed, Local
  <2> QED BY <1>2, <2>1, <2>2
<1>5. E \subseteq Local /\ T \cup R \subseteq Local
  BY <1>1
<1>6. \A q \in Local : IsLeaf(q) => q \in away \cup (T \cup R)
  BY <1>1, <1>2
<1> QED BY <1>3, <1>4, <1>5, <1>6 DEF Followed

LEMMA FollowedLast ==
    ASSUME NEW D, Followed(D, {})
    PROVE  /\ \A p \in D : /\ Needing(p, o.optionalDeps) # {}
                           /\ Needing(p, o.optionalDeps) \subseteq D
           /\ LeavesAndWhatTheyNeed(Local \ D)
           /\ \A S \in SUBSET Local : LeavesAndWhatTheyNeed(S) => Local \ D \subseteq S
<1> DEFINE gone == Local \ D
<1>1. LeavesAndWhatTheyNeed(gone)
  BY DEF Followed, LeavesAndWhatTheyNeed, Local
<1>2. ASSUME NEW p \in D PROVE Needing(p, o.optionalDeps) # {}
  BY DEF Followed, IsLeaf
<1>3. ASSUME NEW p \in D, NEW q \in Needing(p, o.optionalDeps) PROVE q \in D
  <2>1. q \in Local
    BY DEF Needing, RequiredBy, OptionalFor, Local
  <2>2. \A d : AlpmSatisfies(p, d) => Satisfies(p, d)
    BY DEF AlpmSatisfies, Satisfies
  <2>3. PuDependsOn(q, p)
    <3>1. CASE q \in RequiredBy(p, sys.local)
      BY <2>2, <3>1 DEF RequiredBy, PuDependsOn, DependsOn
    <3>2. CASE q \notin RequiredBy(p, sys.local)
      BY <2>2, <3>2 DEF Needing, OptionalFor, PuDependsOn, OptdependsOn
    <3> QED BY <3>1, <3>2
  <2> QED BY <2>1, <2>3 DEF Followed
<1> QED BY <1>1, <1>2, <1>3 DEF Followed

\* The step of a tool that leaves the system and the options alone.
LEMMA SamePackages ==
    ASSUME sys' = sys, o' = o
    PROVE  /\ Local' = Local
           /\ \A p, opt : Needing(p, opt)' = Needing(p, opt)
           /\ \A p : IsLeaf(p)' <=> IsLeaf(p)
           /\ \A p, l : PuDependsOn(p, l)' <=> PuDependsOn(p, l)
           /\ \A S : LeavesAndWhatTheyNeed(S)' <=> LeavesAndWhatTheyNeed(S)
           /\ \A D, T : Followed(D, T)' <=> Followed(D, T)
<1>1. /\ Local' = Local /\ \A p, opt : Needing(p, opt)' = Needing(p, opt)
      /\ \A p, l : PuDependsOn(p, l)' <=> PuDependsOn(p, l)
  BY DEF Local, Needing, PuDependsOn
<1>2. \A p : IsLeaf(p)' <=> IsLeaf(p)
  BY <1>1 DEF IsLeaf
<1>3. \A S : LeavesAndWhatTheyNeed(S)' <=> LeavesAndWhatTheyNeed(S)
  BY <1>1, <1>2 DEF LeavesAndWhatTheyNeed
<1>4. \A D, T : Followed(D, T)' <=> Followed(D, T)
  BY <1>1, <1>2, <1>3 DEF Followed
<1> QED BY <1>1, <1>2, <1>3, <1>4

\* The packages that are installed, and those of the repositories.
Packages == Local \cup UNION {ToSet(db.pkgs) : db \in ToSet(sys.sync)}

ReportSys ==
    /\ IsList(sys.local) /\ IsList(sys.sync)
    /\ \A db \in ToSet(sys.sync) : IsList(db.pkgs)
    /\ \A p \in Packages : IsList(p.depends) /\ IsList(p.optdepends) /\ p.isize \in Nat

ConnectInv ==
    /\ acc.disconnected \in Seq(Local) /\ todo \in Seq(Local)
    /\ \E D, T : D = ToSet(acc.disconnected) /\ T = ToSet(todo) /\ Followed(D, T)

LEMMA FindLeavesConnects ==
    ASSUME ReportSys, FindLeaves
    PROVE  ConnectInv'
<1>1. sys' = sys /\ o' = o /\ acc'.disconnected = sys.local
      /\ todo' = LeavesOf("explicit") \o LeavesOf("depend")
  BY DEF FindLeaves, Stays
<1>2. sys.local \in Seq(Local)
  BY DEF ReportSys, IsList, Local
<1> DEFINE S(r) == {p \in Local : IsLeaf(p) /\ (p.reason = "explicit" <=> r = "explicit")}
<1>3. /\ LeavesOf("explicit") \in Seq(Local) /\ ToSet(LeavesOf("explicit")) = S("explicit")
      /\ LeavesOf("depend") \in Seq(Local) /\ ToSet(LeavesOf("depend")) = S("depend")
  <2>1. LeavesOf("explicit") = Select(sys.local, S("explicit"))
        /\ LeavesOf("depend") = Select(sys.local, S("depend"))
    BY DEF LeavesOf, Local
  <2>2. S("explicit") \subseteq Local /\ S("depend") \subseteq Local
    OBVIOUS
  <2>3. PICK A, B : A = S("explicit") /\ B = S("depend")
    OBVIOUS
  <2> HIDE DEF S
  <2>4. Local \cap A = A /\ Local \cap B = B
    BY <2>2, <2>3
  <2>5. /\ Select(sys.local, A) \in Seq(Local) /\ ToSet(Select(sys.local, A)) = Local \cap A
        /\ Select(sys.local, B) \in Seq(Local) /\ ToSet(Select(sys.local, B)) = Local \cap B
    BY <1>2, SelectList, SelectMembers DEF Local
  <2> QED BY <2>1, <2>3, <2>4, <2>5
<1>4. todo' \in Seq(Local) /\ ToSet(todo') = S("explicit") \cup S("depend")
  <2> HIDE DEF S
  <2>1. /\ LeavesOf("explicit") \o LeavesOf("depend") \in Seq(Local)
        /\ ToSet(LeavesOf("explicit") \o LeavesOf("depend")) = S("explicit") \cup S("depend")
    BY <1>3, ConcatMembers
  <2> QED BY <1>1, <2>1
<1>5. S("explicit") \cup S("depend") = {p \in Local : IsLeaf(p)}
  OBVIOUS
<1>6. PICK T : T = {p \in Local : IsLeaf(p)}
  OBVIOUS
<1>7. Followed(Local, T)
  BY <1>6, FollowedFirst
<1>8. PICK D : D = Local
  OBVIOUS
<1>9. Followed(D, T)' /\ D = ToSet(acc'.disconnected) /\ T = ToSet(todo') /\ Local' = Local
  BY <1>1, <1>4, <1>5, <1>6, <1>7, <1>8, SamePackages DEF Local
<1> QED BY <1>1, <1>2, <1>4, <1>9 DEF ConnectInv

LEMMA ConnectConnects ==
    ASSUME ConnectInv, Connect
    PROVE  ConnectInv'
<1> DEFINE p == Head(todo)
           D == ToSet(acc.disconnected)
           R == {l \in D \ {p} : PuDependsOn(p, l)}
           E == {l \in D \ {p} : ~PuDependsOn(p, l)}
<1>1. /\ sys' = sys /\ o' = o /\ todo # << >> /\ todo' = Tail(todo) \o Select(acc.disconnected, R)
      /\ acc'.disconnected = Select(acc.disconnected, E)
  BY DEF Connect, Stays
<1>2. acc.disconnected \in Seq(Local) /\ todo \in Seq(Local) /\ Followed(D, ToSet(todo))
  BY DEF ConnectInv
<1>3. p \in Local /\ Tail(todo) \in Seq(Local) /\ ToSet(todo) = {p} \cup ToSet(Tail(todo))
  BY <1>1, <1>2, HeadTailMembers
<1>4. /\ Select(acc.disconnected, R) \in Seq(Local) /\ ToSet(Select(acc.disconnected, R)) = D \cap R
      /\ Select(acc.disconnected, E) \in Seq(Local) /\ ToSet(Select(acc.disconnected, E)) = D \cap E
  <2> HIDE DEF R, E
  <2> QED BY <1>2, SelectList, SelectMembers
<1>5. D \cap R = R /\ D \cap E = E
  OBVIOUS
<1>6. todo' \in Seq(Local) /\ ToSet(todo') = ToSet(Tail(todo)) \cup R
  <2> HIDE DEF R, E
  <2>1. PICK u \in Seq(Local), v \in Seq(Local) : u = Tail(todo) /\ v = Select(acc.disconnected, R)
    BY <1>3, <1>4
  <2>2. u \o v \in Seq(Local) /\ ToSet(u \o v) = ToSet(u) \cup ToSet(v)
    BY ConcatMembers
  <2>3. todo' = u \o v
    BY <1>1, <2>1
  <2>4. ToSet(v) = R
    BY <1>4, <1>5, <2>1
  <2> QED BY <2>1, <2>2, <2>3, <2>4
<1>7. Followed(E, ToSet(Tail(todo)) \cup R)
  <2>1. PICK D0, T0, T1, q : D0 = D /\ T0 = ToSet(todo) /\ T1 = ToSet(Tail(todo)) /\ q = p
    OBVIOUS
  <2>2. Followed({l \in D0 \ {q} : ~PuDependsOn(q, l)}, T1 \cup {l \in D0 \ {q} : PuDependsOn(q, l)})
    <3>1. Followed(D0, T0) /\ T0 = {q} \cup T1
      BY <1>2, <1>3, <2>1
    <3> QED BY <3>1, FollowedStep
  <2> QED BY <2>1, <2>2
<1>8. PICK E1, T1 : E1 = E /\ T1 = ToSet(Tail(todo)) \cup R
  OBVIOUS
<1>9. Followed(E1, T1)' /\ Local' = Local
  BY <1>1, <1>7, <1>8, SamePackages
<1>10. E1 = ToSet(acc'.disconnected) /\ T1 = ToSet(todo') /\ acc'.disconnected \in Seq(Local)
  BY <1>1, <1>4, <1>5, <1>6, <1>8
<1> QED BY <1>6, <1>9, <1>10 DEF ConnectInv

-----------------------------------------------------------------------------
(***************************************************************************)
(* pacreport: the packages that are printed.                               *)
(***************************************************************************)

Headings == {"explicit", "depend", "cycle", "foreign", "group"}
QueueInv == acc.queue \in Seq([heading : Headings, pkg : Packages])

LEMMA ListedPackages ==
    ASSUME NEW T, NEW pkgs \in Seq(T), NEW h \in Headings
    PROVE  Listed(h, pkgs) \in Seq([heading : Headings, pkg : T])
<1>1. DOMAIN pkgs = 1..Len(pkgs) /\ Len(pkgs) \in Nat /\ \A i \in 1..Len(pkgs) : pkgs[i] \in T
  OBVIOUS
<1>2. \A i \in DOMAIN pkgs : [heading |-> h, pkg |-> pkgs[i]] \in [heading : Headings, pkg : T]
  BY <1>1
<1> QED BY <1>1, <1>2 DEF Listed

LEMMA GroupPackages ==
    ASSUME ReportSys
    PROVE  \A group : GroupPkgs(group) \in Seq(Packages)
<1> DEFINE lists == [i \in DOMAIN sys.sync |-> sys.sync[i].pkgs]
<1>1. sys.sync \in Seq(ToSet(sys.sync))
  BY DEF ReportSys, IsList
<1>2. DOMAIN sys.sync = 1..Len(sys.sync) /\ Len(sys.sync) \in Nat
      /\ \A i \in 1..Len(sys.sync) : sys.sync[i] \in ToSet(sys.sync)
  BY <1>1
<1>3. ASSUME NEW db \in ToSet(sys.sync) PROVE db.pkgs \in Seq(Packages)
  <2>1. IsList(db.pkgs) /\ ToSet(db.pkgs) \subseteq Packages
    BY DEF ReportSys, Packages
  <2> QED BY <2>1, ListOfMembers
<1>4. lists \in Seq(Seq(Packages))
  BY <1>2, <1>3
<1>5. PICK all \in Seq(Packages) : all = FlattenSeq(lists)
  <2> HIDE DEF lists
  <2> QED BY <1>4, FlattenList
<1> SUFFICES ASSUME NEW group PROVE GroupPkgs(group) \in Seq(Packages)
  OBVIOUS
<1> DEFINE S == {p \in ToSet(all) : group \in p.groups}
           sameName == {pq \in ToSet(all) \X ToSet(all) : pq[1].name = pq[2].name}
<1>6. GroupPkgs(group) = Firsts(Select(all, S), sameName)
  BY <1>5 DEF GroupPkgs
<1> HIDE DEF S, sameName
<1>7. Select(all, S) \in Seq(Packages)
  BY SelectList
<1> QED BY <1>6, <1>7, FirstsKept

LEMMA MissingPackages ==
    ASSUME ReportSys, NEW values, o \in ReportGlobals(values)
    PROVE  GroupMissing \in Seq(Packages)
<1> DEFINE lists == [i \in DOMAIN o.groups |-> GroupPkgs(o.groups[i])]
<1>1. DOMAIN o.groups = 1..Len(o.groups) /\ Len(o.groups) \in Nat
  BY DEF ReportGlobals
<1>2. lists \in Seq(Seq(Packages))
  BY <1>1, GroupPackages
<1>3. PICK all \in Seq(Packages) : all = FlattenSeq(lists)
  <2> HIDE DEF lists
  <2> QED BY <1>2, FlattenList
<1> DEFINE S == {p \in ToSet(all) : ~HasSatisfier(sys.local, AnyVersion(p.name))}
<1>4. GroupMissing = Unique(Select(all, S))
  BY <1>3 DEF GroupMissing
<1> HIDE DEF S
<1>5. Select(all, S) \in Seq(Packages)
  BY SelectList
<1> QED BY <1>4, <1>5, UniqueMembers

LEMMA ConnectedQueues ==
    ASSUME ReportSys, NEW values, o \in ReportGlobals(values), ConnectInv, Connected
    PROVE  QueueInv'
<1> DEFINE Q == [heading : Headings, pkg : Packages]
<1>1. sys.local \in Seq(Packages) /\ acc.disconnected \in Seq(Packages)
  <2>1. Local \subseteq Packages
    BY DEF Packages
  <2>2. sys.local \in Seq(Local)
    BY DEF ReportSys, IsList, Local
  <2> QED BY <2>1, <2>2 DEF ConnectInv
<1>2. /\ LeavesOf("explicit") \in Seq(Packages) /\ LeavesOf("depend") \in Seq(Packages)
      /\ Foreign \in Seq(Packages)
  <2>1. PICK A, B, C : LeavesOf("explicit") = Select(sys.local, A) /\ LeavesOf("depend") = Select(sys.local, B)
                       /\ Foreign = Select(sys.local, C)
    BY DEF LeavesOf, Foreign
  <2> QED BY <1>1, <2>1, SelectList
<1>3. PICK a \in Seq(Q), b \in Seq(Q), c \in Seq(Q), d \in Seq(Q), e \in Seq(Q) :
        /\ a = Listed("explicit", LeavesOf("explicit")) /\ b = Listed("depend", LeavesOf("depend"))
        /\ c = Listed("cycle", acc.disconnected) /\ d = Listed("foreign", Foreign)
        /\ e = Listed("group", GroupMissing)
  <2>1. {"explicit", "depend", "cycle", "foreign", "group"} \subseteq Headings
    BY DEF Headings
  <2>2. GroupMissing \in Seq(Packages)
    BY MissingPackages
  <2> QED BY <1>1, <1>2, <2>1, <2>2, ListedPackages
<1>4. acc'.queue = a \o b \o c \o d \o e
  BY <1>3 DEF Connected
<1>5. a \o b \o c \o d \o e \in Seq(Q)
  OBVIOUS
<1>6. Packages' = Packages
  BY DEF Connected, Stays, Packages, Local
<1> QED BY <1>4, <1>5, <1>6 DEF QueueInv

-----------------------------------------------------------------------------
(***************************************************************************)
(* pacreport: the chain of what only a package needs.                      *)
(***************************************************************************)

LEMMA SizeOfSteps ==
    ASSUME NEW chain, NEW n \in Nat, \A i \in 1..n : chain[i].isize \in Nat
    PROVE  \E f \in [0..n -> Nat] :
             /\ f[0] = 0 /\ SizeOf(chain, n) = f[n]
             /\ \A k \in 1..n : f[k] = f[k - 1] + chain[k].isize
<1> DEFINE step == [k \in 1..n |-> [a \in Nat |-> a + chain[k].isize]]
           F(g) == [k \in 0..n |-> IF k = 0 THEN 0 ELSE g[k - 1] + chain[k].isize]
           g == CHOOSE g : g = F(g)
<1>1. step \in [1..n -> [Nat -> Nat]]
  OBVIOUS
<1>2. PICK f \in [0..n -> Nat] : Recursive(f, n, 0, step)
  <2> HIDE DEF step
  <2> QED BY <1>1, RecursionExists
<1>3. f[0] = 0
  BY <1>2 DEF Recursive
<1>4. ASSUME NEW k \in 1..n PROVE f[k] = f[k - 1] + chain[k].isize
  <2>1. k - 1 \in 0..n /\ f[k - 1] \in Nat
    OBVIOUS
  <2>2. f[k] = step[k][f[k - 1]]
    BY <1>2 DEF Recursive
  <2> QED BY <2>1, <2>2
<1>5. f = F(f)
  <2>1. f = [k \in 0..n |-> f[k]]
    OBVIOUS
  <2>2. ASSUME NEW k \in 0..n PROVE f[k] = IF k = 0 THEN 0 ELSE f[k - 1] + chain[k].isize
    <3>1. k = 0 \/ k \in 1..n
      OBVIOUS
    <3> QED BY <1>3, <1>4, <3>1
  <2> QED BY <2>1, <2>2, Zenon
<1>6. g = F(g)
  <2> HIDE DEF F
  <2> QED BY <1>5
<1>7. SizeOf(chain, n) = g[n]
  BY DEF SizeOf
<1> HIDE DEF g
<1>8. \A k \in 0..n : g[k] = f[k]
  <2>1. g[0] = f[0]
    <3>1. 0 \in 0..n
      OBVIOUS
    <3> QED BY <1>3, <1>6, <3>1
  <2>2. ASSUME NEW k \in 1..n, g[k - 1] = f[k - 1] PROVE g[k] = f[k]
    <3>1. k \in 0..n /\ k # 0
      OBVIOUS
    <3>2. g[k] = g[k - 1] + chain[k].isize
      BY <1>6, <3>1
    <3> QED BY <1>4, <2>2, <3>2
  <2>3. Alike(g, f, n)
    BY <2>1, <2>2 DEF Alike
  <2> QED BY <2>3, SameAlong
<1>9. g[n] = f[n]
  BY <1>8
<1> QED BY <1>3, <1>4, <1>7, <1>9

LEMMA SizeOfLonger ==
    ASSUME NEW chain, NEW longer, NEW n \in Nat, \A i \in 1..(n + 1) : longer[i].isize \in Nat,
           \A i \in 1..n : longer[i] = chain[i]
    PROVE  /\ SizeOf(longer, n) = SizeOf(chain, n)
           /\ SizeOf(longer, n + 1) = SizeOf(chain, n) + longer[n + 1].isize
<1>1. /\ \A i \in 1..n : chain[i].isize \in Nat /\ longer[i].isize \in Nat
      /\ \A i \in 1..n : i \in 1..(n + 1)
  OBVIOUS
<1>2. PICK f \in [0..n -> Nat] : /\ f[0] = 0 /\ SizeOf(chain, n) = f[n]
                                 /\ \A k \in 1..n : f[k] = f[k - 1] + chain[k].isize
  BY <1>1, SizeOfSteps
<1>3. PICK g \in [0..n -> Nat] : /\ g[0] = 0 /\ SizeOf(longer, n) = g[n]
                                 /\ \A k \in 1..n : g[k] = g[k - 1] + longer[k].isize
  BY <1>1, SizeOfSteps
<1>4. PICK h \in [0..(n + 1) -> Nat] :
        /\ h[0] = 0 /\ SizeOf(longer, n + 1) = h[n + 1]
        /\ \A k \in 1..(n + 1) : h[k] = h[k - 1] + longer[k].isize
  <2>1. n + 1 \in Nat
    OBVIOUS
  <2> QED BY <2>1, SizeOfSteps
<1>5. \A k \in 0..n : g[k] = f[k]
  <2>1. g[0] = f[0] /\ \A k \in 1..n : g[k - 1] = f[k - 1] => g[k] = f[k]
    BY <1>2, <1>3
  <2> DEFINE len == n
             a == g
             b == f
  <2>2. Alike(a, b, len) /\ len \in Nat
    BY <2>1 DEF Alike
  <2> HIDE DEF len, a, b
  <2>3. \A k \in 0..len : a[k] = b[k]
    BY <2>2, SameAlong
  <2> QED BY <2>3 DEF len, a, b
<1>6. \A k \in 0..n : h[k] = f[k]
  <2>1. h[0] = f[0] /\ \A k \in 1..n : h[k - 1] = f[k - 1] => h[k] = f[k]
    BY <1>1, <1>2, <1>4
  <2> DEFINE len == n
             a == h
             b == f
  <2>2. Alike(a, b, len) /\ len \in Nat
    BY <2>1 DEF Alike
  <2> HIDE DEF len, a, b
  <2>3. \A k \in 0..len : a[k] = b[k]
    BY <2>2, SameAlong
  <2> QED BY <2>3 DEF len, a, b
<1>7. h[n + 1] = h[n] + longer[n + 1].isize
  <2>1. n + 1 \in 1..(n + 1) /\ (n + 1) - 1 = n
    OBVIOUS
  <2> QED BY <1>4, <2>1
<1>8. g[n] = f[n] /\ h[n] = f[n]
  BY <1>5, <1>6
<1> QED BY <1>2, <1>3, <1>4, <1>7, <1>8

LEMMA SizeOfNone ==
    ASSUME NEW chain
    PROVE  SizeOf(chain, 0) = 0
<1>1. 0 \in Nat /\ \A i \in 1..0 : chain[i].isize \in Nat
  OBVIOUS
<1>2. PICK f \in [0..0 -> Nat] : f[0] = 0 /\ SizeOf(chain, 0) = f[0]
  BY <1>1, SizeOfSteps, Zenon
<1> QED BY <1>2

\* The chain is the package and what the system needs only for members of the chain.
ChainIsOwn(chain) ==
    /\ \A i, j \in 1..Len(chain) : chain[i] = chain[j] => i = j
    /\ \A i \in 2..Len(chain) : /\ chain[i].reason # "explicit"
                                /\ Needing(chain[i], o.optionalDeps) \subseteq ToSet(chain)

\* Whoever could join it still, if no dependency of it can be satisfied in two ways.
CouldJoin(chain) ==
    LET deps == UNION {ToSet(DepsOf(chain[i])) : i \in DOMAIN chain}
    IN  IF \E d \in deps : Len(Satisfiers(sys.local, d)) > 1 THEN {}
        ELSE {p \in ToSet(sys.local) : Joins(p, chain) /\ \E d \in deps : AlpmSatisfies(p, d)}

\* What the members of the chain depend on, and what of it has still to be looked at.
Deps(chain) == UNION {ToSet(DepsOf(chain[i])) : i \in 1..Len(chain)}
Waiting(chain, at, rest) ==
    ToSet(rest) \cup UNION {ToSet(DepsOf(chain[i])) : i \in (at + 1)..Len(chain)}

\* Whoever could join the chain satisfies a dependency that has still to be looked at.
Expects(chain, at, rest) ==
    (\A d \in Deps(chain) : ~(Len(Satisfiers(sys.local, d)) > 1)) =>
      \A p \in Local : Joins(p, chain) /\ (\E d \in Deps(chain) : AlpmSatisfies(p, d))
                         => \E d \in Waiting(chain, at, rest) : AlpmSatisfies(p, d)

OwnChain(chain, at, size, rest) ==
    /\ chain \in Seq(Packages) /\ at \in 1..Len(chain)
    /\ IsList(rest) /\ ToSet(rest) \subseteq Deps(chain)
    /\ ChainIsOwn(chain) /\ size = SizeOf(chain, at)
    /\ ToSet(chain) \subseteq {chain[1]} \cup Dependencies(chain[1])
    /\ Expects(chain, at, rest)

ChainInv ==
    /\ OwnChain(acc.chain, acc.at, acc.size, todo)
    /\ acc.chain[1] = Head(acc.queue).pkg

LEMMA DepsAreLists ==
    ASSUME ReportSys, NEW p \in Packages
    PROVE  /\ IsList(DepsOf(p))
           /\ ToSet(DepsOf(p)) = ToSet(p.depends)
                                 \cup (IF o.optionalDeps THEN ToSet(p.optdepends) ELSE {})
<1> DEFINE X == ToSet(p.depends) \cup ToSet(p.optdepends)
<1>1. p.depends \in Seq(X) /\ p.optdepends \in Seq(X) /\ << >> \in Seq(X)
  <2>1. IsList(p.depends) /\ IsList(p.optdepends)
    BY DEF ReportSys
  <2> QED BY <2>1, ListOfMembers
<1>2. ToSet(<< >>) = {}
  BY DEF ToSet
<1> HIDE DEF X
<1>3. CASE o.optionalDeps
  <2>1. DepsOf(p) = p.depends \o p.optdepends
    BY <1>3 DEF DepsOf
  <2>2. /\ p.depends \o p.optdepends \in Seq(X)
        /\ ToSet(p.depends \o p.optdepends) = ToSet(p.depends) \cup ToSet(p.optdepends)
    BY <1>1, ConcatMembers
  <2> QED BY <1>3, <2>1, <2>2, MembersOfList
<1>4. CASE ~o.optionalDeps
  <2>1. DepsOf(p) = p.depends \o << >>
    BY <1>4 DEF DepsOf
  <2>2. /\ p.depends \o << >> \in Seq(X)
        /\ ToSet(p.depends \o << >>) = ToSet(p.depends) \cup ToSet(<< >>)
    <3>1. p.depends \o << >> = p.depends
      BY <1>1, ConcatEmptySeq
    <3> QED BY <1>1, <1>2, <3>1
  <2> QED BY <1>2, <1>4, <2>1, <2>2, MembersOfList
<1> QED BY <1>3, <1>4

\* What needs a package depends on it.
LEMMA NeedingDepends ==
    ASSUME ReportSys, NEW p, NEW q \in Needing(p, o.optionalDeps)
    PROVE  q \in Local /\ \E d \in ToSet(DepsOf(q)) : AlpmSatisfies(p, d)
<1>1. q \in Local
  BY DEF Needing, RequiredBy, OptionalFor, Local
<1>2. q \in Packages
  BY <1>1 DEF Packages
<1>3. ToSet(DepsOf(q)) = ToSet(q.depends)
                         \cup (IF o.optionalDeps THEN ToSet(q.optdepends) ELSE {})
  BY <1>2, DepsAreLists
<1>4. (\E d \in ToSet(q.depends) : AlpmSatisfies(p, d))
      \/ (o.optionalDeps /\ \E d \in ToSet(q.optdepends) : AlpmSatisfies(p, d))
  BY DEF Needing, RequiredBy, OptionalFor
<1> QED BY <1>1, <1>3, <1>4

\* And what depends on it needs it.
LEMMA DependingNeeds ==
    ASSUME ReportSys, NEW p, NEW q \in Local, NEW d \in ToSet(DepsOf(q)), AlpmSatisfies(p, d)
    PROVE  q \in Needing(p, o.optionalDeps)
<1>1. q \in Packages
  BY DEF Packages
<1>2. ToSet(DepsOf(q)) = ToSet(q.depends)
                         \cup (IF o.optionalDeps THEN ToSet(q.optdepends) ELSE {})
  BY <1>1, DepsAreLists
<1>3. CASE d \in ToSet(q.depends)
  BY <1>3 DEF Needing, RequiredBy, Local
<1>4. CASE o.optionalDeps /\ d \in ToSet(q.optdepends)
  BY <1>4 DEF Needing, OptionalFor, Local
<1> QED BY <1>2, <1>3, <1>4

\* What a package leads to is closed: a local package that satisfies a dependency of it, or
\* of the package, belongs to it.
LEMMA DependenciesClosed ==
    ASSUME NEW pkg, NEW q \in {pkg} \cup Dependencies(pkg), NEW d \in ToSet(DepsOf(q)),
           NEW p \in Local, AlpmSatisfies(p, d)
    PROVE  p \in Dependencies(pkg)
<1> SUFFICES ASSUME NEW S \in SUBSET (ToSet(sys.local) \cup {pkg}), pkg \in S, FollowsDeps(S)
             PROVE  p \in S
  BY DEF Dependencies, Local
<1>1. q \in S
  BY DEF Dependencies
<1> QED BY <1>1 DEF FollowsDeps, Local

\* Whatever a package leads to is led to by the package or by another one of those.
LEMMA DependenciesLeast ==
    ASSUME NEW pkg, NEW p \in Dependencies(pkg), p # pkg
    PROVE  \E q \in {pkg} \cup Dependencies(pkg) : \E d \in ToSet(DepsOf(q)) : AlpmSatisfies(p, d)
<1> DEFINE S == ({pkg} \cup Dependencies(pkg)) \ {p}
<1>1. S \in SUBSET (ToSet(sys.local) \cup {pkg}) /\ pkg \in S /\ p \notin S
  BY DEF Dependencies
<1> HIDE DEF S
<1>2. ~FollowsDeps(S)
  BY <1>1 DEF Dependencies
<1>3. PICK q, d, r : q \in S /\ d \in ToSet(DepsOf(q)) /\ r \in Local /\ AlpmSatisfies(r, d) /\ r \notin S
  BY <1>2 DEF FollowsDeps, Local
<1>4. q \in {pkg} \cup Dependencies(pkg)
  BY <1>3 DEF S
<1>5. r \in Dependencies(pkg)
  BY <1>3, <1>4, DependenciesClosed
<1>6. r = p
  BY <1>3, <1>5 DEF S
<1> QED BY <1>3, <1>4, <1>6

\* What alpm_find_satisfier returns.
LEMMA SatisfierFound ==
    ASSUME IsList(sys.local), NEW d
    PROVE  /\ Satisfiers(sys.local, d) \in Seq(Local)
           /\ ToSet(Satisfiers(sys.local, d)) = {p \in Local : AlpmSatisfies(p, d)}
           /\ HasSatisfier(sys.local, d) =>
                FindSatisfier(sys.local, d) \in Local /\ AlpmSatisfies(FindSatisfier(sys.local, d), d)
<1>1. sys.local \in Seq(Local)
  BY DEF IsList, Local
<1> DEFINE S == {p \in Local : AlpmSatisfies(p, d)}
           s == Select(sys.local, S)
<1>2. Satisfiers(sys.local, d) = s
  BY DEF Satisfiers, Local
<1>3. Local \cap S = S
  OBVIOUS
<1> HIDE DEF S
<1>4. s \in Seq(Local) /\ ToSet(s) = Local \cap S
  BY <1>1, SelectList, SelectMembers DEF Local
<1> HIDE DEF s
<1>5. s # << >> => Head(s) \in Local /\ Head(s) \in ToSet(s)
  BY <1>4, HeadTailMembers
<1> QED BY <1>2, <1>3, <1>4, <1>5 DEF HasSatisfier, FindSatisfier, S

LEMMA OnlySatisfier ==
    ASSUME ReportSys, NEW d, NEW p \in Local, AlpmSatisfies(p, d),
           ~(Len(Satisfiers(sys.local, d)) > 1)
    PROVE  HasSatisfier(sys.local, d) /\ FindSatisfier(sys.local, d) = p
<1>1. PICK s \in Seq(Local) : s = Satisfiers(sys.local, d)
  BY SatisfierFound DEF ReportSys
<1>2. p \in ToSet(s)
  BY <1>1, SatisfierFound DEF ReportSys
<1>3. PICK i \in 1..Len(s) : s[i] = p
  BY <1>2 DEF ToSet
<1>4. i = 1 /\ s # << >> /\ Head(s) = p
  BY <1>1, <1>3
<1> QED BY <1>1, <1>4 DEF HasSatisfier, FindSatisfier

LEMMA ChainStarts ==
    ASSUME ReportSys, NEW p \in Packages
    PROVE  OwnChain(<<p>>, 1, p.isize, DepsOf(p))
<1> DEFINE chain == <<p>>
<1>1. chain \in Seq(Packages) /\ Len(chain) = 1 /\ chain[1] = p /\ 1 \in 1..Len(chain)
  OBVIOUS
<1> HIDE DEF chain
<1>2. ChainIsOwn(chain)
  BY <1>1 DEF ChainIsOwn
<1>3. SizeOf(chain, 1) = p.isize
  <2>1. p.isize \in Nat
    BY DEF ReportSys
  <2>2. 0 \in Nat /\ \A i \in 1..(0 + 1) : chain[i].isize \in Nat
    BY <1>1, <2>1
  <2>3. \A i \in 1..0 : chain[i] = chain[i]
    OBVIOUS
  <2>4. SizeOf(chain, 0 + 1) = SizeOf(chain, 0) + chain[0 + 1].isize
    BY <2>2, <2>3, SizeOfLonger
  <2> QED BY <1>1, <2>1, <2>4, SizeOfNone
<1>4. Deps(chain) = ToSet(DepsOf(p)) /\ Deps(chain) \subseteq Waiting(chain, 1, DepsOf(p))
  BY <1>1 DEF Deps, Waiting
<1>5. ToSet(chain) \subseteq {chain[1]} \cup Dependencies(chain[1])
  BY <1>1 DEF ToSet
<1>6. OwnChain(chain, 1, p.isize, DepsOf(p))
  BY <1>1, <1>2, <1>3, <1>4, <1>5, DepsAreLists DEF OwnChain, Expects
<1> QED BY <1>6 DEF chain

LEMMA ChainGoesOn ==
    ASSUME ReportSys, NEW chain, NEW at, NEW size, OwnChain(chain, at, size, << >>), at < Len(chain)
    PROVE  /\ OwnChain(chain, at + 1, size + chain[at + 1].isize, DepsOf(chain[at + 1]))
<1>1. /\ chain \in Seq(Packages) /\ at \in Nat /\ at + 1 \in 1..Len(chain) /\ ChainIsOwn(chain)
      /\ size = SizeOf(chain, at) /\ Expects(chain, at, << >>)
      /\ ToSet(chain) \subseteq {chain[1]} \cup Dependencies(chain[1])
  BY DEF OwnChain
<1>2. chain[at + 1] \in Packages /\ \A i \in 1..(at + 1) : chain[i].isize \in Nat
  <2>1. \A i \in 1..(at + 1) : chain[i] \in Packages
    BY <1>1
  <2> QED BY <1>1, <2>1 DEF ReportSys
<1>3. SizeOf(chain, at + 1) = size + chain[at + 1].isize
  <2>1. PICK n \in Nat : n = at
    BY <1>1
  <2> QED BY <1>1, <1>2, <2>1, SizeOfLonger
<1>4. Waiting(chain, at, << >>) \subseteq Waiting(chain, at + 1, DepsOf(chain[at + 1]))
  <2>1. ToSet(<< >>) = {}
    BY DEF ToSet
  <2>2. \A i \in (at + 1)..Len(chain) : i = at + 1 \/ i \in ((at + 1) + 1)..Len(chain)
    BY <1>1
  <2> QED BY <2>1, <2>2 DEF Waiting
<1>5. Expects(chain, at + 1, DepsOf(chain[at + 1]))
  BY <1>1, <1>4 DEF Expects
<1>6. ToSet(DepsOf(chain[at + 1])) \subseteq Deps(chain)
  BY <1>1 DEF Deps
<1> QED BY <1>1, <1>2, <1>3, <1>5, <1>6, DepsAreLists DEF OwnChain

\* A package that joins the chain brings what it depends on, and nobody else is let in that
\* does not depend on it: whoever needs one of the chain and no more is in it.
LEMMA ChainGrows ==
    ASSUME ReportSys, NEW chain, NEW at, NEW size, NEW dep, NEW rest, NEW all,
           OwnChain(chain, at, size, all), IsList(rest), ToSet(all) = {dep} \cup ToSet(rest),
           NEW s \in Local, Joins(s, chain), s = FindSatisfier(sys.local, dep), AlpmSatisfies(s, dep)
    PROVE  OwnChain(Append(chain, s), at, size, rest)
<1>1. /\ chain \in Seq(Packages) /\ at \in 1..Len(chain) /\ ChainIsOwn(chain)
      /\ size = SizeOf(chain, at) /\ Expects(chain, at, all) /\ ToSet(all) \subseteq Deps(chain)
  BY DEF OwnChain
<1>2. s \in Packages
  BY DEF Packages
<1> DEFINE longer == Append(chain, s)
           N == Len(chain)
<1>3. /\ longer \in Seq(Packages) /\ Len(longer) = N + 1 /\ longer[N + 1] = s /\ N \in Nat
      /\ \A i \in 1..N : longer[i] = chain[i]
  BY <1>1, <1>2, AppendProperties
<1>4. ToSet(longer) = ToSet(chain) \cup {s}
  BY <1>1, <1>2, AppendMembers
<1> HIDE DEF longer
<1>5. ChainIsOwn(longer)
  <2>1. ASSUME NEW i \in 1..Len(longer), NEW j \in 1..Len(longer), longer[i] = longer[j] PROVE i = j
    <3>1. s \notin ToSet(chain) /\ ToSet(chain) = {chain[k] : k \in 1..N}
      BY <1>1 DEF Joins, ToSet
    <3>2. (i \in 1..N \/ i = N + 1) /\ (j \in 1..N \/ j = N + 1)
      BY <1>3
    <3> QED BY <1>1, <1>3, <2>1, <3>1, <3>2 DEF ChainIsOwn
  <2>2. ASSUME NEW i \in 2..Len(longer)
        PROVE  longer[i].reason # "explicit" /\ Needing(longer[i], o.optionalDeps) \subseteq ToSet(longer)
    <3>1. (i \in 2..N /\ longer[i] = chain[i]) \/ longer[i] = s
      BY <1>3
    <3> QED BY <1>1, <1>4, <3>1 DEF ChainIsOwn, Joins
  <2> QED BY <2>1, <2>2 DEF ChainIsOwn
<1>6. size = SizeOf(longer, at)
  <2>1. \A i \in 1..(at + 1) : longer[i] \in Packages
    BY <1>1, <1>3
  <2>2. \A i \in 1..(at + 1) : longer[i].isize \in Nat
    BY <2>1 DEF ReportSys
  <2>3. PICK n \in Nat : n = at
    BY <1>1
  <2>4. \A i \in 1..n : longer[i] = chain[i]
    BY <1>1, <1>3, <2>3
  <2> QED BY <1>1, <2>2, <2>3, <2>4, SizeOfLonger
<1>7. Deps(longer) = Deps(chain) \cup ToSet(DepsOf(s))
  <2>1. \A i \in 1..Len(longer) : i = N + 1 \/ i \in 1..N
    BY <1>3
  <2>2. N + 1 \in 1..Len(longer) /\ \A i \in 1..N : i \in 1..Len(longer)
    BY <1>3
  <2> QED BY <1>3, <2>1, <2>2 DEF Deps
<1>8. /\ ToSet(DepsOf(s)) \subseteq Waiting(longer, at, rest)
      /\ Waiting(chain, at, all) \ {dep} \subseteq Waiting(longer, at, rest)
  <2>1. N + 1 \in (at + 1)..Len(longer) /\ \A i \in (at + 1)..N : i \in (at + 1)..Len(longer) /\ i \in 1..N
    BY <1>1, <1>3
  <2> QED BY <1>3, <2>1 DEF Waiting
<1>9. Expects(longer, at, rest)
  <2> SUFFICES ASSUME \A d \in Deps(longer) : ~(Len(Satisfiers(sys.local, d)) > 1),
                      NEW p \in Local, Joins(p, longer),
                      NEW d0 \in Deps(longer), AlpmSatisfies(p, d0)
               PROVE  \E d \in Waiting(longer, at, rest) : AlpmSatisfies(p, d)
    BY DEF Expects
  <2>1. CASE s \in Needing(p, o.optionalDeps)
    <3>1. PICK d \in ToSet(DepsOf(s)) : AlpmSatisfies(p, d)
      BY <2>1, NeedingDepends
    <3> QED BY <1>8, <3>1
  <2>2. CASE s \notin Needing(p, o.optionalDeps)
    <3>1. Joins(p, chain)
      BY <1>4, <2>2 DEF Joins
    <3>2. CASE d0 \in ToSet(DepsOf(s))
      BY <1>8, <3>2
    <3>3. CASE d0 \in Deps(chain)
      <4>1. \A d \in Deps(chain) : ~(Len(Satisfiers(sys.local, d)) > 1)
        BY <1>7
      <4>2. PICK d \in Waiting(chain, at, all) : AlpmSatisfies(p, d)
        BY <1>1, <3>1, <3>3, <4>1 DEF Expects
      <4>3. d # dep
        <5> SUFFICES ASSUME d = dep PROVE FALSE
          OBVIOUS
        <5>1. ~(Len(Satisfiers(sys.local, dep)) > 1)
          BY <1>1, <4>1
        <5>2. s = p
          BY <4>2, <5>1, OnlySatisfier
        <5> QED BY <1>4, <5>2 DEF Joins
      <4> QED BY <1>8, <4>2, <4>3
    <3> QED BY <1>7, <3>2, <3>3
  <2> QED BY <2>1, <2>2
<1>10. ToSet(rest) \subseteq Deps(longer)
  BY <1>1, <1>7
<1>11. ToSet(longer) \subseteq {longer[1]} \cup Dependencies(longer[1])
  <2>1. dep \in Deps(chain)
    BY <1>1
  <2>2. PICK i \in 1..N : dep \in ToSet(DepsOf(chain[i]))
    BY <2>1 DEF Deps
  <2>3. PICK pkg : pkg = chain[1] /\ pkg = longer[1] /\ ToSet(chain) \subseteq {pkg} \cup Dependencies(pkg)
    <3>1. 1 \in 1..N
      BY <1>1
    <3> QED BY <1>3, <3>1 DEF OwnChain
  <2>4. chain[i] \in {pkg} \cup Dependencies(pkg)
    <3>1. chain[i] \in ToSet(chain)
      BY <1>1, MembersOfList DEF ToSet
    <3> QED BY <2>3, <3>1
  <2>5. s \in Dependencies(pkg)
    BY <2>2, <2>4, DependenciesClosed
  <2> QED BY <1>4, <2>3, <2>5
<1> QED BY <1>1, <1>3, <1>5, <1>6, <1>9, <1>10, <1>11 DEF OwnChain, longer

\* One who does not join: it could not, or the dependency is satisfied by several.
LEMMA ChainKeeps ==
    ASSUME ReportSys, NEW chain, NEW at, NEW size, NEW dep, NEW rest, NEW all,
           OwnChain(chain, at, size, all), IsList(rest), ToSet(all) = {dep} \cup ToSet(rest),
           HasSatisfier(sys.local, dep) => ~Joins(FindSatisfier(sys.local, dep), chain)
    PROVE  OwnChain(chain, at, size, rest)
<1>1. Expects(chain, at, all) /\ ToSet(all) \subseteq Deps(chain)
  BY DEF OwnChain
<1>2. Expects(chain, at, rest)
  <2> SUFFICES ASSUME \A d \in Deps(chain) : ~(Len(Satisfiers(sys.local, d)) > 1),
                      NEW p \in Local, Joins(p, chain), \E d \in Deps(chain) : AlpmSatisfies(p, d)
               PROVE  \E d \in Waiting(chain, at, rest) : AlpmSatisfies(p, d)
    BY DEF Expects
  <2>1. PICK d \in Waiting(chain, at, all) : AlpmSatisfies(p, d)
    BY <1>1 DEF Expects
  <2>2. ~AlpmSatisfies(p, dep)
    <3> SUFFICES ASSUME AlpmSatisfies(p, dep) PROVE FALSE
      OBVIOUS
    <3>1. ~(Len(Satisfiers(sys.local, dep)) > 1)
      BY <1>1
    <3> QED BY <3>1, OnlySatisfier
  <2>3. d # dep
    BY <2>1, <2>2
  <2> QED BY <2>1, <2>3 DEF Waiting
<1> QED BY <1>1, <1>2 DEF OwnChain

LEMMA SameChains ==
    ASSUME sys' = sys, o' = o
    PROVE  /\ Packages' = Packages
           /\ ReportSys' <=> ReportSys
           /\ \A c, at, size, rest : OwnChain(c, at, size, rest)' <=> OwnChain(c, at, size, rest)
<1>1. /\ Packages' = Packages
      /\ ReportSys' <=> ReportSys
  BY DEF Packages, ReportSys, Local
<1>2. /\ \A p, opt : Needing(p, opt)' = Needing(p, opt)
      /\ Local' = Local
      /\ \A p : DepsOf(p)' = DepsOf(p)
  BY SamePackages DEF DepsOf
<1>3. \A c : ChainIsOwn(c)' <=> ChainIsOwn(c)
  BY <1>2 DEF ChainIsOwn
<1>4. \A c : Deps(c)' = Deps(c)
  BY <1>2 DEF Deps
<1>5. \A c, at, rest : Waiting(c, at, rest)' = Waiting(c, at, rest)
  BY <1>2 DEF Waiting
<1>6. \A p, c : Joins(p, c)' <=> Joins(p, c)
  BY <1>2 DEF Joins
<1>7. \A c, at, rest : Expects(c, at, rest)' <=> Expects(c, at, rest)
  BY <1>2, <1>4, <1>5, <1>6 DEF Expects
<1>8. ASSUME NEW c, NEW at, NEW size, NEW rest
      PROVE  OwnChain(c, at, size, rest)' <=> OwnChain(c, at, size, rest)
  <2>1. OwnChain(c, at, size, rest)' <=>
           /\ c \in Seq(Packages') /\ at \in 1..Len(c)
           /\ IsList(rest) /\ ToSet(rest) \subseteq Deps(c)'
           /\ ChainIsOwn(c)' /\ size = SizeOf(c, at)
           /\ ToSet(c) \subseteq {c[1]} \cup Dependencies(c[1])'
           /\ Expects(c, at, rest)'
    BY DEF OwnChain
  <2>2. Dependencies(c[1])' = Dependencies(c[1])
    <3>1. \A S : FollowsDeps(S)' <=> FollowsDeps(S)
      BY <1>2 DEF FollowsDeps
    <3> QED BY <3>1 DEF Dependencies
  <2> QED BY <1>1, <1>3, <1>4, <1>7, <2>1, <2>2 DEF OwnChain
<1> QED BY <1>1, <1>8

LEMMA ChainStartsOwn ==
    ASSUME ReportSys, QueueInv, ChainStart
    PROVE  QueueInv' /\ acc'.queue = acc.queue /\ ChainInv'
<1>1. PICK p : /\ p = Head(acc.queue).pkg /\ acc.queue # << >> /\ sys' = sys /\ o' = o
               /\ acc' = [queue |-> acc.queue, chain |-> <<p>>, at |-> 1, size |-> p.isize]
               /\ todo' = DepsOf(p)
  BY DEF ChainStart, Stays
<1>2. p \in Packages
  <2>1. PICK e : e = Head(acc.queue)
    OBVIOUS
  <2>2. e \in [heading : Headings, pkg : Packages]
    BY <1>1, <2>1, HeadTailMembers DEF QueueInv
  <2> QED BY <1>1, <2>1, <2>2
<1>3. PICK c, n, rest : c = <<p>> /\ n = p.isize /\ rest = DepsOf(p)
  OBVIOUS
<1>4. OwnChain(c, 1, n, rest)
  BY <1>2, <1>3, ChainStarts
<1>5. OwnChain(c, 1, n, rest)' /\ Packages' = Packages
  BY <1>1, <1>4, SameChains
<1>6. acc'.chain = c /\ acc'.at = 1 /\ acc'.size = n /\ todo' = rest /\ acc'.queue = acc.queue
  BY <1>1, <1>3
<1>7. acc'.chain[1] = Head(acc'.queue).pkg
  BY <1>1
<1> QED BY <1>5, <1>6, <1>7 DEF QueueInv, ChainInv

LEMMA ChainDepOwn ==
    ASSUME ReportSys, QueueInv, ChainInv, ChainDep
    PROVE  QueueInv' /\ acc'.queue = acc.queue /\ ChainInv'
<1>1. PICK dep, rest, all, c, at, n :
        /\ dep = Head(todo) /\ rest = Tail(todo) /\ all = todo /\ todo # << >> /\ sys' = sys /\ o' = o
        /\ c = acc.chain /\ at = acc.at /\ n = acc.size
        /\ acc' = [queue |-> acc.queue, chain |-> Extended(acc.chain, Head(todo)), at |-> acc.at,
                   size |-> acc.size]
        /\ todo' = Tail(todo)
  BY DEF ChainDep, Stays
<1>2. OwnChain(c, at, n, all) /\ c[1] = Head(acc.queue).pkg
  BY <1>1 DEF ChainInv
<1>3. IsList(rest) /\ ToSet(all) = {dep} \cup ToSet(rest)
  <2>1. all \in Seq(ToSet(all)) /\ all # << >>
    BY <1>1, <1>2 DEF OwnChain, IsList
  <2>2. Tail(all) \in Seq(ToSet(all)) /\ ToSet(all) = {Head(all)} \cup ToSet(Tail(all))
    BY <2>1, HeadTailMembers
  <2> QED BY <1>1, <2>2, MembersOfList
<1>4. PICK longer : longer = Extended(c, dep)
  OBVIOUS
<1>5. OwnChain(longer, at, n, rest)
  <2>1. PICK s : s = FindSatisfier(sys.local, dep)
    OBVIOUS
  <2>2. CASE HasSatisfier(sys.local, dep) /\ Joins(s, c)
    <3>1. s \in Local /\ AlpmSatisfies(s, dep)
      BY <2>1, <2>2, SatisfierFound DEF ReportSys
    <3>2. longer = Append(c, s)
      BY <1>4, <2>1, <2>2 DEF Extended
    <3>3. OwnChain(Append(c, s), at, n, rest)
      BY <1>2, <1>3, <2>1, <2>2, <3>1, ChainGrows
    <3> QED BY <3>2, <3>3
  <2>3. CASE ~(HasSatisfier(sys.local, dep) /\ Joins(s, c))
    <3>1. longer = c
      BY <1>4, <2>1, <2>3 DEF Extended
    <3>2. OwnChain(c, at, n, rest)
      BY <1>2, <1>3, <2>1, <2>3, ChainKeeps
    <3> QED BY <3>1, <3>2
  <2> QED BY <2>2, <2>3
<1>6. OwnChain(longer, at, n, rest)' /\ Packages' = Packages
  BY <1>1, <1>5, SameChains
<1>7. acc'.chain = longer /\ acc'.at = at /\ acc'.size = n /\ todo' = rest /\ acc'.queue = acc.queue
  BY <1>1, <1>4
<1>8. longer[1] = c[1]
  <2>1. c \in Seq(Packages) /\ 1 \in 1..Len(c)
    BY <1>2 DEF OwnChain
  <2>2. \A s : Append(c, s)[1] = c[1]
    BY <2>1
  <2> QED BY <1>4, <2>2 DEF Extended
<1> QED BY <1>2, <1>6, <1>7, <1>8 DEF QueueInv, ChainInv

LEMMA ChainNextOwn ==
    ASSUME ReportSys, QueueInv, ChainInv, ChainNext
    PROVE  QueueInv' /\ acc'.queue = acc.queue /\ ChainInv'
<1>1. PICK c, at, n, p : 
        /\ c = acc.chain /\ at = acc.at /\ n = acc.size /\ p = c[at + 1]
        /\ todo = << >> /\ at < Len(c) /\ sys' = sys /\ o' = o
        /\ acc' = [queue |-> acc.queue, chain |-> acc.chain, at |-> acc.at + 1,
                   size |-> acc.size + p.isize]
        /\ todo' = DepsOf(p)
  BY DEF ChainNext, Stays
<1>2. OwnChain(c, at, n, << >>) /\ c[1] = Head(acc.queue).pkg
  BY <1>1 DEF ChainInv
<1>3. PICK m, size, rest : m = at + 1 /\ size = n + p.isize /\ rest = DepsOf(p)
  OBVIOUS
<1>4. OwnChain(c, m, size, rest)
  BY <1>1, <1>2, <1>3, ChainGoesOn
<1>5. OwnChain(c, m, size, rest)' /\ Packages' = Packages
  BY <1>1, <1>4, SameChains
<1>6. acc'.chain = c /\ acc'.at = m /\ acc'.size = size /\ todo' = rest /\ acc'.queue = acc.queue
  BY <1>1, <1>3
<1> QED BY <1>2, <1>5, <1>6 DEF QueueInv, ChainInv

LEMMA ChainEnds ==
    ASSUME QueueInv, ChainEnd, acc.queue # << >>
    PROVE  QueueInv'
<1>1. /\ sys' = sys /\ acc' = [queue |-> Tail(acc.queue), chain |-> acc.chain, at |-> acc.at,
                               size |-> acc.size]
  BY DEF ChainEnd, Stays
<1>2. Packages' = Packages
  BY <1>1 DEF Packages, Local
<1>3. acc'.queue = Tail(acc.queue)
  BY <1>1
<1>4. Tail(acc.queue) \in Seq([heading : Headings, pkg : Packages])
  BY HeadTailMembers DEF QueueInv
<1> QED BY <1>2, <1>3, <1>4 DEF QueueInv

\* What the chain is when its end has been come to.
LEMMA ChainComplete ==
    ASSUME NEW c, NEW size, NEW rest, NEW at, OwnChain(c, at, size, rest)
    PROVE  /\ ChainIsOwn(c) /\ size = SizeOf(c, at)
           /\ rest = << >> /\ at = Len(c) => CouldJoin(c) = {}
<1>1. ChainIsOwn(c) /\ size = SizeOf(c, at) /\ Expects(c, at, rest) /\ c \in Seq(Packages)
  BY DEF OwnChain
<1>2. DOMAIN c = 1..Len(c) /\ Len(c) \in Nat
  BY <1>1
<1>3. Deps(c) = UNION {ToSet(DepsOf(c[i])) : i \in DOMAIN c}
  BY <1>2 DEF Deps
<1>4. ASSUME rest = << >>, at = Len(c) PROVE CouldJoin(c) = {}
  <2>1. ToSet(rest) = {}
    BY <1>4 DEF ToSet
  <2>2. (at + 1)..Len(c) = {}
    BY <1>2, <1>4
  <2>3. Waiting(c, at, rest) = {}
    BY <2>1, <2>2 DEF Waiting
  <2>4. CASE \E d \in Deps(c) : Len(Satisfiers(sys.local, d)) > 1
    BY <1>3, <2>4 DEF CouldJoin
  <2>5. CASE \A d \in Deps(c) : ~(Len(Satisfiers(sys.local, d)) > 1)
    <3>1. \A p \in Local : ~(Joins(p, c) /\ \E d \in Deps(c) : AlpmSatisfies(p, d))
      BY <1>1, <2>3, <2>5 DEF Expects
    <3>2. CouldJoin(c) = {p \in Local : Joins(p, c) /\ \E d \in Deps(c) : AlpmSatisfies(p, d)}
      BY <1>3, <2>5 DEF CouldJoin, Local
    <3> QED BY <3>1, <3>2
  <2> QED BY <2>4, <2>5
<1> QED BY <1>1, <1>4

-----------------------------------------------------------------------------
(***************************************************************************)
(* pacreport: what holds between its steps.                                *)
(***************************************************************************)

ReportInv ==
    tool = "pacreport" =>
      /\ ReportSys
      /\ pc = "start" => Accepts(ReportOptions, argv)
      /\ pc \notin {"start", "exited"} => \E values : o \in ReportGlobals(values)
      /\ pc = "connect" => ConnectInv
      /\ pc \in {"print", "chain"} => QueueInv
      /\ pc = "chain" => acc.queue # << >> /\ ChainInv

LEMMA ReportBegins == Init => ReportInv
<1> SUFFICES ASSUME Init, tool = "pacreport" PROVE ReportSys /\ Accepts(ReportOptions, argv) /\ pc = "start"
  BY DEF ReportInv
<1>1. PICK r \in ReportRuns : argv = r.argv /\ sys = r.sys /\ pc = "start"
  BY DEF Init, Started
<1>2. /\ Accepts(ReportOptions, r.argv)
      /\ IsList(r.sys.local) /\ IsList(r.sys.sync)
      /\ \A db \in ToSet(r.sys.sync) : IsList(db.pkgs)
      /\ \A p \in ToSet(r.sys.local) \cup UNION {ToSet(db.pkgs) : db \in ToSet(r.sys.sync)} :
           IsList(p.depends) /\ IsList(p.optdepends) /\ p.isize \in Nat
  BY ReportRunsAssumption
<1> QED BY <1>1, <1>2 DEF ReportSys, Packages, Local

\* A program takes the steps of its own; no step makes it another one.
LEMMA OwnSteps ==
    /\ SiftStep => tool = "pacsift" /\ tool' = tool
    /\ ReportStep => tool = "pacreport" /\ tool' = tool
    /\ CheckStep => tool = "paccheck" /\ tool' = tool
    /\ RepairFileStep => tool = "pacrepairfile" /\ tool' = tool
    /\ SyncStep => tool = "pacsync" /\ tool' = tool
<1> USE DEF Setup, At, Stays
<1>1. SiftStep => tool = "pacsift" /\ tool' = tool
  BY DEF SiftStep, SiftSetup, SiftLoad, FilterField, SiftPrint
<1>2. ReportStep => tool = "pacreport" /\ tool' = tool
  BY DEF ReportStep, ReportSetup, ReportConf, Scan, Scanned, FindLeaves, Connect, Connected,
         ChainStart, ChainDep, ChainNext, ChainEnd, ReportEnd
<1>3. CheckStep => tool = "paccheck" /\ tool' = tool
  BY DEF CheckStep, CheckSetup, CheckLoad, AddDep, DepsAdded, CheckPackage, CheckEnd
<1>4. RepairFileStep => tool = "pacrepairfile" /\ tool' = tool
  BY DEF RepairFileStep, RepairFileSetup, RepairFileLoad, FixFile, FixKind, FixedFile, RepairFileEnd
<1>5. SyncStep => tool = "pacsync" /\ tool' = tool
  <2>1. DownloadEvent => tool = "pacsync" /\ tool' = tool
    BY DEF DownloadEvent, DownloadInit, DownloadProgress, DownloadRetry, DownloadCompleted, Event
  <2> QED BY <2>1 DEF SyncStep, SyncSetup, SyncTargets, SyncEnd
<1> QED BY <1>1, <1>2, <1>3, <1>4, <1>5

LEMMA ReportSteps ==
    ASSUME ReportInv, ReportStep
    PROVE  ReportInv'
<1>1. tool = "pacreport" /\ tool' = tool
  BY OwnSteps
<1> USE DEF ReportInv, At, Goto, Exit
<1>2. CASE ReportSetup
  <2>1. /\ pc = "start" /\ sys' = sys
        /\ pc' = "exited" \/ (o' = Parse(ReportOptions, ReportDefaults) /\ pc' \in {"conf", "failed"})
    BY <1>2 DEF ReportSetup, ReportParsed, Setup, Stays
  <2>2. PICK values : Parse(ReportOptions, ReportDefaults) \in ReportGlobals(values)
    BY <1>1, <2>1, ReportIsParsed
  <2>3. ReportGlobals(values)' = ReportGlobals(values)
    BY DEF ReportGlobals
  <2>4. ReportSys'
    BY <1>1, <2>1 DEF ReportSys, Packages, Local
  <2>5. CASE pc' = "exited"
    BY <1>1, <2>4, <2>5
  <2>6. CASE o' = Parse(ReportOptions, ReportDefaults) /\ pc' \in {"conf", "failed"}
    BY <1>1, <2>2, <2>4, <2>6
  <2> QED BY <2>1, <2>5, <2>6
<1>3. CASE sys' = sys /\ o' = o /\ pc \notin {"start", "exited"}
  <2>1. ReportSys' /\ ReportSys
    BY <1>1, <1>3, SameChains
  <2>2. PICK values : o \in ReportGlobals(values)
    BY <1>1, <1>3
  <2>3. o' \in ReportGlobals(values)
    BY <1>3, <2>2
  <2> USE <1>1, <1>3, <2>1, <2>3
  <2>4. CASE ReportConf
    <3>1. pc' \in {"exited", "leaves", "scan"}
      BY <2>4 DEF ReportConf
    <3> QED BY <3>1
  <2>5. CASE Scan \/ Scanned
    <3>1. pc' \in {"scan", "leaves"}
      BY <2>5 DEF Scan, Scanned
    <3> QED BY <3>1
  <2>6. CASE FindLeaves
    <3>1. pc' = "connect" /\ ConnectInv'
      BY <2>6, FindLeavesConnects DEF FindLeaves
    <3> QED BY <3>1
  <2>7. CASE Connect
    <3>1. pc = "connect" /\ pc' = "connect"
      BY <2>7 DEF Connect
    <3>2. ConnectInv'
      BY <2>7, <3>1, ConnectConnects
    <3> QED BY <3>1, <3>2
  <2>8. CASE Connected
    <3>1. pc = "connect" /\ pc' = "print"
      BY <2>8 DEF Connected
    <3>2. QueueInv'
      BY <2>2, <2>8, <3>1, ConnectedQueues
    <3> QED BY <3>1, <3>2
  <2>9. CASE ChainStart
    <3>1. pc = "print" /\ pc' = "chain" /\ acc.queue # << >>
      BY <2>9 DEF ChainStart
    <3>2. QueueInv' /\ acc'.queue = acc.queue /\ ChainInv'
      BY <2>9, <3>1, ChainStartsOwn
    <3> QED BY <3>1, <3>2
  <2>10. CASE ChainDep \/ ChainNext
    <3>1. pc = "chain" /\ pc' = "chain" /\ acc.queue # << >>
      BY <2>10 DEF ChainDep, ChainNext
    <3>2. QueueInv' /\ acc'.queue = acc.queue /\ ChainInv'
      BY <2>10, <3>1, ChainDepOwn, ChainNextOwn
    <3> QED BY <3>1, <3>2
  <2>11. CASE ChainEnd
    <3>1. pc = "chain" /\ pc' = "print" /\ acc.queue # << >>
      BY <2>11 DEF ChainEnd
    <3>2. QueueInv'
      BY <2>11, <3>1, ChainEnds
    <3> QED BY <3>1, <3>2
  <2>12. CASE ReportEnd
    <3>1. pc' = "exited"
      BY <2>12 DEF ReportEnd
    <3> QED BY <3>1
  <2>13. ~ReportSetup
    BY DEF ReportSetup, Setup
  <2> QED BY <2>4, <2>5, <2>6, <2>7, <2>8, <2>9, <2>10, <2>11, <2>12, <2>13 DEF ReportStep
<1>4. ReportStep => ReportSetup \/ (sys' = sys /\ o' = o /\ pc \notin {"start", "exited"})
  BY DEF ReportStep, ReportConf, Scan, Scanned, FindLeaves, Connect, Connected,
         ChainStart, ChainDep, ChainNext, ChainEnd, ReportEnd, Stays
<1> QED BY <1>2, <1>3, <1>4

LEMMA ReportStutters ==
    ASSUME ReportInv, UNCHANGED toolVars
    PROVE  ReportInv'
<1>1. sys' = sys /\ o' = o /\ todo' = todo /\ acc' = acc /\ pc' = pc /\ tool' = tool /\ argv' = argv
  BY DEF toolVars
<1>2. ReportSys' <=> ReportSys
  BY <1>1, SameChains
<1>3. ConnectInv' <=> ConnectInv
  BY <1>1, SamePackages DEF ConnectInv
<1>4. QueueInv' <=> QueueInv
  BY <1>1, SameChains DEF QueueInv
<1>5. ChainInv' <=> ChainInv
  <2>1. PICK c, at, n, rest : c = acc.chain /\ at = acc.at /\ n = acc.size /\ rest = todo
    OBVIOUS
  <2>2. OwnChain(c, at, n, rest)' <=> OwnChain(c, at, n, rest)
    BY <1>1, SameChains
  <2> QED BY <1>1, <2>1, <2>2 DEF ChainInv
<1> QED BY <1>1, <1>2, <1>3, <1>4, <1>5 DEF ReportInv

LEMMA ReportHolds == Spec => []ReportInv
<1>1. ReportInv /\ [Next]_toolVars => ReportInv'
  <2> SUFFICES ASSUME ReportInv, [Next]_toolVars PROVE ReportInv'
    OBVIOUS
  <2>1. CASE SiftStep \/ CheckStep \/ RepairFileStep \/ SyncStep
    <3>1. tool' # "pacreport"
      BY <2>1, OwnSteps
    <3> QED BY <3>1 DEF ReportInv
  <2>2. CASE ReportStep
    BY <2>2, ReportSteps
  <2>3. CASE UNCHANGED toolVars
    BY <2>3, ReportStutters
  <2> QED BY <2>1, <2>2, <2>3 DEF Next, Finished
<1> QED BY <1>1, ReportBegins, PTL DEF Spec

\* When pacreport has gone through the list of connected packages, those left need only
\* each other, and those gone are what the leaves lead to, on every system it can run on.
THEOREM LeftAreUnneeded == Spec => []UnneededAreUnreached
<1>1. ReportInv => UnneededAreUnreached
  <2> SUFFICES ASSUME ReportInv, At("pacreport", "connect"), todo = << >> PROVE UnneededAreUnreached
    BY DEF UnneededAreUnreached
  <2>1. ConnectInv
    BY DEF ReportInv, At
  <2>2. PICK D : D = ToSet(acc.disconnected) /\ Followed(D, ToSet(todo))
    BY <2>1 DEF ConnectInv
  <2>3. ToSet(todo) = {}
    BY DEF ToSet
  <2>4. Followed(D, {})
    BY <2>2, <2>3
  <2>5. /\ \A p \in D : /\ Needing(p, o.optionalDeps) # {}
                        /\ Needing(p, o.optionalDeps) \subseteq D
        /\ LeavesAndWhatTheyNeed(Local \ D)
        /\ \A S \in SUBSET Local : LeavesAndWhatTheyNeed(S) => Local \ D \subseteq S
    BY <2>4, FollowedLast
  <2> QED BY <2>2, <2>5 DEF UnneededAreUnreached, Local
<1> QED BY <1>1, ReportHolds, PTL

\* The members of the chain are needed only by the package and each other.
LEMMA CountedAreOwn ==
    ASSUME ReportSys, NEW c, NEW at, NEW size, NEW rest, OwnChain(c, at, size, rest),
           NEW pkg, pkg = c[1]
    PROVE  ToSet(c) \ {pkg} \subseteq OnlyNeededBy(pkg)
<1> DEFINE S == ToSet(c) \ {pkg}
<1>1. S \in SUBSET Dependencies(pkg)
  BY DEF OwnChain
<1>2. ASSUME NEW p \in S
      PROVE  p # pkg /\ p.reason # "explicit" /\ Needing(p, o.optionalDeps) \subseteq S \cup {pkg}
  <2>1. c \in Seq(Packages) /\ ChainIsOwn(c)
    BY DEF OwnChain
  <2>2. PICK i \in 1..Len(c) : c[i] = p
    BY <2>1 DEF ToSet
  <2>3. i # 1
    BY <2>2
  <2>4. i \in 2..Len(c)
    BY <2>3, <2>1
  <2> QED BY <2>1, <2>2, <2>4 DEF ChainIsOwn
<1> HIDE DEF S
<1>3. NeededWithin(pkg, S)
  BY <1>2 DEF NeededWithin
<1>4. S \subseteq OnlyNeededBy(pkg)
  BY <1>1, <1>3 DEF OnlyNeededBy
<1> QED BY <1>4 DEF S

\* One that is missed would be let in as soon as all that need it are members.
LEMMA MissedAreNeeded ==
    ASSUME ReportSys, NEW c, CouldJoin(c) = {}, OneWay(c), NEW pkg, pkg \in ToSet(c),
           NEW p \in OnlyNeededBy(pkg), p \notin ToSet(c)
    PROVE  \E q \in OnlyNeededBy(pkg) : q \notin ToSet(c) /\ q \in Needing(p, o.optionalDeps)
<1> SUFFICES ASSUME \A q \in OnlyNeededBy(pkg) : q \in Needing(p, o.optionalDeps) => q \in ToSet(c)
             PROVE  FALSE
  OBVIOUS
<1>1. PICK S \in SUBSET Dependencies(pkg) : NeededWithin(pkg, S) /\ p \in S
  BY DEF OnlyNeededBy
<1>2. /\ p # pkg /\ p.reason # "explicit" /\ p \in Dependencies(pkg) /\ p \in Local
      /\ Needing(p, o.optionalDeps) \subseteq S \cup {pkg}
  BY <1>1 DEF NeededWithin, Dependencies, Local
<1>3. S \subseteq OnlyNeededBy(pkg)
  BY <1>1 DEF OnlyNeededBy
<1>4. Needing(p, o.optionalDeps) \subseteq ToSet(c)
  BY <1>2, <1>3
<1>5. Joins(p, c)
  BY <1>2, <1>4 DEF Joins
<1>6. PICK q, d : q \in {pkg} \cup Dependencies(pkg) /\ d \in ToSet(DepsOf(q)) /\ AlpmSatisfies(p, d)
  BY <1>2, DependenciesLeast
<1>7. q \in ToSet(c)
  <2>1. CASE q = pkg
    BY <2>1
  <2>2. CASE q # pkg
    <3>1. q \in Local
      BY <1>6, <2>2 DEF Dependencies, Local
    <3>2. q \in Needing(p, o.optionalDeps)
      BY <1>6, <3>1, DependingNeeds
    <3> QED BY <1>4, <3>2
  <2> QED BY <2>1, <2>2
<1>8. PICK i \in DOMAIN c : c[i] = q
  BY <1>7 DEF ToSet
<1>9. CouldJoin(c) = {r \in Local : /\ Joins(r, c)
                                    /\ \E e \in UNION {ToSet(DepsOf(c[j])) : j \in DOMAIN c} : AlpmSatisfies(r, e)}
  <2>1. ASSUME NEW j \in DOMAIN c, NEW e \in ToSet(DepsOf(c[j])) PROVE ~(Len(Satisfiers(sys.local, e)) > 1)
    <3>1. Len(Satisfiers(sys.local, e)) <= 1
      BY DEF OneWay
    <3>2. Len(Satisfiers(sys.local, e)) \in Nat
      BY SatisfierFound DEF ReportSys
    <3> QED BY <3>1, <3>2
  <2> QED BY <2>1 DEF CouldJoin, Local
<1> QED BY <1>2, <1>5, <1>6, <1>8, <1>9

\* What get_pkg_chain_size adds up are the package and others that only it and they need,
\* each once; what of these it misses is needed by another one that it misses, unless a
\* dependency can be satisfied in two ways.  It is so on every system pacreport can run on.
THEOREM ChainsComplete == Spec => []ChainsAreOwn
<1>1. ReportInv => ChainsAreOwn
  <2> SUFFICES ASSUME ReportInv, At("pacreport", "chain"), todo = << >>, acc.at = Len(acc.chain)
               PROVE  ChainsAreOwn
    BY DEF ChainsAreOwn
  <2>1. ReportSys /\ OwnChain(acc.chain, acc.at, acc.size, todo) /\ acc.chain[1] = Head(acc.queue).pkg
    BY DEF ReportInv, At, ChainInv
  <2>2. PICK c, at, n, rest, pkg : /\ c = acc.chain /\ at = acc.at /\ n = acc.size /\ rest = todo
                                   /\ pkg = Head(acc.queue).pkg
    OBVIOUS
  <2>3. OwnChain(c, at, n, rest) /\ c[1] = pkg /\ rest = << >> /\ at = Len(c)
    BY <2>1, <2>2
  <2>4. ChainIsOwn(c) /\ n = SizeOf(c, at) /\ CouldJoin(c) = {}
    BY <2>3, ChainComplete
  <2>5. DOMAIN c = 1..Len(c) /\ 1 \in 1..Len(c)
    BY <2>3 DEF OwnChain
  <2>6. IsInjective(c)
    BY <2>4, <2>5 DEF IsInjective, ChainIsOwn
  <2>7. ToSet(c) \ {pkg} \subseteq OnlyNeededBy(pkg)
    BY <2>1, <2>3, CountedAreOwn
  <2>8. pkg \in ToSet(c)
    BY <2>3, <2>5 DEF ToSet
  <2> DEFINE missed == OnlyNeededBy(pkg) \ (ToSet(c) \ {pkg})
  <2>9. ASSUME OneWay(c), NEW p \in missed PROVE Needing(p, o.optionalDeps) \cap missed # {}
    <3>1. p # pkg
      BY DEF OnlyNeededBy, NeededWithin
    <3>2. p \in OnlyNeededBy(pkg) /\ p \notin ToSet(c)
      BY <3>1
    <3>3. PICK q \in OnlyNeededBy(pkg) : q \notin ToSet(c) /\ q \in Needing(p, o.optionalDeps)
      BY <2>1, <2>4, <2>8, <2>9, <3>2, MissedAreNeeded
    <3> QED BY <3>3
  <2> QED BY <2>2, <2>3, <2>4, <2>6, <2>7, <2>9 DEF ChainsAreOwn
<1> QED BY <1>1, ReportHolds, PTL

-----------------------------------------------------------------------------
(***************************************************************************)
(* paccheck: what the checks that are run find of a package.               *)
(***************************************************************************)

CheckSys ==
    /\ IsList(sys.local) /\ IsInjective(sys.local) /\ IsList(sys.stdin)
    /\ \A p \in Local : /\ IsList(p.depends) /\ IsList(p.optdepends)
                        /\ \A f \in ToSet(p.files) : f.dir \in BOOLEAN
    /\ None \notin Seq(Local)

Broken(p) == \E c \in {c \in Checks : o[c]} : Breaks(CheckProblems(c, p))

LEMMA DependsBreak ==
    ASSUME IsList(sys.local), NEW deps
    PROVE  Breaks(DependProblems(deps))
             <=> ~\A d \in ToSet(deps) : \E q \in ToSet(sys.local) : AlpmSatisfies(q, d)
<1>1. \A d : HasSatisfier(sys.local, d) <=> \E q \in ToSet(sys.local) : AlpmSatisfies(q, d)
  <2> SUFFICES ASSUME NEW d PROVE HasSatisfier(sys.local, d) <=> \E q \in Local : AlpmSatisfies(q, d)
    BY DEF Local
  <2>1. /\ Satisfiers(sys.local, d) \in Seq(Local)
        /\ ToSet(Satisfiers(sys.local, d)) = {p \in Local : AlpmSatisfies(p, d)}
    BY SatisfierFound
  <2>2. PICK s \in Seq(Local) : s = Satisfiers(sys.local, d)
    BY <2>1
  <2>3. s # << >> <=> ToSet(s) # {}
    <3>1. s = << >> => ToSet(s) = {}
      BY DEF ToSet
    <3>2. s # << >> => Head(s) \in ToSet(s)
      BY HeadTailMembers
    <3> QED BY <3>1, <3>2
  <2> QED BY <2>1, <2>2, <2>3 DEF HasSatisfier
<1>2. \A x \in DependProblems(deps) : x.breaks
  BY DEF DependProblems, Problem
<1>3. DependProblems(deps) # {} <=> \E d \in ToSet(deps) : ~HasSatisfier(sys.local, d)
  BY DEF DependProblems
<1> QED BY <1>1, <1>2, <1>3 DEF Breaks

LEMMA OneBreaks ==
    /\ ~Breaks({})
    /\ \A thing, what : Breaks({Problem(thing, what)})
    /\ \A thing, what, breaks : Breaks({Warning(thing, what, breaks)}) <=> breaks
<1>1. \A thing, what : Problem(thing, what).breaks
  BY Zenon DEF Problem
<1>2. \A thing, what, breaks : Warning(thing, what, breaks).breaks <=> breaks
  BY Zenon DEF Warning
<1> QED BY <1>1, <1>2, Zenon DEF Breaks

LEMMA StatBreaks ==
    ASSUME NEW path
    PROVE  /\ Breaks(CannotStat(path)) <=> CannotStat(path) # {}
           /\ CannotStat(path) = {} <=> path \in DOMAIN sys.fs /\ sys.fs[path].stat
<1>1. CASE path \notin DOMAIN sys.fs
  <2>1. CannotStat(path) = {Problem(path, "missing")}
    BY <1>1 DEF CannotStat
  <2> QED BY <1>1, <2>1, OneBreaks
<1>2. CASE path \in DOMAIN sys.fs
  <2>1. CannotStat(path) = If(~sys.fs[path].stat, Warning(path, "read error", TRUE))
    BY <1>2 DEF CannotStat
  <2>2. CASE sys.fs[path].stat
    <3>1. CannotStat(path) = {}
      BY <2>1, <2>2 DEF If
    <3> QED BY <1>2, <2>2, <3>1 DEF Breaks
  <2>3. CASE ~sys.fs[path].stat
    <3>1. CannotStat(path) = {Warning(path, "read error", TRUE)}
      BY <2>1, <2>3 DEF If
    <3>2. Breaks(CannotStat(path))
      BY <3>1, OneBreaks, Zenon
    <3> QED BY <1>2, <2>3, <3>1, <3>2
  <2> QED BY <2>2, <2>3
<1> QED BY <1>1, <1>2

LEMMA FileBreaks ==
    ASSUME NEW path, NEW dir \in BOOLEAN
    PROVE  Breaks(FileProblems(path, dir)) <=> ~FileThere(path, dir)
<1>1. CASE CannotStat(path) # {}
  BY <1>1, StatBreaks DEF FileProblems, FileThere
<1>2. CASE CannotStat(path) = {}
  <2>1. path \in DOMAIN sys.fs /\ sys.fs[path].stat
    BY <1>2, StatBreaks
  <2>2. FileProblems(path, dir) = If(dir # (sys.fs[path].type = "directory"), Problem(path, "type"))
    BY <1>2 DEF FileProblems
  <2>3. dir # (sys.fs[path].type = "directory") <=> ~(dir <=> sys.fs[path].type = "directory")
    BY Zenon
  <2>4. Breaks({}) = FALSE /\ Breaks({Problem(path, "type")})
    BY DEF Breaks, Problem
  <2> QED BY <2>1, <2>2, <2>3, <2>4 DEF If, FileThere
<1> QED BY <1>1, <1>2

LEMMA BreaksUnion ==
    ASSUME NEW X
    PROVE  Breaks(UNION X) <=> \E x \in X : Breaks(x)
BY DEF Breaks

LEMMA BreaksEither ==
    ASSUME NEW A, NEW B
    PROVE  Breaks(A \cup B) <=> Breaks(A) \/ Breaks(B)
BY DEF Breaks

LEMMA FilesBreak ==
    ASSUME CheckSys, NEW p \in Local
    PROVE  Breaks(FilesProblems(p))
             <=> ~(SoundFiles(p) /\ (o.db_files /\ o.require_mtree => FileThere(DbPath(p, "mtree"), FALSE)))
<1> DEFINE listed == {FileProblems(f.path, f.dir) : f \in {f \in ToSet(p.files) : ~NotExtracted(f.path)}}
           db == {FileProblems(DbPath(p, name), FALSE) : name \in DbFiles}
<1>1. Breaks(UNION listed) <=> ~\A f \in ToSet(p.files) : FileThere(f.path, f.dir) \/ NotExtracted(f.path)
  <2>1. \A f \in ToSet(p.files) : Breaks(FileProblems(f.path, f.dir)) <=> ~FileThere(f.path, f.dir)
    BY FileBreaks DEF CheckSys
  <2>2. Breaks(UNION listed) <=> \E x \in listed : Breaks(x)
    <3> HIDE DEF listed
    <3> QED BY BreaksUnion
  <2> QED BY <2>1, <2>2
<1>2. Breaks(UNION db) <=> ~\A name \in DbFiles : FileThere(DbPath(p, name), FALSE)
  <2>1. \A name : Breaks(FileProblems(DbPath(p, name), FALSE)) <=> ~FileThere(DbPath(p, name), FALSE)
    BY FileBreaks
  <2>2. Breaks(UNION db) <=> \E x \in db : Breaks(x)
    <3> HIDE DEF db
    <3> QED BY BreaksUnion
  <2> QED BY <2>1, <2>2
<1>3. (\A name \in DbFiles : FileThere(DbPath(p, name), FALSE))
        <=> /\ \A name \in {"desc", "files"} : FileThere(DbPath(p, name), FALSE)
            /\ o.require_mtree => FileThere(DbPath(p, "mtree"), FALSE)
  BY DEF DbFiles
<1>4. FilesProblems(p) = (UNION listed) \cup (IF o.db_files THEN UNION db ELSE {})
  BY DEF FilesProblems
<1> HIDE DEF listed, db
<1>5. Breaks(FilesProblems(p)) <=> Breaks(UNION listed) \/ (o.db_files /\ Breaks(UNION db))
  <2>1. CASE o.db_files
    <3>1. PICK u, v : u = UNION listed /\ v = UNION db
      OBVIOUS
    <3>2. FilesProblems(p) = u \cup v
      BY <1>4, <2>1, <3>1
    <3>3. Breaks(u \cup v) <=> Breaks(u) \/ Breaks(v)
      BY BreaksEither
    <3> QED BY <2>1, <3>1, <3>2, <3>3
  <2>2. CASE ~o.db_files
    <3>1. FilesProblems(p) = UNION listed
      BY <1>4, <2>2
    <3> QED BY <2>2, <3>1
  <2> QED BY <2>1, <2>2
<1> QED BY <1>1, <1>2, <1>3, <1>5 DEF SoundFiles

LEMMA PropertiesBreak ==
    ASSUME NEW p
    PROVE  Breaks(PropertiesProblems(p)) <=> ~SoundProperties(p)
<1>1. CASE p.mtree = None
  <2>1. Breaks(NoMtree(p)) <=> o.require_mtree
    BY DEF Breaks, NoMtree, Warning
  <2> QED BY <1>1, <2>1 DEF PropertiesProblems, SoundProperties
<1>2. CASE p.mtree # None
  <2> DEFINE each == {PropertyProblems(p, e) : e \in RecordedEntries(p)}
             Fits(e) == \/ Dotted(e.path) /\ PlaceOf(p, e.path) = e.path
                        \/ ~Dotted(e.path) /\ NotExtracted(e.path)
                        \/ LET place == PlaceOf(p, e.path) IN
                           /\ place \in DOMAIN sys.fs /\ sys.fs[place].stat
                           /\ \A field \in Properties(p, e, sys.fs[place]) :
                                sys.fs[place][field] = e[field]
  <2>1. \A e \in RecordedEntries(p) : Breaks(PropertyProblems(p, e)) <=> ~Fits(e)
    <3> SUFFICES ASSUME NEW e \in RecordedEntries(p) PROVE Breaks(PropertyProblems(p, e)) <=> ~Fits(e)
      OBVIOUS
    <3> DEFINE place == PlaceOf(p, e.path)
    <3>1. CASE Skipped(p, e)
      <4>1. ~Breaks({})
        BY DEF Breaks
      <4> QED BY <3>1, <4>1 DEF Skipped, PropertyProblems
    <3>2. CASE ~Skipped(p, e) /\ CannotStat(place) # {}
      <4>1. PropertyProblems(p, e) = CannotStat(place)
        BY <3>2 DEF PropertyProblems
      <4>2. Breaks(CannotStat(place)) /\ ~(place \in DOMAIN sys.fs /\ sys.fs[place].stat)
        BY <3>2, StatBreaks
      <4> QED BY <3>2, <4>1, <4>2 DEF Skipped
    <3>3. CASE ~Skipped(p, e) /\ CannotStat(place) = {}
      <4>1. place \in DOMAIN sys.fs /\ sys.fs[place].stat
        BY <3>3, StatBreaks
      <4> DEFINE differ == {field \in Properties(p, e, sys.fs[place]) : e[field] # sys.fs[place][field]}
      <4>2. PropertyProblems(p, e) = {Problem(e.path, field) : field \in differ}
        BY <3>3 DEF PropertyProblems
      <4> HIDE DEF differ
      <4>3. Breaks(PropertyProblems(p, e)) <=> differ # {}
        <5>1. ASSUME NEW field \in differ PROVE Breaks(PropertyProblems(p, e))
          <6>1. Problem(e.path, field) \in PropertyProblems(p, e)
            BY <4>2
          <6>2. Problem(e.path, field).breaks
            BY Zenon DEF Problem
          <6> QED BY <6>1, <6>2 DEF Breaks
        <5>2. differ = {} => ~Breaks(PropertyProblems(p, e))
          BY <4>2, OneBreaks
        <5> QED BY <5>1, <5>2
      <4> USE DEF differ
      <4>4. differ # {} <=> ~\A field \in Properties(p, e, sys.fs[place]) : sys.fs[place][field] = e[field]
        OBVIOUS
      <4> HIDE DEF differ, place
      <4> QED BY <3>3, <4>1, <4>3, <4>4 DEF Skipped, place
    <3> QED BY <3>1, <3>2, <3>3
  <2>2. PropertiesProblems(p) = UNION each
    BY <1>2 DEF PropertiesProblems
  <2>3. SoundProperties(p) <=> \A e \in RecordedEntries(p) : Fits(e)
    BY <1>2 DEF SoundProperties
  <2> HIDE DEF Fits
  <2>4. (\E x \in each : Breaks(x)) <=> ~\A e \in RecordedEntries(p) : Fits(e)
    BY <2>1
  <2> HIDE DEF each
  <2> QED BY <2>2, <2>3, <2>4, BreaksUnion
<1> QED BY <1>1, <1>2

\* What the checks of digests find of a package: the characters compared are equal.
DigestsPass(kind, p) ==
    IF p.mtree = None THEN ~o.require_mtree
    ELSE /\ o.require_mtree => p.mtree.complete
         /\ \A e \in RecordedEntries(p) :
              \/ e[kind] = None \/ Dotted(e.path) \/ IsBackup(p, e.path)
              \/ NotExtracted(e.path) \/ NotUpgraded(e.path)
              \/ e.path \notin DOMAIN sys.fs \/ ~sys.fs[e.path].readable
              \/ Compared(kind, sys.fs[e.path][kind]) = Compared(kind, e[kind])

Passes(p) ==
    /\ o.depends => \A d \in ToSet(p.depends) : \E q \in ToSet(sys.local) : AlpmSatisfies(q, d)
    /\ o.opt_depends =>
         \A d \in ToSet(p.optdepends) : \E q \in ToSet(sys.local) : AlpmSatisfies(q, d)
    /\ o.files => SoundFiles(p) /\ (o.db_files /\ o.require_mtree =>
                                      FileThere(DbPath(p, "mtree"), FALSE))
    /\ o.file_properties => SoundProperties(p)
    /\ o.md5sum => DigestsPass("md5", p)
    /\ o.sha256sum => DigestsPass("sha256", p)

\* A sound package passes, and one that passes is sound if halves tell digests apart.
LEMMA SoundPasses ==
    ASSUME NEW p, Sound(p)
    PROVE  Passes(p)
<1>1. \A kind : SoundDigests(kind, p) => DigestsPass(kind, p)
  <2> SUFFICES ASSUME NEW kind, SoundDigests(kind, p) PROVE DigestsPass(kind, p)
    OBVIOUS
  <2>1. \A e : sys.fs[e.path][kind] = e[kind]
                 => Compared(kind, sys.fs[e.path][kind]) = Compared(kind, e[kind])
    BY Zenon
  <2> QED BY <2>1 DEF SoundDigests, DigestsPass
<1> QED BY <1>1 DEF Sound, Passes

LEMMA PassesSound ==
    ASSUME HalvesTell, NEW p \in ToSet(acc), Passes(p)
    PROVE  Sound(p)
<1>1. DigestsPass("md5", p) => SoundDigests("md5", p)
  <2>1. \A x : Compared("md5", x) = x
    BY DEF Compared
  <2> QED BY <2>1 DEF DigestsPass, SoundDigests
<1>2. o.sha256sum /\ DigestsPass("sha256", p) => SoundDigests("sha256", p)
  <2> SUFFICES ASSUME o.sha256sum, DigestsPass("sha256", p) PROVE SoundDigests("sha256", p)
    OBVIOUS
  <2>1. CASE p.mtree = None
    BY <2>1 DEF DigestsPass, SoundDigests
  <2>2. CASE p.mtree # None
    <3>1. \A e \in RecordedEntries(p) :
            e.sha256 # None /\ e.path \in DOMAIN sys.fs /\ sys.fs[e.path].readable =>
              \/ sys.fs[e.path].sha256 = e.sha256
              \/ Compared("sha256", sys.fs[e.path].sha256) # Compared("sha256", e.sha256)
      BY <2>2 DEF HalvesTell
    <3> QED BY <2>2, <3>1 DEF DigestsPass, SoundDigests
  <2> QED BY <2>1, <2>2
<1> QED BY <1>1, <1>2 DEF Sound, Passes

LEMMA DigestsBreak ==
    ASSUME NEW p, NEW kind
    PROVE  Breaks(DigestsProblems(kind, p)) <=> ~DigestsPass(kind, p)
<1>1. Breaks(NoMtree(p)) <=> o.require_mtree
  BY OneBreaks DEF NoMtree
<1>2. CASE p.mtree = None
  BY <1>1, <1>2 DEF DigestsProblems, DigestsPass
<1>3. CASE p.mtree # None
  <2> DEFINE each == {DigestProblems(kind, p, e) : e \in RecordedEntries(p)}
             Out(e) == e[kind] = None \/ Dotted(e.path) \/ IsBackup(p, e.path) \/ NotExtracted(e.path)
                         \/ NotUpgraded(e.path)
             Gone(e) == e.path \notin DOMAIN sys.fs \/ ~sys.fs[e.path].readable
             Same(e) == Compared(kind, sys.fs[e.path][kind]) = Compared(kind, e[kind])
  <2>1. \A e \in RecordedEntries(p) : Breaks(DigestProblems(kind, p, e)) <=> ~(Out(e) \/ Gone(e) \/ Same(e))
    <3> SUFFICES ASSUME NEW e \in RecordedEntries(p)
                 PROVE  Breaks(DigestProblems(kind, p, e)) <=> ~(Out(e) \/ Gone(e) \/ Same(e))
      OBVIOUS
    <3>1. DigestProblems(kind, p, e) =
            IF Out(e) THEN {}
            ELSE IF Gone(e) THEN {Warning(e.path, "read error", FALSE)}
            ELSE IF ~Same(e) THEN {Problem(e.path, kind)} ELSE {}
      BY DEF DigestProblems, If
    <3> HIDE DEF Out, Gone, Same
    <3> QED BY <3>1, OneBreaks
  <2>2. DigestsProblems(kind, p) = (UNION each) \cup (IF p.mtree.complete THEN {} ELSE NoMtree(p))
    BY <1>3 DEF DigestsProblems
  <2>3. DigestsPass(kind, p) <=> /\ o.require_mtree => p.mtree.complete
                                 /\ \A e \in RecordedEntries(p) : Out(e) \/ Gone(e) \/ Same(e)
    BY <1>3 DEF DigestsPass
  <2> HIDE DEF Out, Gone, Same
  <2>4. (\E x \in each : Breaks(x)) <=> ~\A e \in RecordedEntries(p) : Out(e) \/ Gone(e) \/ Same(e)
    BY <2>1
  <2> HIDE DEF each
  <2>5. Breaks(UNION each) <=> ~\A e \in RecordedEntries(p) : Out(e) \/ Gone(e) \/ Same(e)
    BY <2>4, BreaksUnion
  <2>6. CASE p.mtree.complete
    <3>1. DigestsProblems(kind, p) = UNION each
      BY <2>2, <2>6
    <3> QED BY <2>3, <2>5, <2>6, <3>1
  <2>7. CASE ~p.mtree.complete
    <3>1. PICK u, v : u = UNION each /\ v = NoMtree(p)
      OBVIOUS
    <3>2. DigestsProblems(kind, p) = u \cup v
      BY <2>2, <2>7, <3>1
    <3>3. Breaks(u \cup v) <=> Breaks(u) \/ Breaks(v)
      BY BreaksEither
    <3> QED BY <1>1, <2>3, <2>5, <2>7, <3>1, <3>2, <3>3
  <2> QED BY <2>6, <2>7
<1> QED BY <1>2, <1>3

LEMMA BrokenIsFailing ==
    ASSUME CheckSys, NEW p \in Local
    PROVE  Broken(p) <=> ~Passes(p)
<1> DEFINE B(c) == Breaks(CheckProblems(c, p))
<1>1. /\ B("depends") <=> ~\A d \in ToSet(p.depends) : \E q \in ToSet(sys.local) : AlpmSatisfies(q, d)
      /\ B("opt_depends") <=> ~\A d \in ToSet(p.optdepends) : \E q \in ToSet(sys.local) : AlpmSatisfies(q, d)
  BY DependsBreak DEF CheckProblems, CheckSys
<1>2. B("files") <=> ~(SoundFiles(p) /\ (o.db_files /\ o.require_mtree => FileThere(DbPath(p, "mtree"), FALSE)))
  BY FilesBreak DEF CheckProblems
<1>3. B("file_properties") <=> ~SoundProperties(p)
  BY PropertiesBreak DEF CheckProblems
<1>4. B("md5sum") <=> ~DigestsPass("md5", p)
  BY DigestsBreak DEF CheckProblems
<1>5. B("sha256sum") <=> ~DigestsPass("sha256", p)
  BY DigestsBreak DEF CheckProblems
<1>6. Broken(p) <=> \E c \in Checks : o[c] /\ B(c)
  BY Zenon DEF Broken
<1> HIDE DEF B
<1>7. (\E c \in Checks : o[c] /\ B(c))
        <=> ~/\ o["depends"] => ~B("depends")
             /\ o["opt_depends"] => ~B("opt_depends")
             /\ o["files"] => ~B("files")
             /\ o["file_properties"] => ~B("file_properties")
             /\ o["md5sum"] => ~B("md5sum")
             /\ o["sha256sum"] => ~B("sha256sum")
  <2>1. ASSUME NEW c \in Checks, o[c], B(c)
        PROVE  ~/\ o["depends"] => ~B("depends")
                /\ o["opt_depends"] => ~B("opt_depends")
                /\ o["files"] => ~B("files")
                /\ o["file_properties"] => ~B("file_properties")
                /\ o["md5sum"] => ~B("md5sum")
                /\ o["sha256sum"] => ~B("sha256sum")
    BY <2>1 DEF Checks
  <2>2. {"depends", "opt_depends", "files", "file_properties", "md5sum", "sha256sum"} = Checks
    BY DEF Checks
  <2> QED BY <2>1, <2>2
<1>8. Passes(p) <=> /\ o["depends"] => ~B("depends")
                    /\ o["opt_depends"] => ~B("opt_depends")
                    /\ o["files"] => ~B("files")
                    /\ o["file_properties"] => ~B("file_properties")
                    /\ o["md5sum"] => ~B("md5sum")
                    /\ o["sha256sum"] => ~B("sha256sum")
  BY <1>1, <1>2, <1>3, <1>4, <1>5 DEF Passes
<1> QED BY <1>6, <1>7, <1>8

-----------------------------------------------------------------------------
(***************************************************************************)
(* paccheck: the packages that are checked.                                *)
(***************************************************************************)

CheckFields ==
    {"depends", "opt_depends", "files", "file_properties", "md5sum", "sha256sum", "recursive",
     "require_mtree", "db_files", "skip_backups", "skip_noextract", "skip_noupgrade", "quiet",
     "list_broken"}

CheckGlobals(values) ==
    {g \in [CheckFields \cup {"targets"} -> BOOLEAN \cup Seq(values)] : g["targets"] \in Seq(values)}

LEMMA CheckTakes ==
    ASSUME NEW values, NEW g \in CheckGlobals(values), NEW a,
           a[1] \in DOMAIN CheckOptions.set \cup DOMAIN CheckOptions.count
                     \cup DOMAIN CheckOptions.assign \cup DOMAIN CheckOptions.add,
           a[2] \in values
    PROVE  Takes(CheckOptions, g, a) \in CheckGlobals(values)
<1> DEFINE t == CheckOptions
<1>1. a[1] \in DOMAIN t.set \/ a[1] = "target"
  BY DEF CheckOptions, NoOptions
<1>2. CASE a[1] \in DOMAIN t.set
  <2>1. Takes(t, g, a) = [g EXCEPT ![t.set[a[1]][1]] = t.set[a[1]][2]]
    <3>1. DOMAIN t.count = {} /\ DOMAIN t.assign = {} /\ a[1] # "target" /\ DOMAIN t.add = {"target"}
      BY <1>2 DEF CheckOptions, NoOptions
    <3> HIDE DEF t
    <3> QED BY <1>2, <3>1 DEF Takes
  <2>2. t.set[a[1]][1] \in CheckFields
    BY <1>2 DEF CheckOptions, CheckFields
  <2>3. t.set[a[1]][2] \in BOOLEAN
    <3>1. /\ t.set["depends"][2] = TRUE /\ t.set["opt_depends"][2] = TRUE /\ t.set["files"][2] = TRUE
          /\ t.set["file_properties"][2] = TRUE /\ t.set["mtree"][2] = TRUE
          /\ t.set["md5sum"][2] = TRUE /\ t.set["sha256sum"][2] = TRUE
          /\ t.set["recursive"][2] = TRUE /\ t.set["require_mtree"][2] = TRUE
          /\ t.set["db_files"][2] = TRUE /\ t.set["backup"][2] = FALSE
          /\ t.set["noextract"][2] = FALSE /\ t.set["noupgrade"][2] = FALSE
          /\ t.set["quiet"][2] = TRUE /\ t.set["list_broken"][2] = TRUE
      BY DEF CheckOptions
    <3>2. a[1] \in {"depends", "opt_depends", "files", "file_properties", "mtree", "md5sum",
                   "sha256sum", "recursive", "require_mtree", "db_files", "backup", "noextract",
                   "noupgrade", "quiet", "list_broken"}
      BY <1>2 DEF CheckOptions
    <3> HIDE DEF t
    <3> QED BY <3>1, <3>2
  <2> HIDE DEF t
  <2>4. PICK f, b : f = t.set[a[1]][1] /\ b = t.set[a[1]][2]
    OBVIOUS
  <2>5. "targets" \notin CheckFields
    BY DEF CheckFields
  <2>6. [g EXCEPT ![f] = b] \in CheckGlobals(values)
    BY <2>2, <2>3, <2>4, <2>5 DEF CheckGlobals
  <2> QED BY <2>1, <2>4, <2>6 DEF t
<1>3. CASE a[1] = "target"
  <2>1. Takes(t, g, a) = [g EXCEPT !["targets"] = Append(@, a[2])]
    <3>1. /\ DOMAIN t.count = {} /\ DOMAIN t.assign = {} /\ "target" \notin DOMAIN t.set
          /\ DOMAIN t.add = {"target"} /\ t.add["target"] = "targets"
      BY DEF CheckOptions, NoOptions
    <3> HIDE DEF t
    <3> QED BY <1>3, <3>1 DEF Takes
  <2>2. PICK w \in Seq(values) : w = Append(g["targets"], a[2])
    <3>1. g["targets"] \in Seq(values)
      BY DEF CheckGlobals
    <3>2. PICK q \in Seq(values), e \in values : q = g["targets"] /\ e = a[2]
      BY <3>1
    <3>3. Append(q, e) \in Seq(values)
      OBVIOUS
    <3> QED BY <3>2, <3>3, Zenon
  <2>3. [g EXCEPT !["targets"] = w] \in CheckGlobals(values)
    BY DEF CheckGlobals
  <2> QED BY <2>1, <2>2, <2>3
<1> QED BY <1>1, <1>2, <1>3

LEMMA CheckParsed ==
    ASSUME Accepts(CheckOptions, argv)
    PROVE  \E values : Parse(CheckOptions, CheckDefaults) \in CheckGlobals(values)
<1> DEFINE A == ToSet(argv)
           values == {a[2] : a \in A}
<1>1. argv \in Seq(A)
  BY DEF Accepts, IsList
<1>2. CheckDefaults \in CheckGlobals(values)
  <2>1. /\ DOMAIN CheckDefaults = CheckFields \cup {"targets"}
        /\ CheckDefaults["targets"] = << >>
        /\ \A f \in CheckFields : CheckDefaults[f] \in BOOLEAN
    BY DEF CheckDefaults, CheckFields
  <2>2. CheckDefaults = [f \in CheckFields \cup {"targets"} |-> CheckDefaults[f]]
    BY DEF CheckDefaults, CheckFields
  <2>3. \A f \in CheckFields \cup {"targets"} : CheckDefaults[f] \in BOOLEAN \cup Seq(values)
    <3>1. << >> \in Seq(values)
      OBVIOUS
    <3> QED BY <2>1, <3>1, Zenon
  <2>4. CheckDefaults \in [CheckFields \cup {"targets"} -> BOOLEAN \cup Seq(values)]
    BY <2>2, <2>3
  <2>5. CheckDefaults["targets"] \in Seq(values)
    BY <2>1
  <2> QED BY <2>4, <2>5 DEF CheckGlobals
<1>3. \A g \in CheckGlobals(values), a \in A : Takes(CheckOptions, g, a) \in CheckGlobals(values)
  BY CheckTakes DEF Accepts
<1> QED BY <1>1, <1>2, <1>3, ParseKeeps

LEMMA CheckSets ==
    ASSUME Accepts(CheckOptions, argv), CheckSetup
    PROVE  IsList(o'.targets)
<1>1. PICK values : Parse(CheckOptions, CheckDefaults) \in CheckGlobals(values)
  BY CheckParsed
<1>2. PICK g \in CheckGlobals(values) : g = Parse(CheckOptions, CheckDefaults)
  BY <1>1
<1>3. o' = IF \E c \in Checks : g[c] THEN g ELSE [g EXCEPT !.depends = TRUE, !.files = TRUE]
  BY <1>2 DEF CheckSetup, Setup
<1>4. g["targets"] \in Seq(values) /\ [g EXCEPT !.depends = TRUE, !.files = TRUE].targets = g["targets"]
  BY DEF CheckGlobals, CheckFields
<1>5. o'.targets \in Seq(values)
  BY <1>3, <1>4
<1> QED BY <1>5, MembersOfList

LEMMA LoadedPackages ==
    ASSUME CheckSys, IsList(o.targets)
    PROVE  /\ Loaded \in Seq(Local) /\ IsInjective(Loaded)
           /\ Wanted = << >> => ToSet(Loaded) = {}
<1> DEFINE T == ToSet(o.targets) \cup ToSet(sys.stdin)
           each == [i \in DOMAIN Wanted |-> Named(Wanted[i])]
<1>1. sys.local \in Seq(Local) /\ o.targets \in Seq(T) /\ sys.stdin \in Seq(T)
  <2>1. sys.local \in Seq(Local)
    BY DEF CheckSys, IsList, Local
  <2>2. IsList(o.targets) /\ IsList(sys.stdin) /\ ToSet(o.targets) \subseteq T /\ ToSet(sys.stdin) \subseteq T
    BY DEF CheckSys
  <2> HIDE DEF T
  <2> QED BY <2>1, <2>2, ListOfMembers
<1>2. Wanted \in Seq(T)
  <2> HIDE DEF T
  <2> QED BY <1>1 DEF Wanted
<1>3. \A name : Named(name) \in Seq(Local)
  <2> SUFFICES ASSUME NEW name PROVE Named(name) \in Seq(Local)
    OBVIOUS
  <2>1. PICK S : S = {p \in ToSet(sys.local) : p.name = name}
    OBVIOUS
  <2> QED BY <1>1, <2>1, SelectList DEF Named
<1>4. DOMAIN Wanted = 1..Len(Wanted) /\ Len(Wanted) \in Nat
  BY <1>2
<1>5. each \in Seq(Seq(Local))
  BY <1>3, <1>4
<1>6. Wanted = << >> => ToSet(each) = {}
  BY <1>4 DEF ToSet
<1>7. Loaded = Unique(FlattenSeq(each))
  BY DEF Loaded
<1> HIDE DEF each
<1>8. /\ FlattenSeq(each) \in Seq(Local)
      /\ ToSet(FlattenSeq(each)) = UNION {ToSet(s) : s \in ToSet(each)}
  BY <1>5, FlattenList, FlattenMembers
<1>9. PICK all \in Seq(Local) : all = FlattenSeq(each)
  BY <1>8
<1>10. Unique(all) \in Seq(Local) /\ ToSet(Unique(all)) = ToSet(all) /\ IsInjective(Unique(all))
  BY UniqueMembers
<1> QED BY <1>6, <1>7, <1>8, <1>9, <1>10

\* What the members of the list depend on, as far as it is followed.
FollowedOf(A) == UNION {ToSet(FollowedDeps(A[i])) : i \in 1..Len(A)}

Recursively == o.recursive /\ Wanted # << >>

\* The i-th package of the list is one asked for, or an earlier one depends on it.
Belongs(A, i) ==
    \/ Wanted = << >> \/ A[i] \in ToSet(Loaded)
    \/ Recursively /\ \E j \in 1..(i - 1) : \E d \in ToSet(FollowedDeps(A[j])) :
         HasSatisfier(sys.local, d) /\ FindSatisfier(sys.local, d) = A[i]

\* The dependencies in D have still to be followed.
Gathered(A, D) ==
    /\ A \in Seq(Local) /\ IsInjective(A)
    /\ ToSet(Loaded) \subseteq ToSet(A)
    /\ D \subseteq FollowedOf(A)
    /\ Recursively => \A d \in FollowedOf(A) : HasSatisfier(sys.local, d) =>
                        FindSatisfier(sys.local, d) \in ToSet(A) \/ d \in D
    /\ \A i \in 1..Len(A) : Belongs(A, i)

LEMMA FollowedList ==
    ASSUME CheckSys, NEW p \in Local
    PROVE  IsList(FollowedDeps(p))
<1> DEFINE X == ToSet(p.depends) \cup ToSet(p.optdepends)
<1>1. p.depends \in Seq(X) /\ p.optdepends \in Seq(X) /\ << >> \in Seq(X)
  <2>1. IsList(p.depends) /\ IsList(p.optdepends)
    BY DEF CheckSys
  <2> QED BY <2>1, ListOfMembers
<1> HIDE DEF X
<1>2. PICK u \in Seq(X), v \in Seq(X) : FollowedDeps(p) = u \o v
  <2>1. CASE o.opt_depends
    BY <1>1, <2>1 DEF FollowedDeps
  <2>2. CASE ~o.opt_depends
    BY <1>1, <2>2 DEF FollowedDeps
  <2> QED BY <2>1, <2>2
<1>3. u \o v \in Seq(X)
  OBVIOUS
<1> QED BY <1>2, <1>3, MembersOfList

LEMMA FollowedAll ==
    ASSUME CheckSys, NEW A \in Seq(Local)
    PROVE  IsList(AllFollowed(A)) /\ ToSet(AllFollowed(A)) = FollowedOf(A)
<1> DEFINE each == [i \in DOMAIN A |-> FollowedDeps(A[i])]
           T == FollowedOf(A)
<1>1. DOMAIN A = 1..Len(A) /\ Len(A) \in Nat /\ \A i \in 1..Len(A) : A[i] \in Local
  OBVIOUS
<1>2. ASSUME NEW i \in 1..Len(A) PROVE FollowedDeps(A[i]) \in Seq(T)
  <2>1. IsList(FollowedDeps(A[i])) /\ ToSet(FollowedDeps(A[i])) \subseteq T
    BY <1>1, FollowedList DEF FollowedOf
  <2> HIDE DEF T
  <2> QED BY <2>1, ListOfMembers
<1>3. each \in Seq(Seq(T))
  <2> HIDE DEF T
  <2> QED BY <1>1, <1>2
<1>4. UNION {ToSet(s) : s \in ToSet(each)} = T
  <2>1. ToSet(each) = {FollowedDeps(A[i]) : i \in 1..Len(A)}
    BY <1>1 DEF ToSet
  <2> HIDE DEF each
  <2>2. {ToSet(s) : s \in ToSet(each)} = {ToSet(FollowedDeps(A[i])) : i \in 1..Len(A)}
    BY <2>1
  <2> QED BY <2>2 DEF FollowedOf
<1>5. AllFollowed(A) = FlattenSeq(each)
  BY DEF AllFollowed
<1> HIDE DEF each
<1>6. FlattenSeq(each) \in Seq(T) /\ ToSet(FlattenSeq(each)) = UNION {ToSet(s) : s \in ToSet(each)}
  <2> HIDE DEF T
  <2> QED BY <1>3, FlattenList, FlattenMembers
<1>7. PICK all \in Seq(T) : all = FlattenSeq(each)
  BY <1>6
<1>8. IsList(all)
  <2> HIDE DEF T
  <2> QED BY MembersOfList
<1> QED BY <1>4, <1>5, <1>6, <1>7, <1>8

LEMMA GatheredFirst ==
    ASSUME CheckSys, IsList(o.targets)
    PROVE  /\ Wanted = << >> => Gathered(sys.local, {})
           /\ Wanted # << >> => /\ Recursively => Gathered(Loaded, FollowedOf(Loaded))
                                /\ ~Recursively => Gathered(Loaded, {})
<1>1. Loaded \in Seq(Local) /\ IsInjective(Loaded) /\ (Wanted = << >> => ToSet(Loaded) = {})
  BY LoadedPackages
<1>2. sys.local \in Seq(Local) /\ IsInjective(sys.local)
  BY DEF CheckSys, IsList, Local
<1>3. \A i \in 1..Len(Loaded) : Loaded[i] \in ToSet(Loaded)
  BY <1>1 DEF ToSet
<1> QED BY <1>1, <1>2, <1>3 DEF Gathered, Recursively, Belongs

LEMMA GatheredMore ==
    ASSUME CheckSys, NEW A, NEW D, NEW D1, NEW dep, Gathered(A, D), D = {dep} \cup D1, Recursively,
           NEW s, HasSatisfier(sys.local, dep), s = FindSatisfier(sys.local, dep), s \notin ToSet(A)
    PROVE  Gathered(Append(A, s), ToSet(FollowedDeps(s)) \cup D1)
<1>1. /\ A \in Seq(Local) /\ IsInjective(A) /\ ToSet(Loaded) \subseteq ToSet(A) /\ D \subseteq FollowedOf(A)
      /\ \A d \in FollowedOf(A) : HasSatisfier(sys.local, d) => FindSatisfier(sys.local, d) \in ToSet(A) \/ d \in D
      /\ \A i \in 1..Len(A) : Belongs(A, i)
  BY DEF Gathered
<1>2. s \in Local
  BY SatisfierFound DEF CheckSys
<1> DEFINE B == Append(A, s)
           N == Len(A)
<1>3. /\ B \in Seq(Local) /\ Len(B) = N + 1 /\ B[N + 1] = s /\ N \in Nat
      /\ \A i \in 1..N : B[i] = A[i]
  BY <1>1, <1>2, AppendProperties
<1>4. ToSet(B) = ToSet(A) \cup {s} /\ ToSet(A) = {A[i] : i \in 1..N}
  <2>1. ToSet(A) = {A[i] : i \in 1..N}
    BY <1>1 DEF ToSet
  <2> QED BY <1>1, <1>2, <2>1, AppendMembers
<1> HIDE DEF B
<1>5. IsInjective(B)
  <2>1. DOMAIN B = 1..(N + 1) /\ DOMAIN A = 1..N
    BY <1>1, <1>3
  <2>2. ASSUME NEW i \in 1..(N + 1), NEW j \in 1..(N + 1), B[i] = B[j] PROVE i = j
    <3>1. (i \in 1..N \/ i = N + 1) /\ (j \in 1..N \/ j = N + 1)
      BY <1>3
    <3> QED BY <1>1, <1>3, <1>4, <2>1, <2>2, <3>1 DEF IsInjective
  <2> QED BY <2>1, <2>2 DEF IsInjective
<1>6. FollowedOf(B) = FollowedOf(A) \cup ToSet(FollowedDeps(s))
  <2>1. (\A i \in 1..Len(B) : i = N + 1 \/ i \in 1..N) /\ N + 1 \in 1..Len(B) /\ \A i \in 1..N : i \in 1..Len(B)
    BY <1>3
  <2> QED BY <1>3, <2>1 DEF FollowedOf
<1>7. ASSUME NEW i \in 1..Len(B) PROVE Belongs(B, i)
  <2>1. CASE i = N + 1
    <3>1. dep \in FollowedOf(A)
      BY <1>1
    <3>2. PICK j \in 1..N : dep \in ToSet(FollowedDeps(A[j]))
      BY <3>1 DEF FollowedOf
    <3>3. j \in 1..(i - 1) /\ B[j] = A[j] /\ B[i] = s
      BY <1>3, <2>1
    <3> QED BY <3>2, <3>3 DEF Belongs
  <2>2. CASE i \in 1..N
    <3>1. Belongs(A, i) /\ B[i] = A[i] /\ \A j \in 1..(i - 1) : B[j] = A[j]
      BY <1>1, <1>3, <2>2
    <3> QED BY <3>1 DEF Belongs
  <2> QED BY <1>3, <2>1, <2>2
<1>8. \A d \in FollowedOf(B) : HasSatisfier(sys.local, d) =>
          FindSatisfier(sys.local, d) \in ToSet(B) \/ d \in ToSet(FollowedDeps(s)) \cup D1
  BY <1>1, <1>4, <1>6
<1> QED BY <1>1, <1>3, <1>4, <1>5, <1>6, <1>7, <1>8 DEF Gathered, B

LEMMA GatheredSame ==
    ASSUME NEW A, NEW D, NEW D1, NEW dep, Gathered(A, D), D = {dep} \cup D1, Recursively,
           HasSatisfier(sys.local, dep) => FindSatisfier(sys.local, dep) \in ToSet(A)
    PROVE  Gathered(A, D1)
BY DEF Gathered

LEMMA SameGathered ==
    ASSUME sys' = sys, o' = o
    PROVE  \A A, D : Gathered(A, D)' <=> Gathered(A, D)
<1>1. Local' = Local /\ Wanted' = Wanted /\ (Recursively' <=> Recursively)
  BY DEF Local, Wanted, Recursively
<1>2. \A name : Named(name)' = Named(name)
  BY DEF Named
<1>3. Loaded' = Loaded
  BY <1>1, <1>2 DEF Loaded
<1>4. \A p : FollowedDeps(p)' = FollowedDeps(p)
  BY DEF FollowedDeps
<1>5. \A A : FollowedOf(A)' = FollowedOf(A)
  BY <1>4 DEF FollowedOf
<1>6. \A A, i : Belongs(A, i)' <=> Belongs(A, i)
  BY <1>1, <1>3, <1>4 DEF Belongs
<1> QED BY <1>1, <1>3, <1>5, <1>6 DEF Gathered

-----------------------------------------------------------------------------
(***************************************************************************)
(* paccheck: the packages that were checked, and what was said of them.    *)
(***************************************************************************)

Failing == {p \in Local : ~Passes(p)}
NamesOf(s) == [i \in DOMAIN s |-> s[i].name]

\* The status and the output after the packages of done.
Checked(done, status, lines) ==
    /\ status = 0 <=> Select(done, Failing) = << >>
    /\ o.list_broken => lines = NamesOf(Select(done, Failing))

\* done was checked of the list A, rest was not.
Split(A, done, rest) ==
    /\ done \in Seq(Local) /\ rest \in Seq(Local) /\ Len(A) = Len(done) + Len(rest)
    /\ \A i \in 1..Len(done) : done[i] = A[i]
    /\ \A i \in 1..Len(rest) : rest[i] = A[Len(done) + i]

LEMMA SplitStart ==
    ASSUME NEW A \in Seq(Local)
    PROVE  Split(A, << >>, A)
<1>1. << >> \in Seq(Local) /\ Len(<< >>) = 0 /\ Len(A) \in Nat
  OBVIOUS
<1>2. PICK e \in Seq(Local) : e = << >>
  BY <1>1
<1>3. Split(A, e, A)
  BY <1>1, <1>2 DEF Split
<1> QED BY <1>2, <1>3

LEMMA SplitStep ==
    ASSUME NEW A \in Seq(Local), NEW done, NEW rest, Split(A, done, rest), rest # << >>
    PROVE  Split(A, Append(done, Head(rest)), Tail(rest))
<1>1. /\ done \in Seq(Local) /\ rest \in Seq(Local) /\ Len(A) = Len(done) + Len(rest)
      /\ \A i \in 1..Len(done) : done[i] = A[i]
      /\ \A i \in 1..Len(rest) : rest[i] = A[Len(done) + i]
  BY DEF Split
<1>2. /\ Len(rest) \in Nat \ {0} /\ Head(rest) = rest[1] /\ Len(done) \in Nat /\ Head(rest) \in Local
  BY <1>1
<1>3. PICK more \in Seq(Local) : /\ more = Append(done, Head(rest)) /\ Len(more) = Len(done) + 1
                                 /\ more[Len(done) + 1] = rest[1]
                                 /\ \A i \in 1..Len(done) : more[i] = done[i]
  <2>1. PICK p \in Local : p = Head(rest)
    BY <1>2
  <2>2. /\ Append(done, p) \in Seq(Local) /\ Len(Append(done, p)) = Len(done) + 1
        /\ Append(done, p)[Len(done) + 1] = p
        /\ \A i \in 1..Len(done) : Append(done, p)[i] = done[i]
    BY <1>1, AppendProperties
  <2> QED BY <1>2, <2>1, <2>2
<1>4. PICK left \in Seq(Local) : /\ left = Tail(rest) /\ Len(left) = Len(rest) - 1
                                 /\ \A i \in 1..Len(left) : left[i] = rest[i + 1]
  <2>1. Tail(rest) \in Seq(Local) /\ Len(Tail(rest)) = Len(rest) - 1
        /\ \A i \in 1..Len(Tail(rest)) : Tail(rest)[i] = rest[i + 1]
    BY <1>1, <1>2
  <2> QED BY <2>1
<1>5. Len(A) = Len(more) + Len(left)
  BY <1>1, <1>2, <1>3, <1>4
<1>6. ASSUME NEW i \in 1..Len(more) PROVE more[i] = A[i]
  <2>1. i \in 1..Len(done) \/ (i = Len(done) + 1 /\ 1 \in 1..Len(rest))
    BY <1>2, <1>3
  <2> QED BY <1>1, <1>3, <2>1
<1>7. ASSUME NEW i \in 1..Len(left) PROVE left[i] = A[Len(more) + i]
  <2>1. i + 1 \in 1..Len(rest) /\ Len(done) + (i + 1) = Len(more) + i
    BY <1>2, <1>3, <1>4
  <2> QED BY <1>1, <1>4, <2>1
<1>8. Split(A, more, left)
  BY <1>5, <1>6, <1>7 DEF Split
<1> QED BY <1>3, <1>4, <1>8

LEMMA SplitEnd ==
    ASSUME NEW A \in Seq(Local), NEW done, NEW rest, Split(A, done, rest), rest = << >>
    PROVE  done = A
<1>1. /\ done \in Seq(Local) /\ Len(A) = Len(done) /\ \A i \in 1..Len(done) : done[i] = A[i]
  BY DEF Split
<1> QED BY <1>1, SeqEqual

LEMMA CheckedStart == Checked(<< >>, 0, << >>)
<1>1. Select(<< >>, Failing) = << >>
  BY SelectEmpty
<1>2. NamesOf(<< >>) = << >>
  BY DEF NamesOf
<1> QED BY <1>1, <1>2 DEF Checked

LEMMA CheckedStep ==
    ASSUME NEW done \in Seq(Local), NEW p \in Local, NEW status, NEW lines, Checked(done, status, lines),
           NEW status1, NEW lines1, status1 = IF ~Passes(p) THEN 1 ELSE status,
           o.list_broken => lines1 = IF ~Passes(p) THEN Append(lines, p.name) ELSE lines
    PROVE  Checked(Append(done, p), status1, lines1)
<1>1. PICK q : q = Select(done, Failing) /\ q \in Seq(Local)
  BY SelectList
<1>2. Select(Append(done, p), Failing) = With(q, p, Failing)
  BY <1>1, SelectAppend
<1>3. CASE Passes(p)
  <2>1. Select(Append(done, p), Failing) = q
    BY <1>2, <1>3 DEF With, Failing
  <2> QED BY <1>1, <1>3, <2>1 DEF Checked
<1>4. CASE ~Passes(p)
  <2>1. Select(Append(done, p), Failing) = Append(q, p)
    BY <1>2, <1>4 DEF With, Failing
  <2>2. PICK r \in Seq(Local) : r = Append(q, p) /\ Len(r) = Len(q) + 1 /\ r[Len(q) + 1] = p
                                /\ \A i \in 1..Len(q) : r[i] = q[i]
    <3>1. /\ Append(q, p) \in Seq(Local) /\ Len(Append(q, p)) = Len(q) + 1
          /\ Append(q, p)[Len(q) + 1] = p
          /\ \A i \in 1..Len(q) : Append(q, p)[i] = q[i]
      BY <1>1, AppendProperties
    <3> QED BY <3>1
  <2>3. r # << >>
    BY <1>1, <2>2
  <2>4. NamesOf(r) = Append(NamesOf(q), p.name)
    <3> DEFINE V == {x.name : x \in Local}
    <3>1. DOMAIN r = 1..Len(r) /\ DOMAIN q = 1..Len(q) /\ Len(q) \in Nat /\ Len(r) \in Nat
          /\ (\A i \in 1..Len(q) : q[i] \in Local) /\ \A i \in 1..Len(r) : r[i] \in Local
      BY <1>1
    <3>2. PICK a, b : a = NamesOf(q) /\ b = NamesOf(r)
      OBVIOUS
    <3>3. a = [i \in 1..Len(q) |-> q[i].name] /\ b = [i \in 1..Len(r) |-> r[i].name]
      BY <3>1, <3>2 DEF NamesOf
    <3>4. a \in Seq(V) /\ b \in Seq(V) /\ Len(a) = Len(q) /\ Len(b) = Len(r)
      BY <3>1, <3>3
    <3>5. PICK n \in Nat, e \in V : n = Len(q) /\ e = p.name
      BY <3>1
    <3>6. b[n + 1] = e /\ \A i \in 1..n : b[i] = a[i]
      BY <2>2, <3>1, <3>3, <3>5
    <3>7. Len(a) = n /\ Len(b) = n + 1
      BY <2>2, <3>4, <3>5
    <3> HIDE DEF V
    <3>8. b = Append(a, e)
      BY <3>4, <3>6, <3>7, AppendEqual
    <3> QED BY <3>2, <3>5, <3>8
  <2> QED BY <1>1, <1>4, <2>1, <2>2, <2>3, <2>4 DEF Checked
<1> QED BY <1>3, <1>4

LEMMA SameSound ==
    ASSUME sys' = sys, o' = o
    PROVE  /\ Local' = Local
           /\ \A p : Passes(p)' <=> Passes(p)
<1>1. \A p, path : /\ NotExtracted(path)' <=> NotExtracted(path)
                   /\ NotUpgraded(path)' <=> NotUpgraded(path)
                   /\ IsBackup(p, path)' <=> IsBackup(p, path)
  BY DEF NotExtracted, NotUpgraded, IsBackup
<1>2. \A path, dir : FileThere(path, dir)' <=> FileThere(path, dir)
  BY DEF FileThere
<1>3. \A p : SoundFiles(p)' <=> SoundFiles(p)
  BY <1>1, <1>2 DEF SoundFiles
<1>4. \A p, e, f : Properties(p, e, f)' = Properties(p, e, f)
  BY <1>1 DEF Properties
<1>5. \A p : SoundProperties(p)' <=> SoundProperties(p)
  BY <1>1, <1>4 DEF SoundProperties
<1>6. \A kind, p : DigestsPass(kind, p)' <=> DigestsPass(kind, p)
  BY <1>1 DEF DigestsPass
<1>7. ASSUME NEW p PROVE Passes(p)' <=> Passes(p)
  <2>1. FileThere(DbPath(p, "mtree"), FALSE)' <=> FileThere(DbPath(p, "mtree"), FALSE)
    BY DEF FileThere, DbPath
  <2>2. /\ SoundFiles(p)' <=> SoundFiles(p)
        /\ SoundProperties(p)' <=> SoundProperties(p)
        /\ DigestsPass("md5", p)' <=> DigestsPass("md5", p)
        /\ DigestsPass("sha256", p)' <=> DigestsPass("sha256", p)
    BY <1>3, <1>5, <1>6
  <2> QED BY <2>1, <2>2 DEF Passes
<1> QED BY <1>7 DEF Local

LEMMA SameChecked ==
    ASSUME sys' = sys, o' = o
    PROVE  /\ CheckSys' <=> CheckSys
           /\ \A A, D : Gathered(A, D)' <=> Gathered(A, D)
           /\ \A A, done, rest : Split(A, done, rest)' <=> Split(A, done, rest)
           /\ \A done, status, lines : Checked(done, status, lines)' <=> Checked(done, status, lines)
           /\ (Recursively' <=> Recursively) /\ Local' = Local
<1>1. /\ Local' = Local
      /\ \A p : Passes(p)' <=> Passes(p)
  BY SameSound
<1>2. Failing' = Failing
  BY <1>1 DEF Failing
<1>3. CheckSys' <=> CheckSys
  BY <1>1 DEF CheckSys
<1>4. \A A, done, rest : Split(A, done, rest)' <=> Split(A, done, rest)
  BY <1>1 DEF Split
<1>5. \A done, status, lines : Checked(done, status, lines)' <=> Checked(done, status, lines)
  BY <1>2 DEF Checked
<1>6. Recursively' <=> Recursively
  BY DEF Recursively, Wanted
<1> QED BY <1>1, <1>3, <1>4, <1>5, <1>6, SameGathered

LoadInv == acc = None /\ ret = 0 /\ out = << >>
DepsInv ==
    /\ Recursively /\ ret = 0 /\ out = << >> /\ IsList(todo)
    /\ \E A, D : A = acc /\ D = ToSet(todo) /\ Gathered(A, D)
ChecksInv ==
    /\ \E A, rest, done, status, lines :
         /\ A = acc /\ rest = todo /\ status = ret /\ lines = out
         /\ Gathered(A, {}) /\ Split(A, done, rest) /\ Checked(done, status, lines)
ExitInv ==
    \/ acc = None /\ ret = 1
    \/ \E A, status, lines : /\ A = acc /\ status = ret /\ lines = out
                             /\ Gathered(A, {}) /\ Checked(A, status, lines)

CheckInv ==
    tool = "paccheck" =>
      /\ CheckSys
      /\ pc = "start" => Accepts(CheckOptions, argv) /\ LoadInv
      /\ pc # "start" => IsList(o.targets)
      /\ pc = "load" => LoadInv
      /\ pc = "deps" => DepsInv
      /\ pc = "check" => ChecksInv
      /\ pc = "exited" => ExitInv

LEMMA CheckBegins == Init => CheckInv
<1> SUFFICES ASSUME Init, tool = "paccheck"
             PROVE  CheckSys /\ Accepts(CheckOptions, argv) /\ LoadInv /\ pc = "start"
  BY DEF CheckInv
<1>1. PICK r \in CheckRuns : /\ argv = r.argv /\ sys = r.sys /\ pc = "start"
                             /\ acc = None /\ ret = 0 /\ out = << >>
  BY DEF Init, Started
<1>2. /\ Accepts(CheckOptions, r.argv)
      /\ IsList(r.sys.local) /\ IsInjective(r.sys.local) /\ IsList(r.sys.stdin)
      /\ \A p \in ToSet(r.sys.local) :
           /\ IsList(p.depends) /\ IsList(p.optdepends)
           /\ \A f \in ToSet(p.files) : f.dir \in BOOLEAN
      /\ None \notin Seq(ToSet(r.sys.local))
  BY CheckRunsAssumption
<1> QED BY <1>1, <1>2 DEF CheckSys, Local, LoadInv

\* The packages of the list a, none checked so far.
LEMMA ChecksStart ==
    ASSUME CheckSys, NEW A, Gathered(A, {}), sys' = sys, o' = o,
           acc' = A, todo' = A, ret' = 0, out' = << >>
    PROVE  ChecksInv'
<1>1. A \in Seq(Local)
  BY DEF Gathered
<1>2. PICK none : none = << >>
  OBVIOUS
<1>3. Split(A, none, A) /\ Checked(none, 0, none)
  BY <1>1, <1>2, SplitStart, CheckedStart
<1>4. Gathered(A, {})' /\ Split(A, none, A)' /\ Checked(none, 0, none)'
  <2>1. PICK D : D = {}
    OBVIOUS
  <2>2. Gathered(A, D)'
    BY <2>1, SameChecked
  <2>3. Split(A, none, A)'
    BY <1>3, SameChecked
  <2>4. PICK zero : zero = 0
    OBVIOUS
  <2>5. Checked(none, zero, none)'
    BY <1>3, <2>4, SameChecked
  <2> QED BY <2>1, <2>2, <2>3, <2>4, <2>5
<1> QED BY <1>2, <1>4 DEF ChecksInv

LEMMA CheckLoads ==
    ASSUME CheckSys, IsList(o.targets), LoadInv, CheckLoad
    PROVE  \/ pc' = "exited" /\ ExitInv'
           \/ pc' = "check" /\ ChecksInv'
           \/ pc' = "deps" /\ DepsInv'
<1>1. sys' = sys /\ o' = o /\ out' = << >> /\ acc = None /\ ret = 0
  BY DEF CheckLoad, Stays, LoadInv
<1>2. CASE \E name \in ToSet(Wanted) : Named(name) = << >>
  <2>1. pc' = "exited" /\ ret' = 1 /\ acc' = None
    BY <1>1, <1>2 DEF CheckLoad, Exit
  <2> QED BY <2>1 DEF ExitInv
<1>3. CASE ~\E name \in ToSet(Wanted) : Named(name) = << >>
  <2>1. ret' = 0
    BY <1>1, <1>3 DEF CheckLoad
  <2>2. CASE Wanted = << >>
    <3>1. acc' = sys.local /\ todo' = sys.local /\ pc' = "check"
      BY <1>3, <2>2 DEF CheckLoad, Goto
    <3>2. PICK A : A = sys.local
      OBVIOUS
    <3>3. Gathered(A, {})
      BY <2>2, <3>2, GatheredFirst
    <3> QED BY <1>1, <2>1, <3>1, <3>2, <3>3, ChecksStart
  <2>3. CASE Wanted # << >> /\ o.recursive
    <3>1. acc' = Loaded /\ todo' = AllFollowed(Loaded) /\ pc' = "deps"
      BY <1>3, <2>3 DEF CheckLoad, Goto
    <3>2. Loaded \in Seq(Local)
      BY LoadedPackages
    <3>3. PICK A, all : A = Loaded /\ all = AllFollowed(Loaded)
      OBVIOUS
    <3>4. IsList(all) /\ ToSet(all) = FollowedOf(A)
      BY <3>2, <3>3, FollowedAll
    <3>5. Recursively /\ Recursively'
      BY <1>1, <2>3, SameChecked DEF Recursively
    <3>6. PICK D : D = ToSet(all)
      OBVIOUS
    <3>7. Gathered(A, D)
      BY <2>3, <3>3, <3>4, <3>5, <3>6, GatheredFirst
    <3>8. Gathered(A, D)'
      BY <1>1, <3>7, SameChecked
    <3> QED BY <1>1, <2>1, <3>1, <3>3, <3>4, <3>5, <3>6, <3>8 DEF DepsInv
  <2>4. CASE Wanted # << >> /\ ~o.recursive
    <3>1. acc' = Loaded /\ todo' = Loaded /\ pc' = "check"
      BY <1>3, <2>4 DEF CheckLoad, Goto
    <3>2. PICK A : A = Loaded
      OBVIOUS
    <3>3. Gathered(A, {})
      BY <2>4, <3>2, GatheredFirst DEF Recursively
    <3> QED BY <1>1, <2>1, <3>1, <3>2, <3>3, ChecksStart
  <2> QED BY <2>2, <2>3, <2>4
<1> QED BY <1>2, <1>3

LEMMA AddsDeps ==
    ASSUME CheckSys, DepsInv, AddDep
    PROVE  DepsInv'
<1>1. PICK A, all, dep, rest, D, D1 :
        /\ A = acc /\ all = todo /\ dep = Head(todo) /\ rest = Tail(todo) /\ D = ToSet(all) /\ D1 = ToSet(rest)
  OBVIOUS
<1>2. /\ sys' = sys /\ o' = o /\ out' = out /\ ret' = ret /\ all # << >>
      /\ IsList(all) /\ Gathered(A, D) /\ Recursively /\ ret = 0 /\ out = << >>
  BY <1>1 DEF AddDep, Stays, DepsInv
<1>3. rest \in Seq(D) /\ D = {dep} \cup D1
  <2>1. all \in Seq(D)
    BY <1>1, <1>2 DEF IsList
  <2> QED BY <1>1, <1>2, <2>1, HeadTailMembers
<1>4. PICK s : s = FindSatisfier(sys.local, dep)
  OBVIOUS
<1>5. CASE HasSatisfier(sys.local, dep) /\ s \notin ToSet(A)
  <2>1. acc' = Append(A, s) /\ todo' = FollowedDeps(s) \o rest
    BY <1>1, <1>4, <1>5 DEF AddDep, HasSatisfier, FindSatisfier
  <2>2. s \in Local
    BY <1>4, <1>5, SatisfierFound DEF CheckSys
  <2>3. PICK deps : deps = FollowedDeps(s)
    OBVIOUS
  <2>4. IsList(deps)
    BY <2>2, <2>3, FollowedList
  <2>5. Gathered(Append(A, s), ToSet(deps) \cup D1)
    BY <1>2, <1>3, <1>4, <1>5, <2>3, GatheredMore
  <2>6. PICK X : X = ToSet(deps) \cup D
    OBVIOUS
  <2>7. deps \in Seq(X) /\ rest \in Seq(X)
    <3>1. ToSet(deps) \subseteq X /\ D \subseteq X
      BY <2>6
    <3> QED BY <1>3, <2>4, <3>1, ListOfMembers
  <2>8. deps \o rest \in Seq(X) /\ ToSet(deps \o rest) = ToSet(deps) \cup D1
    <3>1. deps \o rest \in Seq(X) /\ ToSet(deps \o rest) = ToSet(deps) \cup ToSet(rest)
      BY <2>7, ConcatMembers
    <3> QED BY <1>1, <3>1
  <2>9. PICK both : both = deps \o rest
    OBVIOUS
  <2>10. IsList(both)
    BY <2>8, <2>9, MembersOfList
  <2>11. PICK B, E : B = Append(A, s) /\ E = ToSet(both)
    OBVIOUS
  <2>12. Gathered(B, E)
    BY <2>5, <2>8, <2>9, <2>11
  <2>13. Gathered(B, E)' /\ Recursively'
    BY <1>2, <2>12, SameChecked
  <2> QED BY <1>2, <2>1, <2>3, <2>9, <2>10, <2>11, <2>13 DEF DepsInv
<1>6. CASE ~(HasSatisfier(sys.local, dep) /\ s \notin ToSet(A))
  <2>1. acc' = A /\ todo' = rest
    BY <1>1, <1>4, <1>6 DEF AddDep, HasSatisfier, FindSatisfier
  <2>2. Gathered(A, D1)
    BY <1>2, <1>3, <1>4, <1>6, GatheredSame
  <2>3. Gathered(A, D1)' /\ Recursively'
    BY <1>2, <2>2, SameChecked
  <2>4. IsList(rest)
    BY <1>3, MembersOfList
  <2> QED BY <1>1, <1>2, <2>1, <2>3, <2>4 DEF DepsInv
<1> QED BY <1>5, <1>6

LEMMA ChecksOne ==
    ASSUME CheckSys, ChecksInv, CheckPackage
    PROVE  ChecksInv'
<1>1. PICK A, rest, done, status, lines :
         /\ A = acc /\ rest = todo /\ status = ret /\ lines = out
         /\ Gathered(A, {}) /\ Split(A, done, rest) /\ Checked(done, status, lines)
  BY DEF ChecksInv
<1>2. rest # << >> /\ sys' = sys /\ o' = o /\ acc' = A /\ todo' = Tail(rest)
  BY <1>1 DEF CheckPackage, Stays
<1>3. A \in Seq(Local) /\ done \in Seq(Local) /\ rest \in Seq(Local)
  BY <1>1 DEF Gathered, Split
<1>4. PICK p \in Local : p = Head(rest)
  BY <1>2, <1>3
<1>5. Broken(p) <=> ~Passes(p)
  BY BrokenIsFailing
<1>6. PICK status1, lines1 : status1 = ret' /\ lines1 = out'
  OBVIOUS
<1>7. /\ status1 = IF Broken(p) THEN 1 ELSE status
      /\ o.list_broken => lines1 = IF Broken(p) THEN Append(lines, p.name) ELSE lines
  BY <1>1, <1>4, <1>6 DEF CheckPackage, Broken
<1>8. PICK more, left, D : more = Append(done, p) /\ left = Tail(rest) /\ D = {}
  OBVIOUS
<1>9. Split(A, more, left)
  BY <1>1, <1>2, <1>3, <1>4, <1>8, SplitStep
<1>10. Checked(more, status1, lines1)
  <2>1. status1 = IF ~Passes(p) THEN 1 ELSE status
    BY <1>5, <1>7
  <2>2. o.list_broken => lines1 = IF ~Passes(p) THEN Append(lines, p.name) ELSE lines
    BY <1>5, <1>7
  <2> QED BY <1>1, <1>3, <1>8, <2>1, <2>2, CheckedStep
<1>11. Gathered(A, D)' /\ Split(A, more, left)' /\ Checked(more, status1, lines1)'
  <2>1. Gathered(A, D)
    BY <1>1, <1>8
  <2> QED BY <1>2, <1>9, <1>10, <2>1, SameChecked
<1> QED BY <1>2, <1>6, <1>8, <1>11 DEF ChecksInv

LEMMA ChecksEnd ==
    ASSUME CheckSys, ChecksInv, CheckEnd
    PROVE  ExitInv'
<1>1. PICK A, rest, done, status, lines :
         /\ A = acc /\ rest = todo /\ status = ret /\ lines = out
         /\ Gathered(A, {}) /\ Split(A, done, rest) /\ Checked(done, status, lines)
  BY DEF ChecksInv
<1>2. rest = << >> /\ sys' = sys /\ o' = o /\ acc' = A /\ ret' = status /\ out' = lines
  BY <1>1 DEF CheckEnd, Stays
<1>3. A \in Seq(Local)
  BY <1>1 DEF Gathered
<1>4. done = A
  BY <1>1, <1>2, <1>3, SplitEnd
<1>5. PICK D : D = {}
  OBVIOUS
<1>6. Gathered(A, D)' /\ Checked(A, status, lines)'
  <2>1. Gathered(A, D) /\ Checked(A, status, lines)
    BY <1>1, <1>4, <1>5
  <2> QED BY <1>2, <2>1, SameChecked
<1> QED BY <1>2, <1>5, <1>6 DEF ExitInv

LEMMA CheckSteps ==
    ASSUME CheckInv, CheckStep
    PROVE  CheckInv'
<1>1. tool = "paccheck" /\ tool' = tool
  BY OwnSteps
<1> USE DEF CheckInv, At, Goto, Exit
<1>2. CASE CheckSetup
  <2>1. pc = "start" /\ sys' = sys /\ acc' = acc /\ out' = out /\ ((pc' = "load" /\ ret' = ret) \/ pc' = "failed")
    BY <1>2 DEF CheckSetup, Setup
  <2>2. IsList(o'.targets)
    BY <1>1, <1>2, <2>1, CheckSets
  <2>3. CheckSys'
    BY <1>1, <2>1 DEF CheckSys, Local
  <2>4. pc' = "load" => LoadInv'
    BY <1>1, <2>1 DEF LoadInv
  <2> QED BY <1>1, <2>1, <2>2, <2>3, <2>4
<1>3. CASE sys' = sys /\ o' = o /\ pc # "start"
  <2>1. CheckSys /\ CheckSys' /\ IsList(o.targets) /\ IsList(o'.targets)
    BY <1>1, <1>3, SameChecked
  <2> USE <1>1, <1>3, <2>1
  <2>2. CASE CheckLoad
    <3>1. LoadInv
      BY <2>2 DEF CheckLoad
    <3>2. \/ pc' = "exited" /\ ExitInv'
          \/ pc' = "check" /\ ChecksInv'
          \/ pc' = "deps" /\ DepsInv'
      BY <2>2, <3>1, CheckLoads
    <3> QED BY <3>2
  <2>3. CASE AddDep
    <3>1. pc = "deps" /\ pc' = "deps"
      BY <2>3 DEF AddDep
    <3>2. DepsInv'
      BY <2>3, <3>1, AddsDeps
    <3> QED BY <3>1, <3>2
  <2>4. CASE DepsAdded
    <3>1. pc = "deps" /\ todo = << >> /\ todo' = acc /\ acc' = acc /\ pc' = "check" /\ ret' = ret /\ out' = out
      BY <2>4 DEF DepsAdded
    <3>2. DepsInv
      BY <3>1
    <3>3. PICK A, D : A = acc /\ D = ToSet(todo) /\ Gathered(A, D) /\ ret = 0 /\ out = << >>
      BY <3>2 DEF DepsInv
    <3>4. D = {}
      BY <3>1, <3>3 DEF ToSet
    <3>5. Gathered(A, {})
      BY <3>3, <3>4
    <3>6. ChecksInv'
      BY <3>1, <3>3, <3>5, ChecksStart
    <3> QED BY <3>1, <3>6
  <2>5. CASE CheckPackage
    <3>1. pc = "check" /\ pc' = "check"
      BY <2>5 DEF CheckPackage
    <3>2. ChecksInv'
      BY <2>5, <3>1, ChecksOne
    <3> QED BY <3>1, <3>2
  <2>6. CASE CheckEnd
    <3>1. pc = "check" /\ pc' = "exited"
      BY <2>6 DEF CheckEnd
    <3>2. ExitInv'
      BY <2>6, <3>1, ChecksEnd
    <3> QED BY <3>1, <3>2
  <2>7. ~CheckSetup
    BY DEF CheckSetup, Setup
  <2> QED BY <2>2, <2>3, <2>4, <2>5, <2>6, <2>7 DEF CheckStep
<1>4. CheckSetup \/ (sys' = sys /\ o' = o /\ pc # "start")
  BY DEF CheckStep, CheckLoad, AddDep, DepsAdded, CheckPackage, CheckEnd, Stays
<1> QED BY <1>2, <1>3, <1>4

LEMMA CheckStutters ==
    ASSUME CheckInv, UNCHANGED toolVars
    PROVE  CheckInv'
<1>1. /\ sys' = sys /\ o' = o /\ todo' = todo /\ acc' = acc /\ pc' = pc /\ tool' = tool /\ argv' = argv
      /\ ret' = ret /\ out' = out
  BY DEF toolVars
<1>2. CheckSys' <=> CheckSys
  BY <1>1, SameChecked
<1>3. DepsInv => DepsInv'
  BY <1>1, SameChecked DEF DepsInv
<1>4. ChecksInv => ChecksInv'
  <2> SUFFICES ASSUME ChecksInv PROVE ChecksInv'
    OBVIOUS
  <2>1. PICK A, rest, done, status, lines, D :
         /\ A = acc /\ rest = todo /\ status = ret /\ lines = out /\ D = {}
         /\ Gathered(A, D) /\ Split(A, done, rest) /\ Checked(done, status, lines)
    BY DEF ChecksInv
  <2>2. Gathered(A, D)' /\ Split(A, done, rest)' /\ Checked(done, status, lines)'
    BY <1>1, <2>1, SameChecked
  <2> QED BY <1>1, <2>1, <2>2 DEF ChecksInv
<1>5. ExitInv => ExitInv'
  <2> SUFFICES ASSUME ExitInv, ~(acc = None /\ ret = 1) PROVE ExitInv'
    BY <1>1 DEF ExitInv
  <2>1. PICK A, status, lines, D :
          /\ A = acc /\ status = ret /\ lines = out /\ D = {}
          /\ Gathered(A, D) /\ Checked(A, status, lines)
    BY DEF ExitInv
  <2>2. Gathered(A, D)' /\ Checked(A, status, lines)'
    BY <1>1, <2>1, SameChecked
  <2> QED BY <1>1, <2>1, <2>2 DEF ExitInv
<1>6. LoadInv => LoadInv'
  BY <1>1 DEF LoadInv
<1> QED BY <1>1, <1>2, <1>3, <1>4, <1>5, <1>6 DEF CheckInv

LEMMA CheckHolds == Spec => []CheckInv
<1>1. CheckInv /\ [Next]_toolVars => CheckInv'
  <2> SUFFICES ASSUME CheckInv, [Next]_toolVars PROVE CheckInv'
    OBVIOUS
  <2>1. CASE SiftStep \/ ReportStep \/ RepairFileStep \/ SyncStep
    <3>1. tool' # "paccheck"
      BY <2>1, OwnSteps
    <3> QED BY <3>1 DEF CheckInv
  <2>2. CASE CheckStep
    BY <2>2, CheckSteps
  <2>3. CASE UNCHANGED toolVars
    BY <2>3, CheckStutters
  <2> QED BY <2>1, <2>2, <2>3 DEF Next, Finished
<1> QED BY <1>1, CheckBegins, PTL DEF Spec

LEMMA ExitReports ==
    ASSUME CheckSys, IsList(o.targets), ExitInv, tool = "paccheck", pc = "exited"
    PROVE  BrokenAreReported
<1>1. CASE acc = None
  <2>1. ret = 1
    <3> SUFFICES ASSUME ~(acc = None /\ ret = 1) PROVE FALSE
      BY <1>1
    <3>1. acc \in Seq(Local)
      BY DEF ExitInv, Gathered
    <3> QED BY <1>1, <3>1 DEF CheckSys
  <2> QED BY <1>1, <2>1 DEF BrokenAreReported, At
<1>2. CASE acc # None
  <2>1. PICK A, status, lines : /\ A = acc /\ status = ret /\ lines = out
                                /\ Gathered(A, {}) /\ Checked(A, status, lines)
    BY <1>2 DEF ExitInv
  <2>2. /\ A \in Seq(Local) /\ IsInjective(A) /\ ToSet(Loaded) \subseteq ToSet(A)
        /\ Recursively => \A d \in FollowedOf(A) : HasSatisfier(sys.local, d) =>
                             FindSatisfier(sys.local, d) \in ToSet(A)
        /\ \A i \in 1..Len(A) : Belongs(A, i)
    BY <2>1 DEF Gathered
  <2>3. ToSet(AllFollowed(A)) = FollowedOf(A)
    BY <2>2, FollowedAll
  <2>4. DOMAIN A = 1..Len(A)
    BY <2>2
  <2>5. PICK U, F : U = {p \in ToSet(A) : ~Sound(p)} /\ F = {p \in ToSet(A) : ~Passes(p)}
    OBVIOUS
  <2>6. Select(A, F) = Select(A, Failing)
    <3>1. \A i \in 1..Len(A) : A[i] \in F <=> A[i] \in Failing
      BY <2>2, <2>5 DEF ToSet, Failing
    <3> QED BY <2>2, <3>1, SelectSame
  <2>7. PICK broken, failing : /\ broken = Select(A, U) /\ failing = Select(A, F)
                               /\ broken \in Seq(Local) /\ failing \in Seq(Local)
                               /\ ToSet(broken) = U /\ ToSet(failing) = F
    <3>1. U = ToSet(A) \cap U /\ F = ToSet(A) \cap F
      BY <2>5
    <3>2. Select(A, U) \in Seq(Local) /\ Select(A, F) \in Seq(Local)
      BY <2>2, SelectList
    <3>3. ToSet(Select(A, U)) = U /\ ToSet(Select(A, F)) = F
      BY <2>2, <3>1, SelectMembers
    <3> QED BY <3>2, <3>3
  <2>8. /\ F \subseteq U
        /\ HalvesTell => broken = failing
    <3>1. \A p \in ToSet(A) : Sound(p) => Passes(p)
      BY SoundPasses
    <3>2. HalvesTell => \A p \in ToSet(A) : Passes(p) => Sound(p)
      BY <2>1, PassesSound
    <3>3. HalvesTell => U = F
      BY <2>5, <3>1, <3>2
    <3> QED BY <2>5, <2>7, <3>1, <3>3
  <2>9. /\ status = 0 <=> failing = << >>
        /\ o.list_broken => lines = [i \in DOMAIN failing |-> failing[i].name]
    BY <2>1, <2>6, <2>7 DEF Checked, NamesOf
  <2>10. broken = << >> => failing = << >>
    <3>1. broken = << >> => U = {}
      BY <2>7 DEF ToSet
    <3>2. failing # << >> => Head(failing) \in F
      BY <2>7, HeadTailMembers
    <3> QED BY <2>8, <3>1, <3>2
  <2>11. o.list_broken => ToSet(lines) \subseteq {p.name : p \in U}
    <3>1. ASSUME o.list_broken, NEW i \in DOMAIN lines PROVE lines[i] \in {p.name : p \in U}
      <4>1. i \in DOMAIN failing /\ lines[i] = failing[i].name
        BY <2>9, <3>1
      <4>2. failing[i] \in U
        BY <2>7, <2>8, <4>1 DEF ToSet
      <4> QED BY <4>1, <4>2
    <3> QED BY <3>1 DEF ToSet
  <2>12. broken = Select(acc, {p \in ToSet(acc) : ~Sound(p)})
    BY <2>1, <2>5, <2>7
  <2>13. Recursively => \A d \in ToSet(AllFollowed(acc)) :
          HasSatisfier(sys.local, d) => FindSatisfier(sys.local, d) \in ToSet(acc)
    BY <2>1, <2>2, <2>3
  <2>14. \A i \in DOMAIN acc :
           \/ Wanted = << >> \/ acc[i] \in ToSet(Loaded)
           \/ Recursively /\ \E j \in 1..(i - 1) : \E d \in ToSet(FollowedDeps(acc[j])) :
                HasSatisfier(sys.local, d) /\ FindSatisfier(sys.local, d) = acc[i]
    BY <2>1, <2>2, <2>4 DEF Belongs
  <2>15. IsInjective(acc) /\ ToSet(Loaded) \subseteq ToSet(acc)
    BY <2>1, <2>2
  <2>16. LET found == Select(acc, {p \in ToSet(acc) : ~Sound(p)}) IN
         /\ found = << >> => ret = 0
         /\ o.list_broken => ToSet(out) \subseteq {p.name : p \in ToSet(found)}
         /\ HalvesTell => /\ ret = 0 => found = << >>
                          /\ o.list_broken => out = [i \in DOMAIN found |-> found[i].name]
    <3>1. ret = status /\ out = lines
      BY <2>1
    <3> QED BY <2>7, <2>8, <2>9, <2>10, <2>11, <2>12, <3>1
  <2> QED BY <1>2, <2>13, <2>14, <2>15, <2>16 DEF BrokenAreReported, Recursively
<1> QED BY <1>1, <1>2

\* paccheck fails only if one of the packages it has to check is not as its checks promise,
\* and names no other with --list-broken; it fails and names them whenever one is not, unless
\* a sha256sum differs only in the half that is not compared.  It checks what was asked for
\* and, with --recursive, everything that depends on, each package once.
THEOREM BrokenReported == Spec => []BrokenAreReported
<1>1. CheckInv => BrokenAreReported
  <2>1. ASSUME CheckInv, At("paccheck", "exited") PROVE BrokenAreReported
    <3>1. CheckSys /\ IsList(o.targets) /\ ExitInv /\ tool = "paccheck" /\ pc = "exited"
      BY <2>1 DEF CheckInv, At
    <3> QED BY <3>1, ExitReports
  <2>2. ~At("paccheck", "exited") => BrokenAreReported
    BY DEF BrokenAreReported
  <2> QED BY <2>1, <2>2
<1> QED BY <1>1, CheckHolds, PTL

-----------------------------------------------------------------------------
(***************************************************************************)
(* How often a list has a member.                                          *)
(***************************************************************************)

LEMMA TimesNone == ASSUME NEW x PROVE Times(<< >>, x) = 0
<1>1. {i \in DOMAIN << >> : << >>[i] = x} = {}
  OBVIOUS
<1> QED BY <1>1, FS_EmptySet DEF Times

LEMMA TimesAppend ==
    ASSUME NEW T, NEW s \in Seq(T), NEW e \in T, NEW x
    PROVE  /\ Times(s, x) \in Nat
           /\ Times(Append(s, e), x) = IF e = x THEN Times(s, x) + 1 ELSE Times(s, x)
           /\ Times(s, x) = 0 <=> x \notin ToSet(s)
<1>1. PICK n \in Nat : n = Len(s)
  OBVIOUS
<1>2. PICK t \in Seq(T) : /\ t = Append(s, e) /\ Len(t) = n + 1 /\ t[n + 1] = e
                          /\ \A i \in 1..n : t[i] = s[i]
  <2>1. /\ Append(s, e) \in Seq(T) /\ Len(Append(s, e)) = n + 1 /\ Append(s, e)[n + 1] = e
        /\ \A i \in 1..n : Append(s, e)[i] = s[i]
    BY <1>1, AppendProperties
  <2> QED BY <2>1
<1>3. PICK at : at = {i \in 1..n : s[i] = x}
  OBVIOUS
<1>4. {i \in DOMAIN s : s[i] = x} = at /\ {i \in DOMAIN t : t[i] = x} = {i \in 1..(n + 1) : t[i] = x}
  BY <1>1, <1>2, <1>3
<1>5. IsFiniteSet(at) /\ Cardinality(at) \in Nat
  <2>1. IsFiniteSet(1..n) /\ at \in SUBSET (1..n)
    BY <1>1, <1>3, FS_Interval
  <2>2. IsFiniteSet(at)
    BY <2>1, FS_Subset
  <2> QED BY <2>2, FS_CardinalityType
<1>6. {i \in 1..(n + 1) : t[i] = x} = IF e = x THEN at \cup {n + 1} ELSE at
  <2>1. ASSUME NEW i \in 1..(n + 1)
        PROVE  t[i] = x <=> (i \in at \/ (e = x /\ i = n + 1))
    <3>1. i = n + 1 \/ i \in 1..n
      BY <1>1
    <3> QED BY <1>1, <1>2, <1>3, <3>1
  <2>2. at \subseteq 1..(n + 1) /\ n + 1 \in 1..(n + 1)
    BY <1>1, <1>3
  <2> QED BY <2>1, <2>2
<1>7. n + 1 \notin at
  BY <1>1, <1>3
<1>8. Cardinality(at \cup {n + 1}) = Cardinality(at) + 1
  BY <1>5, <1>7, FS_AddElement
<1>9. Times(s, x) = Cardinality(at) /\ Times(t, x) = Cardinality({i \in 1..(n + 1) : t[i] = x})
  BY <1>4 DEF Times
<1>10. at = {} <=> x \notin ToSet(s)
  BY <1>1, <1>3 DEF ToSet
<1>11. Cardinality(at) = 0 <=> at = {}
  BY <1>5, FS_EmptySet
<1> QED BY <1>2, <1>5, <1>6, <1>8, <1>9, <1>10, <1>11

LEMMA TimesOf ==
    ASSUME NEW T, NEW s \in Seq(T), NEW x
    PROVE  /\ Times(s, x) \in Nat
           /\ Times(s, x) = 0 <=> x \notin ToSet(s)
<1>1. CASE s = << >>
  <2>1. ToSet(<< >>) = {}
    BY DEF ToSet
  <2> QED BY <1>1, <2>1, TimesNone
<1>2. CASE s # << >>
  <2>1. s[1] \in T
    BY <1>2, EmptySeq
  <2> QED BY <2>1, TimesAppend
<1> QED BY <1>1, <1>2

LEMMA TimesConcat ==
    ASSUME NEW T, NEW s \in Seq(T), NEW t \in Seq(T), NEW x
    PROVE  Times(s \o t, x) = Times(s, x) + Times(t, x)
<1> DEFINE U == {r \in Seq(T) : Times(s \o r, x) = Times(s, x) + Times(r, x)}
<1>1. << >> \in U
  <2>1. s \o << >> = s /\ << >> \in Seq(T) /\ Times(s, x) \in Nat
    BY TimesOf
  <2> QED BY <2>1, TimesNone
<1>2. ASSUME NEW r \in Seq(T), NEW e \in T, r \in U PROVE Append(r, e) \in U
  <2>1. s \o Append(r, e) = Append(s \o r, e) /\ s \o r \in Seq(T) /\ Append(r, e) \in Seq(T)
    OBVIOUS
  <2>2. PICK q \in Seq(T) : q = s \o r
    BY <2>1
  <2>3. PICK a, b, c, d, f : /\ a = Times(q, x) /\ b = Times(s, x) /\ c = Times(r, x)
                             /\ d = Times(Append(q, e), x) /\ f = Times(Append(r, e), x)
    OBVIOUS
  <2>4. a \in Nat /\ b \in Nat /\ c \in Nat
    BY <2>3, TimesOf
  <2>5. d = (IF e = x THEN a + 1 ELSE a) /\ f = (IF e = x THEN c + 1 ELSE c)
    BY <2>3, TimesAppend
  <2>6. a = b + c
    BY <1>2, <2>2, <2>3
  <2>7. d = b + f
    BY <2>4, <2>5, <2>6
  <2> QED BY <2>1, <2>2, <2>3, <2>7
<1>3. Seq(T) \subseteq U
  <2> HIDE DEF U
  <2> QED BY <1>1, <1>2, SeqInduction
<1> QED BY <1>3

LEMMA TimesSelect ==
    ASSUME NEW T, NEW s \in Seq(T), NEW S, NEW x
    PROVE  Times(Select(s, S), x) = IF x \in S THEN Times(s, x) ELSE 0
<1> DEFINE U == {r \in Seq(T) : Times(Select(r, S), x) = IF x \in S THEN Times(r, x) ELSE 0}
<1>1. << >> \in U
  BY SelectEmpty, TimesNone
<1>2. ASSUME NEW r \in Seq(T), NEW e \in T, r \in U PROVE Append(r, e) \in U
  <2>1. PICK q \in Seq(T) : q = Select(r, S) /\ Select(Append(r, e), S) = With(q, e, S)
    BY SelectAppend
  <2>2. Append(r, e) \in Seq(T)
    OBVIOUS
  <2>3. /\ Times(Append(q, e), x) = IF e = x THEN Times(q, x) + 1 ELSE Times(q, x)
        /\ Times(Append(r, e), x) = IF e = x THEN Times(r, x) + 1 ELSE Times(r, x)
    BY TimesAppend
  <2>4. Times(q, x) = IF x \in S THEN Times(r, x) ELSE 0
    BY <1>2, <2>1
  <2> QED BY <2>1, <2>2, <2>3, <2>4 DEF With
<1>3. Seq(T) \subseteq U
  <2> HIDE DEF U
  <2> QED BY <1>1, <1>2, SeqInduction
<1> QED BY <1>3

-----------------------------------------------------------------------------
(***************************************************************************)
(* pacsift: the terms of a field take the packages they match out of the   *)
(* haystack.                                                               *)
(***************************************************************************)

Hit(f, p) == \E t \in ToSet(o[f]) : Matches(f, t, p)

\* What the program finds: the terms as they were read, compared as the code does.
Matched(p) ==
    IF o.any THEN \E f \in Searched : Hit(f, p) ELSE \A f \in Searched : Hit(f, p)

\* With --any the packages that do not match are those left in the haystack, which
\* --invert takes from all.
Inverted == o.invert /\ ~o.any

SiftAcc(P) == [all : Seq(P), hay : Seq(P), matches : Seq(P)]

\* b is a with those of S moved from the haystack to the matches.
Moved(P, a, b, S) ==
    /\ b \in SiftAcc(P) /\ b.all = a.all
    /\ \A p \in P :
         /\ Times(b.hay, p) = IF p \in S THEN 0 ELSE Times(a.hay, p)
         /\ Times(b.matches, p) =
              IF p \in S THEN Times(a.matches, p) + Times(a.hay, p) ELSE Times(a.matches, p)

LEMMA TakeMoves ==
    ASSUME NEW P, NEW f, NEW t, NEW a \in SiftAcc(P)
    PROVE  Moved(P, a, Take(f, a, t), {p \in P : Matches(f, t, p)})
<1>1. PICK hay \in Seq(P), matches \in Seq(P) : hay = a.hay /\ matches = a.matches
  BY DEF SiftAcc
<1>2. PICK S : S = {p \in P : Matches(f, t, p)}
  OBVIOUS
<1>3. PICK M : M = {p \in ToSet(hay) : Matches(f, t, p)}
  OBVIOUS
<1>4. ToSet(hay) \subseteq P /\ \A p \in P : p \in M <=> p \in ToSet(hay) /\ p \in S
  BY <1>2, <1>3, MembersOfList
<1>5. PICK left \in Seq(P), found \in Seq(P) :
        left = Select(hay, ToSet(hay) \ M) /\ found = Select(hay, M)
  BY SelectList
<1>6. PICK more \in Seq(P) : more = matches \o found
  <2>1. matches \o found \in Seq(P)
    BY ConcatMembers
  <2> QED BY <2>1
<1>7. Take(f, a, t) = [a EXCEPT !.hay = left, !.matches = more]
  BY <1>1, <1>3, <1>5, <1>6 DEF Take
<1>8. PICK b : b = Take(f, a, t)
  OBVIOUS
<1>9. b \in SiftAcc(P) /\ b.all = a.all /\ b.hay = left /\ b.matches = more
  BY <1>7, <1>8 DEF SiftAcc
<1>10. ASSUME NEW p \in P
       PROVE  /\ Times(left, p) = IF p \in S THEN 0 ELSE Times(hay, p)
              /\ Times(more, p) = IF p \in S THEN Times(matches, p) + Times(hay, p)
                                  ELSE Times(matches, p)
  <2>1. PICK h, m, l, n : h = Times(hay, p) /\ m = Times(matches, p) /\ l = Times(left, p) /\ n = Times(found, p)
    OBVIOUS
  <2>2. h \in Nat /\ m \in Nat /\ (h = 0 <=> p \notin ToSet(hay))
    BY <2>1, TimesOf
  <2>3. l = (IF p \in ToSet(hay) \ M THEN h ELSE 0) /\ n = (IF p \in M THEN h ELSE 0)
    BY <1>5, <2>1, TimesSelect
  <2>4. Times(more, p) = m + n
    BY <1>6, <2>1, TimesConcat
  <2> QED BY <1>4, <2>1, <2>2, <2>3, <2>4
<1> QED BY <1>1, <1>2, <1>8, <1>9, <1>10 DEF Moved

LEMMA MovedTwice ==
    ASSUME NEW P, NEW a \in SiftAcc(P), NEW b, NEW c, NEW S, NEW R,
           Moved(P, a, b, S), Moved(P, b, c, R)
    PROVE  Moved(P, a, c, S \cup R)
<1>1. c \in SiftAcc(P) /\ c.all = a.all /\ b \in SiftAcc(P)
  BY DEF Moved
<1>2. ASSUME NEW p \in P
      PROVE  /\ Times(c.hay, p) = IF p \in S \cup R THEN 0 ELSE Times(a.hay, p)
             /\ Times(c.matches, p) = IF p \in S \cup R THEN Times(a.matches, p) + Times(a.hay, p)
                                      ELSE Times(a.matches, p)
  <2>1. PICK ha, ma, hb, mb, hc, mc :
          /\ ha = Times(a.hay, p) /\ ma = Times(a.matches, p)
          /\ hb = Times(b.hay, p) /\ mb = Times(b.matches, p)
          /\ hc = Times(c.hay, p) /\ mc = Times(c.matches, p)
    OBVIOUS
  <2>2. ha \in Nat /\ ma \in Nat
    <3>1. a.hay \in Seq(P) /\ a.matches \in Seq(P)
      BY DEF SiftAcc
    <3> QED BY <2>1, <3>1, TimesOf
  <2>3. hb = (IF p \in S THEN 0 ELSE ha) /\ mb = (IF p \in S THEN ma + ha ELSE ma)
    BY <2>1 DEF Moved
  <2>4. hc = (IF p \in R THEN 0 ELSE hb) /\ mc = (IF p \in R THEN mb + hb ELSE mb)
    BY <2>1 DEF Moved
  <2> QED BY <2>1, <2>2, <2>3, <2>4
<1> QED BY <1>1, <1>2 DEF Moved

LEMMA MovedNone ==
    ASSUME NEW P, NEW a \in SiftAcc(P)
    PROVE  Moved(P, a, a, {})
BY DEF Moved

LEMMA TakeAllMoves ==
    ASSUME NEW P, NEW f, IsList(o[f]), NEW a \in SiftAcc(P)
    PROVE  Moved(P, a, TakeAll(f, a), {p \in P : Hit(f, p)})
<1> DEFINE terms == o[f]
           N == Len(terms)
           V == SiftAcc(P)
           step == [n \in 1..N |-> [g \in V |-> Take(f, g, terms[n])]]
           F(g) == [n \in 0..N |-> IF n = 0 THEN a ELSE Take(f, g[n - 1], terms[n])]
           g == CHOOSE g : g = F(g)
           S(n) == {p \in P : \E i \in 1..n : Matches(f, terms[i], p)}
<1>1. N \in Nat /\ DOMAIN terms = 1..N
  BY DEF IsList
<1>2. step \in [1..N -> [V -> V]]
  BY TakeMoves DEF Moved
<1>3. PICK h \in [0..N -> V] : Recursive(h, N, a, step)
  <2> HIDE DEF step, N, V
  <2> QED BY <1>1, <1>2, RecursionExists DEF V
<1>4. ASSUME NEW n \in 1..N PROVE h[n] = Take(f, h[n - 1], terms[n]) /\ h[n - 1] \in V
  <2>1. n - 1 \in 0..N
    BY <1>1
  <2>2. h[n - 1] \in V
    <3> HIDE DEF N, V
    <3> QED BY <1>3, <2>1
  <2>3. h[n] = step[n][h[n - 1]]
    BY <1>3 DEF Recursive
  <2> QED BY <2>2, <2>3
<1>5. h[0] = a
  BY <1>3 DEF Recursive
<1>6. h = F(h)
  <2>1. h = [n \in 0..N |-> h[n]]
    <3> HIDE DEF N, V
    <3> QED BY <1>3
  <2>2. ASSUME NEW n \in 0..N
        PROVE  h[n] = IF n = 0 THEN a ELSE Take(f, h[n - 1], terms[n])
    <3>1. n = 0 \/ n \in 1..N
      BY <1>1
    <3> QED BY <1>4, <1>5, <3>1
  <2> QED BY <2>1, <2>2, Zenon
<1>7. g = F(g)
  <2> HIDE DEF F
  <2> QED BY <1>6
<1>8. TakeAll(f, a) = g[N]
  BY DEF TakeAll
<1> HIDE DEF g, step, V
<1>9. ASSUME NEW n \in 1..N PROVE g[n] = Take(f, g[n - 1], terms[n])
  <2>1. n \in 0..N /\ n # 0
    BY <1>1
  <2> QED BY <1>7, <2>1
<1>10. g[0] = a
  <2>1. 0 \in 0..N
    BY <1>1
  <2> QED BY <1>7, <2>1
<1> HIDE DEF F
<1> DEFINE T == {n \in Nat : n <= N => g[n] \in SiftAcc(P) /\ Moved(P, a, g[n], S(n))}
<1>11. 0 \in T
  <2>1. S(0) = {}
    OBVIOUS
  <2>2. g[0] \in SiftAcc(P) /\ Moved(P, a, g[0], {})
    BY <1>10, MovedNone
  <2> HIDE DEF S
  <2> QED BY <2>1, <2>2
<1>12. ASSUME NEW n \in Nat, n \in T PROVE n + 1 \in T
  <2> SUFFICES ASSUME n + 1 <= N PROVE g[n + 1] \in SiftAcc(P) /\ Moved(P, a, g[n + 1], S(n + 1))
    OBVIOUS
  <2>1. g[n + 1] = Take(f, g[n], terms[n + 1])
    BY <1>1, <1>9
  <2>2. g[n] \in SiftAcc(P) /\ Moved(P, a, g[n], S(n))
    BY <1>1, <1>12
  <2>3. PICK M : M = {p \in P : Matches(f, terms[n + 1], p)}
    OBVIOUS
  <2>4. S(n + 1) = S(n) \cup M
    BY <2>3
  <2>5. Moved(P, g[n], g[n + 1], M)
    BY <2>1, <2>2, <2>3, TakeMoves
  <2> HIDE DEF S
  <2>6. Moved(P, a, g[n + 1], S(n) \cup M)
    BY <2>2, <2>5, MovedTwice
  <2> QED BY <2>4, <2>5, <2>6 DEF Moved
<1>13. Nat \subseteq T
  <2> HIDE DEF T
  <2> QED BY <1>11, <1>12, NatSetInduction
<1>14. S(N) = {p \in P : Hit(f, p)}
  BY <1>1 DEF Hit, ToSet
<1>15. Moved(P, a, g[N], S(N))
  BY <1>1, <1>13
<1> QED BY <1>8, <1>14, <1>15

-----------------------------------------------------------------------------
(***************************************************************************)
(* pacsift: its options and what it searches.                              *)
(***************************************************************************)

FieldNames ==
    {"name", "base", "description", "packager", "repo", "arch", "group", "license", "ownsfile",
     "url", "isize", "dsize", "size", "builddate", "installdate", "provides", "depends",
     "optdepends", "conflicts", "replaces", "satisfies"}

LEMMA FieldsAre == Fields \in Seq(FieldNames) /\ ToSet(Fields) = FieldNames
<1>1. /\ WordFields \in Seq(FieldNames)
      /\ ToSet(WordFields) = {"name", "base", "description", "packager", "repo", "arch", "group",
                              "license", "ownsfile", "url"}
  BY DEF WordFields, FieldNames, ToSet
<1>2. /\ SizeFields \in Seq(FieldNames) /\ DateFields \in Seq(FieldNames)
      /\ ToSet(SizeFields) = {"isize", "dsize", "size"}
      /\ ToSet(DateFields) = {"builddate", "installdate"}
  BY DEF SizeFields, DateFields, FieldNames, ToSet
<1>3. /\ DependFields \in Seq(FieldNames) /\ <<"satisfies">> \in Seq(FieldNames)
      /\ ToSet(DependFields) = {"provides", "depends", "optdepends", "conflicts", "replaces"}
      /\ ToSet(<<"satisfies">>) = {"satisfies"}
  BY DEF DependFields, FieldNames, ToSet
<1>4. PICK w \in Seq(FieldNames), z \in Seq(FieldNames), d \in Seq(FieldNames),
           p \in Seq(FieldNames), s \in Seq(FieldNames) :
        w = WordFields /\ z = SizeFields /\ d = DateFields /\ p = DependFields /\ s = <<"satisfies">>
  BY <1>1, <1>2, <1>3
<1>5. PICK wz \in Seq(FieldNames) : wz = w \o z /\ ToSet(wz) = ToSet(w) \cup ToSet(z)
  <2>1. w \o z \in Seq(FieldNames) /\ ToSet(w \o z) = ToSet(w) \cup ToSet(z)
    BY ConcatMembers
  <2> QED BY <2>1
<1>6. PICK wzd \in Seq(FieldNames) : wzd = wz \o d /\ ToSet(wzd) = ToSet(wz) \cup ToSet(d)
  <2>1. wz \o d \in Seq(FieldNames) /\ ToSet(wz \o d) = ToSet(wz) \cup ToSet(d)
    BY ConcatMembers
  <2> QED BY <2>1
<1>7. PICK wzdp \in Seq(FieldNames) : wzdp = wzd \o p /\ ToSet(wzdp) = ToSet(wzd) \cup ToSet(p)
  <2>1. wzd \o p \in Seq(FieldNames) /\ ToSet(wzd \o p) = ToSet(wzd) \cup ToSet(p)
    BY ConcatMembers
  <2> QED BY <2>1
<1>8. wzdp \o s \in Seq(FieldNames) /\ ToSet(wzdp \o s) = ToSet(wzdp) \cup ToSet(s)
  BY ConcatMembers
<1>9. Fields = wzdp \o s
  BY <1>4, <1>5, <1>6, <1>7 DEF Fields
<1>10. ToSet(wzdp) \cup ToSet(s) = FieldNames
  BY <1>1, <1>2, <1>3, <1>4, <1>5, <1>6, <1>7 DEF FieldNames
<1> QED BY <1>8, <1>9, <1>10

\* What the search makes decisions by.
SiftGlobals(g) ==
    /\ g.any \in BOOLEAN /\ g.invert \in BOOLEAN
    /\ \A f \in FieldNames : IsList(g[f])

SiftSwitches == {"local", "sync", "cache", "invert", "re", "exact", "any", "exists", "dbext"}

\* The globals after any number of options whose arguments are in V.
SiftParses(V, W) ==
    {g \in [FieldNames \cup SiftSwitches -> W] :
       /\ g["any"] \in BOOLEAN /\ g["invert"] \in BOOLEAN
       /\ \A f \in FieldNames : g[f] \in Seq(V)}

Holding(V, W) ==
    /\ V \subseteq W /\ Seq(V) \subseteq W /\ BOOLEAN \subseteq W
    /\ {"any", "some", "none", None} \subseteq W

LEMMA SiftSets ==
    ASSUME NEW V, NEW W, NEW g \in SiftParses(V, W),
           NEW x \in FieldNames \cup SiftSwitches, NEW y \in W,
           x \in {"any", "invert"} => y \in BOOLEAN,
           x \in FieldNames => y \in Seq(V)
    PROVE  [g EXCEPT ![x] = y] \in SiftParses(V, W)
<1>1. "any" \in SiftSwitches /\ "invert" \in SiftSwitches
  BY DEF SiftSwitches
<1>2. PICK h : h = [g EXCEPT ![x] = y]
  OBVIOUS
<1>3. PICK D : D = FieldNames \cup SiftSwitches
  OBVIOUS
<1>4. g \in [D -> W] /\ x \in D
  BY <1>3 DEF SiftParses
<1>5. h \in [D -> W] /\ \A z \in D : h[z] = IF z = x THEN y ELSE g[z]
  BY <1>2, <1>4
<1>6. h["any"] \in BOOLEAN /\ h["invert"] \in BOOLEAN
  BY <1>1, <1>3, <1>5 DEF SiftParses
<1>7. \A f \in FieldNames : h[f] \in Seq(V)
  BY <1>3, <1>5 DEF SiftParses
<1> QED BY <1>2, <1>3, <1>5, <1>6, <1>7 DEF SiftParses

LEMMA SiftTakes ==
    ASSUME NEW V, NEW W, Holding(V, W), NEW g \in SiftParses(V, W), NEW a,
           a[1] \in DOMAIN SiftOptions.set \cup DOMAIN SiftOptions.count
                     \cup DOMAIN SiftOptions.assign \cup DOMAIN SiftOptions.add,
           a[2] \in V
    PROVE  Takes(SiftOptions, g, a) \in SiftParses(V, W)
<1> DEFINE t == SiftOptions
           names == {"local", "sync", "cache", "invert", "regex", "exact", "any", "or",
                     "exists", "not_exists"}
<1>0. /\ DOMAIN t.set = names /\ DOMAIN t.count = {}
      /\ DOMAIN t.assign = {"dbext"} /\ t.assign["dbext"] = "dbext"
      /\ DOMAIN t.add = FieldNames /\ \A f \in FieldNames : t.add[f] = f
  BY FieldsAre DEF SiftOptions, NoOptions
<1>1. \A x \in names : x # "dbext" /\ x \notin FieldNames
  BY DEF FieldNames
<1>2. "dbext" \notin FieldNames
  BY DEF FieldNames
<1>3. CASE a[1] \in names
  <2>1. Takes(t, g, a) = [g EXCEPT ![t.set[a[1]][1]] = t.set[a[1]][2]]
    <3> HIDE DEF t, names
    <3> QED BY <1>0, <1>1, <1>3 DEF Takes
  <2>2. PICK x, y : x = t.set[a[1]][1] /\ y = t.set[a[1]][2]
    OBVIOUS
  <2>3. \/ x \in {"local", "sync", "cache", "invert", "re", "exact", "any"} /\ y = TRUE
        \/ x = "exists" /\ y \in {"some", "none"}
    <3>1. /\ t.set["local"][1] = "local" /\ t.set["local"][2] = TRUE
          /\ t.set["sync"][1] = "sync" /\ t.set["sync"][2] = TRUE
          /\ t.set["cache"][1] = "cache" /\ t.set["cache"][2] = TRUE
          /\ t.set["invert"][1] = "invert" /\ t.set["invert"][2] = TRUE
          /\ t.set["regex"][1] = "re" /\ t.set["regex"][2] = TRUE
          /\ t.set["exact"][1] = "exact" /\ t.set["exact"][2] = TRUE
          /\ t.set["any"][1] = "any" /\ t.set["any"][2] = TRUE
          /\ t.set["or"][1] = "any" /\ t.set["or"][2] = TRUE
          /\ t.set["exists"][1] = "exists" /\ t.set["exists"][2] = "some"
          /\ t.set["not_exists"][1] = "exists" /\ t.set["not_exists"][2] = "none"
      BY DEF SiftOptions
    <3> HIDE DEF t
    <3> QED BY <1>3, <2>2, <3>1
  <2>4. x \in SiftSwitches /\ x \notin FieldNames
    BY <2>3 DEF SiftSwitches, FieldNames
  <2>5. (x \in {"any", "invert"} => y \in BOOLEAN) /\ y \in W
    BY <2>3 DEF Holding
  <2>6. [g EXCEPT ![x] = y] \in SiftParses(V, W)
    BY <2>4, <2>5, SiftSets
  <2> QED BY <2>1, <2>2, <2>6
<1>4. CASE a[1] = "dbext"
  <2>1. Takes(t, g, a) = [g EXCEPT !["dbext"] = a[2]]
    <3> HIDE DEF t, names
    <3>1. a[1] \notin names
      BY <1>1, <1>4
    <3> QED BY <1>0, <1>2, <1>4, <3>1 DEF Takes
  <2>2. PICK x \in SiftSwitches, y \in W : x = "dbext" /\ y = a[2]
    BY DEF SiftSwitches, Holding
  <2>3. x \notin FieldNames /\ x \notin {"any", "invert"}
    BY <1>2, <2>2
  <2>4. [g EXCEPT ![x] = y] \in SiftParses(V, W)
    BY <2>3, SiftSets
  <2> QED BY <2>1, <2>2, <2>4
<1>5. CASE a[1] \in FieldNames
  <2>1. PICK f \in FieldNames : f = a[1]
    BY <1>5
  <2>2. Takes(t, g, a) = [g EXCEPT ![f] = Append(@, a[2])]
    <3> HIDE DEF t, names
    <3>1. f \notin names /\ f # "dbext"
      BY <1>1, <1>2
    <3> QED BY <1>0, <2>1, <3>1 DEF Takes
  <2>3. PICK w \in Seq(V) : w = Append(g[f], a[2])
    <3>1. PICK q \in Seq(V), e \in V : q = g[f] /\ e = a[2]
      BY DEF SiftParses
    <3>2. Append(q, e) \in Seq(V)
      OBVIOUS
    <3> QED BY <3>1, <3>2, Zenon
  <2>4. f \notin {"any", "invert"} /\ w \in W
    BY DEF FieldNames, Holding
  <2>5. [g EXCEPT ![f] = w] \in SiftParses(V, W)
    BY <2>4, SiftSets
  <2> QED BY <2>2, <2>3, <2>5
<1> QED BY <1>0, <1>3, <1>4, <1>5

LEMMA SiftDefaultsParse ==
    ASSUME NEW V, NEW W, Holding(V, W)
    PROVE  SiftDefaults \in SiftParses(V, W)
<1> DEFINE rest == SwitchDefaults
<1>1. /\ DOMAIN rest = SiftSwitches /\ rest["any"] = FALSE /\ rest["invert"] = FALSE
      /\ \A x \in SiftSwitches : rest[x] \in {FALSE, "any", None}
  BY DEF SwitchDefaults, SiftSwitches
<1>3. \A x \in SiftSwitches : x \notin FieldNames
  BY DEF SiftSwitches, FieldNames
<1> HIDE DEF rest
<1>5. PICK D : D = FieldNames \cup SiftSwitches
  OBVIOUS
<1>6. SiftDefaults = [x \in D |-> IF x \in SiftSwitches THEN rest[x] ELSE << >>]
  BY <1>1, <1>5, FieldsAre DEF SiftDefaults, rest
<1>7. << >> \in Seq(V) /\ << >> \in W /\ {FALSE, "any", None} \subseteq W
  <2>1. << >> \in Seq(V)
    OBVIOUS
  <2> QED BY <2>1 DEF Holding
<1>8. \A x \in D : (IF x \in SiftSwitches THEN rest[x] ELSE << >>) \in W
  BY <1>1, <1>5, <1>7
<1>9. PICK d : d = SiftDefaults
  OBVIOUS
<1>10. d \in [D -> W] /\ \A x \in D : d[x] = IF x \in SiftSwitches THEN rest[x] ELSE << >>
  BY <1>6, <1>8, <1>9
<1>11. "any" \in SiftSwitches /\ "invert" \in SiftSwitches
  BY DEF SiftSwitches
<1>12. d["any"] \in BOOLEAN /\ d["invert"] \in BOOLEAN
  BY <1>1, <1>3, <1>5, <1>10, <1>11
<1>13. \A f \in FieldNames : d[f] \in Seq(V)
  BY <1>3, <1>5, <1>7, <1>10
<1> QED BY <1>5, <1>9, <1>10, <1>12, <1>13 DEF SiftParses

LEMMA SiftParsedGlobals ==
    ASSUME Accepts(SiftOptions, argv)
    PROVE  \E V, W : SiftParsed \in SiftParses(V, W)
<1>1. PICK A : A = ToSet(argv)
  OBVIOUS
<1>2. PICK V : V = {a[2] : a \in A}
  OBVIOUS
<1>3. PICK W : W = V \cup Seq(V) \cup BOOLEAN \cup {"any", "some", "none", None}
  OBVIOUS
<1>4. Holding(V, W)
  BY <1>3 DEF Holding
<1>5. argv \in Seq(A)
  BY <1>1 DEF Accepts, IsList
<1>6. ASSUME NEW g \in SiftParses(V, W), NEW a \in A
      PROVE  Takes(SiftOptions, g, a) \in SiftParses(V, W)
  <2>1. a[2] \in V
    BY <1>2
  <2>2. a[1] \in DOMAIN SiftOptions.set \cup DOMAIN SiftOptions.count
                     \cup DOMAIN SiftOptions.assign \cup DOMAIN SiftOptions.add
    BY <1>1 DEF Accepts
  <2> QED BY <1>4, <2>1, <2>2, SiftTakes
<1>7. PICK S : S = SiftParses(V, W)
  OBVIOUS
<1>8. SiftDefaults \in S
  BY <1>4, <1>7, SiftDefaultsParse
<1>9. \A g \in S, a \in A : Takes(SiftOptions, g, a) \in S
  BY <1>6, <1>7
<1>10. Parse(SiftOptions, SiftDefaults) \in S
  BY <1>5, <1>8, <1>9, ParseKeeps
<1> QED BY <1>7, <1>10 DEF SiftParsed

SiftSys ==
    /\ IsList(sys.local) /\ IsList(sys.cache) /\ IsList(sys.sync)
    /\ \A db \in ToSet(sys.sync) : IsList(db.pkgs)
    /\ sys.stdin # None => IsList(sys.stdin)
    /\ \A p, q \in SiftPackages(sys) : p.spec = q.spec => p = q

LEMMA SizesReadLists ==
    ASSUME NEW V, NEW W, NEW g \in SiftParses(V, W), NEW garbage
    PROVE  /\ SiftGlobals(SizesRead(g, garbage))
           /\ SiftGlobals([SizesRead(g, garbage) EXCEPT !.dbext = "files"])
<1>1. PICK h : h = SizesRead(g, garbage)
  OBVIOUS
<1>2. DOMAIN g = FieldNames \cup SiftSwitches
  BY DEF SiftParses
<1>3. PICK D : D = FieldNames \cup SiftSwitches
  OBVIOUS
<1>4. PICK Z : Z = ToSet(SizeFields)
  OBVIOUS
<1>5. Z = {"isize", "dsize", "size"}
  BY <1>4 DEF SizeFields, ToSet
<1>6. h = [f \in D |->
             IF f \notin Z THEN g[f]
             ELSE [i \in DOMAIN g[f] |->
                     [cmp |-> g[f][i].cmp, number |-> Bytes(g[f][i], garbage)]]]
  BY <1>1, <1>2, <1>3, <1>4 DEF SizesRead
<1>7. "any" \in D /\ "invert" \in D /\ "any" \notin Z /\ "invert" \notin Z
  BY <1>3, <1>5 DEF SiftSwitches
<1>8. h.any \in BOOLEAN /\ h.invert \in BOOLEAN
  BY <1>6, <1>7 DEF SiftParses
<1>9. ASSUME NEW f \in FieldNames PROVE IsList(h[f])
  <2>1. g[f] \in Seq(V) /\ f \in D
    BY <1>3 DEF SiftParses
  <2>2. CASE f \notin Z
    <3>1. h[f] = g[f]
      BY <1>6, <2>1, <2>2
    <3> QED BY <2>1, <3>1, MembersOfList
  <2>3. CASE f \in Z
    <3>1. PICK s \in Seq(V) : s = g[f]
      BY <2>1
    <3>2. h[f] = [i \in DOMAIN s |-> [cmp |-> s[i].cmp, number |-> Bytes(s[i], garbage)]]
      BY <1>6, <2>1, <2>3, <3>1
    <3>3. PICK n \in Nat : n = Len(s) /\ DOMAIN s = 1..n
      OBVIOUS
    <3>4. PICK R : R = {[cmp |-> s[i].cmp, number |-> Bytes(s[i], garbage)] : i \in 1..n}
      OBVIOUS
    <3>5. h[f] \in [1..n -> R]
      BY <3>2, <3>3, <3>4, Zenon
    <3>6. h[f] \in Seq(R)
      BY <3>5
    <3> QED BY <3>6, MembersOfList
  <2> QED BY <2>2, <2>3
<1>10. "dbext" \in D /\ "dbext" \notin FieldNames
  BY <1>3 DEF SiftSwitches, FieldNames
<1>11. PICK k : k = [h EXCEPT !.dbext = "files"]
  OBVIOUS
<1>12. \A x \in D : x # "dbext" => k[x] = h[x]
  BY <1>6, <1>11
<1>13. k.any = h.any /\ k.invert = h.invert
  BY <1>7, <1>12
<1>14. \A f \in FieldNames : k[f] = h[f]
  BY <1>3, <1>10, <1>12
<1> QED BY <1>1, <1>8, <1>9, <1>11, <1>13, <1>14 DEF SiftGlobals

LEMMA FindSpecFinds ==
    ASSUME SiftSys, NEW spec
    PROVE  FindSpec(spec) \in Seq(SiftPackages(sys))
<1> DEFINE P == SiftPackages(sys)
<1>1. /\ sys.cache \in Seq(ToSet(sys.cache)) /\ sys.local \in Seq(ToSet(sys.local))
      /\ ToSet(sys.cache) \subseteq P /\ ToSet(sys.local) \subseteq P
  BY DEF SiftSys, IsList, SiftPackages
<1>2. sys.cache \in Seq(P) /\ sys.local \in Seq(P)
  BY <1>1
<1>3. \A db \in ToSet(sys.sync) : db.pkgs \in Seq(P)
  <2> SUFFICES ASSUME NEW db \in ToSet(sys.sync) PROVE db.pkgs \in Seq(P)
    OBVIOUS
  <2>1. db.pkgs \in Seq(ToSet(db.pkgs)) /\ ToSet(db.pkgs) \subseteq P
    BY DEF SiftSys, IsList, SiftPackages
  <2> QED BY <2>1
<1>4. PICK dbs \in Seq(ToSet(sys.sync)) :
        dbs = Select(sys.sync, {d \in ToSet(sys.sync) : d.name = spec[1]})
  BY SelectList DEF SiftSys, IsList
<1>5. (IF dbs = << >> THEN << >> ELSE Head(dbs).pkgs) \in Seq(P)
  <2>1. CASE dbs = << >>
    BY <2>1
  <2>2. CASE dbs # << >>
    <3>1. Head(dbs) \in ToSet(sys.sync)
      BY <2>2
    <3> QED BY <1>3, <2>2, <3>1
  <2> HIDE DEF P
  <2> QED BY <2>1, <2>2
<1>6. PICK from : from = CASE spec[1] = "file" -> sys.cache
                           [] spec[1] = "local" -> sys.local
                           [] OTHER -> IF dbs = << >> THEN << >> ELSE Head(dbs).pkgs
  OBVIOUS
<1> HIDE DEF P
<1>7. from \in Seq(P)
  BY <1>2, <1>5, <1>6
<1>8. FindSpec(spec) = Select(from, {p \in ToSet(from) : p.spec = spec})
  BY <1>4, <1>6 DEF FindSpec
<1> QED BY <1>7, <1>8, SelectList DEF P

LEMMA HaystackIs ==
    ASSUME SiftSys
    PROVE  Haystack \in Seq(SiftPackages(sys))
<1> DEFINE P == SiftPackages(sys)
<1>1. CASE sys.stdin # None
  <2>1. PICK stdin \in Seq(ToSet(sys.stdin)) : stdin = sys.stdin
    BY <1>1 DEF SiftSys, IsList
  <2>2. PICK ss : ss = [i \in DOMAIN stdin |-> FindSpec(stdin[i])]
    OBVIOUS
  <2>3. PICK n \in Nat : n = Len(stdin) /\ DOMAIN stdin = 1..n
    OBVIOUS
  <2>4. \A i \in 1..n : FindSpec(stdin[i]) \in Seq(P)
    BY FindSpecFinds
  <2>5. ss \in [1..n -> Seq(P)]
    BY <2>2, <2>3, <2>4
  <2>6. ss \in Seq(Seq(P))
    BY <2>5
  <2>7. Haystack = FlattenSeq(ss)
    BY <1>1, <2>1, <2>2 DEF Haystack
  <2> QED BY <2>6, <2>7, FlattenList
<1>2. CASE sys.stdin = None
  <2>1. /\ sys.local \in Seq(ToSet(sys.local)) /\ ToSet(sys.local) \subseteq P
        /\ sys.cache \in Seq(ToSet(sys.cache)) /\ ToSet(sys.cache) \subseteq P
    BY DEF SiftSys, IsList, SiftPackages
  <2>2. sys.local \in Seq(P) /\ sys.cache \in Seq(P)
    BY <2>1
  <2>3. PICK dbs \in Seq(ToSet(sys.sync)) : dbs = sys.sync
    BY DEF SiftSys, IsList
  <2>4. PICK ss : ss = [i \in DOMAIN dbs |-> dbs[i].pkgs]
    OBVIOUS
  <2>5. PICK n \in Nat : n = Len(dbs) /\ DOMAIN dbs = 1..n
    OBVIOUS
  <2>6. ASSUME NEW i \in 1..n PROVE dbs[i].pkgs \in Seq(P)
    <3>1. PICK db \in ToSet(sys.sync) : db = dbs[i]
      BY <2>5
    <3>2. db.pkgs \in Seq(ToSet(db.pkgs)) /\ ToSet(db.pkgs) \subseteq P
      BY <3>1 DEF SiftSys, IsList, SiftPackages
    <3>3. db.pkgs \in Seq(P)
      BY <3>2
    <3> QED BY <3>1, <3>3
  <2>7. ss \in [1..n -> Seq(P)]
    BY <2>4, <2>5, <2>6
  <2>8. ss \in Seq(Seq(P))
    BY <2>7
  <2>9. PICK l, s, c : /\ l = (IF o.local \/ ByDefault THEN sys.local ELSE << >>)
                       /\ s = (IF o.sync \/ ByDefault THEN FlattenSeq(ss) ELSE << >>)
                       /\ c = (IF o.cache THEN sys.cache ELSE << >>)
    OBVIOUS
  <2>10. << >> \in Seq(P) /\ FlattenSeq(ss) \in Seq(P)
    <3> HIDE DEF P
    <3> QED BY <2>8, FlattenList
  <2> HIDE DEF P
  <2>11. l \in Seq(P) /\ s \in Seq(P) /\ c \in Seq(P)
    BY <2>2, <2>9, <2>10
  <2>12. Haystack = l \o s \o c
    BY <1>2, <2>3, <2>4, <2>9 DEF Haystack
  <2>13. PICK ls \in Seq(P) : ls = l \o s
    <3>1. l \o s \in Seq(P)
      BY <2>11, ConcatMembers
    <3> QED BY <3>1
  <2>14. ls \o c \in Seq(P)
    BY <2>11, <2>13, ConcatMembers
  <2> QED BY <2>12, <2>13, <2>14 DEF P
<1> QED BY <1>1, <1>2

\* What the lists a hold when the fields done have been searched and rest are left.
SearchedBy(a, done, rest) ==
    /\ a \in SiftAcc(SiftPackages(sys)) /\ rest \in Seq(Searched)
    /\ Searched = done \cup ToSet(rest)
    /\ ~o.any => a.matches = << >>
    /\ \A p \in SiftPackages(sys) :
         IF o.any
         THEN /\ Times(a.matches, p) = IF \E f \in done : Hit(f, p) THEN Times(a.all, p) ELSE 0
              /\ Times(a.hay, p) = IF \E f \in done : Hit(f, p) THEN 0 ELSE Times(a.all, p)
         ELSE Times(a.hay, p) = IF \A f \in done : Hit(f, p) THEN Times(a.all, p) ELSE 0

LEMMA SearchStarts ==
    ASSUME NEW h \in Seq(SiftPackages(sys)), NEW a, a = [all |-> h, hay |-> h, matches |-> << >>],
           NEW rest, rest = Select(Fields, {f \in ToSet(Fields) : o[f] # << >>})
    PROVE  SearchedBy(a, {}, rest)
<1>1. Fields \in Seq(ToSet(Fields))
  BY FieldsAre
<1>2. PICK T, F : F = Fields /\ F \in Seq(T)
  BY <1>1
<1>3. PICK S : S = Searched
  OBVIOUS
<1>4. rest = Select(F, S) /\ S \subseteq ToSet(F)
  BY <1>2, <1>3 DEF Searched
<1>5. rest \in Seq(T) /\ ToSet(rest) = ToSet(F) \cap S
  <2>1. Select(F, S) \in Seq(T)
    BY <1>2, SelectList
  <2>2. ToSet(Select(F, S)) = ToSet(F) \cap S
    BY <1>2, SelectMembers
  <2> QED BY <1>4, <2>1, <2>2
<1>6. ToSet(rest) = S
  BY <1>4, <1>5
<1>7. rest \in Seq(S)
  BY <1>5, <1>6, MembersOfList DEF IsList
<1>8. PICK P : P = SiftPackages(sys)
  OBVIOUS
<1>9. << >> \in Seq(P)
  OBVIOUS
<1>10. a \in SiftAcc(P) /\ a.matches = << >> /\ a.all = h /\ a.hay = h
  BY <1>8, <1>9 DEF SiftAcc
<1> QED BY <1>3, <1>6, <1>7, <1>8, <1>10, TimesNone DEF SearchedBy

LEMMA FieldIsSearched ==
    ASSUME SiftGlobals(o), NEW a, NEW done, NEW rest, SearchedBy(a, done, rest), rest # << >>,
           NEW f, f = Head(rest)
    PROVE  SearchedBy(FieldDone(TakeAll(f, a)), done \cup {f}, Tail(rest))
<1>1. PICK P : P = SiftPackages(sys)
  OBVIOUS
<1>2. PICK S : S = Searched
  OBVIOUS
<1>3. a \in SiftAcc(P) /\ rest \in Seq(S) /\ S = done \cup ToSet(rest)
  BY <1>1, <1>2 DEF SearchedBy
<1>4. f \in S /\ Tail(rest) \in Seq(S) /\ ToSet(rest) = {f} \cup ToSet(Tail(rest))
  BY <1>3, HeadTailMembers
<1>5. f \in FieldNames
  BY <1>2, <1>4, FieldsAre DEF Searched
<1>6. IsList(o[f])
  BY <1>5 DEF SiftGlobals
<1>7. PICK H : H = {p \in P : Hit(f, p)}
  OBVIOUS
<1>8. PICK b : b = TakeAll(f, a)
  OBVIOUS
<1>9. Moved(P, a, b, H)
  BY <1>3, <1>6, <1>7, <1>8, TakeAllMoves
<1>10. PICK c : c = FieldDone(b)
  OBVIOUS
<1>11. b \in SiftAcc(P) /\ b.all = a.all
  BY <1>9 DEF Moved
<1>12. PICK more : more = done \cup {f}
  OBVIOUS
<1>13. S = more \cup ToSet(Tail(rest))
  BY <1>3, <1>4, <1>12
<1>14. CASE o.any
  <2>1. c = b
    BY <1>10, <1>14 DEF FieldDone
  <2>2. ASSUME NEW p \in P
        PROVE  /\ Times(c.matches, p) = IF \E g \in more : Hit(g, p) THEN Times(c.all, p) ELSE 0
               /\ Times(c.hay, p) = IF \E g \in more : Hit(g, p) THEN 0 ELSE Times(c.all, p)
    <3>1. PICK all, m, h : all = Times(a.all, p) /\ m = Times(a.matches, p) /\ h = Times(a.hay, p)
      OBVIOUS
    <3>2. all \in Nat
      <4>1. a.all \in Seq(P)
        BY <1>3 DEF SiftAcc
      <4> QED BY <3>1, <4>1, TimesOf
    <3>3. /\ m = (IF \E g \in done : Hit(g, p) THEN all ELSE 0)
          /\ h = (IF \E g \in done : Hit(g, p) THEN 0 ELSE all)
      BY <1>1, <1>14, <3>1 DEF SearchedBy
    <3>4. /\ Times(c.hay, p) = (IF p \in H THEN 0 ELSE h)
          /\ Times(c.matches, p) = (IF p \in H THEN m + h ELSE m)
      BY <1>9, <2>1, <3>1 DEF Moved
    <3>5. p \in H <=> Hit(f, p)
      BY <1>7
    <3>6. Times(c.all, p) = all
      BY <1>11, <2>1, <3>1
    <3> QED BY <1>12, <3>2, <3>3, <3>4, <3>5, <3>6
  <2> QED BY <1>1, <1>2, <1>4, <1>8, <1>10, <1>11, <1>12, <1>13, <1>14, <2>1, <2>2 DEF SearchedBy
<1>15. CASE ~o.any
  <2>1. c = [b EXCEPT !.hay = b.matches, !.matches = << >>]
    BY <1>10, <1>15 DEF FieldDone
  <2>2. PICK bm \in Seq(P) : bm = b.matches
    BY <1>11 DEF SiftAcc
  <2>3. << >> \in Seq(P)
    OBVIOUS
  <2>4. c \in SiftAcc(P) /\ c.all = a.all /\ c.hay = bm /\ c.matches = << >>
    BY <1>11, <2>1, <2>2, <2>3 DEF SiftAcc
  <2>5. ASSUME NEW p \in P
        PROVE  Times(c.hay, p) = IF \A g \in more : Hit(g, p) THEN Times(c.all, p) ELSE 0
    <3>1. PICK all, m, h : all = Times(a.all, p) /\ m = Times(a.matches, p) /\ h = Times(a.hay, p)
      OBVIOUS
    <3>2. all \in Nat
      <4>1. a.all \in Seq(P)
        BY <1>3 DEF SiftAcc
      <4> QED BY <3>1, <4>1, TimesOf
    <3>3. h = (IF \A g \in done : Hit(g, p) THEN all ELSE 0)
      BY <1>1, <1>15, <3>1 DEF SearchedBy
    <3>4. m = 0
      BY <1>15, <3>1, TimesNone DEF SearchedBy
    <3>5. Times(c.hay, p) = (IF p \in H THEN m + h ELSE m)
      BY <1>9, <2>2, <2>4, <3>1 DEF Moved
    <3>6. p \in H <=> Hit(f, p)
      BY <1>7
    <3>7. Times(c.all, p) = all
      BY <2>4, <3>1
    <3> QED BY <1>12, <3>2, <3>3, <3>4, <3>5, <3>6, <3>7
  <2> QED BY <1>1, <1>2, <1>4, <1>8, <1>10, <1>12, <1>13, <1>15, <2>4, <2>5 DEF SearchedBy
<1> QED BY <1>14, <1>15

\* The packages have different names to print.
LEMMA TimesSpec ==
    ASSUME SiftSys, NEW s \in Seq(SiftPackages(sys)), NEW p \in SiftPackages(sys)
    PROVE  Times([i \in DOMAIN s |-> s[i].spec], p.spec) = Times(s, p)
<1>1. PICK u : u = [i \in DOMAIN s |-> s[i].spec]
  OBVIOUS
<1>2. DOMAIN u = DOMAIN s
  BY <1>1
<1>3. ASSUME NEW i \in DOMAIN s PROVE u[i] = p.spec <=> s[i] = p
  <2>1. s[i] \in SiftPackages(sys)
    OBVIOUS
  <2> QED BY <1>1, <2>1 DEF SiftSys
<1>4. {i \in DOMAIN u : u[i] = p.spec} = {i \in DOMAIN s : s[i] = p}
  BY <1>2, <1>3
<1> QED BY <1>1, <1>4 DEF Times

\* What the search found, in a as it is when every field was searched.
ResultOf(a) ==
    CASE o.invert -> Select(a.all, ToSet(a.all) \ ToSet(a.hay))
      [] ~o.invert /\ o.any -> a.matches
      [] OTHER -> a.hay

LEMMA ResultIsMatched ==
    ASSUME SiftGlobals(o), NEW a, NEW done, SearchedBy(a, done, << >>)
    PROVE  /\ ResultOf(a) \in Seq(SiftPackages(sys))
           /\ \A p \in SiftPackages(sys) :
                Times(ResultOf(a), p) = IF Matched(p) # Inverted THEN Times(a.all, p) ELSE 0
<1>1. PICK P : P = SiftPackages(sys)
  OBVIOUS
<1>2. PICK all \in Seq(P), hay \in Seq(P), matches \in Seq(P) :
        all = a.all /\ hay = a.hay /\ matches = a.matches
  BY <1>1 DEF SearchedBy, SiftAcc
<1>3. done = Searched
  <2>1. ToSet(<< >>) = {}
    BY DEF ToSet
  <2> QED BY <2>1 DEF SearchedBy
<1>4. o.any \in BOOLEAN /\ o.invert \in BOOLEAN
  BY DEF SiftGlobals
<1>5. ASSUME NEW p \in P, o.any
      PROVE  /\ Times(matches, p) = IF Matched(p) THEN Times(all, p) ELSE 0
             /\ Times(hay, p) = IF Matched(p) THEN 0 ELSE Times(all, p)
  BY <1>1, <1>2, <1>3, <1>5 DEF SearchedBy, Matched
<1>6. ASSUME NEW p \in P, ~o.any
      PROVE  Times(hay, p) = IF Matched(p) THEN Times(all, p) ELSE 0
  BY <1>1, <1>2, <1>3, <1>6 DEF SearchedBy, Matched
<1>7. CASE o.invert
  <2>1. PICK L : L = ToSet(all) \ ToSet(hay)
    OBVIOUS
  <2>2. ResultOf(a) = Select(all, L)
    BY <1>2, <1>7, <2>1 DEF ResultOf
  <2>3. ASSUME NEW p \in P
        PROVE  Times(Select(all, L), p) = IF Matched(p) # Inverted THEN Times(all, p) ELSE 0
    <3>1. Times(Select(all, L), p) = IF p \in L THEN Times(all, p) ELSE 0
      BY TimesSelect
    <3>2. PICK n, k : n = Times(all, p) /\ k = Times(hay, p)
      OBVIOUS
    <3>3. (n = 0 <=> p \notin ToSet(all)) /\ (k = 0 <=> p \notin ToSet(hay))
      BY <3>2, TimesOf
    <3>4. p \in L <=> p \in ToSet(all) /\ p \notin ToSet(hay)
      BY <2>1
    <3>5. p \in L <=> n # 0 /\ k = 0
      BY <3>3, <3>4
    <3>6. CASE o.any
      <4>1. k = IF Matched(p) THEN 0 ELSE n
        BY <1>5, <3>2, <3>6
      <4>2. (Matched(p) # Inverted) <=> Matched(p)
        BY <3>6 DEF Matched, Inverted
      <4> QED BY <3>1, <3>2, <3>5, <4>1, <4>2
    <3>7. CASE ~o.any
      <4>1. k = IF Matched(p) THEN n ELSE 0
        BY <1>6, <3>2, <3>7
      <4>2. (Matched(p) # Inverted) <=> ~Matched(p)
        BY <1>7, <3>7 DEF Matched, Inverted
      <4> QED BY <3>1, <3>2, <3>5, <4>1, <4>2
    <3> QED BY <3>6, <3>7
  <2>4. Select(all, L) \in Seq(P)
    BY SelectList
  <2> QED BY <1>1, <1>2, <2>2, <2>3, <2>4
<1>8. CASE ~o.invert
  <2>1. \A p \in P : (Matched(p) # Inverted) <=> Matched(p)
    BY <1>4, <1>8 DEF Matched, Inverted
  <2>2. CASE o.any
    <3>1. ResultOf(a) = matches
      BY <1>2, <1>8, <2>2 DEF ResultOf
    <3> QED BY <1>1, <1>2, <1>5, <2>1, <2>2, <3>1
  <2>3. CASE ~o.any
    <3>1. ResultOf(a) = hay
      BY <1>2, <1>8, <2>3 DEF ResultOf
    <3> QED BY <1>1, <1>2, <1>6, <2>1, <2>3, <3>1
  <2> QED BY <2>2, <2>3
<1> QED BY <1>7, <1>8

SiftAnswered(a, lines, status) ==
    /\ \A p \in ToSet(a.all) :
         Times(lines, p.spec) =
           IF Matched(p) # Inverted
           THEN Times([i \in DOMAIN a.all |-> a.all[i].spec], p.spec) ELSE 0
    /\ \A p \in ToSet(a.all) : p.spec \in ToSet(lines) <=> Matched(p) # Inverted
    /\ ToSet(lines) \subseteq {p.spec : p \in ToSet(a.all)}
    /\ status = 0 <=> /\ o.exists = "some" => lines # << >>
                      /\ o.exists = "none" => lines = << >>

LEMMA PrintsMatched ==
    ASSUME SiftSys, SiftGlobals(o), NEW a, NEW done, SearchedBy(a, done, << >>),
           NEW r, r = ResultOf(a), NEW lines, lines = [i \in DOMAIN r |-> r[i].spec],
           NEW status, status = IF CASE o.exists = "some" -> r = << >>
                                     [] o.exists = "none" -> r # << >>
                                     [] OTHER -> FALSE
                                THEN 1 ELSE 0
    PROVE  SiftAnswered(a, lines, status)
<1>1. PICK P : P = SiftPackages(sys)
  OBVIOUS
<1>2. PICK all \in Seq(P) : all = a.all
  BY <1>1 DEF SearchedBy, SiftAcc
<1>3. /\ r \in Seq(P)
      /\ \A p \in P : Times(r, p) = IF Matched(p) # Inverted THEN Times(all, p) ELSE 0
  BY <1>1, <1>2, ResultIsMatched
<1>4. ToSet(all) \subseteq P
  BY MembersOfList
<1>5. ASSUME NEW p \in ToSet(all)
      PROVE  Times(lines, p.spec) =
               IF Matched(p) # Inverted
               THEN Times([i \in DOMAIN all |-> all[i].spec], p.spec) ELSE 0
  <2>1. p \in P
    BY <1>4
  <2>2. Times([i \in DOMAIN all |-> all[i].spec], p.spec) = Times(all, p)
    BY <1>1, <2>1, TimesSpec
  <2>3. Times(lines, p.spec) = Times(r, p)
    BY <1>1, <1>3, <2>1, TimesSpec
  <2> QED BY <1>3, <2>1, <2>2, <2>3
<1>6. ToSet(lines) \subseteq {p.spec : p \in ToSet(all)}
  <2> SUFFICES ASSUME NEW i \in DOMAIN r PROVE r[i] \in ToSet(all)
    BY DEF ToSet
  <2>1. PICK p \in P : p = r[i]
    BY <1>3
  <2>2. p \in ToSet(r)
    BY <2>1 DEF ToSet
  <2>3. Times(r, p) # 0
    BY <1>3, <2>2, TimesOf
  <2>4. Times(all, p) # 0
    BY <1>3, <2>3
  <2> QED BY <2>1, <2>4, TimesOf
<1>7. lines = << >> <=> r = << >>
  BY <1>3
<1>8. status = 0 <=> /\ o.exists = "some" => lines # << >>
                     /\ o.exists = "none" => lines = << >>
  BY <1>7
<1>9. ASSUME NEW p \in ToSet(all)
      PROVE  p.spec \in ToSet(lines) <=> Matched(p) # Inverted
  <2>1. p \in P
    BY <1>4
  <2>2. Times(lines, p.spec) = IF Matched(p) # Inverted THEN Times(all, p) ELSE 0
    <3>1. Times(lines, p.spec) = Times(r, p)
      BY <1>1, <1>3, <2>1, TimesSpec
    <3> QED BY <1>3, <2>1, <3>1
  <2>3. Times(all, p) # 0
    BY TimesOf
  <2>4. PICK T : lines \in Seq(T)
    <3>1. PICK n \in Nat : n = Len(r) /\ DOMAIN r = 1..n
      BY <1>3
    <3>2. PICK T : T = {r[i].spec : i \in 1..n}
      OBVIOUS
    <3>3. lines \in [1..n -> T]
      BY <3>1, <3>2
    <3>4. lines \in Seq(T)
      BY <3>3
    <3> QED BY <3>4
  <2>5. Times(lines, p.spec) = 0 <=> p.spec \notin ToSet(lines)
    BY <2>4, TimesOf
  <2> QED BY <2>2, <2>3, <2>5
<1> QED BY <1>2, <1>5, <1>6, <1>8, <1>9 DEF SiftAnswered

-----------------------------------------------------------------------------
(***************************************************************************)
(* pacsift: the inductive invariant.                                       *)
(***************************************************************************)

FilterInv ==
    \E a, done, rest : a = acc /\ rest = todo /\ SearchedBy(a, done, rest)

SiftExit ==
    \/ o = None \/ acc = None \/ todo # << >>
    \/ \E a, lines, status :
         a = acc /\ lines = out /\ status = ret /\ SiftAnswered(a, lines, status)

\* o holds the terms of the command line, the sizes as parse_size reads them.
SizeRead(t, garbage) == [cmp |-> t.cmp, number |-> Bytes(t, garbage)]

ReadAs(read, parsed) ==
    /\ read.invert \in BOOLEAN
    /\ \E garbage : \A f \in FieldNames :
         read[f] = IF f \in ToSet(SizeFields)
                   THEN [i \in DOMAIN parsed[f] |-> SizeRead(parsed[f][i], garbage)] ELSE parsed[f]

OptionsRead ==
    \E read, parsed : read = o /\ parsed = SiftParsed /\ ReadAs(read, parsed)

SiftInv ==
    tool = "pacsift" =>
      /\ SiftSys
      /\ pc = "start" => Accepts(SiftOptions, argv) /\ o = None /\ acc = None
      /\ pc # "start" /\ o # None => OptionsRead
      /\ pc \in {"load", "filter"} => SiftGlobals(o)
      /\ pc = "load" => acc = None
      /\ pc = "filter" => FilterInv
      /\ pc = "exited" => SiftExit

LEMMA SiftBegins == Init => SiftInv
<1> SUFFICES ASSUME Init, tool = "pacsift"
             PROVE  /\ SiftSys /\ Accepts(SiftOptions, argv)
                    /\ o = None /\ acc = None /\ pc = "start"
  BY DEF SiftInv
<1>1. PICK r \in SiftRuns : argv = r.argv /\ sys = r.sys /\ pc = "start" /\ o = None /\ acc = None
  BY DEF Init, Started
<1>2. /\ Accepts(SiftOptions, r.argv)
      /\ IsList(r.sys.local) /\ IsList(r.sys.cache) /\ IsList(r.sys.sync)
      /\ \A db \in ToSet(r.sys.sync) : IsList(db.pkgs)
      /\ r.sys.stdin # None => IsList(r.sys.stdin)
      /\ \A p, q \in SiftPackages(r.sys) : p.spec = q.spec => p = q
  BY SiftRunsAssumption
<1> QED BY <1>1, <1>2 DEF SiftSys

\* What is said of the search stays true while the system and the options do.
LEMMA SameSearch ==
    ASSUME sys' = sys, o' = o
    PROVE  /\ SiftSys => SiftSys'
           /\ SiftGlobals(o) => SiftGlobals(o)'
           /\ \A a, done, rest : SearchedBy(a, done, rest) => SearchedBy(a, done, rest)'
           /\ \A a, lines, status :
                SiftAnswered(a, lines, status) => SiftAnswered(a, lines, status)'
<1>1. SiftSys => SiftSys'
  BY DEF SiftSys, SiftPackages
<1>2. SiftGlobals(o) => SiftGlobals(o)'
  BY DEF SiftGlobals
<1>3. SiftPackages(sys)' = SiftPackages(sys)
  BY DEF SiftPackages
<1>4. ASSUME NEW f, NEW t, NEW p PROVE Matches(f, t, p)' <=> Matches(f, t, p)
  BY DEF Matches, MatchesWord, MatchesDepend, Unrooted
<1>5. ASSUME NEW f, NEW p PROVE Hit(f, p)' <=> Hit(f, p)
  BY <1>4 DEF Hit
<1>6. Searched' = Searched
  BY DEF Searched
<1>7. ASSUME NEW p PROVE Matched(p)' <=> Matched(p)
  BY <1>5, <1>6 DEF Matched
<1>8. ASSUME NEW a, NEW done, NEW rest, SearchedBy(a, done, rest)
      PROVE  SearchedBy(a, done, rest)'
  BY <1>3, <1>5, <1>6, <1>8 DEF SearchedBy
<1>9. ASSUME NEW a, NEW lines, NEW status, SiftAnswered(a, lines, status)
      PROVE  SiftAnswered(a, lines, status)'
  BY <1>7, <1>9 DEF SiftAnswered, Inverted
<1> QED BY <1>1, <1>2, <1>8, <1>9

LEMMA SameOptions ==
    ASSUME argv' = argv, o' = o, OptionsRead
    PROVE  OptionsRead'
<1>1. SiftParsed' = SiftParsed
  BY DEF SiftParsed, Parse
<1> QED BY <1>1 DEF OptionsRead

LEMMA SizesReadFields ==
    ASSUME NEW V, NEW W, NEW g \in SiftParses(V, W), NEW garbage, NEW f \in FieldNames,
           NEW read, \/ read = SizesRead(g, garbage)
                     \/ read = [SizesRead(g, garbage) EXCEPT !.dbext = "files"]
    PROVE  read[f] = IF f \in ToSet(SizeFields)
                     THEN [i \in DOMAIN g[f] |-> SizeRead(g[f][i], garbage)] ELSE g[f]
<1>1. PICK D : D = DOMAIN g
  OBVIOUS
<1>2. f \in D /\ f # "dbext"
  BY <1>1 DEF SiftParses, FieldNames
<1>3. PICK h : h = SizesRead(g, garbage)
  OBVIOUS
<1>4. h = [x \in D |-> IF x \notin ToSet(SizeFields) THEN g[x]
                      ELSE [i \in DOMAIN g[x] |-> SizeRead(g[x][i], garbage)]]
  BY <1>1, <1>3 DEF SizesRead, SizeRead
<1>5. h[f] = IF f \in ToSet(SizeFields)
             THEN [i \in DOMAIN g[f] |-> SizeRead(g[f][i], garbage)] ELSE g[f]
  BY <1>2, <1>4
<1>6. f \in DOMAIN h
  BY <1>2, <1>4
<1>7. read[f] = h[f]
  BY <1>2, <1>3, <1>6
<1> QED BY <1>5, <1>7

LEMMA SiftSetsUp ==
    ASSUME Accepts(SiftOptions, argv), SiftSetup, o = None, acc = None
    PROVE  /\ \/ pc' = "exited" /\ SiftExit'
              \/ pc' = "failed"
              \/ pc' = "load" /\ SiftGlobals(o') /\ acc' = None
           /\ o' # None => OptionsRead'
<1>1. CASE BadNumbers(SiftParsed)
  <2>1. pc' = "exited" /\ o' = None
    BY <1>1 DEF SiftSetup, Exit, Stays
  <2> QED BY <2>1 DEF SiftExit
<1>2. CASE ~BadNumbers(SiftParsed)
  <2>1. PICK V, W : SiftParsed \in SiftParses(V, W)
    BY SiftParsedGlobals
  <2>2. PICK g \in SiftParses(V, W) : g = SiftParsed
    BY <2>1
  <2>3. PICK garbage \in Garbage :
          Setup("pacsift",
                IF SizesRead(g, garbage).ownsfile # << >> /\ SizesRead(g, garbage).dbext = None
                THEN [SizesRead(g, garbage) EXCEPT !.dbext = "files"] ELSE SizesRead(g, garbage),
                "load", {0, 1})
    BY <1>2, <2>2, Zenon DEF SiftSetup
  <2>4. \/ o' = SizesRead(g, garbage)
        \/ o' = [SizesRead(g, garbage) EXCEPT !.dbext = "files"]
    BY <2>3, Zenon DEF Setup
  <2>5. SiftGlobals(o')
    <3>1. PICK read, files : /\ read = SizesRead(g, garbage)
                             /\ files = [SizesRead(g, garbage) EXCEPT !.dbext = "files"]
      OBVIOUS
    <3>2. SiftGlobals(read) /\ SiftGlobals(files)
      BY <3>1, SizesReadLists
    <3>3. o' = read \/ o' = files
      BY <2>4, <3>1
    <3> QED BY <3>2, <3>3
  <2>6. acc' = acc /\ argv' = argv /\ pc' \in {"load", "failed"}
    BY <2>3 DEF Setup
  <2>7. OptionsRead'
    <3>1. SiftParsed' = g
      BY <2>2, <2>6 DEF SiftParsed, Parse
    <3>2. PICK read : read = o'
      OBVIOUS
    <3>3. \A f \in FieldNames :
            read[f] = IF f \in ToSet(SizeFields)
                      THEN [i \in DOMAIN g[f] |-> SizeRead(g[f][i], garbage)] ELSE g[f]
      BY <2>4, <3>2, SizesReadFields
    <3>4. read.invert \in BOOLEAN
      BY <2>5, <3>2 DEF SiftGlobals
    <3>5. ReadAs(read, g)
      BY <3>3, <3>4 DEF ReadAs
    <3> QED BY <3>1, <3>2, <3>5 DEF OptionsRead
  <2> QED BY <2>5, <2>6, <2>7
<1> QED BY <1>1, <1>2

LEMMA SiftLoads ==
    ASSUME SiftSys, SiftGlobals(o), acc = None, SiftLoad
    PROVE  \/ pc' = "exited" /\ SiftExit'
           \/ pc' = "filter" /\ FilterInv'
<1>1. sys' = sys /\ o' = o
  BY DEF SiftLoad, Stays
<1>2. CASE sys.stdin # None /\ ~ByDefault
  <2>1. pc' = "exited" /\ acc' = None
    BY <1>2 DEF SiftLoad, Exit
  <2> QED BY <2>1 DEF SiftExit
<1>3. CASE ~(sys.stdin # None /\ ~ByDefault)
  <2>1. PICK h \in Seq(SiftPackages(sys)) : h = Haystack
    BY HaystackIs
  <2>2. PICK a, rest : /\ a = [all |-> h, hay |-> h, matches |-> << >>]
                       /\ rest = Select(Fields, {f \in ToSet(Fields) : o[f] # << >>})
    OBVIOUS
  <2>3. acc' = a /\ todo' = rest /\ pc' = "filter"
    BY <1>3, <2>1, <2>2 DEF SiftLoad, Goto
  <2>4. PICK none : none = {}
    OBVIOUS
  <2>5. SearchedBy(a, none, rest)
    BY <2>2, <2>4, SearchStarts
  <2>6. SearchedBy(a, none, rest)'
    BY <1>1, <2>5, SameSearch
  <2> QED BY <2>3, <2>6 DEF FilterInv
<1> QED BY <1>2, <1>3

LEMMA SiftFilters ==
    ASSUME SiftGlobals(o), FilterInv, pc = "filter", FilterField
    PROVE  \/ pc' = "exited" /\ SiftExit'
           \/ pc' = "filter" /\ FilterInv'
<1>1. sys' = sys /\ o' = o /\ todo # << >>
  BY DEF FilterField, Stays
<1>2. PICK a, done, rest : a = acc /\ rest = todo /\ SearchedBy(a, done, rest)
  BY DEF FilterInv
<1>3. PICK f : f = Head(rest)
  OBVIOUS
<1>4. CASE \E t \in ToSet(o[f]) : Unreadable(f, t)
  <2>1. pc' = "exited" /\ todo' = todo
    BY <1>2, <1>3, <1>4 DEF FilterField, Exit
  <2> QED BY <1>1, <2>1 DEF SiftExit
<1>5. CASE ~\E t \in ToSet(o[f]) : Unreadable(f, t)
  <2>1. PICK b, more, left : /\ b = FieldDone(TakeAll(f, a)) /\ more = done \cup {f}
                             /\ left = Tail(rest)
    OBVIOUS
  <2>2. acc' = b /\ todo' = left /\ pc' = "filter"
    BY <1>2, <1>3, <1>5, <2>1 DEF FilterField
  <2>3. SearchedBy(b, more, left)
    BY <1>1, <1>2, <1>3, <2>1, FieldIsSearched
  <2>4. SearchedBy(b, more, left)'
    BY <1>1, <2>3, SameSearch
  <2> QED BY <2>2, <2>4 DEF FilterInv
<1> QED BY <1>4, <1>5

LEMMA SiftPrints ==
    ASSUME SiftSys, SiftGlobals(o), FilterInv, SiftPrint
    PROVE  pc' = "exited" /\ SiftExit'
<1>1. sys' = sys /\ o' = o /\ todo = << >> /\ acc' = acc /\ pc' = "exited"
  BY DEF SiftPrint, Stays, Exit
<1>2. PICK a, done, rest : a = acc /\ rest = todo /\ SearchedBy(a, done, rest)
  BY DEF FilterInv
<1>3. SearchedBy(a, done, << >>)
  BY <1>1, <1>2
<1>4. PICK r : r = ResultOf(a)
  OBVIOUS
<1>5. SiftResult = r
  BY <1>2, <1>4 DEF SiftResult, ResultOf
<1>6. PICK lines, status : /\ lines = [i \in DOMAIN r |-> r[i].spec]
                           /\ status = IF CASE o.exists = "some" -> r = << >>
                                            [] o.exists = "none" -> r # << >>
                                            [] OTHER -> FALSE
                                       THEN 1 ELSE 0
  OBVIOUS
<1>7. out' = lines /\ ret' = status
  BY <1>5, <1>6 DEF SiftPrint, Exit
<1>8. SiftAnswered(a, lines, status)
  BY <1>3, <1>4, <1>6, PrintsMatched
<1>9. SiftAnswered(a, lines, status)'
  BY <1>1, <1>8, SameSearch
<1>10. a = acc'
  BY <1>1, <1>2
<1> QED BY <1>1, <1>7, <1>9, <1>10 DEF SiftExit

LEMMA SiftSteps ==
    ASSUME SiftInv, SiftStep
    PROVE  SiftInv'
<1>1. tool = "pacsift" /\ tool' = tool
  BY OwnSteps
<1>2. SiftSys
  BY <1>1 DEF SiftInv
<1>3. CASE SiftSetup
  <2>1. pc = "start"
    BY <1>3 DEF SiftSetup, Setup
  <2>2. sys' = sys
    BY <1>3 DEF SiftSetup, Setup, Stays
  <2>3. Accepts(SiftOptions, argv) /\ o = None /\ acc = None
    BY <1>1, <2>1 DEF SiftInv
  <2>4. \/ pc' = "exited" /\ SiftExit'
        \/ pc' = "failed"
        \/ pc' = "load" /\ SiftGlobals(o') /\ acc' = None
    BY <1>3, <2>3, SiftSetsUp
  <2>6. o' # None => OptionsRead'
    BY <1>3, <2>3, SiftSetsUp
  <2>5. SiftSys'
    BY <1>2, <2>2 DEF SiftSys, SiftPackages
  <2>7. pc' # "start"
    BY <2>4
  <2> QED BY <2>4, <2>5, <2>6, <2>7 DEF SiftInv
<1>4. CASE SiftLoad
  <2>1. pc = "load" /\ sys' = sys /\ o' = o /\ argv' = argv
    BY <1>4 DEF SiftLoad, At, Stays
  <2>2. SiftGlobals(o) /\ acc = None
    BY <1>1, <2>1 DEF SiftInv
  <2>3. \/ pc' = "exited" /\ SiftExit'
        \/ pc' = "filter" /\ FilterInv'
    BY <1>2, <1>4, <2>2, SiftLoads
  <2>4. SiftSys' /\ SiftGlobals(o)'
    BY <1>2, <2>1, <2>2, SameSearch
  <2>5. o' # None => OptionsRead'
    BY <1>1, <2>1, SameOptions DEF SiftInv
  <2> QED BY <2>3, <2>4, <2>5 DEF SiftInv
<1>5. CASE FilterField
  <2>1. pc = "filter" /\ sys' = sys /\ o' = o /\ argv' = argv
    BY <1>5 DEF FilterField, At, Stays
  <2>2. SiftGlobals(o) /\ FilterInv
    BY <1>1, <2>1 DEF SiftInv
  <2>3. \/ pc' = "exited" /\ SiftExit'
        \/ pc' = "filter" /\ FilterInv'
    BY <1>5, <2>1, <2>2, SiftFilters
  <2>4. SiftSys' /\ SiftGlobals(o)'
    BY <1>2, <2>1, <2>2, SameSearch
  <2>5. o' # None => OptionsRead'
    BY <1>1, <2>1, SameOptions DEF SiftInv
  <2> QED BY <2>3, <2>4, <2>5 DEF SiftInv
<1>6. CASE SiftPrint
  <2>1. pc = "filter" /\ sys' = sys /\ o' = o /\ argv' = argv
    BY <1>6 DEF SiftPrint, At, Stays
  <2>2. SiftGlobals(o) /\ FilterInv
    BY <1>1, <2>1 DEF SiftInv
  <2>3. pc' = "exited" /\ SiftExit'
    BY <1>2, <1>6, <2>2, SiftPrints
  <2>4. SiftSys'
    BY <1>2, <2>1, SameSearch
  <2>5. o' # None => OptionsRead'
    BY <1>1, <2>1, SameOptions DEF SiftInv
  <2> QED BY <2>3, <2>4, <2>5 DEF SiftInv
<1> QED BY <1>3, <1>4, <1>5, <1>6 DEF SiftStep

LEMMA SiftStutters ==
    ASSUME SiftInv, UNCHANGED toolVars
    PROVE  SiftInv'
<1>1. /\ sys' = sys /\ o' = o /\ todo' = todo /\ acc' = acc /\ pc' = pc /\ tool' = tool /\ argv' = argv
      /\ ret' = ret /\ out' = out
  BY DEF toolVars
<1>2. FilterInv => FilterInv'
  BY <1>1, SameSearch DEF FilterInv
<1>3. SiftExit => SiftExit'
  BY <1>1, SameSearch DEF SiftExit
<1>4. (SiftSys => SiftSys') /\ (SiftGlobals(o) => SiftGlobals(o)')
  BY <1>1, SameSearch
<1>5. OptionsRead => OptionsRead'
  BY <1>1, SameOptions
<1> QED BY <1>1, <1>2, <1>3, <1>4, <1>5 DEF SiftInv

LEMMA SiftHolds == Spec => []SiftInv
<1>1. SiftInv /\ [Next]_toolVars => SiftInv'
  <2> SUFFICES ASSUME SiftInv, [Next]_toolVars PROVE SiftInv'
    OBVIOUS
  <2>1. CASE ReportStep \/ CheckStep \/ RepairFileStep \/ SyncStep
    <3>1. tool' # "pacsift"
      BY <2>1, OwnSteps
    <3> QED BY <3>1 DEF SiftInv
  <2>2. CASE SiftStep
    BY <2>2, SiftSteps
  <2>3. CASE UNCHANGED toolVars
    BY <2>3, SiftStutters
  <2> QED BY <2>1, <2>2, <2>3 DEF Next, Finished
<1> QED BY <1>1, SiftBegins, PTL DEF Spec

\* Under AsDocumented the program finds what the search is for: every term is read as it
\* is meant.
LEMMA FieldIsMeant ==
    ASSUME OptionsRead, AsDocumented, NEW p \in ToSet(acc.all), NEW f \in FieldNames
    PROVE  Hit(f, p) <=> \E t \in Meant(f) : IsMeant(f, t, p)
<1>1. PICK s : s = SiftParsed[f]
  OBVIOUS
<1>2. PICK garbage :
        o[f] = IF f \in ToSet(SizeFields)
               THEN [i \in DOMAIN s |-> SizeRead(s[i], garbage)] ELSE s
  BY <1>1 DEF OptionsRead, ReadAs
<1>3. ToSet(o[f]) = Meant(f)
  <2>1. CASE f \notin ToSet(SizeFields)
    BY <1>1, <1>2, <2>1 DEF Meant
  <2>2. CASE f \in ToSet(SizeFields)
    <3>1. o[f] = [i \in DOMAIN s |-> SizeRead(s[i], garbage)]
      BY <1>2, <2>2
    <3>2. ToSet(o[f]) = {SizeRead(t, garbage) : t \in ToSet(s)}
      BY <3>1 DEF ToSet
    <3>3. Meant(f) = {SizeRead(t, t.number) : t \in ToSet(s)}
      BY <1>1, <2>2 DEF Meant, SizeRead
    <3>4. ASSUME NEW t \in ToSet(s) PROVE SizeRead(t, garbage) = SizeRead(t, t.number)
      <4>1. t.number = 0 \/ t.unit # None
        BY <1>1, <2>2 DEF AsDocumented
      <4>2. Bytes(t, garbage) = Bytes(t, t.number)
        BY <4>1 DEF Bytes
      <4> QED BY <4>2 DEF SizeRead
    <3> QED BY <3>2, <3>3, <3>4
  <2> QED BY <2>1, <2>2
<1>4. ASSUME NEW t \in Meant(f) PROVE IsMeant(f, t, p) <=> Matches(f, t, p)
  <2>1. CASE ~(f \in ToSet(WordFields) /\ o.exact /\ ~o.re)
    BY <2>1 DEF IsMeant
  <2>2. CASE f \in ToSet(WordFields) /\ o.exact /\ ~o.re
    <3>1. Matches(f, t, p) <=> MatchesWord(f, t, p)
      <4>1. f \in {"name", "base", "description", "packager", "repo", "arch", "group",
                   "license", "ownsfile", "url"}
        BY <2>2 DEF WordFields, ToSet
      <4>2. /\ ToSet(SizeFields) = {"isize", "dsize", "size"}
            /\ ToSet(DateFields) = {"builddate", "installdate"}
            /\ ToSet(DependFields) = {"provides", "depends", "optdepends", "conflicts", "replaces"}
        BY DEF SizeFields, DateFields, DependFields, ToSet
      <4>3. ToSet(SizeFields \o DateFields) = ToSet(SizeFields) \cup ToSet(DateFields)
        <5>1. SizeFields \in Seq(FieldNames) /\ DateFields \in Seq(FieldNames)
          BY DEF SizeFields, DateFields, FieldNames
        <5> QED BY <5>1, ConcatMembers
      <4>4. /\ f \notin ToSet(SizeFields \o DateFields) /\ f \notin ToSet(DependFields)
            /\ f # "satisfies"
        BY <4>1, <4>2, <4>3
      <4> QED BY <2>2, <4>4 DEF Matches
    <3>2. CASE f \in {"group", "license", "ownsfile"}
      BY <2>2, <3>1, <3>2 DEF IsMeant, MatchesWord
    <3>3. CASE f \notin {"group", "license", "ownsfile"}
      <4>1. Matches(f, t, p) <=> \E w \in p.words[f] : t = w \/ <<t, w>> \in SameLetters
        BY <2>2, <3>1, <3>3 DEF MatchesWord
      <4>2. \A w \in p.words[f] : <<t, w>> \in SameLetters => t = w
        BY <2>2, <3>3 DEF AsDocumented
      <4>3. IsMeant(f, t, p) <=> t \in p.words[f]
        BY <2>2, <3>3 DEF IsMeant
      <4> QED BY <4>1, <4>2, <4>3
    <3> QED BY <3>2, <3>3
  <2> QED BY <2>1, <2>2
<1> QED BY <1>3, <1>4 DEF Hit

LEMMA FindsSought ==
    ASSUME OptionsRead, AsDocumented, NEW p \in ToSet(acc.all)
    PROVE  (Matched(p) # Inverted) <=> (Sought(p) # o.invert)
<1>1. \A f \in Searched : f \in FieldNames
  BY FieldsAre DEF Searched
<1>2. \A f \in Searched : Hit(f, p) <=> \E t \in Meant(f) : IsMeant(f, t, p)
  BY <1>1, FieldIsMeant
<1>3. Matched(p) <=> Sought(p)
  BY <1>2 DEF Matched, Sought
<1>4. o.invert \in BOOLEAN /\ ~(o.any /\ o.invert)
  BY DEF OptionsRead, ReadAs, AsDocumented
<1>5. CASE o.invert
  <2>1. o.invert = TRUE /\ ~o.any
    BY <1>4, <1>5
  <2>2. (Matched(p) # Inverted) <=> ~Matched(p)
    BY <1>5, <2>1 DEF Matched, Inverted
  <2>3. (Sought(p) # o.invert) <=> ~Sought(p)
    BY <2>1 DEF Sought
  <2> QED BY <1>3, <2>2, <2>3
<1>6. CASE ~o.invert
  <2>1. o.invert = FALSE
    BY <1>4, <1>6
  <2>2. (Matched(p) # Inverted) <=> Matched(p)
    BY <1>6 DEF Matched, Inverted
  <2>3. (Sought(p) # o.invert) <=> Sought(p)
    BY <2>1 DEF Sought
  <2> QED BY <1>3, <2>2, <2>3
<1> QED BY <1>5, <1>6

\* pacsift prints a package of the haystack as often as the haystack has it or not at all,
\* and nothing else, and its status answers --exists and --not-exists, with any switches.
\* It prints the packages that the search is for, or with --invert the others, where the
\* program does what its manual says (AsDocumented names the three cases in which it does
\* not): the terms of a field are alternatives although each takes its matches away from
\* the next, and the fields restrict each other, or with --any do not.
THEOREM SearchIsAnswered == Spec => []SiftIsSearch
<1>1. SiftInv => SiftIsSearch
  <2> SUFFICES ASSUME SiftInv, At("pacsift", "exited"), o # None, acc # None, todo = << >>
               PROVE  SiftIsSearch
    BY DEF SiftIsSearch
  <2>1. SiftExit /\ OptionsRead
    BY DEF SiftInv, At
  <2>2. SiftAnswered(acc, out, ret)
    BY <2>1 DEF SiftExit
  <2>3. ASSUME NEW p \in ToSet(acc.all)
        PROVE  Times(out, p.spec)
                 \in {0, Times([i \in DOMAIN acc.all |-> acc.all[i].spec], p.spec)}
    BY <2>2 DEF SiftAnswered
  <2>4. ASSUME AsDocumented, NEW p \in ToSet(acc.all)
        PROVE  p.spec \in ToSet(out) <=> Sought(p) # o.invert
    <3>1. p.spec \in ToSet(out) <=> Matched(p) # Inverted
      BY <2>2 DEF SiftAnswered
    <3> QED BY <2>1, <2>4, <3>1, FindsSought
  <2>5. /\ ToSet(out) \subseteq {p.spec : p \in ToSet(acc.all)}
        /\ ret = 0 <=> /\ o.exists = "some" => out # << >>
                       /\ o.exists = "none" => out = << >>
    BY <2>2 DEF SiftAnswered
  <2> QED BY <2>3, <2>4, <2>5 DEF SiftIsSearch
<1> QED BY <1>1, SiftHolds, PTL

-----------------------------------------------------------------------------
(***************************************************************************)
(* pacsync: the downloads that run and those the callback knows of.        *)
(***************************************************************************)

LEMMA RemoveAtIs ==
    ASSUME NEW T, NEW s \in Seq(T), NEW k \in 1..Len(s)
    PROVE  /\ RemoveAt(s, k) \in Seq(T) /\ Len(RemoveAt(s, k)) = Len(s) - 1
           /\ \A j \in 1..(Len(s) - 1) : RemoveAt(s, k)[j] = IF j < k THEN s[j] ELSE s[j + 1]
<1>1. PICK n \in Nat : n = Len(s)
  OBVIOUS
<1>2. k \in Nat /\ 1 <= k /\ k <= n
  BY <1>1
<1>3. /\ SubSeq(s, 1, k - 1) \in Seq(T) /\ Len(SubSeq(s, 1, k - 1)) = k - 1
      /\ \A i \in 1..(k - 1) : SubSeq(s, 1, k - 1)[i] = s[i]
  <2>1. \A i \in 1..(k - 1) : s[i] \in T
    BY <1>1, <1>2
  <2> QED BY <1>2, <2>1, SubSeqProperties
<1>4. /\ SubSeq(s, k + 1, n) \in Seq(T) /\ Len(SubSeq(s, k + 1, n)) = n - k
      /\ \A i \in 1..(n - k) : SubSeq(s, k + 1, n)[i] = s[k + i]
  <2>1. \A i \in (k + 1)..n : s[i] \in T
    BY <1>1, <1>2
  <2>2. /\ SubSeq(s, k + 1, n) \in Seq(T)
        /\ Len(SubSeq(s, k + 1, n)) = IF k + 1 <= n THEN n - (k + 1) + 1 ELSE 0
        /\ \A i \in 1..(n - (k + 1) + 1) : SubSeq(s, k + 1, n)[i] = s[(k + 1) + i - 1]
    BY <1>2, <2>1, SubSeqProperties
  <2>3. n - (k + 1) + 1 = n - k /\ \A i \in 1..(n - k) : (k + 1) + i - 1 = k + i
    BY <1>2
  <2> QED BY <1>2, <2>2, <2>3
<1>5. PICK a \in Seq(T), b \in Seq(T) : a = SubSeq(s, 1, k - 1) /\ b = SubSeq(s, k + 1, n)
  BY <1>3, <1>4
<1>6. /\ a \o b \in Seq(T) /\ Len(a \o b) = Len(a) + Len(b)
      /\ \A i \in 1..(Len(a) + Len(b)) : (a \o b)[i] = IF i <= Len(a) THEN a[i] ELSE b[i - Len(a)]
  BY ConcatProperties
<1>7. RemoveAt(s, k) = a \o b
  BY <1>1, <1>5 DEF RemoveAt
<1>8. Len(a) = k - 1 /\ Len(b) = n - k
  BY <1>3, <1>4, <1>5
<1>9. PICK r \in Seq(T) : r = a \o b
  BY <1>6
<1>10. ASSUME NEW j \in 1..(n - 1) PROVE r[j] = IF j < k THEN s[j] ELSE s[j + 1]
  <2>1. r[j] = IF j <= k - 1 THEN a[j] ELSE b[j - (k - 1)]
    <3>1. j \in 1..(Len(a) + Len(b))
      BY <1>2, <1>8
    <3>2. r[j] = IF j <= Len(a) THEN a[j] ELSE b[j - Len(a)]
      BY <1>6, <1>9, <3>1
    <3> QED BY <1>8, <3>2
  <2>2. CASE j < k
    <3>1. j \in 1..(k - 1) /\ j <= k - 1
      BY <1>2, <2>2
    <3>2. a[j] = s[j]
      BY <1>3, <1>5, <3>1
    <3> QED BY <2>1, <2>2, <3>1, <3>2
  <2>3. CASE ~(j < k)
    <3>1. j - (k - 1) \in 1..(n - k) /\ k + (j - (k - 1)) = j + 1
      BY <1>2, <2>3
    <3>2. b[j - (k - 1)] = s[j + 1]
      BY <1>4, <1>5, <3>1
    <3> QED BY <1>2, <2>1, <2>3, <3>2
  <2> QED BY <2>2, <2>3
<1>11. Len(r) = n - 1
  BY <1>2, <1>6, <1>8, <1>9
<1>12. RemoveAt(s, k) = r
  BY <1>7, <1>9
<1> QED BY <1>1, <1>10, <1>11, <1>12

LEMMA TimesRemoved ==
    ASSUME NEW T, NEW s \in Seq(T), NEW k \in 1..Len(s), NEW x
    PROVE  Times(s, x) = Times(RemoveAt(s, k), x) + (IF s[k] = x THEN 1 ELSE 0)
<1>1. PICK n \in Nat : n = Len(s)
  OBVIOUS
<1>2. PICK r \in Seq(T) : /\ r = RemoveAt(s, k) /\ Len(r) = n - 1
                          /\ \A j \in 1..(n - 1) : r[j] = IF j < k THEN s[j] ELSE s[j + 1]
  BY <1>1, RemoveAtIs
<1>3. k \in Nat /\ 1 <= k /\ k <= n
  BY <1>1
<1>4. PICK S, R : S = {i \in 1..n : s[i] = x} /\ R = {i \in 1..(n - 1) : r[i] = x}
  OBVIOUS
<1>5. Times(s, x) = Cardinality(S) /\ Times(RemoveAt(s, k), x) = Cardinality(R)
  <2>1. {i \in DOMAIN s : s[i] = x} = S /\ {i \in DOMAIN r : r[i] = x} = R
    BY <1>1, <1>2, <1>4
  <2> QED BY <1>2, <2>1 DEF Times
<1>6. IsFiniteSet(S) /\ IsFiniteSet(R)
  <2>1. IsFiniteSet(1..n) /\ IsFiniteSet(1..(n - 1))
    BY <1>1, FS_Interval
  <2>2. S \in SUBSET (1..n) /\ R \in SUBSET (1..(n - 1))
    BY <1>4
  <2> QED BY <2>1, <2>2, FS_Subset
<1>7. PICK f : f = [i \in R |-> IF i < k THEN i ELSE i + 1]
  OBVIOUS
<1>8. f \in [R -> S \ {k}]
  <2> SUFFICES ASSUME NEW i \in R PROVE (IF i < k THEN i ELSE i + 1) \in S \ {k}
    BY <1>7
  <2>1. i \in 1..(n - 1) /\ r[i] = x
    BY <1>4
  <2>2. i \in 1..n /\ i + 1 \in 1..n
    BY <1>3, <2>1
  <2> QED BY <1>2, <1>3, <1>4, <2>1, <2>2
<1>9. \A a, b \in R : f[a] = f[b] => a = b
  <2> SUFFICES ASSUME NEW a \in R, NEW b \in R, f[a] = f[b] PROVE a = b
    OBVIOUS
  <2>1. a \in Int /\ b \in Int
    BY <1>4
  <2>2. PICK c : c = f[a] /\ c = f[b]
    OBVIOUS
  <2>3. c = (IF a < k THEN a ELSE a + 1) /\ c = (IF b < k THEN b ELSE b + 1)
    BY <1>7, <2>2
  <2>4. (a < k /\ c = a) \/ (a >= k /\ c = a + 1)
    BY <1>3, <2>1, <2>3
  <2>5. (b < k /\ c = b) \/ (b >= k /\ c = b + 1)
    BY <1>3, <2>1, <2>3
  <2> QED BY <1>3, <2>1, <2>4, <2>5
<1>10. ASSUME NEW t \in S \ {k} PROVE \E i \in R : f[i] = t
  <2>1. t \in 1..n /\ t # k /\ s[t] = x
    BY <1>4
  <2>2. CASE t < k
    <3>1. t \in 1..(n - 1)
      BY <1>3, <2>1, <2>2
    <3>2. t \in R
      BY <1>2, <1>4, <2>1, <2>2, <3>1
    <3> QED BY <1>7, <2>2, <3>2
  <2>3. CASE t > k
    <3>1. PICK i \in 1..(n - 1) : t = i + 1 /\ ~(i < k)
      <4>1. t - 1 \in 1..(n - 1) /\ t = (t - 1) + 1 /\ ~(t - 1 < k)
        BY <1>3, <2>1, <2>3
      <4> QED BY <4>1
    <3>2. i \in R
      BY <1>2, <1>4, <2>1, <3>1
    <3> QED BY <1>7, <3>1, <3>2
  <2> QED BY <1>3, <2>1, <2>2, <2>3
<1>11. Cardinality(R) = Cardinality(S \ {k})
  <2>1. f \in Bijection(R, S \ {k})
    BY <1>8, <1>9, <1>10 DEF Bijection, Injection, Surjection, IsInjective
  <2>2. ExistsBijection(R, S \ {k})
    BY <2>1 DEF ExistsBijection
  <2> QED BY <1>6, <2>2, FS_Bijection
<1>12. k \in S <=> s[k] = x
  BY <1>3, <1>4
<1>13. /\ Cardinality(S) \in Nat
       /\ Cardinality(S \ {k}) = IF k \in S THEN Cardinality(S) - 1 ELSE Cardinality(S)
  BY <1>6, FS_CardinalityType, FS_RemoveElement
<1> QED BY <1>5, <1>11, <1>12, <1>13

Downloads(F) ==
    [file : F, stage : {"waiting", "active", "completed"}, kept : Nat, got : Nat, retries : Nat,
     fresh : BOOLEAN, result : {0, 1, -1}]
Statuses(F) == [file : F, optional : BOOLEAN, initial : Nat, downloaded : Nat, total : Nat]

RunningIn(lib) == {i \in DOMAIN lib : lib[i].stage = "active"}
RunningAs(lib, name) == {i \in RunningIn(lib) : lib[i].file = name}
FilesOf(active) == [j \in DOMAIN active |-> active[j].file]

\* The callback has as many of each name as run.
AsMany(lib, active) ==
    /\ Len(active) = Cardinality(RunningIn(lib))
    /\ \A name : Times(FilesOf(active), name) = Cardinality(RunningAs(lib, name))

Alone(lib) == \A i, j \in DOMAIN lib : lib[i].file = lib[j].file => i = j

\* What the callback keeps of a download that was not resumed twice.
Amounts(resumes, d, s) ==
    IF resumes
    THEN d.retries < 2 => /\ s.initial = d.kept
                          /\ d.fresh => s.downloaded = d.got
                          /\ d.retries = 0 => d.fresh /\ d.kept = 0
    ELSE d.kept = 0 /\ s.initial = 0 /\ (d.fresh => s.downloaded = d.got)

Known(resumes, lib, active) ==
    Alone(lib) =>
      /\ \A j, k \in DOMAIN active : active[j].file = active[k].file => j = k
      /\ \A i \in RunningIn(lib), j \in DOMAIN active :
           active[j].file = lib[i].file => Amounts(resumes, lib[i], active[j])

Agree(F, resumes, lib, active) ==
    /\ lib \in Seq(Downloads(F)) /\ active \in Seq(Statuses(F))
    /\ \A i \in DOMAIN lib : lib[i].stage = "waiting" => lib[i] = NewDownload(lib[i].file)
    /\ AsMany(lib, active) /\ Known(resumes, lib, active)

\* The line the callback has printed is about what it knows.
InLine(c) ==
    /\ c.index \in Nat /\ (c.index = 0 \/ c.index < Len(c.active))
    /\ c.line # NoLine =>
         /\ c.line.n \in DOMAIN c.active
         /\ c.line = Line(c.active[c.line.n], c.line.n, Len(c.active))

\* The callback finds the download an event is about.
LEMMA KnownIsFound ==
    ASSUME NEW F, NEW resumes, NEW lib, NEW active, Agree(F, resumes, lib, active),
           NEW i \in RunningIn(lib), NEW k, k = FirstWith(active, lib[i].file)
    PROVE  k \in DOMAIN active /\ active[k].file = lib[i].file
<1>1. PICK name : name = lib[i].file
  OBVIOUS
<1>2. lib \in Seq(Downloads(F)) /\ active \in Seq(Statuses(F))
  BY DEF Agree
<1>3. PICK n \in Nat : n = Len(lib) /\ DOMAIN lib = 1..n
  BY <1>2
<1>4. PICK m \in Nat : m = Len(active) /\ DOMAIN active = 1..m
  BY <1>2
<1>5. IsFiniteSet(RunningAs(lib, name)) /\ i \in RunningAs(lib, name)
  <2>1. RunningAs(lib, name) \in SUBSET (1..n) /\ IsFiniteSet(1..n)
    BY <1>3, FS_Interval DEF RunningAs, RunningIn
  <2>2. IsFiniteSet(RunningAs(lib, name))
    BY <2>1, FS_Subset
  <2> QED BY <1>1, <2>2 DEF RunningAs
<1>6. Cardinality(RunningAs(lib, name)) # 0
  BY <1>5, FS_EmptySet
<1>7. Times(FilesOf(active), name) # 0
  BY <1>6 DEF Agree, AsMany
<1>8. PICK at : at = {j \in 1..m : active[j].file = name}
  OBVIOUS
<1>9. Times(FilesOf(active), name) = Cardinality(at)
  <2>1. {j \in DOMAIN FilesOf(active) : FilesOf(active)[j] = name} = at
    BY <1>4, <1>8 DEF FilesOf
  <2> QED BY <2>1 DEF Times
<1>10. at # {} /\ at \in SUBSET Nat
  <2>1. at # {}
    BY <1>7, <1>9, FS_EmptySet
  <2>2. at \in SUBSET Nat
    BY <1>4, <1>8
  <2> QED BY <2>1, <2>2
<1>11. PICK x \in at : \A y \in at : x <= y
  BY <1>10, LeastNat
<1>12. x \in DOMAIN active /\ active[x].file = name /\ \A j \in 1..(x - 1) : active[j].file # name
  <2>1. x \in 1..m /\ active[x].file = name
    BY <1>8
  <2>2. ASSUME NEW j \in 1..(x - 1) PROVE active[j].file # name
    <3>1. j \in 1..m /\ ~(x <= j)
      BY <1>4, <2>1
    <3> QED BY <1>8, <1>11, <3>1
  <2> QED BY <1>4, <2>1, <2>2
<1>13. k = CHOOSE z \in DOMAIN active :
             active[z].file = name /\ \A j \in 1..(z - 1) : active[j].file # name
  BY <1>1 DEF FirstWith
<1> QED BY <1>1, <1>12, <1>13

\* Neither what runs nor the names the callback has change.
LEMMA AgreeOnAmounts ==
    ASSUME NEW F, NEW resumes, NEW lib, NEW active, Agree(F, resumes, lib, active),
           NEW i \in RunningIn(lib), NEW k \in DOMAIN active, active[k].file = lib[i].file,
           NEW e \in Downloads(F), e.file = lib[i].file, e.stage = "active",
           NEW t \in Statuses(F), t.file = active[k].file,
           Amounts(resumes, lib[i], active[k]) => Amounts(resumes, e, t)
    PROVE  Agree(F, resumes, [lib EXCEPT ![i] = e], [active EXCEPT ![k] = t])
<1>1. lib \in Seq(Downloads(F)) /\ active \in Seq(Statuses(F))
  BY DEF Agree
<1>2. i \in DOMAIN lib /\ lib[i].stage = "active"
  BY DEF RunningIn
<1>3. PICK nlib : nlib = [lib EXCEPT ![i] = e]
  OBVIOUS
<1>4. PICK nact : nact = [active EXCEPT ![k] = t]
  OBVIOUS
<1>5. /\ nlib \in Seq(Downloads(F)) /\ DOMAIN nlib = DOMAIN lib
      /\ \A j \in DOMAIN lib : nlib[j] = IF j = i THEN e ELSE lib[j]
  BY <1>1, <1>2, <1>3
<1>6. /\ nact \in Seq(Statuses(F)) /\ DOMAIN nact = DOMAIN active /\ Len(nact) = Len(active)
      /\ \A j \in DOMAIN active : nact[j] = IF j = k THEN t ELSE active[j]
  BY <1>1, <1>4
<1>7. \A j \in DOMAIN lib : nlib[j].file = lib[j].file /\ nlib[j].stage = lib[j].stage
  BY <1>2, <1>5
<1>8. \A j \in DOMAIN active : nact[j].file = active[j].file
  BY <1>6
<1>9. RunningIn(nlib) = RunningIn(lib) /\ \A name : RunningAs(nlib, name) = RunningAs(lib, name)
  BY <1>5, <1>7 DEF RunningIn, RunningAs
<1>10. FilesOf(nact) = FilesOf(active)
  BY <1>6, <1>8 DEF FilesOf
<1>11. AsMany(nlib, nact)
  BY <1>6, <1>9, <1>10 DEF AsMany, Agree
<1>12. ASSUME NEW j \in DOMAIN nlib, nlib[j].stage = "waiting"
       PROVE  nlib[j] = NewDownload(nlib[j].file)
  <2>1. j # i /\ nlib[j] = lib[j]
    BY <1>2, <1>5, <1>7, <1>12
  <2> QED BY <1>5, <1>12, <2>1 DEF Agree
<1>13. Known(resumes, nlib, nact)
  <2> SUFFICES ASSUME Alone(nlib)
               PROVE  /\ \A j, l \in DOMAIN nact : nact[j].file = nact[l].file => j = l
                      /\ \A j \in RunningIn(nlib), l \in DOMAIN nact :
                           nact[l].file = nlib[j].file => Amounts(resumes, nlib[j], nact[l])
    BY DEF Known
  <2>1. Alone(lib)
    BY <1>5, <1>7 DEF Alone
  <2>2. /\ \A j, l \in DOMAIN active : active[j].file = active[l].file => j = l
        /\ \A j \in RunningIn(lib), l \in DOMAIN active :
             active[l].file = lib[j].file => Amounts(resumes, lib[j], active[l])
    BY <2>1 DEF Agree, Known
  <2>3. \A j, l \in DOMAIN nact : nact[j].file = nact[l].file => j = l
    BY <1>6, <1>8, <2>2
  <2>4. ASSUME NEW j \in RunningIn(nlib), NEW l \in DOMAIN nact, nact[l].file = nlib[j].file
        PROVE  Amounts(resumes, nlib[j], nact[l])
    <3>1. j \in RunningIn(lib) /\ j \in DOMAIN lib /\ l \in DOMAIN active
      BY <1>6, <1>9 DEF RunningIn
    <3>2. active[l].file = lib[j].file
      BY <1>7, <1>8, <2>4, <3>1
    <3>3. CASE j = i
      <4>1. l = k
        BY <2>2, <3>1, <3>2, <3>3
      <4>2. Amounts(resumes, lib[i], active[k])
        BY <2>2
      <4>3. nlib[j] = e /\ nact[l] = t
        BY <1>5, <1>6, <3>1, <3>3, <4>1
      <4> QED BY <4>2, <4>3
    <3>4. CASE j # i
      <4>1. l # k
        BY <1>2, <2>1, <3>1, <3>2, <3>4 DEF Alone
      <4>2. nlib[j] = lib[j] /\ nact[l] = active[l]
        BY <1>5, <1>6, <3>1, <3>4, <4>1
      <4> QED BY <2>2, <3>1, <3>2, <4>2
    <3> QED BY <3>3, <3>4
  <2> QED BY <2>3, <2>4
<1> QED BY <1>3, <1>4, <1>5, <1>6, <1>11, <1>12, <1>13 DEF Agree

\* A download that runs on is no new one to the callback.
LEMMA AsManyShown ==
    ASSUME NEW F, NEW resumes, NEW lib, NEW active, Agree(F, resumes, lib, active),
           NEW i \in RunningIn(lib), NEW e, e.stage = "active",
           NEW after, Agree(F, resumes, [lib EXCEPT ![i] = e], after)
    PROVE  Len(after) = Len(active)
<1>1. PICK nlib : nlib = [lib EXCEPT ![i] = e]
  OBVIOUS
<1>2. i \in DOMAIN lib /\ lib[i].stage = "active"
  BY DEF RunningIn
<1>3. DOMAIN nlib = DOMAIN lib /\ \A j \in DOMAIN lib : nlib[j] = IF j = i THEN e ELSE lib[j]
  BY <1>1, <1>2
<1>4. RunningIn(nlib) = RunningIn(lib)
  BY <1>2, <1>3 DEF RunningIn
<1>5. Len(active) = Cardinality(RunningIn(lib)) /\ Len(after) = Cardinality(RunningIn(nlib))
  BY <1>1 DEF Agree, AsMany
<1> QED BY <1>4, <1>5

LEMMA AgreeOnProgress ==
    ASSUME NEW F, NEW resumes, NEW lib, NEW active, Agree(F, resumes, lib, active),
           NEW i \in RunningIn(lib), NEW got \in Nat, NEW total \in Nat
    PROVE  Agree(F, resumes, [lib EXCEPT ![i] = [lib[i] EXCEPT !.got = got, !.fresh = TRUE]],
                 OnProgress(active, lib[i].file, got, total))
<1>1. PICK k : k = FirstWith(active, lib[i].file)
  OBVIOUS
<1>2. k \in DOMAIN active /\ active[k].file = lib[i].file
  BY <1>1, KnownIsFound
<1>3. i \in DOMAIN lib /\ lib[i].stage = "active"
  BY DEF RunningIn
<1>4. PICK d \in Downloads(F), s \in Statuses(F) : d = lib[i] /\ s = active[k]
  BY <1>2, <1>3 DEF Agree
<1>5. PICK e : e = [d EXCEPT !.got = got, !.fresh = TRUE]
  OBVIOUS
<1>6. PICK t : t = [s EXCEPT !.downloaded = got, !.total = total]
  OBVIOUS
<1>7. /\ e \in Downloads(F) /\ e.file = d.file /\ e.stage = "active" /\ e.kept = d.kept
      /\ e.retries = d.retries /\ e.got = got /\ e.fresh = TRUE
  BY <1>3, <1>4, <1>5 DEF Downloads
<1>8. /\ t \in Statuses(F) /\ t.file = s.file /\ t.initial = s.initial /\ t.downloaded = got
  BY <1>6 DEF Statuses
<1>9. Amounts(resumes, d, s) => Amounts(resumes, e, t)
  BY <1>7, <1>8 DEF Amounts
<1>10. Agree(F, resumes, [lib EXCEPT ![i] = e], [active EXCEPT ![k] = t])
  BY <1>2, <1>4, <1>7, <1>8, <1>9, AgreeOnAmounts
<1>11. OnProgress(active, lib[i].file, got, total) = [active EXCEPT ![k] = t]
  BY <1>1, <1>2, <1>4, <1>6 DEF OnProgress
<1> QED BY <1>4, <1>5, <1>10, <1>11

LEMMA AgreeOnRetry ==
    ASSUME NEW F, NEW resumes \in BOOLEAN, NEW lib, NEW active, Agree(F, resumes, lib, active),
           NEW i \in RunningIn(lib), NEW kept,
           kept = IF resumes THEN lib[i].kept + lib[i].got ELSE 0
    PROVE  Agree(F, resumes,
                 [lib EXCEPT ![i] = [lib[i] EXCEPT !.kept = kept, !.got = 0,
                                                   !.retries = lib[i].retries + 1, !.fresh = FALSE]],
                 OnRetry(active, lib[i].file, resumes))
<1>1. PICK k : k = FirstWith(active, lib[i].file)
  OBVIOUS
<1>2. k \in DOMAIN active /\ active[k].file = lib[i].file
  BY <1>1, KnownIsFound
<1>3. i \in DOMAIN lib /\ lib[i].stage = "active"
  BY DEF RunningIn
<1>4. PICK d \in Downloads(F), s \in Statuses(F) : d = lib[i] /\ s = active[k]
  BY <1>2, <1>3 DEF Agree
<1>5. PICK e, r : /\ e = [d EXCEPT !.kept = kept, !.got = 0, !.retries = r, !.fresh = FALSE]
                  /\ r = d.retries + 1
  OBVIOUS
<1>6. PICK t : t = IF resumes THEN [s EXCEPT !.initial = s.downloaded] ELSE [s EXCEPT !.downloaded = 0]
  OBVIOUS
<1>7. d.kept \in Nat /\ d.got \in Nat /\ d.retries \in Nat /\ kept \in Nat
  BY <1>4 DEF Downloads
<1>8. /\ e \in Downloads(F) /\ e.file = d.file /\ e.stage = "active" /\ e.kept = kept
      /\ e.retries = d.retries + 1 /\ e.got = 0 /\ e.fresh = FALSE
  <2>1. r \in Nat
    BY <1>5, <1>7
  <2>2. e \in Downloads(F)
    BY <1>5, <1>7, <2>1 DEF Downloads
  <2>3. /\ e.file = d.file /\ e.stage = d.stage /\ e.kept = kept
        /\ e.retries = r /\ e.got = 0 /\ e.fresh = FALSE
    BY <1>5 DEF Downloads
  <2> QED BY <1>3, <1>4, <1>5, <2>2, <2>3
<1>9. /\ t \in Statuses(F) /\ t.file = s.file
      /\ resumes => t.initial = s.downloaded
      /\ ~resumes => t.initial = s.initial /\ t.downloaded = 0
  BY <1>6 DEF Statuses
<1>10. Amounts(resumes, d, s) => Amounts(resumes, e, t)
  <2>1. CASE resumes
    <3> SUFFICES ASSUME Amounts(resumes, d, s), e.retries < 2 PROVE t.initial = e.kept
      BY <1>7, <1>8, <2>1 DEF Amounts
    <3>1. d.retries = 0
      BY <1>7, <1>8
    <3>2. s.downloaded = d.got /\ d.kept = 0
      BY <2>1, <3>1 DEF Amounts
    <3> QED BY <1>4, <1>7, <1>8, <1>9, <2>1, <3>2
  <2>2. CASE ~resumes
    BY <1>4, <1>8, <1>9, <2>2 DEF Amounts
  <2> QED BY <2>1, <2>2
<1>11. Agree(F, resumes, [lib EXCEPT ![i] = e], [active EXCEPT ![k] = t])
  BY <1>2, <1>4, <1>8, <1>9, <1>10, AgreeOnAmounts
<1>12. OnRetry(active, lib[i].file, resumes) = [active EXCEPT ![k] = t]
  <2>1. CASE resumes
    <3>1. t = [s EXCEPT !.initial = s.downloaded]
      BY <1>6, <2>1
    <3> QED BY <1>1, <1>2, <1>4, <2>1, <3>1 DEF OnRetry
  <2>2. CASE ~resumes
    <3>1. t = [s EXCEPT !.downloaded = 0]
      BY <1>6, <2>2
    <3> QED BY <1>1, <1>2, <1>4, <2>2, <3>1 DEF OnRetry
  <2> QED BY <2>1, <2>2
<1> QED BY <1>4, <1>5, <1>11, <1>12

LEMMA RunningFinite ==
    ASSUME NEW T, NEW lib \in Seq(T), NEW name
    PROVE  IsFiniteSet(RunningIn(lib)) /\ IsFiniteSet(RunningAs(lib, name))
<1>1. PICK n \in Nat : n = Len(lib) /\ DOMAIN lib = 1..n
  OBVIOUS
<1>2. RunningIn(lib) \in SUBSET (1..n) /\ RunningAs(lib, name) \in SUBSET (1..n)
  BY <1>1 DEF RunningIn, RunningAs
<1>3. IsFiniteSet(1..n)
  BY <1>1, FS_Interval
<1> QED BY <1>2, <1>3, FS_Subset

LEMMA FilesAppend ==
    ASSUME NEW F, NEW active \in Seq(Statuses(F)), NEW t \in Statuses(F)
    PROVE  /\ FilesOf(active) \in Seq(F)
           /\ FilesOf(Append(active, t)) = Append(FilesOf(active), t.file)
<1>1. PICK n \in Nat : n = Len(active) /\ DOMAIN active = 1..n
  OBVIOUS
<1>2. PICK b : b = Append(active, t)
  OBVIOUS
<1>3. DOMAIN b = 1..(n + 1) /\ b[n + 1] = t /\ \A j \in 1..n : b[j] = active[j]
  BY <1>1, <1>2
<1>4. t.file \in F /\ \A j \in 1..n : active[j].file \in F
  <2>1. \A j \in 1..n : active[j] \in Statuses(F)
    BY <1>1
  <2> QED BY <2>1 DEF Statuses
<1>5. PICK p : p = [j \in 1..n |-> active[j].file]
  OBVIOUS
<1>6. p \in Seq(F) /\ Len(p) = n /\ \A j \in 1..n : p[j] = active[j].file
  BY <1>4, <1>5
<1>7. PICK q : q = [j \in 1..(n + 1) |-> b[j].file]
  OBVIOUS
<1>8. /\ q \in Seq(F) /\ Len(q) = n + 1 /\ q[n + 1] = t.file
      /\ \A j \in 1..n : q[j] = p[j]
  <2>1. n + 1 \in 1..(n + 1)
    BY <1>1
  <2>2. \A j \in 1..(n + 1) : b[j].file \in F
    <3>1. \A j \in 1..(n + 1) : j \in 1..n \/ j = n + 1
      BY <1>1
    <3> QED BY <1>3, <1>4, <3>1
  <2>3. q \in Seq(F) /\ Len(q) = n + 1
    BY <1>7, <2>2
  <2>4. ASSUME NEW j \in 1..n PROVE q[j] = p[j]
    <3>1. j \in 1..(n + 1)
      BY <1>1
    <3> QED BY <1>3, <1>6, <1>7, <3>1
  <2> QED BY <1>3, <1>7, <2>1, <2>3, <2>4
<1>9. q = Append(p, t.file)
  BY <1>1, <1>4, <1>6, <1>8, AppendEqual
<1>10. FilesOf(active) = p /\ FilesOf(b) = q
  BY <1>1, <1>3, <1>5, <1>7 DEF FilesOf
<1> QED BY <1>2, <1>6, <1>9, <1>10

LEMMA AgreeOnInit ==
    ASSUME NEW F, NEW resumes, NEW lib, NEW active, Agree(F, resumes, lib, active),
           NEW i \in DOMAIN lib, lib[i].stage = "waiting", NEW optional \in BOOLEAN
    PROVE  Agree(F, resumes, [lib EXCEPT ![i] = [lib[i] EXCEPT !.stage = "active"]],
                 OnInit(active, lib[i].file, optional))
<1>1. lib \in Seq(Downloads(F)) /\ active \in Seq(Statuses(F))
  BY DEF Agree
<1>2. PICK d \in Downloads(F) : d = lib[i]
  BY <1>1
<1>3. d.file \in F /\ d.kept = 0 /\ d.got = 0 /\ d.retries = 0 /\ d.fresh = TRUE
  <2>1. d = NewDownload(d.file)
    BY <1>2 DEF Agree
  <2>2. d.kept = 0 /\ d.got = 0 /\ d.retries = 0 /\ d.fresh = TRUE
    BY <2>1 DEF NewDownload
  <2> QED BY <2>2 DEF Downloads
<1>4. PICK e : e = [d EXCEPT !.stage = "active"]
  OBVIOUS
<1>5. /\ e \in Downloads(F) /\ e.file = d.file /\ e.stage = "active" /\ e.kept = 0 /\ e.got = 0
      /\ e.retries = 0 /\ e.fresh = TRUE
  BY <1>3, <1>4 DEF Downloads
<1>6. PICK t : t = NewStatus(d.file, optional)
  OBVIOUS
<1>7. t \in Statuses(F) /\ t.file = d.file /\ t.initial = 0 /\ t.downloaded = 0
  BY <1>3, <1>6 DEF Statuses, NewStatus
<1>8. Amounts(resumes, e, t)
  BY <1>5, <1>7 DEF Amounts
<1>9. PICK nlib : nlib = [lib EXCEPT ![i] = e]
  OBVIOUS
<1>10. /\ nlib \in Seq(Downloads(F)) /\ DOMAIN nlib = DOMAIN lib
       /\ \A j \in DOMAIN lib : nlib[j] = IF j = i THEN e ELSE lib[j]
  BY <1>1, <1>5, <1>9
<1>11. PICK n \in Nat : n = Len(active) /\ DOMAIN active = 1..n
  BY <1>1
<1>12. PICK nact : nact = Append(active, t)
  OBVIOUS
<1>13. /\ nact \in Seq(Statuses(F)) /\ Len(nact) = n + 1 /\ DOMAIN nact = 1..(n + 1)
       /\ nact[n + 1] = t /\ \A j \in 1..n : nact[j] = active[j]
  BY <1>1, <1>7, <1>11, <1>12
<1>14. \A j \in DOMAIN lib : nlib[j].file = lib[j].file
  BY <1>2, <1>5, <1>10
<1>15. RunningIn(nlib) = RunningIn(lib) \cup {i} /\ i \notin RunningIn(lib)
  BY <1>5, <1>10 DEF RunningIn
<1>16. \A name : RunningAs(nlib, name) = IF name = d.file THEN RunningAs(lib, name) \cup {i}
                                         ELSE RunningAs(lib, name)
  <2>1. \A j \in RunningIn(lib) : j \in DOMAIN lib
    BY DEF RunningIn
  <2> QED BY <1>2, <1>14, <1>15, <2>1 DEF RunningAs
<1>17. FilesOf(active) \in Seq(F) /\ FilesOf(nact) = Append(FilesOf(active), d.file)
  BY <1>1, <1>7, <1>12, FilesAppend
<1>18. AsMany(nlib, nact)
  <2>1. Len(nact) = Cardinality(RunningIn(nlib))
    <3>1. Cardinality(RunningIn(nlib)) = Cardinality(RunningIn(lib)) + 1
      BY <1>1, <1>15, RunningFinite, FS_AddElement
    <3>2. n = Cardinality(RunningIn(lib))
      BY <1>11 DEF Agree, AsMany
    <3> QED BY <1>13, <3>1, <3>2
  <2>2. ASSUME NEW name PROVE Times(FilesOf(nact), name) = Cardinality(RunningAs(nlib, name))
    <3>1. Times(FilesOf(active), name) = Cardinality(RunningAs(lib, name))
      BY DEF Agree, AsMany
    <3>2. Times(FilesOf(nact), name)
            = Times(FilesOf(active), name) + (IF d.file = name THEN 1 ELSE 0)
      BY <1>3, <1>17, TimesAppend
    <3>3. IsFiniteSet(RunningAs(lib, name)) /\ Cardinality(RunningAs(lib, name)) \in Nat
      BY <1>1, RunningFinite, FS_CardinalityType
    <3>4. i \notin RunningAs(lib, name)
      BY <1>15 DEF RunningAs
    <3>5. CASE name = d.file
      <4>1. Cardinality(RunningAs(nlib, name)) = Cardinality(RunningAs(lib, name)) + 1
        BY <1>16, <3>3, <3>4, <3>5, FS_AddElement
      <4> QED BY <3>1, <3>2, <3>5, <4>1
    <3>6. CASE name # d.file
      BY <1>16, <3>1, <3>2, <3>3, <3>6
    <3> QED BY <3>5, <3>6
  <2> QED BY <2>1, <2>2 DEF AsMany
<1>19. ASSUME NEW j \in DOMAIN nlib, nlib[j].stage = "waiting"
       PROVE  nlib[j] = NewDownload(nlib[j].file)
  <2>1. j # i /\ nlib[j] = lib[j]
    BY <1>5, <1>10, <1>19
  <2> QED BY <1>10, <1>19, <2>1 DEF Agree
<1>20. Known(resumes, nlib, nact)
  <2> SUFFICES ASSUME Alone(nlib)
               PROVE  /\ \A j, l \in DOMAIN nact : nact[j].file = nact[l].file => j = l
                      /\ \A j \in RunningIn(nlib), l \in DOMAIN nact :
                           nact[l].file = nlib[j].file => Amounts(resumes, nlib[j], nact[l])
    BY DEF Known
  <2>1. Alone(lib)
    BY <1>10, <1>14 DEF Alone
  <2>2. /\ \A j, l \in DOMAIN active : active[j].file = active[l].file => j = l
        /\ \A j \in RunningIn(lib), l \in DOMAIN active :
             active[l].file = lib[j].file => Amounts(resumes, lib[j], active[l])
    BY <2>1 DEF Agree, Known
  <2>3. \A j \in DOMAIN active : active[j].file # d.file
    <3> SUFFICES ASSUME NEW j \in DOMAIN active, active[j].file = d.file PROVE FALSE
      OBVIOUS
    <3>1. RunningAs(lib, d.file) = {}
      <4> SUFFICES ASSUME NEW l \in RunningAs(lib, d.file) PROVE FALSE
        OBVIOUS
      <4>1. l \in RunningIn(lib) /\ l \in DOMAIN lib /\ lib[l].file = lib[i].file
        BY <1>2 DEF RunningAs, RunningIn
      <4>2. l = i
        BY <2>1, <4>1 DEF Alone
      <4> QED BY <1>15, <4>1, <4>2
    <3>2. Times(FilesOf(active), d.file) = 0
      BY <3>1, FS_EmptySet DEF Agree, AsMany
    <3>3. PICK at : at = {l \in 1..n : active[l].file = d.file}
      OBVIOUS
    <3>4. Times(FilesOf(active), d.file) = Cardinality(at)
      <4>1. {l \in DOMAIN FilesOf(active) : FilesOf(active)[l] = d.file} = at
        BY <1>11, <3>3 DEF FilesOf
      <4> QED BY <4>1 DEF Times
    <3>5. IsFiniteSet(at)
      <4>1. at \in SUBSET (1..n)
        BY <3>3
      <4> QED BY <1>11, <4>1, FS_Interval, FS_Subset
    <3>6. at = {}
      BY <3>2, <3>4, <3>5, FS_EmptySet
    <3> QED BY <1>11, <3>3, <3>6
  <2>4. \A l \in DOMAIN nact : (l \in DOMAIN active /\ nact[l] = active[l]) \/ (l = n + 1 /\ nact[l] = t)
    <3>1. \A l \in 1..(n + 1) : l \in 1..n \/ l = n + 1
      BY <1>11
    <3> QED BY <1>11, <1>13, <3>1
  <2>5. \A j, l \in DOMAIN nact : nact[j].file = nact[l].file => j = l
    BY <1>7, <2>2, <2>3, <2>4
  <2>6. ASSUME NEW j \in RunningIn(nlib), NEW l \in DOMAIN nact, nact[l].file = nlib[j].file
        PROVE  Amounts(resumes, nlib[j], nact[l])
    <3>1. j \in DOMAIN lib /\ nlib[j].file = lib[j].file
      BY <1>10, <1>14 DEF RunningIn
    <3>2. CASE l = n + 1 /\ nact[l] = t
      <4>1. lib[j].file = lib[i].file
        BY <1>2, <1>7, <2>6, <3>1, <3>2
      <4>2. j = i
        BY <2>1, <3>1, <4>1 DEF Alone
      <4>3. nlib[j] = e
        BY <1>10, <4>2
      <4> QED BY <1>8, <3>2, <4>3
    <3>3. CASE l \in DOMAIN active /\ nact[l] = active[l]
      <4>1. j # i
        BY <1>2, <2>3, <2>6, <3>1, <3>3
      <4>2. j \in RunningIn(lib) /\ nlib[j] = lib[j]
        BY <1>10, <1>15, <3>1, <4>1
      <4> QED BY <2>2, <2>6, <3>3, <4>2
    <3> QED BY <2>4, <3>2, <3>3
  <2> QED BY <2>5, <2>6
<1>21. OnInit(active, lib[i].file, optional) = nact
  BY <1>2, <1>6, <1>12 DEF OnInit
<1>22. Agree(F, resumes, nlib, nact)
  BY <1>10, <1>13, <1>18, <1>19, <1>20 DEF Agree
<1> QED BY <1>2, <1>4, <1>9, <1>21, <1>22

LEMMA FilesRemoved ==
    ASSUME NEW F, NEW active \in Seq(Statuses(F)), NEW k \in DOMAIN active
    PROVE  /\ FilesOf(active) \in Seq(F) /\ k \in 1..Len(FilesOf(active))
           /\ FilesOf(active)[k] = active[k].file
           /\ FilesOf(RemoveAt(active, k)) = RemoveAt(FilesOf(active), k)
<1>1. PICK n \in Nat : n = Len(active) /\ DOMAIN active = 1..n
  OBVIOUS
<1>2. k \in 1..n /\ k \in 1..Len(active)
  BY <1>1
<1>3. PICK p : p = [j \in 1..n |-> active[j].file]
  OBVIOUS
<1>4. p \in Seq(F) /\ Len(p) = n /\ \A j \in 1..n : p[j] = active[j].file
  <2>1. \A j \in 1..n : active[j] \in Statuses(F)
    BY <1>1
  <2>2. \A j \in 1..n : active[j].file \in F
    BY <2>1 DEF Statuses
  <2> QED BY <1>3, <2>2
<1>5. PICK b : /\ b = RemoveAt(active, k) /\ b \in Seq(Statuses(F)) /\ Len(b) = n - 1
               /\ \A j \in 1..(n - 1) : b[j] = IF j < k THEN active[j] ELSE active[j + 1]
  BY <1>1, <1>2, RemoveAtIs
<1>6. k \in 1..Len(p)
  BY <1>2, <1>4
<1>7. PICK q : /\ q = RemoveAt(p, k) /\ q \in Seq(F) /\ Len(q) = n - 1
               /\ \A j \in 1..(n - 1) : q[j] = IF j < k THEN p[j] ELSE p[j + 1]
  <2>1. p \in Seq(F) /\ Len(p) = n
    BY <1>4
  <2>2. /\ RemoveAt(p, k) \in Seq(F) /\ Len(RemoveAt(p, k)) = Len(p) - 1
        /\ \A j \in 1..(Len(p) - 1) : RemoveAt(p, k)[j] = IF j < k THEN p[j] ELSE p[j + 1]
    BY <1>6, <2>1, RemoveAtIs
  <2> QED BY <2>1, <2>2
<1>8. \A j \in 1..(n - 1) : q[j] = b[j].file
  <2> SUFFICES ASSUME NEW j \in 1..(n - 1) PROVE q[j] = b[j].file
    OBVIOUS
  <2>1. j \in 1..n /\ j + 1 \in 1..n
    BY <1>1
  <2> QED BY <1>4, <1>5, <1>7, <2>1
<1>9. FilesOf(active) = p
  BY <1>1, <1>3 DEF FilesOf
<1>10. FilesOf(b) = q
  <2>1. DOMAIN b = 1..(n - 1) /\ q = [j \in 1..(n - 1) |-> q[j]]
    BY <1>1, <1>5, <1>7
  <2> QED BY <1>8, <2>1 DEF FilesOf
<1> QED BY <1>2, <1>4, <1>5, <1>6, <1>7, <1>9, <1>10

LEMMA AgreeOnCompleted ==
    ASSUME NEW F, NEW resumes, NEW lib, NEW active, Agree(F, resumes, lib, active),
           NEW i \in RunningIn(lib), NEW result \in {0, 1, -1}
    PROVE  Agree(F, resumes, [lib EXCEPT ![i] = [lib[i] EXCEPT !.stage = "completed", !.result = result]],
                 OnCompleted(active, lib[i].file))
<1>1. lib \in Seq(Downloads(F)) /\ active \in Seq(Statuses(F))
  BY DEF Agree
<1>2. PICK k : k = FirstWith(active, lib[i].file)
  OBVIOUS
<1>3. k \in DOMAIN active /\ active[k].file = lib[i].file
  BY <1>2, KnownIsFound
<1>4. i \in DOMAIN lib /\ lib[i].stage = "active"
  BY DEF RunningIn
<1>5. PICK d \in Downloads(F) : d = lib[i]
  BY <1>1, <1>4
<1>6. PICK e : e = [d EXCEPT !.stage = "completed", !.result = result]
  OBVIOUS
<1>7. e \in Downloads(F) /\ e.file = d.file /\ e.stage = "completed"
  BY <1>6 DEF Downloads
<1>8. PICK nlib : nlib = [lib EXCEPT ![i] = e]
  OBVIOUS
<1>9. /\ nlib \in Seq(Downloads(F)) /\ DOMAIN nlib = DOMAIN lib
      /\ \A j \in DOMAIN lib : nlib[j] = IF j = i THEN e ELSE lib[j]
  BY <1>1, <1>4, <1>7, <1>8
<1>10. PICK n \in Nat : n = Len(active) /\ DOMAIN active = 1..n
  BY <1>1
<1>11. PICK nact : /\ nact = RemoveAt(active, k) /\ nact \in Seq(Statuses(F)) /\ Len(nact) = n - 1
                   /\ \A j \in 1..(n - 1) : nact[j] = IF j < k THEN active[j] ELSE active[j + 1]
  <2>1. k \in 1..Len(active)
    BY <1>3, <1>10
  <2> QED BY <1>1, <1>10, <2>1, RemoveAtIs
<1>12. k \in Nat /\ 1 <= k /\ k <= n /\ DOMAIN nact = 1..(n - 1)
  BY <1>3, <1>10, <1>11
<1>13. \A j \in DOMAIN lib : nlib[j].file = lib[j].file
  BY <1>5, <1>7, <1>9
<1>14. RunningIn(nlib) = RunningIn(lib) \ {i}
  BY <1>7, <1>9 DEF RunningIn
<1>15. \A name : RunningAs(nlib, name) = RunningAs(lib, name) \ {i}
  <2>1. \A j \in RunningIn(lib) : j \in DOMAIN lib
    BY DEF RunningIn
  <2> QED BY <1>13, <1>14, <2>1 DEF RunningAs
<1>16. /\ FilesOf(active) \in Seq(F) /\ k \in 1..Len(FilesOf(active))
       /\ FilesOf(active)[k] = d.file /\ FilesOf(nact) = RemoveAt(FilesOf(active), k)
  BY <1>1, <1>3, <1>5, <1>11, FilesRemoved
<1>17. AsMany(nlib, nact)
  <2>1. Len(nact) = Cardinality(RunningIn(nlib))
    <3>1. IsFiniteSet(RunningIn(lib))
      BY <1>1, RunningFinite
    <3>2. Cardinality(RunningIn(nlib)) = Cardinality(RunningIn(lib)) - 1
      BY <1>14, <3>1, FS_RemoveElement
    <3>3. n = Cardinality(RunningIn(lib))
      BY <1>10 DEF Agree, AsMany
    <3> QED BY <1>11, <3>2, <3>3
  <2>2. ASSUME NEW name PROVE Times(FilesOf(nact), name) = Cardinality(RunningAs(nlib, name))
    <3>1. Times(FilesOf(active), name) = Cardinality(RunningAs(lib, name))
      BY DEF Agree, AsMany
    <3>2. Times(FilesOf(active), name)
            = Times(FilesOf(nact), name) + (IF d.file = name THEN 1 ELSE 0)
      BY <1>16, TimesRemoved
    <3>3. IsFiniteSet(RunningAs(lib, name)) /\ Cardinality(RunningAs(lib, name)) \in Nat
      BY <1>1, RunningFinite, FS_CardinalityType
    <3>4. i \in RunningAs(lib, name) <=> name = d.file
      BY <1>5 DEF RunningAs
    <3>5. Cardinality(RunningAs(nlib, name))
            = IF name = d.file THEN Cardinality(RunningAs(lib, name)) - 1
              ELSE Cardinality(RunningAs(lib, name))
      BY <1>15, <3>3, <3>4, FS_RemoveElement
    <3>6. Times(FilesOf(nact), name) \in Nat
      <4>1. FilesOf(nact) \in Seq(F)
        BY <1>16, RemoveAtIs
      <4> QED BY <4>1, TimesOf
    <3>7. PICK a, b, c : /\ a \in Nat /\ c \in Nat
                         /\ a = Cardinality(RunningAs(lib, name))
                         /\ c = Times(FilesOf(nact), name)
                         /\ b = Cardinality(RunningAs(nlib, name))
      BY <3>3, <3>6
    <3>8. CASE name = d.file
      <4>1. a = c + 1 /\ b = a - 1
        BY <3>1, <3>2, <3>5, <3>7, <3>8
      <4> QED BY <3>7, <4>1
    <3>9. CASE name # d.file
      <4>1. a = c + 0 /\ b = a
        BY <3>1, <3>2, <3>5, <3>7, <3>9
      <4> QED BY <3>7, <4>1
    <3> QED BY <3>8, <3>9
  <2> QED BY <2>1, <2>2 DEF AsMany
<1>18. ASSUME NEW j \in DOMAIN nlib, nlib[j].stage = "waiting"
       PROVE  nlib[j] = NewDownload(nlib[j].file)
  <2>1. j # i /\ nlib[j] = lib[j]
    BY <1>7, <1>9, <1>18
  <2> QED BY <1>9, <1>18, <2>1 DEF Agree
<1>19. Known(resumes, nlib, nact)
  <2> SUFFICES ASSUME Alone(nlib)
               PROVE  /\ \A j, l \in DOMAIN nact : nact[j].file = nact[l].file => j = l
                      /\ \A j \in RunningIn(nlib), l \in DOMAIN nact :
                           nact[l].file = nlib[j].file => Amounts(resumes, nlib[j], nact[l])
    BY DEF Known
  <2>1. Alone(lib)
    BY <1>9, <1>13 DEF Alone
  <2>2. /\ \A j, l \in DOMAIN active : active[j].file = active[l].file => j = l
        /\ \A j \in RunningIn(lib), l \in DOMAIN active :
             active[l].file = lib[j].file => Amounts(resumes, lib[j], active[l])
    BY <2>1 DEF Agree, Known
  <2>3. ASSUME NEW l \in DOMAIN nact
        PROVE  \/ l < k /\ l \in DOMAIN active /\ nact[l] = active[l]
               \/ l >= k /\ l + 1 \in DOMAIN active /\ nact[l] = active[l + 1]
    BY <1>10, <1>11, <1>12
  <2>4. ASSUME NEW j \in DOMAIN nact, NEW l \in DOMAIN nact, nact[j].file = nact[l].file
        PROVE  j = l
    <3>1. /\ \/ j < k /\ j \in DOMAIN active /\ nact[j] = active[j]
             \/ j >= k /\ j + 1 \in DOMAIN active /\ nact[j] = active[j + 1]
          /\ \/ l < k /\ l \in DOMAIN active /\ nact[l] = active[l]
             \/ l >= k /\ l + 1 \in DOMAIN active /\ nact[l] = active[l + 1]
      BY <2>3
    <3>2. j \in Nat /\ l \in Nat
      BY <1>12
    <3>3. CASE j < k /\ l < k
      BY <2>2, <2>4, <3>1, <3>2, <3>3, <1>12
    <3>4. CASE j < k /\ l >= k
      <4>1. j = l + 1
        BY <2>2, <2>4, <3>1, <3>2, <3>4, <1>12
      <4> QED BY <1>12, <3>2, <3>4, <4>1
    <3>5. CASE j >= k /\ l < k
      <4>1. l = j + 1
        BY <2>2, <2>4, <3>1, <3>2, <3>5, <1>12
      <4> QED BY <1>12, <3>2, <3>5, <4>1
    <3>6. CASE j >= k /\ l >= k
      <4>1. j + 1 = l + 1
        BY <2>2, <2>4, <3>1, <3>2, <3>6, <1>12
      <4> QED BY <3>2, <4>1
    <3> QED BY <1>12, <3>2, <3>3, <3>4, <3>5, <3>6
  <2>5. ASSUME NEW j \in RunningIn(nlib), NEW l \in DOMAIN nact, nact[l].file = nlib[j].file
        PROVE  Amounts(resumes, nlib[j], nact[l])
    <3>1. j \in RunningIn(lib) /\ j # i /\ j \in DOMAIN lib
      BY <1>14 DEF RunningIn
    <3>2. nlib[j] = lib[j]
      BY <1>9, <3>1
    <3>3. PICK m \in DOMAIN active : nact[l] = active[m]
      BY <2>3
    <3> QED BY <2>2, <2>5, <3>1, <3>2, <3>3
  <2> QED BY <2>4, <2>5
<1>20. OnCompleted(active, lib[i].file) = nact
  BY <1>2, <1>11 DEF OnCompleted
<1>21. Agree(F, resumes, nlib, nact)
  BY <1>9, <1>11, <1>17, <1>18, <1>19 DEF Agree
<1> QED BY <1>5, <1>6, <1>8, <1>20, <1>21

LEMMA AgreeStarts ==
    ASSUME NEW F, NEW resumes, NEW targets \in Seq(F)
    PROVE  Agree(F, resumes, [i \in DOMAIN targets |-> NewDownload(targets[i])], << >>)
<1>1. PICK n \in Nat : n = Len(targets) /\ DOMAIN targets = 1..n
  OBVIOUS
<1>2. PICK lib : lib = [i \in 1..n |-> NewDownload(targets[i])]
  OBVIOUS
<1>3. ASSUME NEW i \in 1..n
      PROVE  NewDownload(targets[i]) \in Downloads(F)
  <2>1. targets[i] \in F
    BY <1>1
  <2> QED BY <2>1 DEF NewDownload, Downloads
<1>4. lib \in Seq(Downloads(F)) /\ DOMAIN lib = 1..n
  BY <1>2, <1>3
<1>5. ASSUME NEW i \in DOMAIN lib
      PROVE  lib[i].stage = "waiting" /\ lib[i] = NewDownload(lib[i].file)
  BY <1>2, <1>4 DEF NewDownload
<1>6. RunningIn(lib) = {} /\ \A name : RunningAs(lib, name) = {}
  BY <1>5 DEF RunningIn, RunningAs
<1>7. PICK none : none = << >>
  OBVIOUS
<1>8. none \in Seq(Statuses(F)) /\ Len(none) = 0 /\ DOMAIN none = {}
  BY <1>7
<1>9. \A name : Times(FilesOf(none), name) = 0
  <2>1. FilesOf(none) = << >>
    BY <1>8 DEF FilesOf
  <2> QED BY <2>1, TimesNone
<1>10. AsMany(lib, none)
  BY <1>6, <1>8, <1>9, FS_EmptySet DEF AsMany
<1>11. Known(resumes, lib, none)
  BY <1>8 DEF Known
<1> QED BY <1>1, <1>2, <1>4, <1>5, <1>7, <1>8, <1>10, <1>11 DEF Agree

\* After each event the line is one of the downloads the callback then has.
LEMMA AfterEventIs ==
    ASSUME NEW F, NEW c, c.index \in Nat, c.index = 0 \/ c.index < Len(c.active),
           NEW m \in Nat, m = Len(c.active),
           NEW active \in Seq(Statuses(F)), NEW completed \in BOOLEAN, completed \/ Len(active) >= m,
           NEW tick, NEW next, next = AfterEvent(c, active, completed, tick)
    PROVE  next.active = active /\ InLine(next)
<1>1. PICK n \in Nat : n = Len(active) /\ DOMAIN active = 1..n
  OBVIOUS
<1>2. PICK advances \in BOOLEAN, shows \in BOOLEAN :
        /\ advances = (completed \/ tick = "next")
        /\ shows = (advances \/ tick = "same")
  OBVIOUS
<1>3. PICK over : over = c.index + (IF advances THEN 1 ELSE 0)
  OBVIOUS
<1>4. PICK index : index = IF ~shows THEN over ELSE IF over >= n THEN 0 ELSE over
  OBVIOUS
<1>5. PICK line : line = IF shows /\ active # << >> THEN Line(active[index + 1], index + 1, n)
                         ELSE NoLine
  OBVIOUS
<1>6. next = [active |-> active, index |-> index, line |-> line]
  BY <1>1, <1>2, <1>3, <1>4, <1>5 DEF AfterEvent
<1>7. next.active = active /\ next.index = index /\ next.line = line
  BY <1>6
<1>8. over \in Nat
  BY <1>3
<1>9. index \in Nat /\ (index = 0 \/ index < n)
  <2>1. CASE shows
    BY <1>1, <1>4, <1>8, <2>1
  <2>2. CASE ~shows
    <3>1. ~advances /\ ~completed
      BY <1>2, <2>2
    <3>2. index = c.index
      BY <1>3, <1>4, <2>2, <3>1
    <3> QED BY <1>1, <3>1, <3>2
  <2> QED BY <2>1, <2>2
<1>10. ASSUME line # NoLine
       PROVE  /\ line.n \in DOMAIN active
              /\ line = Line(active[line.n], line.n, n)
  <2>1. active # << >> /\ line = Line(active[index + 1], index + 1, n)
    BY <1>5, <1>10
  <2>2. index + 1 \in 1..n
    <3>1. n > 0
      BY <1>1, <2>1
    <3> QED BY <1>1, <1>9, <3>1
  <2>3. line.n = index + 1
    BY <2>1 DEF Line
  <2> QED BY <1>1, <2>1, <2>2, <2>3
<1> QED BY <1>1, <1>7, <1>9, <1>10 DEF InLine

SyncShown ==
    \E F, resumes, lib, active, c :
      /\ resumes = sys.resumes /\ lib = acc.lib /\ c = acc.context /\ active = c.active
      /\ resumes \in BOOLEAN /\ Agree(F, resumes, lib, active) /\ InLine(c)

LEMMA EventKeeps ==
    ASSUME NEW F, NEW resumes \in BOOLEAN, NEW lib, NEW c, NEW i, NEW d, NEW active,
           NEW completed \in BOOLEAN, NEW m \in Nat,
           resumes = sys.resumes, lib = acc.lib, c = acc.context,
           InLine(c), m = Len(c.active), completed \/ Len(active) >= m,
           Agree(F, resumes, [lib EXCEPT ![i] = d], active), Event(i, d, active, completed)
    PROVE  SyncShown' /\ pc' = pc
<1>1. PICK tick \in Ticks : acc' = [context |-> AfterEvent(acc.context, active, completed, tick),
                                   lib |-> [acc.lib EXCEPT ![i] = d]]
  BY DEF Event
<1>2. PICK next, nlib : next = AfterEvent(c, active, completed, tick) /\ nlib = [lib EXCEPT ![i] = d]
  OBVIOUS
<1>3. acc'.context = next /\ acc'.lib = nlib
  BY <1>1, <1>2
<1>4. active \in Seq(Statuses(F))
  BY DEF Agree
<1>5. next.active = active /\ InLine(next)
  <2>1. c.index \in Nat /\ (c.index = 0 \/ c.index < Len(c.active))
    BY DEF InLine
  <2>2. next = AfterEvent(c, active, completed, tick)
    BY <1>2
  <2>3. (completed \/ Len(active) >= m) /\ m = Len(c.active)
    OBVIOUS
  <2>4. next.active = active
    BY <2>2 DEF AfterEvent
  <2>5. InLine(next)
    BY <1>4, <2>1, <2>2, <2>3, AfterEventIs
  <2> QED BY <2>4, <2>5
<1>6. sys' = sys /\ pc' = pc
  BY DEF Event, Stays
<1>7. Agree(F, resumes, nlib, active)
  BY <1>2
<1> QED BY <1>3, <1>5, <1>6, <1>7 DEF SyncShown

LEMMA SyncEvents ==
    ASSUME SyncShown, DownloadEvent
    PROVE  SyncShown' /\ pc' = "update"
<1>1. PICK F, resumes, lib, active, c :
        /\ resumes = sys.resumes /\ lib = acc.lib /\ c = acc.context /\ active = c.active
        /\ resumes \in BOOLEAN /\ Agree(F, resumes, lib, active) /\ InLine(c)
  BY DEF SyncShown
<1>2. pc = "update"
  BY DEF DownloadEvent, At
<1>3. PICK i \in DOMAIN lib :
        DownloadInit(i) \/ DownloadProgress(i) \/ DownloadRetry(i) \/ DownloadCompleted(i)
  BY <1>1 DEF DownloadEvent
<1>4. lib \in Seq(Downloads(F)) /\ active \in Seq(Statuses(F))
  BY <1>1 DEF Agree
<1>5. PICK d \in Downloads(F) : d = lib[i]
  BY <1>4
<1>6. PICK m \in Nat : m = Len(c.active) /\ m = Len(active) /\ DOMAIN active = 1..m
  BY <1>1, <1>4
<1>12. resumes \in BOOLEAN /\ Agree(F, resumes, lib, active)
  BY <1>1
<1>7. Shown = active
  BY <1>1 DEF Shown
<1>8. CASE DownloadInit(i)
  <2>1. d.stage = "waiting"
    BY <1>1, <1>5, <1>8 DEF DownloadInit
  <2>2. PICK optional \in BOOLEAN : optional = (d.file \in sys.optional)
    <3>1. \E b \in BOOLEAN : b <=> d.file \in sys.optional
      OBVIOUS
    <3>2. PICK b \in BOOLEAN : b <=> d.file \in sys.optional
      BY <3>1
    <3>3. b = (d.file \in sys.optional)
      BY <3>2
    <3> QED BY <3>3, Zenon
  <2>3. PICK e, after : e = [d EXCEPT !.stage = "active"] /\ after = OnInit(active, d.file, optional)
    OBVIOUS
  <2>4. Event(i, e, after, FALSE)
    BY <1>1, <1>5, <1>7, <1>8, <2>2, <2>3 DEF DownloadInit
  <2>5. Agree(F, resumes, [lib EXCEPT ![i] = e], after)
    BY <1>1, <1>5, <2>1, <2>3, AgreeOnInit
  <2>6. Len(after) >= m
    BY <1>4, <1>6, <2>3 DEF OnInit
  <2> QED BY <1>1, <1>2, <1>6, <2>4, <2>5, <2>6, EventKeeps
<1>9. CASE DownloadProgress(i)
  <2>1. d.stage = "active" /\ i \in RunningIn(lib) /\ d.kept \in Nat /\ d.got \in Nat
    BY <1>1, <1>5, <1>9 DEF DownloadProgress, RunningIn, Downloads
  <2>2. PICK total \in Nat : total = IF d.file \in sys.sized THEN Size ELSE 0
    BY SizesAssumption
  <2>3. PICK got \in (d.got + 1)..(Size - d.kept) :
          Event(i, [d EXCEPT !.got = got, !.fresh = TRUE],
                OnProgress(active, d.file, got, total), FALSE)
    BY <1>1, <1>5, <1>7, <1>9, <2>2 DEF DownloadProgress
  <2>4. got \in Nat
    BY <2>1, <2>3
  <2>5. PICK e, after : /\ e = [d EXCEPT !.got = got, !.fresh = TRUE]
                        /\ after = OnProgress(active, d.file, got, total)
    OBVIOUS
  <2>6. Agree(F, resumes, [lib EXCEPT ![i] = e], after)
    <3>1. Agree(F, resumes, [lib EXCEPT ![i] = [lib[i] EXCEPT !.got = got, !.fresh = TRUE]],
                OnProgress(active, lib[i].file, got, total))
      BY <1>12, <2>1, <2>2, <2>4, AgreeOnProgress
    <3> QED BY <1>5, <2>5, <3>1
  <2>7. Event(i, e, after, FALSE)
    BY <2>3, <2>5
  <2>8. Len(after) >= m
    <3>1. e.stage = "active"
      BY <2>1, <2>5 DEF Downloads
    <3> QED BY <1>6, <1>12, <2>1, <2>6, <3>1, AsManyShown
  <2> QED BY <1>1, <1>2, <1>6, <2>6, <2>7, <2>8, EventKeeps
<1>10. CASE DownloadRetry(i)
  <2>1. d.stage = "active" /\ i \in RunningIn(lib)
    BY <1>1, <1>5, <1>10 DEF DownloadRetry, RunningIn
  <2>2. PICK kept : kept = IF resumes THEN d.kept + d.got ELSE 0
    OBVIOUS
  <2>3. PICK e, after :
          /\ e = [d EXCEPT !.kept = kept, !.got = 0, !.retries = d.retries + 1, !.fresh = FALSE]
          /\ after = OnRetry(active, d.file, resumes)
    OBVIOUS
  <2>4. Event(i, e, after, FALSE)
    BY <1>1, <1>5, <1>7, <1>10, <2>2, <2>3 DEF DownloadRetry
  <2>5. Agree(F, resumes, [lib EXCEPT ![i] = e], after)
    <3>1. kept = IF resumes THEN lib[i].kept + lib[i].got ELSE 0
      BY <1>5, <2>2
    <3>2. Agree(F, resumes,
                [lib EXCEPT ![i] = [lib[i] EXCEPT !.kept = kept, !.got = 0,
                                                  !.retries = lib[i].retries + 1, !.fresh = FALSE]],
                OnRetry(active, lib[i].file, resumes))
      BY <1>12, <2>1, <3>1, AgreeOnRetry
    <3> QED BY <1>5, <2>3, <3>2
  <2>6. Len(after) >= m
    <3>1. e.stage = "active"
      BY <2>1, <2>3 DEF Downloads
    <3> QED BY <1>6, <1>12, <2>1, <2>5, <3>1, AsManyShown
  <2> QED BY <1>1, <1>2, <1>6, <2>4, <2>5, <2>6, EventKeeps
<1>11. CASE DownloadCompleted(i)
  <2>1. d.stage = "active" /\ i \in RunningIn(lib)
    BY <1>1, <1>5, <1>11 DEF DownloadCompleted, RunningIn
  <2>2. PICK result \in {0, 1, -1} :
          Event(i, [d EXCEPT !.stage = "completed", !.result = result],
                OnCompleted(active, d.file), TRUE)
    BY <1>1, <1>5, <1>7, <1>11 DEF DownloadCompleted
  <2>3. PICK e, after : /\ e = [d EXCEPT !.stage = "completed", !.result = result]
                        /\ after = OnCompleted(active, d.file)
    OBVIOUS
  <2>4. Agree(F, resumes, [lib EXCEPT ![i] = e], after)
    BY <1>1, <1>5, <2>1, <2>3, AgreeOnCompleted
  <2>5. Event(i, e, after, TRUE)
    BY <2>2, <2>3
  <2> QED BY <1>1, <1>2, <1>6, <2>4, <2>5, EventKeeps
<1> QED BY <1>3, <1>8, <1>9, <1>10, <1>11

-----------------------------------------------------------------------------
(***************************************************************************)
(* pacsync: its options and the inductive invariant.                       *)
(***************************************************************************)

SyncGlobals(values) == [force : BOOLEAN, updated : BOOLEAN, repos : Seq(values)]

LEMMA SyncTakes ==
    ASSUME NEW values, NEW g \in SyncGlobals(values), NEW a, a[2] \in values,
           a[1] \in DOMAIN SyncOptions.set \cup DOMAIN SyncOptions.count
                    \cup DOMAIN SyncOptions.assign \cup DOMAIN SyncOptions.add
    PROVE  Takes(SyncOptions, g, a) \in SyncGlobals(values)
<1> DEFINE t == SyncOptions
<1>1. /\ DOMAIN t.set = {"force", "updated"} /\ DOMAIN t.count = {}
      /\ DOMAIN t.assign = {} /\ DOMAIN t.add = {"repo"}
  BY DEF SyncOptions, NoOptions
<1>2. CASE a[1] \in DOMAIN t.set
  <2>1. Takes(t, g, a) = [g EXCEPT ![t.set[a[1]][1]] = t.set[a[1]][2]]
    <3> HIDE DEF t
    <3> QED BY <1>1, <1>2 DEF Takes
  <2>2. /\ t.set["force"][1] = "force" /\ t.set["force"][2] = TRUE
        /\ t.set["updated"][1] = "updated" /\ t.set["updated"][2] = TRUE
    BY DEF SyncOptions
  <2>3. [g EXCEPT !["force"] = TRUE] \in SyncGlobals(values)
        /\ [g EXCEPT !["updated"] = TRUE] \in SyncGlobals(values)
    BY DEF SyncGlobals
  <2> HIDE DEF t
  <2>4. CASE a[1] = "force"
    <3>1. Takes(t, g, a) = [g EXCEPT !["force"] = TRUE]
      BY <2>1, <2>2, <2>4, Zenon
    <3> QED BY <2>3, <3>1 DEF t
  <2>5. CASE a[1] = "updated"
    <3>1. Takes(t, g, a) = [g EXCEPT !["updated"] = TRUE]
      BY <2>1, <2>2, <2>5, Zenon
    <3> QED BY <2>3, <3>1 DEF t
  <2> QED BY <1>1, <1>2, <2>4, <2>5
<1>3. CASE a[1] = "repo"
  <2>1. Takes(t, g, a) = [g EXCEPT !.repos = Append(@, a[2])]
    BY <1>1, <1>3 DEF Takes, SyncOptions
  <2>2. Append(g.repos, a[2]) \in Seq(values)
    BY DEF SyncGlobals
  <2> QED BY <2>1, <2>2 DEF SyncGlobals
<1> QED BY <1>1, <1>2, <1>3

LEMMA SyncParsed ==
    ASSUME Accepts(SyncOptions, argv)
    PROVE  \E values : Parse(SyncOptions, SyncDefaults) \in SyncGlobals(values)
<1> DEFINE A == ToSet(argv)
           values == {a[2] : a \in A}
<1>1. argv \in Seq(A)
  BY DEF Accepts, IsList
<1>2. SyncDefaults \in SyncGlobals(values)
  BY DEF SyncDefaults, SyncGlobals
<1>3. \A g \in SyncGlobals(values), a \in A : Takes(SyncOptions, g, a) \in SyncGlobals(values)
  BY SyncTakes DEF Accepts
<1> QED BY <1>1, <1>2, <1>3, ParseKeeps

LEMMA SyncSetsUp ==
    ASSUME Accepts(SyncOptions, argv), SyncSetup
    PROVE  pc' \in {"targets", "failed"} /\ IsList(o'.repos)
<1>1. PICK values : Parse(SyncOptions, SyncDefaults) \in SyncGlobals(values)
  BY SyncParsed
<1>2. PICK g \in SyncGlobals(values) : g = Parse(SyncOptions, SyncDefaults)
  BY <1>1
<1>3. o' = g /\ pc' \in {"targets", "failed"}
  BY <1>2 DEF SyncSetup, Setup
<1>4. o'.repos \in Seq(values)
  BY <1>3 DEF SyncGlobals
<1> QED BY <1>3, <1>4, MembersOfList

SyncInv ==
    tool = "pacsync" =>
      /\ IsList(sys.dbs) /\ sys.resumes \in BOOLEAN
      /\ pc = "start" => Accepts(SyncOptions, argv)
      /\ pc = "targets" => IsList(o.repos)
      /\ pc = "update" => SyncShown

LEMMA SyncBegins == Init => SyncInv
<1> SUFFICES ASSUME Init, tool = "pacsync"
             PROVE  /\ IsList(sys.dbs) /\ sys.resumes \in BOOLEAN
                    /\ Accepts(SyncOptions, argv) /\ pc = "start"
  BY DEF SyncInv
<1>1. PICK r \in SyncRuns : argv = r.argv /\ sys = r.sys /\ pc = "start"
  BY DEF Init, Started
<1>2. Accepts(SyncOptions, r.argv) /\ IsList(r.sys.dbs) /\ r.sys.resumes \in BOOLEAN
  BY SyncRunsAssumption
<1> QED BY <1>1, <1>2

LEMMA SyncBeginsUpdate ==
    ASSUME IsList(sys.dbs), sys.resumes \in BOOLEAN, IsList(o.repos), SyncTargets
    PROVE  pc' = "exited" \/ (pc' = "update" /\ SyncShown')
<1>1. PICK targets : targets = IF o.repos = << >> THEN sys.dbs ELSE o.repos
  OBVIOUS
<1>2. PICK F : F = ToSet(targets)
  OBVIOUS
<1>3. targets \in Seq(F)
  BY <1>1, <1>2 DEF IsList
<1>4. PICK lib, c : lib = [i \in DOMAIN targets |-> NewDownload(targets[i])] /\ c = NewContext
  OBVIOUS
<1>5. PICK resumes \in BOOLEAN : resumes = sys.resumes
  OBVIOUS
<1>6. \/ pc' = "exited"
      \/ pc' = "update" /\ acc' = [context |-> c, lib |-> lib]
  BY <1>1, <1>4 DEF SyncTargets, Exit, Goto
<1>7. sys' = sys
  BY DEF SyncTargets, Stays
<1>8. PICK active : active = << >>
  OBVIOUS
<1>9. c.active = active /\ c.index = 0 /\ c.line = NoLine
  BY <1>4, <1>8 DEF NewContext
<1>10. InLine(c)
  BY <1>9 DEF InLine
<1>11. Agree(F, resumes, lib, active)
  BY <1>3, <1>4, <1>8, AgreeStarts
<1>12. CASE pc' = "update" /\ acc' = [context |-> c, lib |-> lib]
  <2>1. acc'.context = c /\ acc'.lib = lib /\ resumes = sys'.resumes
    BY <1>5, <1>7, <1>12
  <2>2. SyncShown'
    BY <1>9, <1>10, <1>11, <2>1 DEF SyncShown
  <2> QED BY <1>12, <2>2
<1> QED BY <1>6, <1>12

LEMMA SyncSteps ==
    ASSUME SyncInv, SyncStep
    PROVE  SyncInv'
<1>1. /\ tool = "pacsync" /\ IsList(sys.dbs) /\ sys.resumes \in BOOLEAN
      /\ pc = "start" => Accepts(SyncOptions, argv)
      /\ pc = "targets" => IsList(o.repos)
      /\ pc = "update" => SyncShown
  BY OwnSteps DEF SyncInv
<1>2. sys' = sys
  <2>1. DownloadEvent => sys' = sys
    BY DEF DownloadEvent, DownloadInit, DownloadProgress, DownloadRetry, DownloadCompleted, Event,
           Stays
  <2> QED BY <2>1 DEF SyncStep, SyncSetup, Setup, SyncTargets, SyncEnd, Stays
<1>3. IsList(sys'.dbs) /\ sys'.resumes \in BOOLEAN
  BY <1>1, <1>2
<1>4. CASE SyncSetup
  <2>1. pc' \in {"targets", "failed"} /\ IsList(o'.repos)
    BY <1>1, <1>4, SyncSetsUp DEF SyncSetup, Setup
  <2> QED BY <1>3, <2>1 DEF SyncInv
<1>5. CASE SyncTargets
  <2>1. pc' = "exited" \/ (pc' = "update" /\ SyncShown')
    BY <1>1, <1>5, SyncBeginsUpdate DEF SyncTargets, At
  <2> QED BY <1>3, <2>1 DEF SyncInv
<1>6. CASE DownloadEvent
  <2>1. SyncShown' /\ pc' = "update"
    BY <1>1, <1>6, SyncEvents DEF DownloadEvent, At
  <2> QED BY <1>3, <2>1 DEF SyncInv
<1>7. CASE SyncEnd
  <2>1. pc' = "exited"
    BY <1>7 DEF SyncEnd, Exit
  <2> QED BY <1>3, <2>1 DEF SyncInv
<1> QED BY <1>4, <1>5, <1>6, <1>7 DEF SyncStep

LEMMA SyncHolds == Spec => []SyncInv
<1>1. SyncInv /\ [Next]_toolVars => SyncInv'
  <2> SUFFICES ASSUME SyncInv, [Next]_toolVars PROVE SyncInv'
    OBVIOUS
  <2>1. CASE ReportStep \/ CheckStep \/ RepairFileStep \/ SiftStep
    <3>1. tool' # "pacsync"
      BY <2>1, OwnSteps
    <3> QED BY <3>1 DEF SyncInv
  <2>2. CASE SyncStep
    BY <2>2, SyncSteps
  <2>3. CASE UNCHANGED toolVars
    <3>1. tool' = tool /\ argv' = argv /\ sys' = sys /\ o' = o /\ pc' = pc /\ acc' = acc
      BY <2>3 DEF toolVars
    <3>2. SyncShown => SyncShown'
      BY <3>1 DEF SyncShown
    <3> QED BY <3>1, <3>2 DEF SyncInv
  <2> QED BY <2>1, <2>2, <2>3 DEF Next, Finished
<1> QED BY <1>1, SyncBegins, PTL DEF Spec

\* As many names as downloads: no two of the same name.
LEMMA NamesAlone ==
    ASSUME NEW T, NEW lib \in Seq(T),
           NEW names, names = {lib[i].file : i \in DOMAIN lib}, Cardinality(names) = Len(lib)
    PROVE  Alone(lib)
<1>1. PICK n \in Nat : n = Len(lib) /\ DOMAIN lib = 1..n
  OBVIOUS
<1>2. PICK f : f = [i \in 1..n |-> lib[i].file]
  OBVIOUS
<1>3. f \in Surjection(1..n, names)
  <2>1. f \in [1..n -> names]
    BY <1>1, <1>2
  <2>2. \A x \in names : \E i \in 1..n : f[i] = x
    BY <1>1, <1>2
  <2> QED BY <2>1, <2>2 DEF Surjection
<1>4. IsFiniteSet(1..n) /\ Cardinality(1..n) = n
  <2>1. n \in Nat
    OBVIOUS
  <2>2. CASE n = 0
    <3>1. 1..n = {}
      BY <2>2
    <3> QED BY <2>2, <3>1, FS_EmptySet
  <2>3. CASE n # 0
    <3>1. n \in Int /\ ~(1 > n) /\ (n - 1) + 1 = n
      BY <2>1, <2>3
    <3>2. IsFiniteSet(1..n) /\ Cardinality(1..n) = IF 1 > n THEN 0 ELSE (n - 1) + 1
      BY <3>1, FS_Interval
    <3> QED BY <3>1, <3>2
  <2> QED BY <2>2, <2>3
<1>5. f \in Injection(1..n, names)
  BY <1>1, <1>3, <1>4, FS_Surjection
<1>6. \A i, j \in 1..n : f[i] = f[j] => i = j
  BY <1>2, <1>5 DEF Injection, IsInjective
<1> QED BY <1>1, <1>2, <1>6 DEF Alone

AddsUp(resumes, lib, active, c) ==
    LET line == c.line
        names == {lib[i].file : i \in DOMAIN lib}
        running == {i \in DOMAIN lib : lib[i].stage = "active"}
    IN  /\ Len(active) = Cardinality(running)
        /\ \A name \in names : Cardinality({i \in running : lib[i].file = name})
                             = Cardinality({i \in DOMAIN active : active[i].file = name})
        /\ c.index = 0 \/ c.index < Len(active)
        /\ line # NoLine => line.n \in 1..line.of /\ active[line.n].file = line.file
        /\ Cardinality(names) = Len(lib) =>
             \A i \in running :
               LET d == lib[i] IN
               line.file = d.file /\ line.total # 0 /\ d.fresh /\ (d.retries < 2 \/ ~resumes) =>
                 line.downloaded = d.kept + d.got

LEMMA ShownAddsUp ==
    ASSUME NEW F, NEW resumes \in BOOLEAN, NEW lib, NEW active, NEW c, active = c.active,
           Agree(F, resumes, lib, active), InLine(c)
    PROVE  AddsUp(resumes, lib, active, c)
<1>1. active = c.active /\ Agree(F, resumes, lib, active) /\ InLine(c)
  OBVIOUS
<1>2. /\ lib \in Seq(Downloads(F)) /\ active \in Seq(Statuses(F))
      /\ AsMany(lib, active) /\ Known(resumes, lib, active)
  BY <1>1 DEF Agree
<1>3. PICK line, names, running :
        /\ line = c.line /\ names = {lib[i].file : i \in DOMAIN lib} /\ running = RunningIn(lib)
  OBVIOUS
<1>4. Len(active) = Cardinality(running)
  BY <1>2, <1>3 DEF AsMany
<1>5. ASSUME NEW name
      PROVE  Cardinality({i \in running : lib[i].file = name})
             = Cardinality({j \in DOMAIN active : active[j].file = name})
  <2>1. Times(FilesOf(active), name) = Cardinality(RunningAs(lib, name))
    BY <1>2 DEF AsMany
  <2>2. {j \in DOMAIN FilesOf(active) : FilesOf(active)[j] = name}
          = {j \in DOMAIN active : active[j].file = name}
    BY DEF FilesOf
  <2>3. RunningAs(lib, name) = {i \in running : lib[i].file = name}
    BY <1>3 DEF RunningAs
  <2> QED BY <2>1, <2>2, <2>3 DEF Times
<1>6. c.index = 0 \/ c.index < Len(active)
  BY <1>1 DEF InLine
<1>7. PICK n \in Nat : n = Len(active) /\ DOMAIN active = 1..n
  BY <1>2
<1>8. ASSUME line # NoLine
      PROVE  line.n \in 1..line.of /\ active[line.n].file = line.file
  <2>1. line.n \in DOMAIN active /\ line = Line(active[line.n], line.n, n)
    BY <1>1, <1>3, <1>7, <1>8 DEF InLine
  <2>2. line.of = n /\ line.file = active[line.n].file
    BY <2>1 DEF Line
  <2> QED BY <1>7, <2>1, <2>2
<1>9. ASSUME Cardinality(names) = Len(lib), NEW i \in running, line.file = lib[i].file,
             line.total # 0, lib[i].fresh, lib[i].retries < 2 \/ ~resumes
      PROVE  line.downloaded = lib[i].kept + lib[i].got
  <2>1. Alone(lib)
    BY <1>2, <1>3, <1>9, NamesAlone
  <2>2. line # NoLine
    <3>1. NoLine.total = 0
      BY DEF NoLine
    <3> QED BY <1>9, <3>1
  <2>3. line.n \in DOMAIN active /\ line = Line(active[line.n], line.n, n)
    BY <1>1, <1>3, <1>7, <2>2 DEF InLine
  <2>4. PICK k \in DOMAIN active : k = line.n
    BY <2>3
  <2>5. /\ line.file = active[k].file /\ line.total = active[k].total
        /\ line.downloaded = active[k].downloaded + (IF active[k].total # 0 THEN active[k].initial ELSE 0)
    <3>1. line = Line(active[k], k, n)
      BY <2>3, <2>4
    <3> QED BY <3>1 DEF Line
  <2>6. i \in RunningIn(lib) /\ active[k].file = lib[i].file
    BY <1>3, <1>9, <2>5
  <2>7. Amounts(resumes, lib[i], active[k])
    BY <1>2, <2>1, <2>6 DEF Known
  <2>8. lib[i] \in Downloads(F) /\ active[k] \in Statuses(F)
    BY <1>2, <2>6 DEF RunningIn
  <2>9. PICK d \in Downloads(F), s \in Statuses(F) : d = lib[i] /\ s = active[k]
    BY <2>8
  <2>10. /\ d.kept \in Nat /\ d.got \in Nat /\ s.initial \in Nat /\ s.downloaded \in Nat
         /\ s.total # 0
    BY <1>9, <2>5, <2>9 DEF Downloads, Statuses
  <2>11. s.initial = d.kept /\ s.downloaded = d.got
    <3>1. CASE resumes
      BY <1>9, <2>7, <2>9, <3>1 DEF Amounts
    <3>2. CASE ~resumes
      BY <1>9, <2>7, <2>9, <3>2 DEF Amounts
    <3> QED BY <3>1, <3>2
  <2> QED BY <2>5, <2>9, <2>10, <2>11
<1>10. running = {i \in DOMAIN lib : lib[i].stage = "active"}
  BY <1>3 DEF RunningIn
<1>11. Cardinality(names) = Len(lib) =>
         \A i \in running :
           line.file = lib[i].file /\ line.total # 0 /\ lib[i].fresh /\ (lib[i].retries < 2 \/ ~resumes) =>
             line.downloaded = lib[i].kept + lib[i].got
  BY <1>9
<1>12. \A name \in names : Cardinality({i \in running : lib[i].file = name})
                         = Cardinality({j \in DOMAIN active : active[j].file = name})
  BY <1>5
<1>13. line # NoLine => line.n \in 1..line.of /\ active[line.n].file = line.file
  BY <1>8
<1> QED BY <1>3, <1>4, <1>6, <1>10, <1>11, <1>12, <1>13, Zenon DEF AddsUp

\* The callback of pacsync has the downloads that have begun and not ended, as many of each
\* name, shows one of them, and of a file that no other download is of, the bytes libalpm
\* has, whatever the order in which begins, progress, retries and ends come.
THEOREM DownloadsShown == Spec => []DownloadsAddUp
<1>1. SyncInv => DownloadsAddUp
  <2>1. CASE At("pacsync", "update")
    <3> SUFFICES ASSUME SyncInv PROVE DownloadsAddUp
      OBVIOUS
    <3>1. SyncShown
      BY <2>1 DEF SyncInv, At
    <3>2. PICK F, resumes, lib, active, c :
            /\ resumes = sys.resumes /\ lib = acc.lib /\ c = acc.context /\ active = c.active
            /\ resumes \in BOOLEAN /\ Agree(F, resumes, lib, active) /\ InLine(c)
      BY <3>1 DEF SyncShown
    <3>3. AddsUp(resumes, lib, active, c)
      BY <3>2, ShownAddsUp
    <3>4. AddsUp(sys.resumes, acc.lib, acc.context.active, acc.context)
      BY <3>2, <3>3, Zenon
    <3> QED BY <3>4 DEF DownloadsAddUp, AddsUp, Shown
  <2>2. CASE ~At("pacsync", "update")
    BY <2>2 DEF DownloadsAddUp
  <2> QED BY <2>1, <2>2
<1> QED BY <1>1, SyncHolds, PTL

-----------------------------------------------------------------------------
(***************************************************************************)
(* pacreport: paths, one below another.                                    *)
(***************************************************************************)

Below(q, p) == Len(q) <= Len(p) /\ \A i \in 1..Len(q) : p[i] = q[i]

LEMMA BelowOrder ==
    ASSUME NEW N, NEW p \in Seq(N), NEW q \in Seq(N), NEW r \in Seq(N)
    PROVE  /\ Below(p, p)
           /\ Below(p, q) /\ Below(q, p) => p = q
           /\ Below(p, q) /\ Below(q, r) => Below(p, r)
           /\ Below(p, r) /\ Below(q, r) => Below(p, q) \/ Below(q, p)
<1>1. PICK a \in Nat, b \in Nat, c \in Nat : a = Len(p) /\ b = Len(q) /\ c = Len(r)
  OBVIOUS
<1>2. Below(p, p)
  BY <1>1 DEF Below
<1>3. ASSUME Below(p, q), Below(q, p) PROVE p = q
  <2>1. a = b /\ \A i \in 1..a : q[i] = p[i]
    BY <1>1, <1>3 DEF Below
  <2> QED BY <1>1, <2>1, SeqEqual
<1>4. ASSUME Below(p, q), Below(q, r) PROVE Below(p, r)
  <2>1. a <= b /\ b <= c
    BY <1>1, <1>4 DEF Below
  <2>2. (\A i \in 1..a : q[i] = p[i]) /\ (\A i \in 1..b : r[i] = q[i])
    BY <1>1, <1>4 DEF Below
  <2>3. ASSUME NEW i \in 1..a PROVE r[i] = p[i]
    <3>1. i \in 1..b
      BY <1>1, <2>1
    <3> QED BY <2>2, <3>1
  <2> QED BY <1>1, <2>1, <2>3 DEF Below
<1>5. ASSUME Below(p, r), Below(q, r) PROVE Below(p, q) \/ Below(q, p)
  <2>1. a <= c /\ b <= c /\ (\A i \in 1..a : r[i] = p[i]) /\ (\A i \in 1..b : r[i] = q[i])
    BY <1>1, <1>5 DEF Below
  <2>2. CASE a <= b
    <3>1. ASSUME NEW i \in 1..a PROVE q[i] = p[i]
      <4>1. i \in 1..b
        BY <1>1, <2>2
      <4> QED BY <2>1, <4>1
    <3> QED BY <1>1, <2>2, <3>1 DEF Below
  <2>3. CASE b <= a
    <3>1. ASSUME NEW i \in 1..b PROVE p[i] = q[i]
      <4>1. i \in 1..a
        BY <1>1, <2>3
      <4> QED BY <2>1, <4>1
    <3> QED BY <1>1, <2>3, <3>1 DEF Below
  <2> QED BY <1>1, <2>2, <2>3
<1> QED BY <1>2, <1>3, <1>4, <1>5

LEMMA BelowLonger ==
    ASSUME NEW N, NEW p \in Seq(N), NEW q \in Seq(N), Below(q, p), q # p
    PROVE  Len(q) < Len(p)
<1>1. PICK a \in Nat, b \in Nat : a = Len(p) /\ b = Len(q)
  OBVIOUS
<1>2. b <= a /\ \A i \in 1..b : p[i] = q[i]
  BY <1>1 DEF Below
<1>3. a # b
  <2> SUFFICES ASSUME a = b PROVE FALSE
    OBVIOUS
  <2>1. p = q
    BY <1>1, <1>2, SeqEqual
  <2> QED BY <2>1
<1> QED BY <1>1, <1>2, <1>3

LEMMA BeginningIs ==
    ASSUME NEW N, NEW p \in Seq(N), NEW n \in 0..Len(p)
    PROVE  /\ SubSeq(p, 1, n) \in Seq(N) /\ Len(SubSeq(p, 1, n)) = n
           /\ Below(SubSeq(p, 1, n), p)
           /\ \A q \in Seq(N) : Below(q, p) /\ Len(q) = n => q = SubSeq(p, 1, n)
<1>1. PICK a \in Nat : a = Len(p)
  OBVIOUS
<1>2. n \in Nat /\ n <= a /\ \A i \in 1..n : i \in 1..a
  BY <1>1
<1>3. \A i \in 1..n : p[i] \in N
  BY <1>1, <1>2
<1>4. PICK b : b = SubSeq(p, 1, n)
  OBVIOUS
<1>5. b \in Seq(N) /\ Len(b) = n /\ \A i \in 1..n : b[i] = p[i]
  BY <1>2, <1>3, <1>4, SubSeqProperties
<1>6. Below(b, p)
  BY <1>1, <1>2, <1>5 DEF Below
<1>7. ASSUME NEW q \in Seq(N), Below(q, p), Len(q) = n PROVE q = b
  <2>1. \A i \in 1..n : p[i] = q[i]
    BY <1>7 DEF Below
  <2>2. \A i \in 1..n : q[i] = b[i]
    BY <1>5, <2>1
  <2> QED BY <1>5, <1>7, <2>2, SeqEqual
<1> QED BY <1>4, <1>5, <1>6, <1>7

LEMMA FrontIs ==
    ASSUME NEW N, NEW c \in Seq(N), c # << >>
    PROVE  /\ Front(c) \in Seq(N) /\ Len(Front(c)) = Len(c) - 1
           /\ Below(Front(c), c) /\ Front(c) # c
           /\ \A q \in Seq(N) : Below(q, c) /\ q # c => Below(q, Front(c))
<1>1. PICK a \in Nat : a = Len(c) /\ a > 0
  <2>1. Len(c) \in Nat /\ Len(c) # 0
    BY EmptySeq
  <2> QED BY <2>1
<1>2. a - 1 \in 0..Len(c)
  BY <1>1
<1>3. PICK f : f = SubSeq(c, 1, a - 1)
  OBVIOUS
<1>4. f \in Seq(N) /\ Len(f) = a - 1 /\ Below(f, c)
  BY <1>2, <1>3, BeginningIs
<1>5. Front(c) = f
  BY <1>1, <1>3 DEF Front
<1>6. f # c
  BY <1>1, <1>4
<1>7. ASSUME NEW q \in Seq(N), Below(q, c), q # c PROVE Below(q, f)
  <2>1. Len(q) < a /\ Len(q) \in Nat
    BY <1>1, <1>7, BelowLonger
  <2>2. Below(q, f) \/ Below(f, q)
    BY <1>4, <1>7, BelowOrder
  <2>3. CASE Below(f, q)
    <3>1. Len(f) <= Len(q)
      BY <2>3 DEF Below
    <3>2. Len(q) = Len(f)
      BY <1>1, <1>4, <2>1, <3>1
    <3>3. f = q
      <4> SUFFICES ASSUME f # q PROVE FALSE
        OBVIOUS
      <4>1. Len(f) < Len(q)
        BY <1>4, <1>7, <2>3, BelowLonger
      <4> QED BY <1>4, <2>1, <3>2, <4>1
    <3> QED BY <1>4, <3>3, BelowOrder
  <2> QED BY <2>2, <2>3
<1> QED BY <1>1, <1>4, <1>5, <1>6, <1>7

LEMMA ChildOn ==
    ASSUME NEW N, NEW e \in Seq(N), NEW p \in Seq(N), Below(e, p), e # p
    PROVE  /\ Len(e) + 1 \in 0..Len(p)
           /\ SubSeq(p, 1, Len(e) + 1) \in Seq(N) /\ SubSeq(p, 1, Len(e) + 1) # << >>
           /\ Front(SubSeq(p, 1, Len(e) + 1)) = e /\ Below(SubSeq(p, 1, Len(e) + 1), p)
<1>1. PICK a \in Nat, b \in Nat : a = Len(e) /\ b = Len(p) /\ a < b
  <2>1. Len(e) < Len(p)
    BY BelowLonger
  <2> QED BY <2>1
<1>2. a + 1 \in 0..Len(p)
  BY <1>1
<1>3. PICK c : c = SubSeq(p, 1, a + 1)
  OBVIOUS
<1>4. c \in Seq(N) /\ Len(c) = a + 1 /\ Below(c, p)
  BY <1>2, <1>3, BeginningIs
<1>5. c # << >>
  BY <1>1, <1>4, EmptySeq
<1>6. PICK f : f = Front(c) /\ f \in Seq(N) /\ Len(f) = a /\ Below(f, c)
  <2>1. Front(c) \in Seq(N) /\ Len(Front(c)) = Len(c) - 1 /\ Below(Front(c), c)
    BY <1>4, <1>5, FrontIs
  <2> QED BY <1>1, <1>4, <2>1
<1>7. Below(f, p)
  BY <1>4, <1>6, BelowOrder
<1>8. a \in 0..Len(p)
  BY <1>1
<1>9. e = SubSeq(p, 1, a) /\ f = SubSeq(p, 1, a)
  BY <1>1, <1>6, <1>7, <1>8, BeginningIs
<1> QED BY <1>1, <1>2, <1>3, <1>4, <1>5, <1>6, <1>9

LEMMA PrefixIsBelow ==
    ASSUME NEW N, NEW p \in Seq(N), NEW q \in Seq(N)
    PROVE  IsStrictPrefix(q, p) <=> Below(q, p) /\ q # p
<1>1. PICK a \in Nat, b \in Nat : a = Len(p) /\ b = Len(q)
  OBVIOUS
<1>2. SubSeq(q, 1, b) = q
  <2>1. b \in 0..Len(q)
    BY <1>1
  <2>2. Below(q, q)
    BY BelowOrder
  <2> QED BY <1>1, <2>1, <2>2, BeginningIs
<1>3. ASSUME IsPrefix(q, p) PROVE Below(q, p)
  <2>1. b <= a /\ SubSeq(q, 1, b) = SubSeq(p, 1, b)
    BY <1>1, <1>3 DEF IsPrefix
  <2>2. b \in 0..Len(p)
    BY <1>1, <2>1
  <2>3. Below(SubSeq(p, 1, b), p)
    BY <2>2, BeginningIs
  <2> QED BY <1>2, <2>1, <2>3
<1>4. ASSUME Below(q, p) PROVE IsPrefix(q, p)
  <2>1. b <= a
    BY <1>1, <1>4 DEF Below
  <2>2. b \in 0..Len(p)
    BY <1>1, <2>1
  <2>3. q = SubSeq(p, 1, b)
    BY <1>1, <1>4, <2>2, BeginningIs
  <2> QED BY <1>1, <1>2, <2>1, <2>3 DEF IsPrefix
<1> QED BY <1>3, <1>4 DEF IsStrictPrefix

\* A file system has the directories its paths go through.
Tree(N, D) == D \subseteq Seq(N) /\ \A p \in D : \A n \in 0..Len(p) : SubSeq(p, 1, n) \in D

Children(D, x) == {c \in D : c # << >> /\ Front(c) = x}

LEMMA TreeOrder ==
    ASSUME NEW N, NEW D, Tree(N, D), NEW p \in D, NEW q \in D, NEW r \in D
    PROVE  /\ Below(p, p)
           /\ Below(p, q) /\ Below(q, p) => p = q
           /\ Below(p, q) /\ Below(q, r) => Below(p, r)
           /\ Below(p, r) /\ Below(q, r) => Below(p, q) \/ Below(q, p)
<1>1. p \in Seq(N) /\ q \in Seq(N) /\ r \in Seq(N)
  BY DEF Tree
<1> QED BY <1>1, BelowOrder

LEMMA ChildIs ==
    ASSUME NEW N, NEW D, Tree(N, D), NEW x, NEW c \in Children(D, x), NEW q \in D
    PROVE  Below(x, c) /\ x # c /\ (Below(q, c) /\ q # c => Below(q, x))
<1>1. c \in D /\ c # << >> /\ Front(c) = x /\ c \in Seq(N) /\ q \in Seq(N)
  BY DEF Children, Tree
<1> QED BY <1>1, FrontIs

LEMMA ChildBetween ==
    ASSUME NEW N, NEW D, Tree(N, D), NEW x \in D, NEW p \in D, Below(x, p), x # p
    PROVE  \E c \in Children(D, x) : Below(c, p)
<1>1. x \in Seq(N) /\ p \in Seq(N)
  BY DEF Tree
<1>2. PICK c : c = SubSeq(p, 1, Len(x) + 1)
  OBVIOUS
<1>3. Len(x) + 1 \in 0..Len(p) /\ c # << >> /\ Front(c) = x /\ Below(c, p)
  BY <1>1, <1>2, ChildOn
<1>4. c \in D
  BY <1>2, <1>3 DEF Tree
<1> QED BY <1>3, <1>4 DEF Children

(***************************************************************************)
(* pacreport: where the scan has come.  Of the paths D, those of G are not *)
(* left out, those of O are directories that can be read, and those of U   *)
(* are unowned.                                                            *)
(***************************************************************************)

Entered(D, G, O, base, p) ==
    /\ p \in D /\ Below(base, p) /\ p # base
    /\ \A q \in D : Below(base, q) /\ Below(q, p) /\ q # p => q \in O /\ (q # base => q \in G)

Reached(D, G, O, base) == {p \in D : Entered(D, G, O, base, p) /\ p \in G}

\* Something above p is unowned.
Under(R, U, p) == \E q \in R : Below(q, p) /\ q # p /\ q \in U

\* The stack has an entry that p is below.
Left(E, p) == \E e \in E : Below(e.path, p)

Entries(D, G, O, U, base, wo, E) ==
    /\ \A e \in E :
         /\ Entered(D, G, O, base, e.path)
         /\ e.orphans = (wo /\ ~Under(Reached(D, G, O, base), U, e.path))
    /\ \A e, f \in E : Below(e.path, f.path) => e = f

OrphansOf(R, U, wo, E) == {p \in R : wo /\ p \in U /\ ~Under(R, U, p) /\ ~Left(E, p)}
BackupsOf(R, B, wb, E) == {p \in R : wb /\ p \in B /\ ~Left(E, p)}

\* What is in a directory is entered when the directory is read.
LEMMA ChildEntered ==
    ASSUME NEW N, NEW D, Tree(N, D), NEW G, NEW O, NEW base \in D, NEW x \in D, x \in O,
           x = base \/ x \in Reached(D, G, O, base), NEW c \in Children(D, x), NEW U
    PROVE  /\ Entered(D, G, O, base, c)
           /\ Under(Reached(D, G, O, base), U, c)
                <=> \/ Under(Reached(D, G, O, base), U, x)
                    \/ x \in Reached(D, G, O, base) /\ x \in U
<1>1. PICK R : R = Reached(D, G, O, base)
  OBVIOUS
<1>2. c \in D
  BY DEF Children
<1>3. Below(x, c) /\ x # c /\ \A q \in D : Below(q, c) /\ q # c => Below(q, x)
  BY ChildIs
<1>4. Below(base, x) /\ (x # base => Entered(D, G, O, base, x) /\ x \in G)
  <2>1. x # base => Entered(D, G, O, base, x) /\ x \in G
    BY <1>1 DEF Reached
  <2>2. x # base => Below(base, x)
    BY <2>1 DEF Entered
  <2>3. Below(base, base)
    BY TreeOrder
  <2> QED BY <2>1, <2>2, <2>3
<1>5. Below(base, c) /\ c # base
  <2>1. Below(base, c)
    BY <1>2, <1>3, <1>4, TreeOrder
  <2>2. c # base
    <3> SUFFICES ASSUME c = base PROVE FALSE
      OBVIOUS
    <3>1. Below(c, x)
      BY <1>4
    <3> QED BY <1>2, <1>3, <3>1, TreeOrder
  <2> QED BY <2>1, <2>2
<1>6. ASSUME NEW q \in D, Below(base, q), Below(q, c), q # c
      PROVE  q \in O /\ (q # base => q \in G)
  <2>1. Below(q, x)
    BY <1>3, <1>6
  <2>2. CASE q = x
    BY <1>4, <2>2
  <2>3. CASE q # x /\ x # base
    BY <1>4, <1>6, <2>1, <2>3 DEF Entered
  <2>4. CASE q # x /\ x = base
    <3>1. q = x
      BY <1>6, <2>1, <2>4, TreeOrder
    <3> QED BY <2>4, <3>1
  <2> QED BY <2>2, <2>3, <2>4
<1>7. Entered(D, G, O, base, c)
  BY <1>2, <1>5, <1>6 DEF Entered
<1>8. R \subseteq D
  BY <1>1 DEF Reached
<1>9. ASSUME NEW q \in R PROVE Below(q, c) /\ q # c <=> (Below(q, x) /\ q # x) \/ q = x
  <2>1. ASSUME Below(q, x) PROVE Below(q, c) /\ q # c
    <3>1. Below(q, c)
      BY <1>2, <1>3, <1>8, <2>1, TreeOrder
    <3>2. q # c
      <4> SUFFICES ASSUME q = c PROVE FALSE
        OBVIOUS
      <4> QED BY <1>2, <1>3, <2>1, TreeOrder
    <3> QED BY <3>1, <3>2
  <2> QED BY <1>3, <1>8, <2>1, TreeOrder
<1>10. Under(R, U, c) <=> Under(R, U, x) \/ (x \in R /\ x \in U)
  BY <1>9 DEF Under
<1> QED BY <1>1, <1>7, <1>10

LEMMA NoneAboveBase ==
    ASSUME NEW N, NEW D, Tree(N, D), NEW G, NEW O, NEW base \in D, NEW U
    PROVE  ~Under(Reached(D, G, O, base), U, base) /\ base \notin Reached(D, G, O, base)
<1>1. ASSUME NEW q \in Reached(D, G, O, base) PROVE q \in D /\ Below(base, q) /\ q # base
  BY DEF Reached, Entered
<1>2. \A q \in Reached(D, G, O, base) : ~Below(q, base)
  BY <1>1, TreeOrder
<1> QED BY <1>1, <1>2 DEF Under

\* Nothing below an entry that is left out is scanned.
LEMMA NoneBelowSkipped ==
    ASSUME NEW N, NEW D, Tree(N, D), NEW G, NEW O, NEW base \in D,
           NEW x, Entered(D, G, O, base, x), x \notin G,
           NEW p \in Reached(D, G, O, base)
    PROVE  ~Below(x, p)
<1> SUFFICES ASSUME Below(x, p) PROVE FALSE
  OBVIOUS
<1>1. x \in D /\ Below(base, x) /\ x # base
  BY DEF Entered
<1>2. p \in G /\ Entered(D, G, O, base, p)
  BY DEF Reached
<1> QED BY <1>1, <1>2 DEF Entered

\* An entry that is left out goes without a trace.
LEMMA SkipLeaves ==
    ASSUME NEW N, NEW D, Tree(N, D), NEW G, NEW O, NEW base \in D, NEW U, NEW B,
           NEW wo \in BOOLEAN, NEW wb \in BOOLEAN,
           NEW R, R = Reached(D, G, O, base),
           NEW E, Entries(D, G, O, U, base, wo, E), NEW e \in E, e.path \notin G,
           NEW F, F = E \ {e}
    PROVE  /\ Entries(D, G, O, U, base, wo, F)
           /\ OrphansOf(R, U, wo, F) = OrphansOf(R, U, wo, E)
           /\ BackupsOf(R, B, wb, F) = BackupsOf(R, B, wb, E)
<1>1. PICK x : x = e.path
  OBVIOUS
<1>2. Entered(D, G, O, base, x) /\ x \notin G
  BY <1>1 DEF Entries
<1>3. ASSUME NEW p \in R PROVE Left(F, p) <=> Left(E, p)
  <2>1. ~Below(e.path, p)
    BY <1>1, <1>2, NoneBelowSkipped
  <2> QED BY <2>1 DEF Left
<1>4. OrphansOf(R, U, wo, F) = OrphansOf(R, U, wo, E)
  BY <1>3 DEF OrphansOf
<1>5. BackupsOf(R, B, wb, F) = BackupsOf(R, B, wb, E)
  BY <1>3 DEF BackupsOf
<1>6. Entries(D, G, O, U, base, wo, F)
  BY DEF Entries
<1> QED BY <1>4, <1>5, <1>6

\* The entries for what is in a directory.
ChildEntries(D, x, orphans) == {[path |-> c, orphans |-> orphans] : c \in Children(D, x)}

LEMMA DescentEntries ==
    ASSUME NEW N, NEW D, Tree(N, D), NEW G, NEW O, NEW base \in D, NEW U, NEW wo \in BOOLEAN,
           NEW R, R = Reached(D, G, O, base),
           NEW E, Entries(D, G, O, U, base, wo, E), NEW e \in E, NEW x, x = e.path, x \in R, x \in O,
           NEW below, below = (e.orphans /\ x \notin U),
           NEW K, K = ChildEntries(D, x, below), NEW F, F = K \cup (E \ {e})
    PROVE  Entries(D, G, O, U, base, wo, F)
<1>1. /\ x \in D
      /\ \A f \in E : Entered(D, G, O, base, f.path)
      /\ \A f \in E : f.orphans = (wo /\ ~Under(R, U, f.path))
      /\ \A f, g \in E : Below(f.path, g.path) => f = g
  BY DEF Entries, Reached
<1>2. \A f \in E : f.path \in D
  BY <1>1 DEF Entered
<1>3. ASSUME NEW k \in K
      PROVE  /\ k.path \in Children(D, x) /\ k.path \in D
             /\ k.orphans = below
             /\ k = [path |-> k.path, orphans |-> below]
  <2>1. PICK c \in Children(D, x) : k = [path |-> c, orphans |-> below]
    BY DEF ChildEntries
  <2>2. k.path = c /\ k.orphans = below
    BY <2>1
  <2> QED BY <2>1, <2>2 DEF Children
<1>4. ASSUME NEW k \in K
      PROVE  Entered(D, G, O, base, k.path) /\ k.orphans = (wo /\ ~Under(R, U, k.path))
  <2>1. PICK c \in Children(D, x) : c = k.path
    BY <1>3
  <2>2. /\ Entered(D, G, O, base, c)
        /\ Under(R, U, c) <=> Under(R, U, x) \/ (x \in R /\ x \in U)
    BY <1>1, ChildEntered
  <2>3. e.orphans = (wo /\ ~Under(R, U, x))
    BY <1>1
  <2>4. k.orphans = below
    BY <1>3
  <2>5. below = (wo /\ ~Under(R, U, c))
    BY <2>2, <2>3
  <2> QED BY <2>1, <2>2, <2>4, <2>5
<1>5. ASSUME NEW k \in K, NEW f \in E
      PROVE  /\ Below(x, k.path) /\ x # k.path /\ ~Below(k.path, x)
             /\ Below(f.path, k.path) => f = e /\ f.path # k.path
             /\ Below(k.path, f.path) => f = e
  <2>1. k.path \in D /\ f.path \in D /\ k.path \in Children(D, x)
    BY <1>2, <1>3
  <2>2. /\ Below(x, k.path) /\ x # k.path
        /\ Below(f.path, k.path) /\ f.path # k.path => Below(f.path, x)
    BY <2>1, ChildIs
  <2>3. ~Below(k.path, x)
    BY <1>1, <2>1, <2>2, TreeOrder
  <2>4. ASSUME Below(k.path, f.path) PROVE f = e
    <3>1. Below(x, f.path)
      BY <1>1, <2>1, <2>2, <2>4, TreeOrder
    <3> QED BY <1>1, <3>1
  <2>5. ASSUME Below(f.path, k.path) PROVE f = e /\ f.path # k.path
    <3>1. CASE f.path = k.path
      <4>1. Below(x, f.path)
        BY <2>2, <3>1
      <4>2. f = e
        BY <1>1, <4>1
      <4> QED BY <2>2, <3>1, <4>2
    <3>2. CASE f.path # k.path
      <4>1. Below(f.path, x)
        BY <2>2, <2>5, <3>2
      <4> QED BY <1>1, <3>2, <4>1
    <3> QED BY <3>1, <3>2
  <2> QED BY <2>2, <2>3, <2>4, <2>5
<1>6. ASSUME NEW k \in K, NEW l \in K, Below(k.path, l.path) PROVE k = l
  <2>1. k.path \in D /\ l.path \in Children(D, x)
    BY <1>3
  <2>2. k.path # l.path => Below(k.path, x)
    BY <1>6, <2>1, ChildIs
  <2>3. k.path = l.path
    BY <1>5, <2>2
  <2>4. k = [path |-> k.path, orphans |-> below]
    BY <1>3
  <2>5. l = [path |-> l.path, orphans |-> below]
    BY <1>3
  <2> QED BY <2>3, <2>4, <2>5
<1>8. ASSUME NEW f \in F, NEW g \in F, Below(f.path, g.path)
      PROVE  f = g
  BY <1>1, <1>5, <1>6, <1>8
<1>9. ASSUME NEW f \in F
      PROVE  Entered(D, G, O, base, f.path) /\ f.orphans = (wo /\ ~Under(R, U, f.path))
  BY <1>1, <1>4
<1>10. Entries(D, G, O, U, base, wo, F)
  BY <1>8, <1>9 DEF Entries
<1> QED BY <1>10

\* What is in the directory x comes in the place of its entry, or nothing.
Replaced(D, x, orphans, E, e, K, F) ==
    (K = {} \/ K = ChildEntries(D, x, orphans)) /\ F = K \cup (E \ {e})

\* With the entry what is at x is told, for the first time.
Told(R, U, B, wo, wb, E, e, x, F) ==
    /\ OrphansOf(R, U, wo, F)
         = OrphansOf(R, U, wo, E) \cup (IF e.orphans /\ x \in U THEN {x} ELSE {})
    /\ BackupsOf(R, B, wb, F)
         = BackupsOf(R, B, wb, E) \cup (IF wb /\ x \in B THEN {x} ELSE {})
    /\ x \notin OrphansOf(R, U, wo, E) /\ x \notin BackupsOf(R, B, wb, E)

LEMMA DescentReports ==
    ASSUME NEW N, NEW D, Tree(N, D), NEW G, NEW O, NEW base \in D,
           NEW R, R = Reached(D, G, O, base),
           NEW U, NEW B, NEW wo \in BOOLEAN, NEW wb \in BOOLEAN,
           NEW E, Entries(D, G, O, U, base, wo, E),
           NEW e \in E, NEW x, x = e.path, x \in R, NEW orphans,
           NEW K, NEW F, Replaced(D, x, orphans, E, e, K, F),
           K = ChildEntries(D, x, orphans) \/ x \notin O \/ (e.orphans /\ x \in U /\ ~wb)
    PROVE  Told(R, U, B, wo, wb, E, e, x, F)
<1>1. /\ x \in D /\ R \subseteq D
      /\ \A f \in E : Entered(D, G, O, base, f.path)
      /\ \A f, g \in E : Below(f.path, g.path) => f = g
      /\ e.orphans = (wo /\ ~Under(R, U, x))
      /\ K = {} \/ K = ChildEntries(D, x, orphans)
      /\ F = K \cup (E \ {e})
  BY DEF Entries, Reached, Replaced
<1>2. ASSUME NEW k \in K PROVE Below(x, k.path) /\ k.path \in D /\ ~Below(k.path, x)
  <2>1. PICK c \in Children(D, x) : k = [path |-> c, orphans |-> orphans]
    BY <1>1 DEF ChildEntries
  <2>2. c \in D /\ Below(x, c) /\ x # c
    BY <1>1, ChildIs DEF Children
  <2>3. ~Below(c, x)
    BY <1>1, <2>2, TreeOrder
  <2> QED BY <2>1, <2>2, <2>3
<1>3. ~Left(F, x) /\ Left(E, x)
  <2>1. Below(e.path, x)
    BY <1>1, TreeOrder
  <2>2. ASSUME NEW f \in F PROVE ~Below(f.path, x)
    BY <1>1, <1>2, <2>2
  <2> QED BY <2>1, <2>2 DEF Left
<1>4. ASSUME NEW p \in R, Left(F, p) PROVE Left(E, p)
  <2>1. PICK f \in F : Below(f.path, p)
    BY <1>4 DEF Left
  <2>2. CASE f \in E
    BY <2>1, <2>2 DEF Left
  <2>3. CASE f \in K
    <3>1. x \in D /\ p \in D /\ f.path \in D /\ Below(x, f.path)
      BY <1>1, <1>4, <1>2, <2>3
    <3>2. Below(x, p)
      BY <2>1, <3>1, TreeOrder
    <3> QED BY <3>2 DEF Left
  <2> QED BY <1>1, <2>2, <2>3
<1>5. ASSUME NEW p \in R, p # x, Left(E, p),
             K = ChildEntries(D, x, orphans) \/ x \notin O \/ ~Below(x, p)
      PROVE  Left(F, p)
  <2>1. PICK f \in E : Below(f.path, p)
    BY <1>5 DEF Left
  <2>2. CASE f # e
    BY <1>1, <2>1, <2>2 DEF Left
  <2>3. CASE f = e
    <3>1. Below(x, p) /\ p \in D
      BY <1>1, <1>5, <2>1, <2>3
    <3>2. x \in O
      <4>1. Entered(D, G, O, base, p) /\ Entered(D, G, O, base, x)
        BY <1>5 DEF Reached
      <4> QED BY <1>1, <1>5, <3>1, <4>1 DEF Entered
    <3>3. K = ChildEntries(D, x, orphans)
      BY <1>5, <3>1, <3>2
    <3>4. PICK c \in Children(D, x) : Below(c, p)
      BY <1>1, <1>5, <3>1, ChildBetween
    <3>5. PICK k : k = [path |-> c, orphans |-> orphans]
      OBVIOUS
    <3>6. k \in K /\ k.path = c
      BY <3>3, <3>5 DEF ChildEntries
    <3> QED BY <1>1, <3>4, <3>6 DEF Left
  <2> QED BY <2>2, <2>3
<1>6. ASSUME NEW p \in R, p # x, Left(E, p), ~Left(F, p)
      PROVE  ~wb /\ Under(R, U, p)
  <2>1. Below(x, p) /\ e.orphans /\ x \in U /\ ~wb
    BY <1>5, <1>6
  <2> QED BY <1>6, <2>1 DEF Under
<1>7. ASSUME NEW p \in R
      PROVE  p \in OrphansOf(R, U, wo, F)
             <=> p \in OrphansOf(R, U, wo, E) \/ (p = x /\ e.orphans /\ x \in U)
  <2>1. CASE p = x
    BY <1>1, <1>3, <2>1 DEF OrphansOf
  <2>2. CASE p # x
    BY <1>4, <1>6, <2>2 DEF OrphansOf
  <2> QED BY <2>1, <2>2
<1>8. ASSUME NEW p \in R
      PROVE  p \in BackupsOf(R, B, wb, F)
             <=> p \in BackupsOf(R, B, wb, E) \/ (p = x /\ wb /\ x \in B)
  <2>1. CASE p = x
    BY <1>3, <2>1 DEF BackupsOf
  <2>2. CASE p # x
    BY <1>4, <1>6, <2>2 DEF BackupsOf
  <2> QED BY <2>1, <2>2
<1>9. /\ OrphansOf(R, U, wo, F) \subseteq R /\ OrphansOf(R, U, wo, E) \subseteq R
      /\ BackupsOf(R, B, wb, F) \subseteq R /\ BackupsOf(R, B, wb, E) \subseteq R
  BY DEF OrphansOf, BackupsOf
<1>10. OrphansOf(R, U, wo, F)
         = OrphansOf(R, U, wo, E) \cup (IF e.orphans /\ x \in U THEN {x} ELSE {})
  BY <1>7, <1>9
<1>11. BackupsOf(R, B, wb, F) = BackupsOf(R, B, wb, E) \cup (IF wb /\ x \in B THEN {x} ELSE {})
  BY <1>8, <1>9
<1>12. x \notin OrphansOf(R, U, wo, E) /\ x \notin BackupsOf(R, B, wb, E)
  BY <1>3 DEF OrphansOf, BackupsOf
<1> QED BY <1>10, <1>11, <1>12 DEF Told

\* All that is asked of the step from the entries E to F.
Descends(D, G, O, U, base, wo, wb, R, E, e, x, orphans, K, F) ==
    /\ R = Reached(D, G, O, base) /\ Entries(D, G, O, U, base, wo, E)
    /\ e \in E /\ x = e.path /\ x \in R
    /\ Replaced(D, x, orphans, E, e, K, F)
    /\ K = ChildEntries(D, x, orphans) \/ x \notin O \/ (e.orphans /\ x \in U /\ ~wb)

LEMMA DescentTold ==
    ASSUME NEW N, NEW D, Tree(N, D), NEW G, NEW O, NEW base \in D,
           NEW U, NEW B, NEW wo \in BOOLEAN, NEW wb \in BOOLEAN,
           NEW R, NEW E, NEW e, NEW x, NEW orphans, NEW K, NEW F,
           Descends(D, G, O, U, base, wo, wb, R, E, e, x, orphans, K, F)
    PROVE  Told(R, U, B, wo, wb, E, e, x, F)
<1>1. /\ R = Reached(D, G, O, base) /\ Entries(D, G, O, U, base, wo, E)
      /\ e \in E /\ x = e.path /\ x \in R /\ Replaced(D, x, orphans, E, e, K, F)
      /\ K = ChildEntries(D, x, orphans) \/ x \notin O \/ (e.orphans /\ x \in U /\ ~wb)
  BY DEF Descends
<1> QED BY <1>1, DescentReports, ZenonT(30)

\* The scan begins with what is in its base.
LEMMA ScanStarts ==
    ASSUME NEW N, NEW D, Tree(N, D), NEW G, NEW O, NEW base \in D,
           NEW R, R = Reached(D, G, O, base),
           NEW U, NEW B, NEW wo \in BOOLEAN, NEW wb,
           NEW E, E = IF base \in O THEN ChildEntries(D, base, wo) ELSE {}
    PROVE  /\ Entries(D, G, O, U, base, wo, E)
           /\ OrphansOf(R, U, wo, E) = {} /\ BackupsOf(R, B, wb, E) = {}
<1>1. ASSUME NEW e \in E
      PROVE  /\ base \in O /\ e.path \in Children(D, base) /\ e.path \in D /\ e.orphans = wo
             /\ e = [path |-> e.path, orphans |-> wo]
  <2>1. base \in O /\ e \in ChildEntries(D, base, wo)
    OBVIOUS
  <2>2. PICK c \in Children(D, base) : e = [path |-> c, orphans |-> wo]
    BY <2>1 DEF ChildEntries
  <2>3. e.path = c /\ e.orphans = wo
    BY <2>2
  <2> QED BY <2>1, <2>2, <2>3 DEF Children
<1>2. ASSUME NEW e \in E PROVE Entered(D, G, O, base, e.path) /\ e.orphans = (wo /\ ~Under(R, U, e.path))
  <2>1. PICK c \in Children(D, base) : c = e.path /\ base \in O
    BY <1>1
  <2>2. /\ Entered(D, G, O, base, c)
        /\ Under(R, U, c) <=> Under(R, U, base) \/ (base \in R /\ base \in U)
    BY <2>1, ChildEntered
  <2>3. ~Under(R, U, base) /\ base \notin R
    BY NoneAboveBase
  <2>4. e.orphans = wo
    BY <1>1
  <2> QED BY <2>1, <2>2, <2>3, <2>4
<1>3. ASSUME NEW e \in E, NEW f \in E, Below(e.path, f.path) PROVE e = f
  <2>1. e.path \in D /\ e.path \in Children(D, base) /\ f.path \in Children(D, base)
    BY <1>1
  <2>2. Below(base, e.path) /\ base # e.path
    BY <2>1, ChildIs
  <2>3. e.path # f.path => Below(e.path, base)
    BY <1>3, <2>1, ChildIs
  <2>4. ~Below(e.path, base)
    BY <2>1, <2>2, TreeOrder
  <2>5. e.path = f.path
    BY <2>3, <2>4
  <2>6. e = [path |-> e.path, orphans |-> wo]
    BY <1>1
  <2>7. f = [path |-> f.path, orphans |-> wo]
    BY <1>1
  <2> QED BY <2>5, <2>6, <2>7
<1>4. Entries(D, G, O, U, base, wo, E)
  BY <1>2, <1>3 DEF Entries
<1>5. ASSUME NEW p \in R PROVE Left(E, p)
  <2>1. p \in D /\ Below(base, p) /\ p # base /\ Entered(D, G, O, base, p)
    BY DEF Reached, Entered
  <2>2. base \in O
    <3>1. Below(base, base)
      BY TreeOrder
    <3> QED BY <2>1, <3>1 DEF Entered
  <2>3. PICK c \in Children(D, base) : Below(c, p)
    BY <2>1, ChildBetween
  <2>4. PICK k : k = [path |-> c, orphans |-> wo]
    OBVIOUS
  <2>5. k \in E /\ k.path = c
    BY <2>2, <2>4 DEF ChildEntries
  <2> QED BY <2>3, <2>5 DEF Left
<1> QED BY <1>4, <1>5 DEF OrphansOf, BackupsOf

\* The scan between two of its entries: the paths found are those it has passed.
ScanHolds(D, G, O, U, B, base, beside, wo, wb, stack, orphans, backups) ==
    LET R == Reached(D, G, O, base) IN
    /\ IsList(stack) /\ IsInjective(stack)
    /\ IsList(orphans) /\ IsInjective(orphans)
    /\ IsList(backups) /\ IsInjective(backups)
    /\ Entries(D, G, O, U, base, wo, ToSet(stack))
    /\ ToSet(orphans) = OrphansOf(R, U, wo, ToSet(stack))
    /\ ToSet(backups) = BackupsOf(R, B, wb, ToSet(stack)) \cup beside

\* The list with a path at its end, or as it is.
Longer(s, given, x) == IF given THEN Append(s, x) ELSE s

LEMMA LongerOnce ==
    ASSUME NEW s, IsList(s), IsInjective(s), NEW given \in BOOLEAN, NEW x, x \notin ToSet(s)
    PROVE  /\ IsList(Longer(s, given, x)) /\ IsInjective(Longer(s, given, x))
           /\ ToSet(Longer(s, given, x)) = ToSet(s) \cup (IF given THEN {x} ELSE {})
<1>1. PICK T : T = ToSet(s) \cup {x} /\ s \in Seq(T) /\ x \in T
  <2>1. s \in Seq(ToSet(s) \cup {x})
    BY ListOfMembers
  <2> QED BY <2>1
<1>2. PICK t : t = Append(s, x) /\ t \in Seq(T) /\ ToSet(t) = ToSet(s) \cup {x} /\ IsInjective(t)
  <2>1. Append(s, x) \in Seq(T)
    BY <1>1
  <2>2. ToSet(Append(s, x)) = ToSet(s) \cup {x}
    BY <1>1, AppendMembers
  <2>3. IsInjective(Append(s, x))
    BY <1>1, AppendOnce
  <2> QED BY <2>1, <2>2, <2>3
<1>3. IsList(t)
  BY <1>2, MembersOfList
<1> QED BY <1>2, <1>3 DEF Longer

LEMMA SkipStep ==
    ASSUME NEW N, NEW D, Tree(N, D), NEW G, NEW O, NEW base \in D, NEW U, NEW B, NEW beside,
           NEW wo \in BOOLEAN, NEW wb \in BOOLEAN, NEW stack, NEW orphans, NEW backups,
           ScanHolds(D, G, O, U, B, base, beside, wo, wb, stack, orphans, backups),
           stack # << >>, Head(stack).path \notin G
    PROVE  ScanHolds(D, G, O, U, B, base, beside, wo, wb, Tail(stack), orphans, backups)
<1>1. PICK E, R : E = ToSet(stack) /\ R = Reached(D, G, O, base)
  OBVIOUS
<1>2. /\ IsInjective(stack) /\ stack \in Seq(E)
      /\ IsList(orphans) /\ IsInjective(orphans) /\ IsList(backups) /\ IsInjective(backups)
      /\ Entries(D, G, O, U, base, wo, E)
      /\ ToSet(orphans) = OrphansOf(R, U, wo, E)
      /\ ToSet(backups) = BackupsOf(R, B, wb, E) \cup beside
  BY <1>1 DEF ScanHolds, IsList
<1>3. PICK e, rest : e = Head(stack) /\ rest = Tail(stack)
  OBVIOUS
<1>4. /\ e \in E /\ rest \in Seq(E)
      /\ IsInjective(rest) /\ ToSet(rest) = E \ {e}
  BY <1>1, <1>2, <1>3, HeadTailMembers, TailOnce
<1>5. PICK F : F = E \ {e}
  OBVIOUS
<1>6. /\ Entries(D, G, O, U, base, wo, F)
      /\ OrphansOf(R, U, wo, F) = OrphansOf(R, U, wo, E)
      /\ BackupsOf(R, B, wb, F) = BackupsOf(R, B, wb, E)
  BY <1>1, <1>2, <1>3, <1>4, <1>5, SkipLeaves
<1>7. IsList(rest)
  BY <1>4, MembersOfList
<1>8. ScanHolds(D, G, O, U, B, base, beside, wo, wb, rest, orphans, backups)
  BY <1>1, <1>2, <1>4, <1>5, <1>6, <1>7 DEF ScanHolds
<1> QED BY <1>3, <1>8

LEMMA DescentStep ==
    ASSUME NEW N, NEW D, Tree(N, D), NEW G, NEW O, NEW base \in D, NEW U, NEW B, NEW beside,
           NEW wo \in BOOLEAN, NEW wb \in BOOLEAN, NEW stack, NEW orphans, NEW backups,
           ScanHolds(D, G, O, U, B, base, beside, wo, wb, stack, orphans, backups),
           beside \cap Reached(D, G, O, base) = {},
           stack # << >>, NEW e, e = Head(stack), NEW x, x = e.path, x \in G,
           NEW orphan \in BOOLEAN, orphan <=> e.orphans /\ x \in U,
           NEW found \in BOOLEAN, found <=> wb /\ x \in B,
           NEW below, below = (e.orphans /\ x \notin U),
           NEW kids, IsList(kids), IsInjective(kids),
           \/ x \in O /\ ToSet(kids) = ChildEntries(D, x, below)
           \/ ToSet(kids) = {} /\ (x \notin O \/ (orphan /\ ~wb))
    PROVE  ScanHolds(D, G, O, U, B, base, beside, wo, wb, kids \o Tail(stack),
                     Longer(orphans, orphan, x), Longer(backups, found, x))
<1>1. PICK E, R, K : E = ToSet(stack) /\ R = Reached(D, G, O, base) /\ K = ToSet(kids)
  OBVIOUS
<1>2. /\ IsInjective(stack) /\ stack \in Seq(E)
      /\ IsList(orphans) /\ IsInjective(orphans) /\ IsList(backups) /\ IsInjective(backups)
      /\ Entries(D, G, O, U, base, wo, E)
      /\ ToSet(orphans) = OrphansOf(R, U, wo, E)
      /\ ToSet(backups) = BackupsOf(R, B, wb, E) \cup beside
  BY <1>1 DEF ScanHolds, IsList
<1>3. PICK rest : rest = Tail(stack)
  OBVIOUS
<1>4. /\ e \in E /\ rest \in Seq(E)
      /\ IsInjective(rest) /\ ToSet(rest) = E \ {e}
  BY <1>1, <1>2, <1>3, HeadTailMembers, TailOnce
<1>5. x \in R /\ x \in D
  <2>1. Entered(D, G, O, base, x)
    BY <1>2, <1>4 DEF Entries
  <2>2. x \in D
    BY <2>1 DEF Entered
  <2> QED BY <1>1, <2>1, <2>2 DEF Reached
<1>6. PICK F : F = K \cup (E \ {e})
  OBVIOUS
<1>7. Entries(D, G, O, U, base, wo, F) /\ K \cap E = {}
  <2>1. CASE K = {}
    BY <1>2, <1>6, <2>1 DEF Entries
  <2>2. CASE x \in O /\ K = ChildEntries(D, x, below)
    <3>1. Entries(D, G, O, U, base, wo, F)
      BY <1>1, <1>2, <1>4, <1>5, <1>6, <2>2, DescentEntries
    <3>2. ASSUME NEW k \in K, k \in E PROVE FALSE
      <4>1. PICK c \in Children(D, x) : k = [path |-> c, orphans |-> below]
        BY <2>2, <3>2 DEF ChildEntries
      <4>2. Below(x, c) /\ x # c /\ c = k.path
        BY <1>5, <4>1, ChildIs
      <4>3. k = e
        BY <1>2, <1>4, <3>2, <4>2 DEF Entries
      <4> QED BY <4>2, <4>3
    <3> QED BY <3>1, <3>2
  <2> QED BY <1>1, <2>1, <2>2
<1>8. /\ OrphansOf(R, U, wo, F)
           = OrphansOf(R, U, wo, E) \cup (IF e.orphans /\ x \in U THEN {x} ELSE {})
      /\ BackupsOf(R, B, wb, F)
           = BackupsOf(R, B, wb, E) \cup (IF wb /\ x \in B THEN {x} ELSE {})
      /\ x \notin OrphansOf(R, U, wo, E) /\ x \notin BackupsOf(R, B, wb, E)
  <2>1. Replaced(D, x, below, E, e, K, F)
    BY <1>1, <1>6 DEF Replaced
  <2>2. K = ChildEntries(D, x, below) \/ x \notin O \/ (e.orphans /\ x \in U /\ ~wb)
    BY <1>1
  <2>3. Descends(D, G, O, U, base, wo, wb, R, E, e, x, below, K, F)
    BY <1>1, <1>2, <1>4, <1>5, <2>1, <2>2 DEF Descends
  <2>4. Told(R, U, B, wo, wb, E, e, x, F)
    BY <2>3, DescentTold
  <2> QED BY <2>4 DEF Told
<1>9. PICK os : os = Longer(orphans, orphan, x) /\ IsList(os) /\ IsInjective(os)
                /\ ToSet(os) = ToSet(orphans) \cup (IF orphan THEN {x} ELSE {})
  BY <1>2, <1>8, LongerOnce
<1>10. x \notin ToSet(backups)
  BY <1>1, <1>2, <1>5, <1>8
<1>11. PICK bs : bs = Longer(backups, found, x) /\ IsList(bs) /\ IsInjective(bs)
                 /\ ToSet(bs) = ToSet(backups) \cup (IF found THEN {x} ELSE {})
  BY <1>2, <1>10, LongerOnce
<1>12. PICK st : st = kids \o rest /\ IsList(st) /\ IsInjective(st) /\ ToSet(st) = F
  <2>1. PICK T : kids \in Seq(T) /\ rest \in Seq(T)
    <3>1. kids \in Seq(K \cup E) /\ rest \in Seq(K \cup E)
      BY <1>1, <1>4, ListOfMembers, MembersOfList
    <3> QED BY <3>1
  <2>2. IsInjective(kids \o rest)
    <3>1. ToSet(kids) \cap ToSet(rest) = {}
      BY <1>1, <1>4, <1>7
    <3> QED BY <1>4, <2>1, <3>1, ConcatOnce
  <2>3. kids \o rest \in Seq(T) /\ ToSet(kids \o rest) = F
    BY <1>1, <1>4, <1>6, <2>1, ConcatMembers
  <2>4. IsList(kids \o rest)
    BY <2>3, MembersOfList
  <2> QED BY <2>2, <2>3, <2>4
<1>13. ToSet(os) = OrphansOf(R, U, wo, F)
  BY <1>2, <1>8, <1>9
<1>14. ToSet(bs) = BackupsOf(R, B, wb, F) \cup beside
  BY <1>2, <1>8, <1>11
<1>15. ScanHolds(D, G, O, U, B, base, beside, wo, wb, st, os, bs)
  BY <1>1, <1>7, <1>9, <1>11, <1>12, <1>13, <1>14 DEF ScanHolds
<1> QED BY <1>3, <1>9, <1>11, <1>12, <1>15

\* All that is asked of the step of the scan at x.
StepsDown(D, G, O, U, B, base, beside, wo, wb, stack, e, x, orphan, found, below, kids) ==
    /\ beside \cap Reached(D, G, O, base) = {}
    /\ stack # << >> /\ e = Head(stack) /\ x = e.path /\ x \in G
    /\ orphan <=> e.orphans /\ x \in U
    /\ found <=> wb /\ x \in B
    /\ below = (e.orphans /\ x \notin U)
    /\ IsList(kids) /\ IsInjective(kids)
    /\ \/ x \in O /\ ToSet(kids) = ChildEntries(D, x, below)
       \/ ToSet(kids) = {} /\ (x \notin O \/ (orphan /\ ~wb))

LEMMA StepDown ==
    ASSUME NEW N, NEW D, Tree(N, D), NEW G, NEW O, NEW base \in D, NEW U, NEW B, NEW beside,
           NEW wo \in BOOLEAN, NEW wb \in BOOLEAN, NEW stack, NEW orphans, NEW backups,
           ScanHolds(D, G, O, U, B, base, beside, wo, wb, stack, orphans, backups),
           NEW e, NEW x, NEW orphan \in BOOLEAN, NEW found \in BOOLEAN, NEW below, NEW kids,
           StepsDown(D, G, O, U, B, base, beside, wo, wb, stack, e, x, orphan, found, below, kids)
    PROVE  ScanHolds(D, G, O, U, B, base, beside, wo, wb, kids \o Tail(stack),
                     Longer(orphans, orphan, x), Longer(backups, found, x))
BY DescentStep DEF StepsDown

-----------------------------------------------------------------------------
(***************************************************************************)
(* pacreport: the scan of a file system.                                   *)
(***************************************************************************)

Walked(G, O, base, p) ==
    /\ IsStrictPrefix(base, p)
    /\ \A n \in Len(base)..Len(p) :
         /\ n > Len(base) => SubSeq(p, 1, n) \in G
         /\ n < Len(p) => SubSeq(p, 1, n) \in O

LEMMA WalkedIsReached ==
    ASSUME NEW N, NEW D, Tree(N, D), NEW G, NEW O, NEW base \in D, NEW p \in D
    PROVE  Walked(G, O, base, p) <=> p \in Reached(D, G, O, base)
<1>1. base \in Seq(N) /\ p \in Seq(N) /\ D \subseteq Seq(N)
  BY DEF Tree
<1>2. PICK a \in Nat, b \in Nat : a = Len(base) /\ b = Len(p)
  BY <1>1
<1>3. IsStrictPrefix(base, p) <=> Below(base, p) /\ base # p
  BY <1>1, PrefixIsBelow
<1>4. ASSUME Walked(G, O, base, p) PROVE p \in Reached(D, G, O, base)
  <2>1. Below(base, p) /\ base # p
    BY <1>3, <1>4 DEF Walked
  <2>2. a < b
    BY <1>1, <1>2, <2>1, BelowLonger
  <2>3. \A n \in a..b : (n > a => SubSeq(p, 1, n) \in G) /\ (n < b => SubSeq(p, 1, n) \in O)
    BY <1>2, <1>4 DEF Walked
  <2>4. p \in G
    <3>1. SubSeq(p, 1, b) = p
      <4>1. b \in 0..Len(p) /\ Below(p, p)
        BY <1>1, <1>2, BelowOrder
      <4> QED BY <1>1, <1>2, <4>1, BeginningIs
    <3>2. b \in a..b /\ b > a
      BY <1>2, <2>2
    <3> QED BY <2>3, <3>1, <3>2
  <2>5. ASSUME NEW q \in D, Below(base, q), Below(q, p), q # p
        PROVE  q \in O /\ (q # base => q \in G)
    <3>1. PICK n \in Nat : n = Len(q) /\ q \in Seq(N)
      BY <1>1
    <3>2. a <= n /\ n < b
      <4>1. a <= n
        BY <1>2, <2>5, <3>1 DEF Below
      <4>2. n < b
        BY <1>1, <1>2, <2>5, <3>1, BelowLonger
      <4> QED BY <4>1, <4>2
    <3>3. n \in a..b /\ n \in 0..Len(p)
      BY <1>2, <3>1, <3>2
    <3>4. q = SubSeq(p, 1, n)
      BY <1>1, <2>5, <3>1, <3>3, BeginningIs
    <3>5. q # base => n > a
      <4>1. q # base => Len(base) < Len(q)
        BY <1>1, <2>5, <3>1, BelowLonger
      <4> QED BY <1>2, <3>1, <4>1
    <3> QED BY <2>3, <3>2, <3>3, <3>4, <3>5
  <2> QED BY <2>1, <2>4, <2>5 DEF Reached, Entered
<1>5. ASSUME p \in Reached(D, G, O, base) PROVE Walked(G, O, base, p)
  <2>1. /\ Below(base, p) /\ base # p /\ p \in G
        /\ \A q \in D : Below(base, q) /\ Below(q, p) /\ q # p => q \in O /\ (q # base => q \in G)
    BY <1>5 DEF Reached, Entered
  <2>2. a < b
    BY <1>1, <1>2, <2>1, BelowLonger
  <2>3. ASSUME NEW n \in a..b
        PROVE  (n > a => SubSeq(p, 1, n) \in G) /\ (n < b => SubSeq(p, 1, n) \in O)
    <3>1. n \in 0..Len(p) /\ n \in Nat
      BY <1>2
    <3>2. PICK q : q = SubSeq(p, 1, n) /\ q \in D /\ q \in Seq(N) /\ Len(q) = n /\ Below(q, p)
      <4>1. SubSeq(p, 1, n) \in D
        BY <3>1 DEF Tree
      <4>2. SubSeq(p, 1, n) \in Seq(N) /\ Len(SubSeq(p, 1, n)) = n /\ Below(SubSeq(p, 1, n), p)
        BY <1>1, <3>1, BeginningIs
      <4> QED BY <4>1, <4>2
    <3>3. Below(base, q)
      <4>1. Below(base, q) \/ Below(q, base)
        BY <2>1, <3>2, TreeOrder
      <4>2. Below(q, base) => q = base
        <5> SUFFICES ASSUME Below(q, base), q # base PROVE FALSE
          OBVIOUS
        <5>1. Len(q) < Len(base)
          BY <1>1, <3>2, BelowLonger
        <5> QED BY <1>2, <3>1, <3>2, <5>1
      <4>3. Below(base, base)
        BY <1>1, BelowOrder
      <4> QED BY <4>1, <4>2, <4>3
    <3>4. n > a => q # base
      BY <1>2, <3>2
    <3>5. n < b => q # p
      BY <1>2, <3>2
    <3>6. q = p => q \in G
      BY <2>1
    <3> QED BY <2>1, <3>2, <3>3, <3>4, <3>5, <3>6
  <2> QED BY <1>2, <1>3, <2>1, <2>3 DEF Walked
<1> QED BY <1>4, <1>5

\* The members of a finite set as a list.
LEMMA SetListed ==
    ASSUME NEW S, IsFiniteSet(S)
    PROVE  SetToSeq(S) \in Seq(S) /\ IsInjective(SetToSeq(S)) /\ ToSet(SetToSeq(S)) = S
<1>1. PICK n \in Nat : n = Cardinality(S) /\ ExistsBijection(1..n, S)
  BY FS_CardinalityType
<1>2. \E f \in [1..n -> S] : IsInjective(f)
  BY <1>1 DEF ExistsBijection, Bijection, Injection
<1>3. PICK f : f = SetToSeq(S)
  OBVIOUS
<1>4. f \in [1..n -> S] /\ IsInjective(f)
  BY <1>1, <1>2, <1>3 DEF SetToSeq
<1>5. f \in Seq(S)
  BY <1>1, <1>4
<1>6. f \in Surjection(1..n, S)
  <2>1. IsFiniteSet(1..n) /\ Cardinality(1..n) = n
    <3>1. CASE n = 0
      BY <3>1, FS_EmptySet
    <3>2. CASE n # 0
      BY <3>2, FS_Interval
    <3> QED BY <3>1, <3>2
  <2>2. f \in Injection(1..n, S)
    BY <1>4 DEF Injection
  <2> QED BY <1>1, <2>1, <2>2, FS_Injection
<1>7. ToSet(f) = S
  BY <1>4, <1>6 DEF ToSet, Surjection
<1> QED BY <1>3, <1>4, <1>5, <1>7

\* What is so of the systems pacreport scans.
Names(s) == UNION {ToSet(p) : p \in DOMAIN s.fs}

OwnBackups(s) ==
    /\ IsList(s.local) /\ IsInjective(s.local)
    /\ \A p \in ToSet(s.local) :
         /\ IsList(p.backup) /\ IsInjective(p.backup)
         /\ \A path \in ToSet(p.backup) :
              /\ path[1] # "etc" => path \in DOMAIN s.saved
              /\ \A q \in ToSet(s.local) : path \in ToSet(q.backup) => q = p
    /\ \A path \in DOMAIN s.saved :
         /\ IsList(s.saved[path]) /\ IsInjective(s.saved[path])
         /\ \A q \in ToSet(s.saved[path]) :
              /\ path[1] # "etc" => q[1] # "etc"
              /\ \A other \in DOMAIN s.saved : q \in ToSet(s.saved[other]) => other = path

ScanSystem(s) ==
    /\ Tree(Names(s), DOMAIN s.fs) /\ OwnBackups(s)
    /\ IsFiniteSet(DOMAIN s.fs) /\ << >> \in DOMAIN s.fs /\ <<"etc">> \in DOMAIN s.fs
    /\ s.fs[<< >>].dir /\ s.fs[<<"etc">>].dir

LEMMA ScanSystems ==
    ASSUME NEW r \in ReportRuns
    PROVE  ScanSystem(r.sys)
<1>1. PICK s : s = r.sys
  OBVIOUS
<1>2. OwnBackups(s)
  <2>1. IsList(s.local) /\ IsInjective(s.local)
    BY <1>1, ReportRunsAssumption
  <2>2. \A p \in ToSet(s.local) :
          /\ IsList(p.backup) /\ IsInjective(p.backup)
          /\ \A path \in ToSet(p.backup) :
               /\ path[1] # "etc" => path \in DOMAIN s.saved
               /\ \A q \in ToSet(s.local) : path \in ToSet(q.backup) => q = p
    BY <1>1, ReportRunsAssumption, Zenon
  <2>3. \A path \in DOMAIN s.saved :
          /\ IsList(s.saved[path]) /\ IsInjective(s.saved[path])
          /\ \A q \in ToSet(s.saved[path]) :
               /\ path[1] # "etc" => q[1] # "etc"
               /\ \A other \in DOMAIN s.saved : q \in ToSet(s.saved[other]) => other = path
    <3> SUFFICES ASSUME NEW path \in DOMAIN s.saved
                 PROVE  /\ IsList(s.saved[path]) /\ IsInjective(s.saved[path])
                        /\ \A q \in ToSet(s.saved[path]) :
                             /\ path[1] # "etc" => q[1] # "etc"
                             /\ \A other \in DOMAIN s.saved :
                                  q \in ToSet(s.saved[other]) => other = path
      OBVIOUS
    <3>1. path \in DOMAIN r.sys.saved
      BY <1>1
    <3>2. /\ IsList(r.sys.saved[path]) /\ IsInjective(r.sys.saved[path])
          /\ \A q \in ToSet(r.sys.saved[path]) :
               /\ path[1] # "etc" => q[1] # "etc"
               /\ \A other \in DOMAIN r.sys.saved :
                    q \in ToSet(r.sys.saved[other]) => other = path
      BY <3>1, ReportRunsAssumption, Zenon
    <3> QED BY <1>1, <3>2
  <2> QED BY <2>1, <2>2, <2>3 DEF OwnBackups
<1>3. /\ IsFiniteSet(DOMAIN s.fs) /\ << >> \in DOMAIN s.fs /\ <<"etc">> \in DOMAIN s.fs
      /\ s.fs[<< >>].dir /\ s.fs[<<"etc">>].dir
  BY <1>1, ReportRunsAssumption
<1>4. \A path \in DOMAIN s.fs :
        IsList(path) /\ \A n \in 0..Len(path) : SubSeq(path, 1, n) \in DOMAIN s.fs
  BY <1>1, ReportRunsAssumption
<1>5. Tree(Names(s), DOMAIN s.fs)
  <2>1. ASSUME NEW p \in DOMAIN s.fs PROVE p \in Seq(Names(s))
    <3>1. IsList(p) /\ ToSet(p) \subseteq Names(s)
      BY <1>4 DEF Names
    <3> QED BY <3>1, ListOfMembers
  <2> QED BY <1>4, <2>1 DEF Tree
<1> QED BY <1>1, <1>2, <1>3, <1>5 DEF ScanSystem

\* The paths that can be scanned, those not left out, the directories that can be read,
\* the unowned ones, and the backups.
Paths == DOMAIN sys.fs
Goods == {q \in Paths : q \notin Skips /\ ~ShouldIgnore(q) /\ sys.fs[q].stat}
Opens == {q \in Paths : sys.fs[q].dir /\ sys.fs[q].readable}
Strays == {q \in Paths : Unowned(q)}
Kept == {q \in Paths : ~sys.fs[q].dir /\ sys.fs[q].backup}

Base == IF o.backups > 1 \/ o.orphans > 0 THEN << >> ELSE <<"etc">>
Beside == IF o.backups > 1 \/ o.orphans > 0 THEN {} ELSE ToSet(FoundBackups)

LEMMA InScanIs ==
    ASSUME ScanSystem(sys), NEW base \in Paths, NEW p
    PROVE  InScan(base, p) <=> p \in Reached(Paths, Goods, Opens, base)
<1>1. Tree(Names(sys), Paths)
  BY DEF ScanSystem, Paths
<1>2. InScan(base, p) => p \in Paths
  BY DEF InScan, Paths
<1>3. p \in Reached(Paths, Goods, Opens, base) => p \in Paths
  BY DEF Reached
<1>4. ASSUME p \in Paths PROVE InScan(base, p) <=> Walked(Goods, Opens, base, p)
  <2>1. p \in Seq(Names(sys)) /\ base \in Seq(Names(sys))
    BY <1>1, <1>4 DEF Tree
  <2>2. PICK a \in Nat, b \in Nat : a = Len(base) /\ b = Len(p)
    BY <2>1
  <2>3. ASSUME NEW n \in a..b
        PROVE  LET q == SubSeq(p, 1, n) IN
               (/\ n > a => q \notin Skips /\ ~ShouldIgnore(q) /\ sys.fs[q].stat
                /\ n < b => sys.fs[q].dir /\ sys.fs[q].readable)
               <=> (n > a => q \in Goods) /\ (n < b => q \in Opens)
    <3>1. n \in 0..Len(p)
      BY <2>2
    <3>2. PICK q : q = SubSeq(p, 1, n) /\ q \in Paths
      BY <1>1, <1>4, <3>1 DEF Tree
    <3>3. /\ q \in Goods <=> q \notin Skips /\ ~ShouldIgnore(q) /\ sys.fs[q].stat
          /\ q \in Opens <=> sys.fs[q].dir /\ sys.fs[q].readable
      BY <3>2 DEF Goods, Opens
    <3> QED BY <3>2, <3>3
  <2> QED BY <1>4, <2>2, <2>3 DEF InScan, Walked, Paths
<1>5. p \in Paths => (Walked(Goods, Opens, base, p) <=> p \in Reached(Paths, Goods, Opens, base))
  BY <1>1, WalkedIsReached
<1> QED BY <1>2, <1>3, <1>4, <1>5

\* readdir gives what is in a directory that can be read, and nothing twice.
LEMMA EntriesAre ==
    ASSUME ScanSystem(sys), NEW dir \in Paths, NEW orphans
    PROVE  /\ IsList(ScanEntries(dir, orphans)) /\ IsInjective(ScanEntries(dir, orphans))
           /\ ToSet(ScanEntries(dir, orphans))
                = IF sys.fs[dir].readable THEN ChildEntries(Paths, dir, orphans) ELSE {}
<1>1. PICK S : S = IF sys.fs[dir].readable THEN Children(Paths, dir) ELSE {}
  OBVIOUS
<1>2. IsFiniteSet(S)
  <2>1. S \in SUBSET Paths /\ IsFiniteSet(Paths)
    BY <1>1 DEF Children, ScanSystem, Paths
  <2> QED BY <2>1, FS_Subset
<1>3. PICK order : order = SetToSeq(S) /\ order \in Seq(S) /\ IsInjective(order) /\ ToSet(order) = S
  BY <1>2, SetListed
<1>4. PICK list : list = [i \in DOMAIN order |-> [path |-> order[i], orphans |-> orphans]]
  OBVIOUS
<1>5. ScanEntries(dir, orphans) = list
  <2>1. S = IF sys.fs[dir].readable THEN {q \in DOMAIN sys.fs : q # << >> /\ Front(q) = dir} ELSE {}
    BY <1>1 DEF Children, Paths
  <2> QED BY <1>3, <1>4, <2>1 DEF ScanEntries
<1>6. PICK n \in Nat : n = Len(order) /\ DOMAIN order = 1..n
  BY <1>3
<1>7. /\ DOMAIN list = 1..n
      /\ \A i \in 1..n : list[i].path = order[i] /\ list[i] = [path |-> order[i], orphans |-> orphans]
  BY <1>4, <1>6
<1>8. IsInjective(list)
  <2>1. ASSUME NEW i \in 1..n, NEW j \in 1..n, list[i] = list[j] PROVE i = j
    <3>1. order[i] = order[j]
      BY <1>7, <2>1
    <3> QED BY <1>3, <1>6, <3>1 DEF IsInjective
  <2> QED BY <1>7, <2>1 DEF IsInjective
<1>9. IsList(list)
  <2>1. \A i \in 1..n : list[i] \in ToSet(list)
    BY <1>7 DEF ToSet
  <2>2. list = [i \in 1..n |-> list[i]]
    BY <1>4, <1>6, <1>7
  <2>3. list \in Seq(ToSet(list))
    BY <2>1, <2>2
  <2> QED BY <2>3 DEF IsList
<1>10. ToSet(list) = {[path |-> c, orphans |-> orphans] : c \in S}
  <2>1. S = {order[i] : i \in 1..n}
    BY <1>3, <1>6 DEF ToSet
  <2>2. ToSet(list) = {list[i] : i \in 1..n}
    BY <1>7 DEF ToSet
  <2> QED BY <1>7, <2>1, <2>2
<1>11. ToSet(list) = IF sys.fs[dir].readable THEN ChildEntries(Paths, dir, orphans) ELSE {}
  BY <1>1, <1>10 DEF ChildEntries
<1> QED BY <1>5, <1>8, <1>9, <1>11

\* The backups of one path are those of its list that are there.
LEMMA FoundForIs ==
    ASSUME ScanSystem(sys), NEW p \in ToSet(sys.local), NEW path \in ToSet(p.backup)
    PROVE  /\ FoundFor(path) \in Seq(Paths) /\ IsInjective(FoundFor(path))
           /\ \A q \in ToSet(FoundFor(path)) :
                /\ q[1] # "etc" /\ path \in DOMAIN sys.saved
                /\ q \in ToSet(sys.saved[path])
<1>1. CASE path[1] = "etc"
  <2>1. FoundFor(path) = << >>
    BY <1>1 DEF FoundFor
  <2>2. << >> \in Seq(Paths) /\ IsInjective(<< >>) /\ ToSet(<< >>) = {}
    BY DEF IsInjective, ToSet
  <2> QED BY <2>1, <2>2
<1>2. CASE path[1] # "etc"
  <2>1. FoundFor(path) = Select(sys.saved[path], Paths)
    BY <1>2 DEF FoundFor, Paths
  <2>2. path \in DOMAIN sys.saved
    BY <1>2 DEF ScanSystem, OwnBackups
  <2>3. /\ IsList(sys.saved[path]) /\ IsInjective(sys.saved[path])
        /\ \A q \in ToSet(sys.saved[path]) : q[1] # "etc"
    BY <1>2, <2>2 DEF ScanSystem, OwnBackups
  <2>4. PICK s : s = sys.saved[path] /\ s \in Seq(ToSet(s))
    BY <2>3 DEF IsList
  <2>5. PICK f : f = Select(s, Paths) /\ ToSet(f) = ToSet(s) \cap Paths /\ IsInjective(f)
                 /\ f \in Seq(ToSet(s))
    BY <2>3, <2>4, SelectList, SelectMembers, SelectOnce
  <2>6. f \in Seq(Paths)
    <3>1. IsList(f)
      BY <2>5, MembersOfList
    <3> QED BY <2>5, <3>1, ListOfMembers
  <2> QED BY <2>1, <2>2, <2>3, <2>4, <2>5, <2>6
<1> QED BY <1>1, <1>2

\* The backups of the files of one package.
FoundOf(p) == FlattenSeq([j \in DOMAIN p.backup |-> FoundFor(p.backup[j])])

LEMMA FoundOfIs ==
    ASSUME ScanSystem(sys), NEW p \in ToSet(sys.local)
    PROVE  /\ FoundOf(p) \in Seq(Paths) /\ IsInjective(FoundOf(p))
           /\ \A q \in ToSet(FoundOf(p)) :
                /\ q[1] # "etc"
                /\ \E path \in ToSet(p.backup) :
                     path \in DOMAIN sys.saved /\ q \in ToSet(sys.saved[path])
<1>1. IsList(p.backup) /\ IsInjective(p.backup)
  BY DEF ScanSystem, OwnBackups
<1>2. PICK b : b = p.backup /\ IsInjective(b) /\ \E n \in Nat : n = Len(b) /\ DOMAIN b = 1..n
  BY <1>1 DEF IsList
<1>3. PICK n \in Nat : n = Len(b) /\ DOMAIN b = 1..n
  BY <1>2
<1>4. \A j \in 1..n : b[j] \in ToSet(p.backup)
  BY <1>2, <1>3 DEF ToSet
<1>5. PICK ss : ss = [j \in 1..n |-> FoundFor(b[j])]
  OBVIOUS
<1>6. FoundOf(p) = FlattenSeq(ss)
  BY <1>2, <1>3, <1>5 DEF FoundOf
<1>7. ASSUME NEW j \in 1..n
      PROVE  /\ ss[j] = FoundFor(b[j]) /\ ss[j] \in Seq(Paths) /\ IsInjective(ss[j])
             /\ \A q \in ToSet(ss[j]) : /\ q[1] # "etc" /\ b[j] \in DOMAIN sys.saved
                                        /\ q \in ToSet(sys.saved[b[j]])
  <2>1. ss[j] = FoundFor(b[j]) /\ b[j] \in ToSet(p.backup)
    BY <1>4, <1>5
  <2>2. PICK path \in ToSet(p.backup) : path = b[j]
    BY <2>1
  <2>3. /\ FoundFor(path) \in Seq(Paths) /\ IsInjective(FoundFor(path))
        /\ \A q \in ToSet(FoundFor(path)) :
             /\ q[1] # "etc" /\ path \in DOMAIN sys.saved
             /\ q \in ToSet(sys.saved[path])
    BY <2>2, FoundForIs
  <2> QED BY <2>1, <2>2, <2>3
<1>8. ss \in Seq(Seq(Paths)) /\ Len(ss) = n
  BY <1>5, <1>7
<1>9. ASSUME NEW i \in 1..n, NEW j \in 1..n, i # j PROVE ToSet(ss[i]) \cap ToSet(ss[j]) = {}
  <2> SUFFICES ASSUME NEW q, q \in ToSet(ss[i]), q \in ToSet(ss[j]) PROVE FALSE
    OBVIOUS
  <2>1. /\ b[i] \in DOMAIN sys.saved /\ q \in ToSet(sys.saved[b[i]])
        /\ b[j] \in DOMAIN sys.saved /\ q \in ToSet(sys.saved[b[j]])
    BY <1>7
  <2>2. b[i] = b[j]
    BY <2>1 DEF ScanSystem, OwnBackups
  <2> QED BY <1>2, <1>3, <1>9, <2>2 DEF IsInjective
<1>10. PICK f : f = FlattenSeq(ss) /\ f \in Seq(Paths) /\ IsInjective(f)
               /\ ToSet(f) = UNION {ToSet(s) : s \in ToSet(ss)}
  <2>1. FlattenSeq(ss) \in Seq(Paths)
    BY <1>8, FlattenList
  <2>2. IsInjective(FlattenSeq(ss))
    BY <1>7, <1>8, <1>9, FlattenOnce
  <2>3. ToSet(FlattenSeq(ss)) = UNION {ToSet(s) : s \in ToSet(ss)}
    BY <1>8, FlattenMembers
  <2> QED BY <2>1, <2>2, <2>3
<1>11. ASSUME NEW q \in ToSet(f)
       PROVE  /\ q[1] # "etc"
              /\ \E path \in ToSet(p.backup) :
                   path \in DOMAIN sys.saved /\ q \in ToSet(sys.saved[path])
  <2>1. PICK s \in ToSet(ss) : q \in ToSet(s)
    BY <1>10
  <2>2. PICK j \in 1..n : s = ss[j]
    BY <1>8, <2>1 DEF ToSet
  <2> QED BY <1>4, <1>7, <2>1, <2>2
<1> QED BY <1>6, <1>10, <1>11

LEMMA FoundBackupsAre ==
    ASSUME ScanSystem(sys)
    PROVE  /\ IsList(FoundBackups) /\ IsInjective(FoundBackups)
           /\ \A q \in ToSet(FoundBackups) : q[1] # "etc"
<1>1. IsList(sys.local) /\ IsInjective(sys.local)
  BY DEF ScanSystem, OwnBackups
<1>2. PICK l : l = sys.local /\ IsInjective(l) /\ \E n \in Nat : n = Len(l) /\ DOMAIN l = 1..n
  BY <1>1 DEF IsList
<1>3. PICK n \in Nat : n = Len(l) /\ DOMAIN l = 1..n
  BY <1>2
<1>4. \A i \in 1..n : l[i] \in ToSet(sys.local)
  BY <1>2, <1>3 DEF ToSet
<1>5. PICK ss : ss = [i \in 1..n |-> FoundOf(l[i])]
  OBVIOUS
<1>6. FoundBackups = FlattenSeq(ss)
  BY <1>2, <1>3, <1>5 DEF FoundBackups, FoundOf
<1>7. ASSUME NEW i \in 1..n
      PROVE  /\ ss[i] \in Seq(Paths) /\ IsInjective(ss[i])
             /\ \A q \in ToSet(ss[i]) :
                  /\ q[1] # "etc"
                  /\ \E path \in ToSet(l[i].backup) :
                       path \in DOMAIN sys.saved /\ q \in ToSet(sys.saved[path])
  <2>1. ss[i] = FoundOf(l[i]) /\ l[i] \in ToSet(sys.local)
    BY <1>4, <1>5
  <2>2. PICK p \in ToSet(sys.local) : p = l[i]
    BY <2>1
  <2>3. /\ FoundOf(p) \in Seq(Paths) /\ IsInjective(FoundOf(p))
        /\ \A q \in ToSet(FoundOf(p)) :
             /\ q[1] # "etc"
             /\ \E path \in ToSet(p.backup) :
                  path \in DOMAIN sys.saved /\ q \in ToSet(sys.saved[path])
    BY <2>2, FoundOfIs
  <2> QED BY <2>1, <2>2, <2>3
<1>8. ss \in Seq(Seq(Paths)) /\ Len(ss) = n
  BY <1>5, <1>7
<1>9. ASSUME NEW i \in 1..n, NEW j \in 1..n, i # j PROVE ToSet(ss[i]) \cap ToSet(ss[j]) = {}
  <2> SUFFICES ASSUME NEW q, q \in ToSet(ss[i]), q \in ToSet(ss[j]) PROVE FALSE
    OBVIOUS
  <2>1. PICK path \in ToSet(l[i].backup) : path \in DOMAIN sys.saved /\ q \in ToSet(sys.saved[path])
    BY <1>7
  <2>2. PICK other \in ToSet(l[j].backup) : other \in DOMAIN sys.saved /\ q \in ToSet(sys.saved[other])
    BY <1>7
  <2>3. other = path
    BY <2>1, <2>2 DEF ScanSystem, OwnBackups
  <2>4. l[i] \in ToSet(sys.local) /\ l[j] \in ToSet(sys.local) /\ path \in ToSet(l[i].backup)
        /\ path \in ToSet(l[j].backup)
    BY <1>4, <2>1, <2>2, <2>3
  <2>5. l[i] = l[j]
    BY <2>4 DEF ScanSystem, OwnBackups
  <2> QED BY <1>2, <1>3, <1>9, <2>5 DEF IsInjective
<1>10. PICK f : f = FlattenSeq(ss) /\ f \in Seq(Paths) /\ IsInjective(f)
               /\ ToSet(f) = UNION {ToSet(s) : s \in ToSet(ss)}
  <2>1. FlattenSeq(ss) \in Seq(Paths)
    BY <1>8, FlattenList
  <2>2. IsInjective(FlattenSeq(ss))
    BY <1>7, <1>8, <1>9, FlattenOnce
  <2>3. ToSet(FlattenSeq(ss)) = UNION {ToSet(s) : s \in ToSet(ss)}
    BY <1>8, FlattenMembers
  <2> QED BY <2>1, <2>2, <2>3
<1>11. ASSUME NEW q \in ToSet(f) PROVE q[1] # "etc"
  <2>1. PICK s \in ToSet(ss) : q \in ToSet(s)
    BY <1>10
  <2>2. PICK j \in 1..n : s = ss[j]
    BY <1>8, <2>1 DEF ToSet
  <2> QED BY <1>7, <2>1, <2>2
<1>12. IsList(f)
  BY <1>10, MembersOfList
<1> QED BY <1>6, <1>10, <1>11, <1>12

\* The backups next to files outside of etc are not come to when only etc is scanned.
LEMMA BesideApart ==
    ASSUME ScanSystem(sys)
    PROVE  Beside \cap Reached(Paths, Goods, Opens, Base) = {}
<1> SUFFICES ASSUME NEW q, q \in Beside, q \in Reached(Paths, Goods, Opens, Base) PROVE FALSE
  OBVIOUS
<1>1. Base = <<"etc">> /\ q \in ToSet(FoundBackups)
  BY DEF Beside, Base
<1>2. Below(<<"etc">>, q)
  BY <1>1 DEF Reached, Entered
<1>3. q[1] = "etc"
  <2>1. Len(<<"etc">>) = 1 /\ <<"etc">>[1] = "etc" /\ 1 \in 1..1
    OBVIOUS
  <2> QED BY <1>2, <2>1 DEF Below
<1> QED BY <1>1, <1>3, FoundBackupsAre

ScanAt ==
    \E wo, wb \in BOOLEAN :
      /\ wo <=> o.orphans > 0
      /\ wb <=> o.backups > 0
      /\ wo \/ wb
      /\ ScanHolds(Paths, Goods, Opens, Strays, Kept, Base, Beside, wo, wb,
                   todo, acc.orphans, acc.backups)

ScanInv ==
    tool = "pacreport" => ScanSystem(sys) /\ (pc = "scan" => ScanAt)

LEMMA SameScan ==
    ASSUME sys' = sys, o' = o
    PROVE  /\ Paths' = Paths /\ Goods' = Goods /\ Opens' = Opens /\ Strays' = Strays
           /\ Kept' = Kept /\ Base' = Base /\ Beside' = Beside
           /\ ScanSystem(sys)' <=> ScanSystem(sys)
<1>1. Paths' = Paths /\ Opens' = Opens /\ Kept' = Kept /\ Base' = Base
  BY DEF Paths, Opens, Kept, Base
<1>2. \A q : (ShouldIgnore(q)' <=> ShouldIgnore(q)) /\ (Unowned(q)' <=> Unowned(q))
  BY DEF ShouldIgnore, IgnoresUnowned, Unowned, Owns
<1>3. Goods' = Goods /\ Strays' = Strays
  BY <1>1, <1>2 DEF Goods, Strays
<1>4. FoundBackups' = FoundBackups
  <2>1. \A path : FoundFor(path)' = FoundFor(path)
    BY DEF FoundFor
  <2> QED BY <2>1 DEF FoundBackups
<1>5. Beside' = Beside
  BY <1>4 DEF Beside
<1>6. ScanSystem(sys)' <=> ScanSystem(sys)
  BY DEF ScanSystem, OwnBackups, Names
<1> QED BY <1>1, <1>3, <1>5, <1>6

LEMMA ScanSetsUp ==
    ASSUME ScanSystem(sys), ReportConf, o.backups \in Nat, o.orphans \in Nat, pc' = "scan"
    PROVE  ScanAt'
<1>1. sys' = sys /\ o' = o
  BY DEF ReportConf, Stays
<1>2. PICK D, G, O, U, B, base, beside :
        /\ D = Paths /\ G = Goods /\ O = Opens /\ U = Strays /\ B = Kept
        /\ base = Base /\ beside = Beside
  OBVIOUS
<1>3. PICK wo \in BOOLEAN, wb \in BOOLEAN : (wo <=> o.orphans > 0) /\ (wb <=> o.backups > 0)
  OBVIOUS
<1>4. /\ todo' = ScanEntries(base, o.orphans > 0)
      /\ acc'.orphans = << >>
      /\ acc'.backups = IF o.backups > 1 \/ o.orphans > 0 THEN << >> ELSE FoundBackups
  BY <1>2 DEF ReportConf, Exit, Goto, Base
<1>5. PICK stack : stack = todo' /\ stack = ScanEntries(base, wo)
  <2>1. (o.orphans > 0) = wo
    BY <1>3
  <2>2. todo' = ScanEntries(base, wo)
    BY <1>4, <2>1, Zenon
  <2> QED BY <2>2
<1>6. Tree(Names(sys), D) /\ base \in D /\ sys.fs[base].dir
  BY <1>2 DEF ScanSystem, Paths, Base
<1>7. /\ IsList(stack) /\ IsInjective(stack)
      /\ ToSet(stack) = IF base \in O THEN ChildEntries(D, base, wo) ELSE {}
  <2>1. base \in O <=> sys.fs[base].readable
    BY <1>2, <1>6 DEF Opens
  <2>2. /\ IsList(stack) /\ IsInjective(stack)
        /\ ToSet(stack) = IF sys.fs[base].readable THEN ChildEntries(D, base, wo) ELSE {}
    BY <1>2, <1>5, <1>6, EntriesAre
  <2> QED BY <2>1, <2>2
<1>8. PICK os, bs : os = acc'.orphans /\ bs = acc'.backups
  OBVIOUS
<1>9. IsList(os) /\ IsInjective(os) /\ ToSet(os) = {}
  BY <1>4, <1>8 DEF IsList, IsInjective, ToSet
<1>10. IsList(bs) /\ IsInjective(bs) /\ ToSet(bs) = beside
  <2>1. CASE o.backups > 1 \/ o.orphans > 0
    BY <1>2, <1>4, <1>8, <2>1 DEF IsList, IsInjective, ToSet, Beside
  <2>2. CASE ~(o.backups > 1 \/ o.orphans > 0)
    BY <1>2, <1>4, <1>8, <2>2, FoundBackupsAre DEF Beside
  <2> QED BY <2>1, <2>2
<1>11. PICK E, R : E = ToSet(stack) /\ R = Reached(D, G, O, base)
  OBVIOUS
<1>12. Entries(D, G, O, U, base, wo, E) /\ OrphansOf(R, U, wo, E) = {} /\ BackupsOf(R, B, wb, E) = {}
  BY <1>6, <1>7, <1>11, ScanStarts
<1>13. ScanHolds(D, G, O, U, B, base, beside, wo, wb, stack, os, bs)
  BY <1>7, <1>9, <1>10, <1>11, <1>12 DEF ScanHolds
<1>14. /\ D = Paths' /\ G = Goods' /\ O = Opens' /\ U = Strays' /\ B = Kept'
       /\ base = Base' /\ beside = Beside'
  BY <1>1, <1>2, SameScan
<1>15. (wo <=> o'.orphans > 0) /\ (wb <=> o'.backups > 0) /\ (wo \/ wb)
  <2>1. ~(o.backups = 0 /\ o.orphans = 0)
    BY DEF ReportConf, Exit, Goto
  <2> QED BY <1>1, <1>3, <2>1
<1> QED BY <1>5, <1>8, <1>13, <1>14, <1>15 DEF ScanAt

LEMMA ScanGoesOn ==
    ASSUME ScanSystem(sys), Scan, ScanAt, o.backups \in Nat, o.orphans \in Nat
    PROVE  ScanAt'
<1>1. sys' = sys /\ o' = o /\ todo # << >>
  BY DEF Scan, Stays
<1>2. PICK D, G, O, U, B, base, beside :
        /\ D = Paths /\ G = Goods /\ O = Opens /\ U = Strays /\ B = Kept
        /\ base = Base /\ beside = Beside
  OBVIOUS
<1>3. PICK wo \in BOOLEAN, wb \in BOOLEAN :
        /\ wo <=> o.orphans > 0
        /\ wb <=> o.backups > 0
        /\ wo \/ wb
        /\ ScanHolds(Paths, Goods, Opens, Strays, Kept, Base, Beside, wo, wb,
                     todo, acc.orphans, acc.backups)
  BY DEF ScanAt
<1>4. PICK stack, os, bs, e, x :
        /\ stack = todo /\ os = acc.orphans /\ bs = acc.backups
        /\ e = Head(stack) /\ x = e.path
  OBVIOUS
<1>5. ScanHolds(D, G, O, U, B, base, beside, wo, wb, stack, os, bs)
  BY <1>2, <1>3, <1>4
<1>6. Tree(Names(sys), D) /\ base \in D /\ stack # << >>
  BY <1>1, <1>2, <1>4 DEF ScanSystem, Paths, Base
<1>7. Entries(D, G, O, U, base, wo, ToSet(stack)) /\ e \in ToSet(stack)
  <2>1. stack \in Seq(ToSet(stack))
    BY <1>5 DEF ScanHolds, IsList
  <2> QED BY <1>4, <1>5, <1>6, <2>1, HeadTailMembers DEF ScanHolds
<1>8. x \in D /\ e.orphans \in BOOLEAN
  <2>1. Entered(D, G, O, base, x) /\ e.orphans = (wo /\ ~Under(Reached(D, G, O, base), U, x))
    BY <1>4, <1>7 DEF Entries
  <2> QED BY <2>1 DEF Entered
<1>9. x \in G <=> ~(x \in Skips \/ ShouldIgnore(x) \/ ~sys.fs[x].stat)
  BY <1>2, <1>8 DEF Goods
<1>10. PICK stack1, os1, bs1 : stack1 = todo' /\ os1 = acc'.orphans /\ bs1 = acc'.backups
  OBVIOUS
<1>11. ScanHolds(D, G, O, U, B, base, beside, wo, wb, stack1, os1, bs1)
  <2>1. CASE x \notin G
    <3>1. stack1 = Tail(stack) /\ os1 = os /\ bs1 = bs
      BY <1>4, <1>9, <1>10, <2>1 DEF Scan
    <3>2. Head(stack).path \notin G
      BY <1>4, <2>1
    <3> QED BY <1>5, <1>6, <3>1, <3>2, SkipStep
  <2>2. CASE x \in G
    <3>1. PICK orphan \in BOOLEAN, found \in BOOLEAN, below \in BOOLEAN :
            /\ orphan <=> e.orphans /\ Unowned(x)
            /\ found <=> ~sys.fs[x].dir /\ o.backups > 0 /\ sys.fs[x].backup
            /\ below <=> e.orphans /\ ~orphan
      OBVIOUS
    <3>2. (e.orphans /\ Unowned(x)) = orphan /\ (e.orphans /\ ~orphan) = below
      BY <3>1
    <3>3. PICK kids : /\ kids = Descend(e, orphan)
                      /\ stack1 = kids \o Tail(stack)
                      /\ os1 = (IF orphan THEN Append(os, x) ELSE os)
                      /\ bs1 = (IF found THEN Append(bs, x) ELSE bs)
      <4>1. stack1 = Descend(e, e.orphans /\ Unowned(x)) \o Tail(stack)
        BY <1>4, <1>9, <1>10, <2>2 DEF Scan
      <4>5. acc' = [orphans |-> IF e.orphans /\ Unowned(x) THEN Append(os, x) ELSE os,
                    backups |-> IF ~sys.fs[x].dir /\ o.backups > 0 /\ sys.fs[x].backup
                                THEN Append(bs, x) ELSE bs]
        BY <1>4, <1>9, <1>10, <2>2 DEF Scan
      <4>2. os1 = (IF e.orphans /\ Unowned(x) THEN Append(os, x) ELSE os)
        BY <1>10, <4>5
      <4>3. bs1 = (IF ~sys.fs[x].dir /\ o.backups > 0 /\ sys.fs[x].backup
                   THEN Append(bs, x) ELSE bs)
        BY <1>10, <4>5
      <4>4. stack1 = Descend(e, orphan) \o Tail(stack)
        BY <3>2, <4>1, Zenon
      <4> QED BY <3>1, <4>2, <4>3, <4>4
    <3>4. os1 = Longer(os, orphan, x) /\ bs1 = Longer(bs, found, x)
      BY <3>3 DEF Longer
    <3>5. /\ x \in U <=> Unowned(x)
          /\ x \in O <=> sys.fs[x].dir /\ sys.fs[x].readable
          /\ x \in B <=> ~sys.fs[x].dir /\ sys.fs[x].backup
      BY <1>2, <1>8 DEF Strays, Opens, Kept
    <3>6. /\ orphan <=> e.orphans /\ x \in U
          /\ found <=> wb /\ x \in B
          /\ below = (e.orphans /\ x \notin U)
      BY <1>3, <3>1, <3>5
    <3>7. /\ IsList(kids) /\ IsInjective(kids)
          /\ \/ x \in O /\ ToSet(kids) = ChildEntries(D, x, below)
             \/ ToSet(kids) = {} /\ (x \notin O \/ (orphan /\ ~wb))
      <4>1. CASE ~sys.fs[x].dir \/ (orphan /\ o.backups = 0)
        <5>1. kids = << >>
          BY <1>4, <3>3, <4>1 DEF Descend
        <5>2. x \notin O \/ (orphan /\ ~wb)
          BY <1>3, <3>5, <4>1
        <5> QED BY <5>1, <5>2 DEF IsList, IsInjective, ToSet
      <4>2. CASE ~(~sys.fs[x].dir \/ (orphan /\ o.backups = 0))
        <5>1. kids = ScanEntries(x, e.orphans /\ ~orphan)
          BY <1>4, <3>3, <4>2 DEF Descend
        <5>2. kids = ScanEntries(x, below)
          BY <3>2, <5>1, Zenon
        <5>3. /\ IsList(kids) /\ IsInjective(kids)
              /\ ToSet(kids) = IF sys.fs[x].readable THEN ChildEntries(D, x, below) ELSE {}
          BY <1>2, <1>8, <5>2, EntriesAre
        <5> QED BY <3>5, <4>2, <5>3
      <4> QED BY <4>1, <4>2
    <3>8. beside \cap Reached(D, G, O, base) = {}
      BY <1>2, BesideApart
    <3>9. ScanHolds(D, G, O, U, B, base, beside, wo, wb, kids \o Tail(stack),
                    Longer(os, orphan, x), Longer(bs, found, x))
      <4>1. StepsDown(D, G, O, U, B, base, beside, wo, wb, stack, e, x, orphan, found, below, kids)
        BY <1>4, <1>6, <2>2, <3>6, <3>7, <3>8 DEF StepsDown
      <4> QED BY <1>5, <1>6, <3>1, <4>1, StepDown
    <3> QED BY <3>3, <3>4, <3>9
  <2> QED BY <2>1, <2>2
<1>12. /\ D = Paths' /\ G = Goods' /\ O = Opens' /\ U = Strays' /\ B = Kept'
       /\ base = Base' /\ beside = Beside'
  BY <1>1, <1>2, SameScan
<1>13. (wo <=> o'.orphans > 0) /\ (wb <=> o'.backups > 0) /\ (wo \/ wb)
  BY <1>1, <1>3
<1> QED BY <1>10, <1>11, <1>12, <1>13 DEF ScanAt

LEMMA ScanBegins == Init => ScanInv
<1> SUFFICES ASSUME Init, tool = "pacreport" PROVE ScanSystem(sys) /\ pc = "start"
  BY DEF ScanInv
<1>1. PICK r \in ReportRuns : sys = r.sys /\ pc = "start"
  BY DEF Init, Started
<1> QED BY <1>1, ScanSystems

LEMMA ScanStutters ==
    ASSUME ScanAt, sys' = sys, o' = o, todo' = todo, acc' = acc
    PROVE  ScanAt'
<1>1. PICK D, G, O, U, B, base, beside :
        /\ D = Paths /\ G = Goods /\ O = Opens /\ U = Strays /\ B = Kept
        /\ base = Base /\ beside = Beside
  OBVIOUS
<1>2. PICK stack, os, bs : stack = todo /\ os = acc.orphans /\ bs = acc.backups
  OBVIOUS
<1>3. PICK wo \in BOOLEAN, wb \in BOOLEAN :
        /\ wo <=> o.orphans > 0
        /\ wb <=> o.backups > 0
        /\ wo \/ wb
        /\ ScanHolds(D, G, O, U, B, base, beside, wo, wb, stack, os, bs)
  BY <1>1, <1>2 DEF ScanAt
<1>4. /\ D = Paths' /\ G = Goods' /\ O = Opens' /\ U = Strays' /\ B = Kept'
      /\ base = Base' /\ beside = Beside'
  BY <1>1, SameScan
<1>5. stack = todo' /\ os = acc'.orphans /\ bs = acc'.backups
  BY <1>2
<1> QED BY <1>3, <1>4, <1>5 DEF ScanAt

LEMMA ScanSteps ==
    ASSUME ReportInv, ScanInv, ReportStep
    PROVE  ScanInv'
<1>1. tool = "pacreport" /\ ScanSystem(sys)
  BY OwnSteps DEF ScanInv
<1>2. CASE ReportSetup
  <2>1. sys' = sys /\ pc' # "scan"
    BY <1>2 DEF ReportSetup, Setup, Stays, Exit
  <2>2. ScanSystem(sys)'
    BY <1>1, <2>1 DEF ScanSystem, OwnBackups, Names
  <2> QED BY <2>1, <2>2 DEF ScanInv
<1>3. CASE ~ReportSetup
  <2>1. sys' = sys /\ o' = o /\ pc \notin {"start", "exited"}
    BY <1>3 DEF ReportStep, ReportConf, Scan, Scanned, FindLeaves, Connect, Connected,
         ChainStart, ChainDep, ChainNext, ChainEnd, ReportEnd, Stays, At
  <2>2. o.backups \in Nat /\ o.orphans \in Nat
    <3>1. PICK values : o \in ReportGlobals(values)
      BY <1>1, <2>1 DEF ReportInv
    <3> QED BY <3>1 DEF ReportGlobals
  <2>3. ScanSystem(sys)'
    BY <1>1, <2>1, SameScan
  <2>4. CASE ReportConf
    BY <1>1, <2>2, <2>3, <2>4, ScanSetsUp DEF ScanInv
  <2>5. CASE Scan
    <3>1. ScanAt
      BY <1>1, <2>5 DEF Scan, At, ScanInv
    <3> QED BY <1>1, <2>2, <2>3, <2>5, <3>1, ScanGoesOn DEF ScanInv
  <2>6. CASE Scanned \/ FindLeaves \/ Connect \/ Connected \/ ChainStart \/ ChainDep
             \/ ChainNext \/ ChainEnd \/ ReportEnd
    <3>1. pc' # "scan"
      BY <2>6 DEF Scanned, FindLeaves, Connect, Connected, ChainStart, ChainDep, ChainNext,
           ChainEnd, ReportEnd, At, Goto, Exit
    <3> QED BY <2>3, <3>1 DEF ScanInv
  <2> QED BY <1>3, <2>4, <2>5, <2>6 DEF ReportStep
<1> QED BY <1>2, <1>3

LEMMA ScanAlways == Spec => []ScanInv
<1>1. ReportInv /\ ScanInv /\ [Next]_toolVars => ScanInv'
  <2> SUFFICES ASSUME ReportInv, ScanInv, [Next]_toolVars PROVE ScanInv'
    OBVIOUS
  <2>1. CASE SiftStep \/ CheckStep \/ RepairFileStep \/ SyncStep
    <3>1. tool' # "pacreport"
      BY <2>1, OwnSteps
    <3> QED BY <3>1 DEF ScanInv
  <2>2. CASE ReportStep
    BY <2>2, ScanSteps
  <2>3. CASE UNCHANGED toolVars
    <3>1. sys' = sys /\ o' = o /\ todo' = todo /\ acc' = acc /\ pc' = pc /\ tool' = tool
      BY <2>3 DEF toolVars
    <3>2. ScanSystem(sys)' <=> ScanSystem(sys)
      BY <3>1, SameScan
    <3> QED BY <3>1, <3>2, ScanStutters DEF ScanInv
  <2> QED BY <2>1, <2>2, <2>3 DEF Next, Finished
<1> QED BY <1>1, ScanBegins, ReportHolds, PTL DEF Spec

\* When _scan_filesystem is done, the unowned paths that are in no unowned directory are
\* each told once, and so are the backups, with those next to files outside of etc, in
\* every file system it can be started on.
THEOREM ScanIsComplete == Spec => []ScanReportsOnce
<1>1. ReportInv /\ ScanInv => ScanReportsOnce
  <2> SUFFICES ASSUME ReportInv, ScanInv, At("pacreport", "scan"), todo = << >>
               PROVE  ScanReportsOnce
    BY DEF ScanReportsOnce
  <2>1. ScanSystem(sys) /\ ScanAt
    BY DEF ScanInv, At
  <2>2. o.backups \in Nat /\ o.orphans \in Nat
    <3>1. PICK values : o \in ReportGlobals(values)
      BY DEF ReportInv, At
    <3> QED BY <3>1 DEF ReportGlobals
  <2>3. PICK base, beside, R, U, B :
          /\ base = Base /\ beside = Beside /\ U = Strays /\ B = Kept
          /\ R = Reached(Paths, Goods, Opens, base)
    OBVIOUS
  <2>4. PICK wo \in BOOLEAN, wb \in BOOLEAN :
          /\ wo <=> o.orphans > 0
          /\ wb <=> o.backups > 0
          /\ wo \/ wb
          /\ ScanHolds(Paths, Goods, Opens, Strays, Kept, Base, Beside, wo, wb,
                       todo, acc.orphans, acc.backups)
    BY <2>1 DEF ScanAt
  <2>5. PICK os, bs : os = acc.orphans /\ bs = acc.backups
    OBVIOUS
  <2>6. /\ IsInjective(os) /\ IsInjective(bs)
        /\ ToSet(os) = OrphansOf(R, U, wo, ToSet(todo))
        /\ ToSet(bs) = BackupsOf(R, B, wb, ToSet(todo)) \cup beside
    BY <2>3, <2>4, <2>5 DEF ScanHolds
  <2>7. \A p : ~Left(ToSet(todo), p)
    BY DEF Left, ToSet
  <2>8. base \in Paths /\ base = IF o.backups > 1 \/ o.orphans > 0 THEN << >> ELSE <<"etc">>
    BY <2>1, <2>3 DEF Base, ScanSystem, Paths
  <2>9. PICK scanned : scanned = {path \in DOMAIN sys.fs : InScan(base, path)}
    OBVIOUS
  <2>10. scanned = R
    <3>1. \A p : InScan(base, p) <=> p \in R
      BY <2>1, <2>3, <2>8, InScanIs
    <3>2. R \subseteq Paths
      BY <2>3 DEF Reached
    <3> QED BY <2>9, <3>1, <3>2 DEF Paths
  <2>11. \A p \in R, q \in R : Below(q, p) /\ q # p <=> IsStrictPrefix(q, p)
    <3>1. ASSUME NEW p \in R, NEW q \in R PROVE Below(q, p) /\ q # p <=> IsStrictPrefix(q, p)
      <4>1. p \in Seq(Names(sys)) /\ q \in Seq(Names(sys))
        BY <2>1, <2>3 DEF Reached, ScanSystem, Tree, Paths
      <4> QED BY <4>1, PrefixIsBelow
    <3> QED BY <3>1
  <2>12. R \subseteq Paths /\ \A p \in Paths : p \in U <=> Unowned(p)
    BY <2>3 DEF Reached, Strays
  <2>13. ToSet(os) = IF o.orphans > 0
                     THEN {path \in scanned :
                             /\ Unowned(path)
                             /\ \A q \in scanned : IsStrictPrefix(q, path) => ~Unowned(q)}
                     ELSE {}
    BY <2>4, <2>6, <2>7, <2>10, <2>11, <2>12 DEF OrphansOf, Under
  <2>14. \A p \in Paths : p \in B <=> ~sys.fs[p].dir /\ sys.fs[p].backup
    BY <2>3 DEF Kept
  <2>15. ToSet(bs) = IF o.backups = 0 THEN {}
                     ELSE {path \in scanned : ~sys.fs[path].dir /\ sys.fs[path].backup}
                          \cup (IF o.backups > 1 \/ o.orphans > 0 THEN {}
                                ELSE ToSet(FoundBackups))
    <3>1. BackupsOf(R, B, wb, ToSet(todo))
            = IF o.backups = 0 THEN {}
              ELSE {path \in scanned : ~sys.fs[path].dir /\ sys.fs[path].backup}
      BY <2>2, <2>4, <2>7, <2>10, <2>12, <2>14 DEF BackupsOf
    <3> QED BY <2>2, <2>3, <2>4, <2>6, <3>1 DEF Beside
  <2> QED BY <2>5, <2>6, <2>8, <2>9, <2>13, <2>15 DEF ScanReportsOnce
<1> QED BY <1>1, ReportHolds, ScanAlways, PTL

-----------------------------------------------------------------------------
(***************************************************************************)
(* Loops that are written as functions of the number of their rounds.      *)
(***************************************************************************)

Rounds(N, b, h) == LET after[n \in 0..N] == IF n = 0 THEN b ELSE h[after[n - 1]] IN after

\* A loop from b that does h, where h stays in V.
LEMMA LoopSteps ==
    ASSUME NEW N \in Nat, NEW V, NEW b \in V, NEW h, \A v \in V : h[v] \in V, NEW g,
           g = Rounds(N, b, h)
    PROVE  g \in [0..N -> V] /\ g[0] = b /\ \A n \in 1..N : g[n] = h[g[n - 1]]
<1> DEFINE step == [n \in 1..N |-> [v \in V |-> h[v]]]
           F(a) == [n \in 0..N |-> IF n = 0 THEN b ELSE h[a[n - 1]]]
<1>1. PICK f \in [0..N -> V] : Recursive(f, N, b, step)
  <2>1. step \in [1..N -> [V -> V]]
    OBVIOUS
  <2> HIDE DEF step
  <2> QED BY <2>1, RecursionExists
<1>2. ASSUME NEW n \in 1..N PROVE f[n] = h[f[n - 1]]
  <2>1. n - 1 \in 0..N
    OBVIOUS
  <2>2. f[n] = step[n][f[n - 1]] /\ f[n - 1] \in V
    BY <1>1, <2>1 DEF Recursive
  <2> QED BY <2>2
<1>3. f[0] = b
  BY <1>1 DEF Recursive
<1>4. f = F(f)
  <2>1. f = [n \in 0..N |-> f[n]]
    OBVIOUS
  <2>2. ASSUME NEW n \in 0..N PROVE f[n] = IF n = 0 THEN b ELSE h[f[n - 1]]
    <3>1. n = 0 \/ n \in 1..N
      OBVIOUS
    <3> QED BY <1>2, <1>3, <3>1
  <2> QED BY <2>1, <2>2, Zenon
<1>5. g = F(g)
  <2> HIDE DEF step
  <2>1. \E a : a = [n \in 0..N |-> IF n = 0 THEN b ELSE h[a[n - 1]]]
    BY <1>4
  <2>2. g = CHOOSE after : after = [n \in 0..N |-> IF n = 0 THEN b ELSE h[after[n - 1]]]
    BY DEF Rounds
  <2> QED BY <2>1, <2>2, Zenon
<1>6. g[0] = b /\ \A n \in 1..N : g[n] = h[g[n - 1]]
  <2>1. 0 \in 0..N /\ \A n \in 1..N : n \in 0..N /\ n # 0
    OBVIOUS
  <2> QED BY <1>5, <2>1
<1>7. \A n \in 0..N : g[n] = f[n]
  <2>1. ASSUME NEW n \in 1..N, g[n - 1] = f[n - 1] PROVE g[n] = f[n]
    BY <1>2, <1>6, <2>1
  <2>2. Alike(g, f, N)
    BY <1>3, <1>6, <2>1 DEF Alike
  <2> QED BY <2>2, SameAlong
<1>8. g = f
  <2>1. g = [n \in 0..N |-> g[n]]
    <3> HIDE DEF step
    <3> QED BY <1>5
  <2>2. f = [n \in 0..N |-> f[n]]
    OBVIOUS
  <2>3. [n \in 0..N |-> g[n]] = [n \in 0..N |-> f[n]]
    BY <1>7
  <2> QED BY <2>1, <2>2, <2>3
<1> QED BY <1>6, <1>8

-----------------------------------------------------------------------------
(***************************************************************************)
(* pu_pathcmp.                                                             *)
(***************************************************************************)

LEMMA TidyLength ==
    ASSUME NEW p, Tidy(p)
    PROVE  /\ Len(p) \in Nat /\ p \in Seq(Int) /\ DOMAIN p = 1..Len(p)
           /\ \A i \in 1..Len(p) : p[i] \in Int /\ p[i] # 0
BY DEF Tidy

LEMMA TidyCodes ==
    ASSUME NEW p, Tidy(p)
    PROVE  /\ \A i \in 1..Len(p) : CodeAt(p, i) = p[i] /\ CodeAt(p, i) # 0
           /\ CodeAt(p, Len(p) + 1) = 0 /\ \A i \in 1..(Len(p) + 1) : CodeAt(p, i) \in Int
<1>1. \A i \in 1..Len(p) : CodeAt(p, i) = p[i] /\ CodeAt(p, i) # 0 /\ CodeAt(p, i) \in Int
  BY TidyLength DEF CodeAt
<1>2. CodeAt(p, Len(p) + 1) = 0
  BY TidyLength DEF CodeAt
<1>3. \A i \in 1..(Len(p) + 1) : i \in 1..Len(p) \/ i = Len(p) + 1
  BY TidyLength
<1> QED BY <1>1, <1>2, <1>3

\* In a tidy path there is one slash to go past, if any.
LEMMA PastOne ==
    ASSUME NEW p, Tidy(p), NEW i \in 1..(Len(p) + 1)
    PROVE  /\ PastSlashes(p, i) = IF CodeAt(p, i) = Slash THEN i + 1 ELSE i
           /\ PastSlashes(p, i) \in 1..(Len(p) + 1)
<1> DEFINE P(k) == CodeAt(p, k) # Slash /\ \A j \in i..(k - 1) : CodeAt(p, j) = Slash
<1>1. PICK N \in Nat : N = Len(p)
  BY TidyLength
<1>2. /\ \A k \in 1..N : CodeAt(p, k) = p[k]
      /\ CodeAt(p, N + 1) = 0 /\ \A k \in 1..(N + 1) : CodeAt(p, k) \in Int
  BY <1>1, TidyCodes
<1>3. CASE CodeAt(p, i) # Slash
  <2>1. i \in i..(N + 1) /\ P(i)
    BY <1>1, <1>3
  <2>2. \A k \in i..(N + 1) : P(k) => k = i
    <3> SUFFICES ASSUME NEW k \in i..(N + 1), P(k), k # i PROVE FALSE
      OBVIOUS
    <3>1. i \in i..(k - 1)
      BY <1>1
    <3> QED BY <1>3, <3>1
  <2>3. PastSlashes(p, i) = i
    BY <1>1, <2>1, <2>2 DEF PastSlashes
  <2> QED BY <1>3, <2>3
<1>4. CASE CodeAt(p, i) = Slash
  <2>1. i \in 1..N /\ p[i] = Slash
    <3>1. i # N + 1
      BY <1>2, <1>4 DEF Slash
    <3>2. i \in 1..N
      BY <1>1, <3>1
    <3> QED BY <1>2, <1>4, <3>2
  <2>2. CodeAt(p, i + 1) # Slash
    <3>1. CASE i = N
      BY <1>2, <3>1 DEF Slash
    <3>2. CASE i # N
      <4>1. i \in 1..(N - 1) /\ i + 1 \in 1..N
        BY <2>1, <3>2
      <4>2. p[i + 1] # Slash
        BY <1>1, <2>1, <4>1 DEF Tidy
      <4> QED BY <1>2, <4>1, <4>2
    <3> QED BY <3>1, <3>2
  <2>3. i + 1 \in i..(N + 1) /\ \A j \in i..((i + 1) - 1) : j = i
    BY <2>1
  <2>4. P(i + 1)
    BY <1>4, <2>2, <2>3
  <2>5. \A k \in i..(N + 1) : P(k) => k = i + 1
    <3> SUFFICES ASSUME NEW k \in i..(N + 1), P(k), k # i + 1 PROVE FALSE
      OBVIOUS
    <3>1. CASE k = i
      BY <1>4, <3>1
    <3>2. CASE k # i
      <4>1. i + 1 \in i..(k - 1)
        BY <1>1, <3>2
      <4> QED BY <2>2, <4>1
    <3> QED BY <3>1, <3>2
  <2>6. PastSlashes(p, i) = i + 1
    <3> HIDE DEF P
    <3>1. PastSlashes(p, i) = CHOOSE k \in i..(N + 1) : P(k)
      BY <1>1 DEF PastSlashes, P
    <3> QED BY <2>3, <2>4, <2>5, <3>1
  <2>7. i + 1 \in 1..(N + 1)
    BY <2>1
  <2> QED BY <1>1, <1>4, <2>6, <2>7
<1> QED BY <1>3, <1>4

\* Where the loop of pu_pathcmp ends in two tidy paths.
EndsAt(p, f, i) ==
    /\ i \in 1..(Len(p) + 1) /\ i \in 1..(Len(f) + 1) /\ \A m \in 1..(i - 1) : p[m] = f[m]
    /\ CodeAt(p, i) = 0 \/ CodeAt(p, i) # CodeAt(f, i)

CmpAt(p, f, i) ==
    CASE CodeAt(p, i) = 0 -> 0 - CodeAt(f, PastSlashes(f, i))
      [] CodeAt(p, i) # 0 /\ CodeAt(f, i) = 0 -> CodeAt(p, PastSlashes(p, i))
      [] OTHER -> CodeAt(p, i) - CodeAt(f, i)

\* The places up to which the paths are the same.
SamePlaces(p, f) ==
    {<<i, i>> : i \in {j \in 1..(Len(p) + 1) : j <= Len(f) + 1 /\ \A m \in 1..(j - 1) : p[m] = f[m]}}

LEMMA AlongStuck ==
    ASSUME NEW p, NEW f, Tidy(p), Tidy(f), NEW i \in 1..(Len(p) + 1), i <= Len(f) + 1,
           \A m \in 1..(i - 1) : p[m] = f[m], CodeAt(p, i) = 0 \/ CodeAt(p, i) # CodeAt(f, i)
    PROVE  Along(p, f)[<<i, i>>] = <<i, i>>
<1>1. PICK N \in Nat, M \in Nat : N = Len(p) /\ M = Len(f)
  BY TidyLength
<1>2. i \in 1..(N + 1) /\ i \in 1..(M + 1) /\ <<i, i>> \in (1..(N + 1)) \X (1..(M + 1))
  BY <1>1
<1>3. ~(CodeAt(p, i) = Slash /\ CodeAt(p, i) = CodeAt(f, i))
  BY DEF Slash
<1> QED BY <1>1, <1>2, <1>3 DEF Along

LEMMA AlongGoes ==
    ASSUME NEW p, NEW f, Tidy(p), Tidy(f), NEW i \in 1..(Len(p) + 1), i <= Len(f) + 1,
           \A m \in 1..(i - 1) : p[m] = f[m], ~(CodeAt(p, i) = 0 \/ CodeAt(p, i) # CodeAt(f, i))
    PROVE  Along(p, f)[<<i, i>>] = <<i + 1, i + 1>> /\ <<i + 1, i + 1>> \in SamePlaces(p, f)
<1>1. PICK N \in Nat, M \in Nat : N = Len(p) /\ M = Len(f)
  BY TidyLength
<1>2. i \in 1..(N + 1) /\ i \in 1..(M + 1) /\ <<i, i>> \in (1..(N + 1)) \X (1..(M + 1))
  BY <1>1
<1>3. Along(p, f)[<<i, i>>] =
        CASE CodeAt(p, i) = 0 \/ CodeAt(p, i) # CodeAt(f, i) -> <<i, i>>
          [] CodeAt(p, i) = Slash /\ CodeAt(p, i) = CodeAt(f, i) -> <<PastSlashes(p, i), PastSlashes(f, i)>>
          [] OTHER -> <<i + 1, i + 1>>
  BY <1>1, <1>2 DEF Along
<1>4. Along(p, f)[<<i, i>>] = <<i + 1, i + 1>>
  <2>1. CASE CodeAt(p, i) = Slash
    <3>1. PastSlashes(p, i) = i + 1
      BY <2>1, PastOne
    <3>2. CodeAt(f, i) = Slash /\ i \in 1..(Len(f) + 1)
      BY <1>1, <1>2, <2>1
    <3>3. PastSlashes(f, i) = i + 1
      BY <3>2, PastOne
    <3> QED BY <1>3, <2>1, <3>1, <3>3
  <2>2. CASE CodeAt(p, i) # Slash
    BY <1>3, <2>2
  <2> QED BY <2>1, <2>2
<1>5. i \in 1..N /\ i \in 1..M /\ p[i] = f[i]
  <2>1. i # N + 1
    BY <1>1, TidyCodes
  <2>2. i # M + 1
    BY <1>1, TidyCodes
  <2>3. i \in 1..N /\ i \in 1..M
    BY <1>2, <2>1, <2>2
  <2>4. CodeAt(p, i) = p[i] /\ CodeAt(f, i) = f[i]
    BY <1>1, <2>3, TidyCodes
  <2> QED BY <2>3, <2>4
<1>6. \A m \in 1..((i + 1) - 1) : p[m] = f[m]
  <2>1. \A m \in 1..((i + 1) - 1) : m \in 1..(i - 1) \/ m = i
    BY <1>5
  <2> QED BY <1>5, <2>1
<1>7. i + 1 \in 1..(N + 1) /\ i + 1 <= M + 1
  BY <1>5
<1> QED BY <1>1, <1>4, <1>6, <1>7 DEF SamePlaces

LEMMA CmpEnds ==
    ASSUME NEW p, NEW f, Tidy(p), Tidy(f)
    PROVE  \E i : EndsAt(p, f, i) /\ PathCmp(p, f) = CmpAt(p, f, i)
<1>1. PICK N \in Nat, M \in Nat : N = Len(p) /\ M = Len(f)
  BY TidyLength
<1>2. PICK V : V = SamePlaces(p, f)
  OBVIOUS
<1>3. ASSUME NEW v \in V PROVE \E i \in 1..(N + 1) : /\ v = <<i, i>> /\ i <= M + 1 /\ i \in 1..(M + 1)
                                                     /\ \A m \in 1..(i - 1) : p[m] = f[m]
  BY <1>1, <1>2 DEF SamePlaces
<1>4. PICK h : h = Along(p, f)
  OBVIOUS
<1>5. <<1, 1>> \in V
  <2>1. 1 \in 1..(N + 1) /\ 1 <= M + 1 /\ 1..(1 - 1) = {}
    OBVIOUS
  <2> QED BY <1>1, <1>2, <2>1 DEF SamePlaces
<1>6. \A v \in V : h[v] \in V
  <2> SUFFICES ASSUME NEW v \in V PROVE h[v] \in V
    OBVIOUS
  <2>1. PICK i \in 1..(N + 1) : v = <<i, i>> /\ i <= M + 1 /\ \A m \in 1..(i - 1) : p[m] = f[m]
    BY <1>3
  <2>2. i \in 1..(Len(p) + 1) /\ i <= Len(f) + 1
    BY <1>1, <2>1
  <2>3. h[<<i, i>>] = <<i, i>> \/ h[<<i, i>>] \in SamePlaces(p, f)
    <3>1. CASE CodeAt(p, i) = 0 \/ CodeAt(p, i) # CodeAt(f, i)
      BY <1>4, <2>1, <2>2, <3>1, AlongStuck
    <3>2. CASE ~(CodeAt(p, i) = 0 \/ CodeAt(p, i) # CodeAt(f, i))
      BY <1>4, <2>1, <2>2, <3>2, AlongGoes
    <3> QED BY <3>1, <3>2
  <2> QED BY <1>2, <2>1, <2>3
<1>7. PICK g : g = Rounds(N, <<1, 1>>, h)
  OBVIOUS
<1>8. g \in [0..N -> V] /\ g[0] = <<1, 1>> /\ \A n \in 1..N : g[n] = h[g[n - 1]]
  <2>1. PICK b \in V : b = <<1, 1>>
    BY <1>5
  <2>2. g = Rounds(N, b, h)
    BY <1>7, <2>1
  <2>3. g \in [0..N -> V] /\ g[0] = b /\ \A n \in 1..N : g[n] = h[g[n - 1]]
    BY <1>6, <2>2, LoopSteps
  <2> QED BY <2>1, <2>3
<1> DEFINE Stuck(i) == CodeAt(p, i) = 0 \/ CodeAt(p, i) # CodeAt(f, i)
           K == {n \in Nat : n <= N => g[n] = <<n + 1, n + 1>> \/ Stuck(g[n][1])}
<1>9. 0 \in K
  BY <1>8
<1>10. ASSUME NEW n \in Nat, n \in K PROVE n + 1 \in K
  <2> SUFFICES ASSUME n + 1 <= N
               PROVE  g[n + 1] = <<(n + 1) + 1, (n + 1) + 1>> \/ Stuck(g[n + 1][1])
    OBVIOUS
  <2>1. n \in 0..N /\ n + 1 \in 1..N /\ (n + 1) - 1 = n
    OBVIOUS
  <2>2. g[n] \in V /\ g[n + 1] = h[g[n]]
    BY <1>8, <2>1
  <2>3. PICK i \in 1..(N + 1) : g[n] = <<i, i>> /\ i <= M + 1 /\ \A m \in 1..(i - 1) : p[m] = f[m]
    BY <1>3, <2>2
  <2>4. i = n + 1 \/ Stuck(i)
    <3>1. g[n][1] = i
      BY <2>3
    <3> HIDE DEF Stuck
    <3> QED BY <1>10, <2>1, <2>3, <3>1
  <2>5. CASE Stuck(i)
    <3>1. i \in 1..(Len(p) + 1) /\ i <= Len(f) + 1
      BY <1>1, <2>3
    <3>2. Along(p, f)[<<i, i>>] = <<i, i>>
      BY <2>3, <2>5, <3>1, AlongStuck
    <3>3. g[n + 1] = <<i, i>>
      BY <1>4, <2>2, <2>3, <3>2
    <3>4. g[n + 1][1] = i
      BY <3>3
    <3> HIDE DEF Stuck
    <3> QED BY <2>5, <3>4
  <2>6. CASE ~Stuck(i)
    <3>1. i \in 1..(Len(p) + 1) /\ i <= Len(f) + 1
      BY <1>1, <2>3
    <3>2. Along(p, f)[<<i, i>>] = <<i + 1, i + 1>>
      BY <2>3, <2>6, <3>1, AlongGoes
    <3>3. g[n + 1] = <<i + 1, i + 1>>
      BY <1>4, <2>2, <2>3, <3>2
    <3> HIDE DEF Stuck
    <3> QED BY <2>4, <2>6, <3>3
  <2> QED BY <2>5, <2>6
<1>11. N \in K
  <2> HIDE DEF K
  <2>1. Nat \subseteq K
    BY <1>9, <1>10, NatSetInduction
  <2> QED BY <2>1
<1>12. PICK i \in 1..(N + 1) : /\ g[N] = <<i, i>> /\ i <= M + 1 /\ i \in 1..(M + 1)
                               /\ \A m \in 1..(i - 1) : p[m] = f[m]
  <2>1. g[N] \in V
    BY <1>8
  <2> QED BY <1>3, <2>1
<1>13. Stuck(i)
  <2>1. g[N][1] = i
    BY <1>12
  <2>2. CASE i = N + 1
    BY <1>1, <2>2, TidyCodes
  <2>3. CASE i # N + 1
    <3> HIDE DEF Stuck
    <3> QED BY <1>11, <1>12, <2>1, <2>3
  <2> QED BY <2>2, <2>3
<1>14. PathCmp(p, f) = CmpAt(p, f, i)
  <2>1. g[Len(p)][1] = i /\ g[Len(p)][2] = i
    BY <1>1, <1>12
  <2>2. g = CHOOSE after : after = [n \in 0..Len(p) |->
                             IF n = 0 THEN <<1, 1>> ELSE Along(p, f)[after[n - 1]]]
    BY <1>1, <1>4, <1>7 DEF Rounds
  <2>3. PathCmp(p, f) = CASE CodeAt(p, g[Len(p)][1]) = 0 -> 0 - CodeAt(f, PastSlashes(f, g[Len(p)][2]))
          [] CodeAt(p, g[Len(p)][1]) # 0 /\ CodeAt(f, g[Len(p)][2]) = 0 ->
               CodeAt(p, PastSlashes(p, g[Len(p)][1]))
          [] OTHER -> CodeAt(p, g[Len(p)][1]) - CodeAt(f, g[Len(p)][2])
    BY <2>2 DEF PathCmp
  <2> QED BY <2>1, <2>3 DEF CmpAt
<1>15. EndsAt(p, f, i)
  BY <1>1, <1>12, <1>13 DEF EndsAt
<1> QED BY <1>14, <1>15

LEMMA CmpInt ==
    ASSUME NEW p, NEW f, Tidy(p), Tidy(f)
    PROVE  PathCmp(p, f) \in Int
<1>1. PICK i : EndsAt(p, f, i) /\ PathCmp(p, f) = CmpAt(p, f, i)
  BY CmpEnds
<1>2. i \in 1..(Len(p) + 1) /\ i \in 1..(Len(f) + 1)
  BY <1>1 DEF EndsAt
<1>3. PastSlashes(p, i) \in 1..(Len(p) + 1) /\ PastSlashes(f, i) \in 1..(Len(f) + 1)
  BY <1>2, PastOne
<1>4. \A j \in 1..(Len(p) + 1) : CodeAt(p, j) \in Int
  BY TidyCodes
<1>5. \A j \in 1..(Len(f) + 1) : CodeAt(f, j) \in Int
  BY TidyCodes
<1> QED BY <1>1, <1>2, <1>3, <1>4, <1>5 DEF CmpAt

\* A path that is found equal to a file is its name without the slash of a directory.
LEMMA CmpZero ==
    ASSUME NEW p, NEW f, Tidy(p), Bare(p) = p, Tidy(f), PathCmp(p, f) = 0
    PROVE  p = Bare(f)
<1>1. PICK i : EndsAt(p, f, i) /\ CmpAt(p, f, i) = 0
  BY CmpEnds
<1>2. PICK N \in Nat, M \in Nat : N = Len(p) /\ M = Len(f)
  BY TidyLength
<1>3. /\ i \in 1..(N + 1) /\ i \in 1..(M + 1) /\ \A m \in 1..(i - 1) : p[m] = f[m]
      /\ CodeAt(p, i) = 0 \/ CodeAt(p, i) # CodeAt(f, i)
  BY <1>1, <1>2 DEF EndsAt
<1>4. /\ \A j \in 1..N : CodeAt(p, j) = p[j] /\ CodeAt(p, j) # 0
      /\ CodeAt(p, N + 1) = 0 /\ \A j \in 1..(N + 1) : CodeAt(p, j) \in Int
  BY <1>2, TidyCodes
<1>5. /\ \A j \in 1..M : CodeAt(f, j) = f[j] /\ CodeAt(f, j) # 0
      /\ CodeAt(f, M + 1) = 0 /\ \A j \in 1..(M + 1) : CodeAt(f, j) \in Int
  BY <1>2, TidyCodes
<1>6. p \in Seq(Int) /\ f \in Seq(Int)
  BY TidyLength
<1>7. CASE CodeAt(p, i) = 0
  <2>1. i = N + 1
    BY <1>3, <1>4, <1>7
  <2>2. PICK k : k = PastSlashes(f, i)
    OBVIOUS
  <2>3. /\ k \in 1..(M + 1) /\ k = IF CodeAt(f, i) = Slash THEN i + 1 ELSE i
    BY <1>2, <1>3, <2>2, PastOne
  <2>4. CodeAt(f, k) = 0
    BY <1>1, <1>5, <1>7, <2>2, <2>3 DEF CmpAt
  <2>5. k = M + 1
    BY <1>5, <2>3, <2>4
  <2>6. CASE CodeAt(f, i) = Slash
    <3>1. M = i /\ M = N + 1 /\ f[M] = Slash
      BY <1>5, <2>1, <2>3, <2>5, <2>6
    <3>2. f # << >>
      <4>1. Len(f) # 0 /\ Len(<< >>) = 0
        BY <1>2, <2>1, <3>1
      <4> QED BY <4>1
    <3>3. Bare(f) = SubSeq(f, 1, N)
      <4>1. Len(f) - 1 = N
        BY <1>2, <3>1
      <4> QED BY <1>2, <3>1, <3>2, <4>1 DEF Bare
    <3>4. /\ SubSeq(f, 1, N) \in Seq(Int) /\ Len(SubSeq(f, 1, N)) = N
          /\ \A m \in 1..N : SubSeq(f, 1, N)[m] = f[m]
      <4>1. \A m \in 1..N : f[m] \in Int
        <5>1. \A m \in 1..N : m \in 1..Len(f)
          BY <1>2, <3>1
        <5> QED BY <5>1, TidyLength
      <4> QED BY <4>1, SubSeqProperties
    <3>5. \A m \in 1..N : p[m] = f[m]
      BY <1>3, <2>1
    <3> QED BY <1>2, <1>6, <3>3, <3>4, <3>5, SeqEqual
  <2>7. CASE CodeAt(f, i) # Slash
    <3>1. N = M /\ \A m \in 1..N : p[m] = f[m]
      BY <1>3, <2>1, <2>3, <2>5, <2>7
    <3>2. p = f
      BY <1>2, <1>6, <3>1, SeqEqual
    <3> QED BY <3>2
  <2> QED BY <2>6, <2>7
<1>8. CASE CodeAt(p, i) # 0
  <2>1. i \in 1..N /\ CodeAt(p, i) # CodeAt(f, i)
    BY <1>3, <1>4, <1>8
  <2>2. CodeAt(f, i) = 0
    BY <1>1, <1>3, <1>4, <1>5, <1>8, <2>1 DEF CmpAt
  <2>3. PICK k : k = PastSlashes(p, i)
    OBVIOUS
  <2>4. /\ k \in 1..(N + 1) /\ k = IF CodeAt(p, i) = Slash THEN i + 1 ELSE i
    BY <1>2, <1>3, <2>3, PastOne
  <2>5. CodeAt(p, k) = 0
    BY <1>1, <1>8, <2>2, <2>3 DEF CmpAt
  <2>6. k = N + 1
    BY <1>4, <2>4, <2>5
  <2>7. i = N /\ p[N] = Slash /\ p # << >>
    <3>1. CodeAt(p, i) = Slash /\ i = N
      BY <2>1, <2>4, <2>6
    <3> QED BY <1>2, <1>4, <2>1, <3>1
  <2>8. Bare(p) = SubSeq(p, 1, N - 1)
    BY <1>2, <2>7 DEF Bare
  <2>9. Len(SubSeq(p, 1, N - 1)) = N - 1
    <3>1. \A m \in 1..(N - 1) : p[m] \in Int
      <4>1. \A m \in 1..(N - 1) : m \in 1..Len(p)
        BY <1>2
      <4> QED BY <4>1, TidyLength
    <3>2. N \in Nat \ {0}
      BY <2>1
    <3> QED BY <3>1, <3>2, SubSeqProperties
  <2> QED BY <1>2, <2>8, <2>9
<1> QED BY <1>7, <1>8

-----------------------------------------------------------------------------
(***************************************************************************)
(* bsearch of the C library.                                               *)
(***************************************************************************)

LEMMA MiddleBetween ==
    ASSUME NEW l \in Nat, NEW u \in Nat, l < u
    PROVE  Middle(<<l, u>>) \in Nat /\ l <= Middle(<<l, u>>) /\ Middle(<<l, u>>) < u
<1>1. Middle(<<l, u>>) = (l + u) \div 2
  BY DEF Middle
<1> QED BY <1>1

\* The bounds of a search in n files.
Bounds(n) == (0..n) \X (0..n)

\* What the search for a path goes through.
ToSearch(needle, files) ==
    Tidy(needle) /\ IsList(files) /\ \A i \in DOMAIN files : Tidy(files[i])

LEMMA SearchedFiles ==
    ASSUME NEW needle, NEW files, ToSearch(needle, files)
    PROVE  /\ Len(files) \in Nat /\ DOMAIN files = 1..Len(files)
           /\ \A i \in 1..Len(files) : Tidy(files[i]) /\ PathCmp(needle, files[i]) \in Int
<1>1. files \in Seq(ToSet(files))
  BY DEF ToSearch, IsList
<1>2. Len(files) \in Nat /\ DOMAIN files = 1..Len(files)
  BY <1>1
<1> QED BY <1>2, CmpInt DEF ToSearch

\* A round h of the search from the bounds l and u, whose middle m compares as c.
Narrows(h, files, l, u, m, c) ==
    /\ l >= u => h[<<l, u>>] = <<l, u>>
    /\ l < u => /\ m \in l..(u - 1) /\ m + 1 \in 1..Len(files) /\ c \in Int
                /\ c = 0 => h[<<l, u>>] = <<l, u>>
                /\ c < 0 => h[<<l, u>>] = <<l, m>>
                /\ c > 0 => h[<<l, u>>] = <<m + 1, u>>

LEMMA RoundNarrows ==
    ASSUME NEW needle, NEW files, ToSearch(needle, files), NEW l \in 0..Len(files),
           NEW u \in 0..Len(files), NEW m, m = Middle(<<l, u>>), NEW c,
           c = PathCmp(needle, files[m + 1]), NEW h, h = Narrowed(needle, files)
    PROVE  Narrows(h, files, l, u, m, c)
<1> USE DEF Narrows
<1>1. PICK N \in Nat : N = Len(files)
  BY SearchedFiles
<1>2. l \in Nat /\ u \in Nat /\ l <= N /\ u <= N /\ <<l, u>> \in (0..N) \X (0..N)
  BY <1>1
<1>3. h[<<l, u>>] =
        CASE l >= u \/ c = 0 -> <<l, u>>
          [] l < u /\ c < 0 -> <<l, m>>
          [] OTHER -> <<m + 1, u>>
  BY <1>1, <1>2 DEF Narrowed
<1>4. CASE l >= u
  <2>1. ~(l < u)
    BY <1>2, <1>4
  <2> QED BY <1>3, <1>4, <2>1
<1>5. CASE l < u
  <2>1. m \in l..(u - 1)
    <3>1. m \in Nat /\ l <= m /\ m < u
      BY <1>2, <1>5, MiddleBetween
    <3> QED BY <1>2, <3>1
  <2>2. m + 1 \in 1..N
    BY <1>2, <2>1
  <2>3. c \in Int
    BY <1>1, <2>2, SearchedFiles
  <2>4. ~(l >= u)
    BY <1>2, <1>5
  <2>5. c = 0 => ~(c < 0) /\ ~(c > 0)
    BY <2>3
  <2>6. c < 0 => c # 0 /\ ~(c > 0)
    BY <2>3
  <2>7. c > 0 => c # 0 /\ ~(c < 0)
    BY <2>3
  <2> QED BY <1>1, <1>3, <1>5, <2>1, <2>2, <2>3, <2>4, <2>5, <2>6, <2>7, Zenon
<1>6. l >= u \/ l < u
  BY <1>2
<1> QED BY <1>4, <1>5, <1>6

\* Where the search ends.
EndsIn(needle, files, Good) ==
    \E l \in 0..Len(files), u \in 0..Len(files) :
      /\ <<l, u>> \in Good
      /\ BSearch(needle, files) = IF l < u THEN Middle(<<l, u>>) + 1 ELSE 0
      /\ l < u => PathCmp(needle, files[Middle(<<l, u>>) + 1]) = 0

\* For bounds that its rounds keep good.
LEMMA SearchEnds ==
    ASSUME NEW needle, NEW files, ToSearch(needle, files),
           NEW Good \in SUBSET Bounds(Len(files)), <<0, Len(files)>> \in Good,
           \A b \in Good : Narrowed(needle, files)[b] \in Good
    PROVE  EndsIn(needle, files, Good)
<1>1. PICK N \in Nat : N = Len(files)
  BY SearchedFiles
<1>2. PICK h : h = Narrowed(needle, files)
  OBVIOUS
<1>3. PICK b \in Good : b = <<0, N>>
  BY <1>1
<1>4. PICK g : g = Rounds(N, b, h)
  OBVIOUS
<1>5. g \in [0..N -> Good] /\ g[0] = b /\ \A n \in 1..N : g[n] = h[g[n - 1]]
  <2>1. PICK V : V = Good
    OBVIOUS
  <2>2. b \in V /\ \A v \in V : h[v] \in V
    BY <1>2, <2>1
  <2>3. g \in [0..N -> V] /\ g[0] = b /\ \A n \in 1..N : g[n] = h[g[n - 1]]
    BY <1>4, <2>2, LoopSteps
  <2> QED BY <2>1, <2>3
<1>6. ASSUME NEW v \in Good PROVE \E l \in 0..N, u \in 0..N : v = <<l, u>>
  BY <1>1 DEF Bounds
<1> DEFINE Done(v) == v[1] < v[2] => PathCmp(needle, files[Middle(v) + 1]) = 0
           K == {n \in Nat : n <= N => Done(g[n]) \/ g[n][2] - g[n][1] <= N - n}
<1>7. 0 \in K
  BY <1>3, <1>5
<1>8. ASSUME NEW n \in Nat, n \in K PROVE n + 1 \in K
  <2> SUFFICES ASSUME n + 1 <= N
               PROVE  Done(g[n + 1]) \/ g[n + 1][2] - g[n + 1][1] <= N - (n + 1)
    OBVIOUS
  <2>1. n \in 0..N /\ n + 1 \in 1..N /\ (n + 1) - 1 = n /\ n <= N
    OBVIOUS
  <2>2. g[n] \in Good /\ g[n + 1] = h[g[n]]
    BY <1>5, <2>1
  <2>3. PICK l \in 0..N, u \in 0..N : g[n] = <<l, u>>
    BY <1>6, <2>2
  <2>4. PICK m : m = Middle(<<l, u>>)
    OBVIOUS
  <2>5. PICK c : c = PathCmp(needle, files[m + 1])
    OBVIOUS
  <2>6. l \in 0..Len(files) /\ u \in 0..Len(files)
    BY <1>1
  <2>7. Narrows(h, files, l, u, m, c)
    BY <1>2, <2>4, <2>5, <2>6, RoundNarrows
  <2>8. CASE l >= u \/ c = 0
    <3>1. g[n + 1] = <<l, u>>
      <4>1. l >= u \/ l < u
        OBVIOUS
      <4> QED BY <2>2, <2>3, <2>7, <2>8, <4>1 DEF Narrows
    <3>2. Done(<<l, u>>)
      <4>1. <<l, u>>[1] = l /\ <<l, u>>[2] = u
        OBVIOUS
      <4>2. l >= u => ~(l < u)
        OBVIOUS
      <4> QED BY <2>4, <2>5, <2>8, <4>1, <4>2
    <3> HIDE DEF Done
    <3> QED BY <3>1, <3>2
  <2>9. CASE l < u /\ c # 0
    <3>1. m \in l..(u - 1) /\ c \in Int
      BY <2>7, <2>9 DEF Narrows
    <3>2. g[n + 1] = <<l, m>> \/ g[n + 1] = <<m + 1, u>>
      <4>1. c < 0 \/ c > 0
        BY <2>9, <3>1
      <4> QED BY <2>2, <2>3, <2>7, <2>9, <4>1 DEF Narrows
    <3>3. u - l <= N - n
      <4>1. <<l, u>>[1] = l /\ <<l, u>>[2] = u
        OBVIOUS
      <4>2. ~Done(<<l, u>>)
        BY <2>4, <2>5, <2>9, <4>1
      <4> HIDE DEF Done
      <4> QED BY <1>8, <2>1, <2>3, <4>1, <4>2
    <3>4. PICK v, w : g[n + 1] = <<v, w>> /\ v \in Int /\ w \in Int /\ w - v <= N - (n + 1)
      <4>1. m \in Int /\ m + 1 \in Int /\ m - l <= N - (n + 1) /\ u - (m + 1) <= N - (n + 1)
        BY <3>1, <3>3
      <4> QED BY <3>2, <4>1
    <3>5. g[n + 1][1] = v /\ g[n + 1][2] = w
      BY <3>4
    <3> HIDE DEF Done
    <3> QED BY <3>4, <3>5
  <2>10. l >= u \/ l < u
    OBVIOUS
  <2> HIDE DEF Done
  <2> QED BY <2>8, <2>9, <2>10
<1>9. N \in K
  <2> HIDE DEF K
  <2>1. Nat \subseteq K
    BY <1>7, <1>8, NatSetInduction
  <2> QED BY <2>1
<1>10. g[N] \in Good
  BY <1>5
<1>11. PICK l \in 0..N, u \in 0..N : g[N] = <<l, u>>
  BY <1>6, <1>10
<1>12. <<l, u>>[1] = l /\ <<l, u>>[2] = u
  OBVIOUS
<1>13. l < u => PathCmp(needle, files[Middle(<<l, u>>) + 1]) = 0
  <2> SUFFICES ASSUME l < u PROVE PathCmp(needle, files[Middle(<<l, u>>) + 1]) = 0
    OBVIOUS
  <2>1. ~(u - l <= N - N)
    OBVIOUS
  <2>2. Done(<<l, u>>)
    <3> HIDE DEF Done
    <3> QED BY <1>9, <1>11, <1>12, <2>1
  <2> QED BY <1>12, <2>2
<1>14. BSearch(needle, files) = IF l < u THEN Middle(<<l, u>>) + 1 ELSE 0
  <2>1. g = Rounds(Len(files), <<0, Len(files)>>, Narrowed(needle, files))
    BY <1>1, <1>2, <1>3, <1>4
  <2>2. BSearch(needle, files) = IF g[Len(files)][1] < g[Len(files)][2] THEN Middle(g[Len(files)]) + 1 ELSE 0
    BY <2>1 DEF BSearch, Rounds
  <2> QED BY <1>1, <1>11, <1>12, <2>2
<1> QED BY <1>1, <1>10, <1>11, <1>13, <1>14 DEF EndsIn

\* A hit is a file that compares as the path.
LEMMA SearchSound ==
    ASSUME NEW needle, NEW files, ToSearch(needle, files), BSearch(needle, files) # 0
    PROVE  \E i \in DOMAIN files : PathCmp(needle, files[i]) = 0
<1>1. PICK N \in Nat : N = Len(files)
  BY SearchedFiles
<1>2. PICK Good : Good = Bounds(Len(files))
  OBVIOUS
<1>3. ASSUME NEW b \in Good PROVE Narrowed(needle, files)[b] \in Good
  <2>1. PICK l \in 0..N, u \in 0..N : b = <<l, u>>
    BY <1>1, <1>2 DEF Bounds
  <2>2. PICK m : m = Middle(<<l, u>>)
    OBVIOUS
  <2>3. PICK c : c = PathCmp(needle, files[m + 1])
    OBVIOUS
  <2>4. PICK h : h = Narrowed(needle, files)
    OBVIOUS
  <2>5. l \in 0..Len(files) /\ u \in 0..Len(files)
    BY <1>1
  <2>6. Narrows(h, files, l, u, m, c)
    BY <2>2, <2>3, <2>4, <2>5, RoundNarrows
  <2>7. \/ h[b] = <<l, u>>
        \/ m \in 0..N /\ m + 1 \in 0..N /\ h[b] \in {<<l, m>>, <<m + 1, u>>}
    <3>1. CASE l >= u
      BY <2>1, <2>6, <3>1 DEF Narrows
    <3>2. CASE l < u
      <4>1. m \in l..(u - 1) /\ c \in Int
        BY <2>6, <3>2 DEF Narrows
      <4>2. m \in 0..N /\ m + 1 \in 0..N
        BY <4>1
      <4>3. c = 0 \/ c < 0 \/ c > 0
        BY <4>1
      <4> QED BY <2>1, <2>6, <3>2, <4>2, <4>3 DEF Narrows
    <3> QED BY <3>1, <3>2
  <2> QED BY <1>1, <1>2, <2>4, <2>7 DEF Bounds
<1>4. Good \in SUBSET Bounds(Len(files)) /\ <<0, Len(files)>> \in Good
  BY <1>1, <1>2 DEF Bounds
<1>5. PICK l \in 0..Len(files), u \in 0..Len(files) :
        /\ <<l, u>> \in Good
        /\ BSearch(needle, files) = IF l < u THEN Middle(<<l, u>>) + 1 ELSE 0
        /\ l < u => PathCmp(needle, files[Middle(<<l, u>>) + 1]) = 0
  <2>1. EndsIn(needle, files, Good)
    BY <1>3, <1>4, SearchEnds
  <2> QED BY <2>1 DEF EndsIn
<1>6. l < u
  BY <1>5
<1>7. Middle(<<l, u>>) + 1 \in 1..N
  <2>1. l \in Nat /\ u \in Nat /\ u <= N
    BY <1>1
  <2>2. Middle(<<l, u>>) \in Nat /\ Middle(<<l, u>>) < u
    BY <1>6, <2>1, MiddleBetween
  <2> QED BY <2>1, <2>2
<1> QED BY <1>1, <1>5, <1>6, <1>7, SearchedFiles

\* What is there is found if the list is in order.
LEMMA SearchFinds ==
    ASSUME NEW needle, NEW files, ToSearch(needle, files), Bare(needle) = needle, InOrder(files),
           NEW k \in DOMAIN files, PathCmp(needle, files[k]) = 0
    PROVE  BSearch(needle, files) # 0
<1>1. PICK N \in Nat : N = Len(files)
  BY SearchedFiles
<1>2. k \in 1..N /\ DOMAIN files = 1..N
  BY <1>1, SearchedFiles
<1>3. needle = Bare(files[k])
  BY CmpZero DEF ToSearch
<1>4. ASSUME NEW i \in 1..N PROVE /\ i < k => PathCmp(needle, files[i]) > 0
                                  /\ k < i => PathCmp(needle, files[i]) < 0
  BY <1>2, <1>3 DEF InOrder
<1>5. PICK Good : Good = {b \in Bounds(Len(files)) : b[1] < k /\ k <= b[2]}
  OBVIOUS
<1>6. ASSUME NEW b \in Good PROVE Narrowed(needle, files)[b] \in Good
  <2>1. PICK l \in 0..N, u \in 0..N : b = <<l, u>> /\ l < k /\ k <= u
    <3>1. PICK l \in 0..N, u \in 0..N : b = <<l, u>>
      BY <1>1, <1>5 DEF Bounds
    <3>2. b[1] = l /\ b[2] = u
      BY <3>1
    <3> QED BY <1>5, <3>1, <3>2
  <2>2. PICK m : m = Middle(<<l, u>>)
    OBVIOUS
  <2>3. PICK c : c = PathCmp(needle, files[m + 1])
    OBVIOUS
  <2>4. PICK h : h = Narrowed(needle, files)
    OBVIOUS
  <2>5. l \in 0..Len(files) /\ u \in 0..Len(files) /\ l < u
    BY <1>1, <1>2, <2>1
  <2>6. Narrows(h, files, l, u, m, c)
    BY <2>2, <2>3, <2>4, <2>5, RoundNarrows
  <2>7. /\ m \in l..(u - 1) /\ m + 1 \in 1..N /\ c \in Int
        /\ c = 0 => h[b] = <<l, u>>
        /\ c < 0 => h[b] = <<l, m>>
        /\ c > 0 => h[b] = <<m + 1, u>>
    BY <1>1, <2>1, <2>5, <2>6 DEF Narrows
  <2>8. /\ m + 1 < k => c > 0
        /\ k < m + 1 => c < 0
        /\ m + 1 = k => c = 0
    <3>1. m + 1 = k => c = 0
      BY <2>3
    <3> QED BY <1>4, <2>3, <2>7, <3>1
  <2>9. PICK v \in 0..N, w \in 0..N : h[b] = <<v, w>> /\ v < k /\ k <= w
    <3>1. CASE c = 0
      BY <2>1, <2>7, <3>1
    <3>2. CASE c < 0
      <4>1. m \in 0..N /\ k <= m
        BY <1>2, <2>7, <2>8, <3>2
      <4> QED BY <2>1, <2>7, <3>2, <4>1
    <3>3. CASE c > 0
      <4>1. m + 1 \in 0..N /\ m + 1 < k
        BY <1>2, <2>7, <2>8, <3>3
      <4> QED BY <2>1, <2>7, <3>3, <4>1
    <3> QED BY <2>7, <3>1, <3>2, <3>3
  <2> QED BY <1>1, <1>5, <2>4, <2>9 DEF Bounds
<1>7. Good \in SUBSET Bounds(Len(files)) /\ <<0, Len(files)>> \in Good
  BY <1>1, <1>2, <1>5 DEF Bounds
<1>8. PICK l \in 0..Len(files), u \in 0..Len(files) :
        /\ <<l, u>> \in Good
        /\ BSearch(needle, files) = IF l < u THEN Middle(<<l, u>>) + 1 ELSE 0
        /\ l < u => PathCmp(needle, files[Middle(<<l, u>>) + 1]) = 0
  <2>1. ToSearch(needle, files) /\ Good \in SUBSET Bounds(Len(files)) /\ <<0, Len(files)>> \in Good
    BY <1>7
  <2>2. \A b \in Good : Narrowed(needle, files)[b] \in Good
    BY <1>6
  <2>3. EndsIn(needle, files, Good)
    BY <2>1, <2>2, SearchEnds
  <2> QED BY <2>3 DEF EndsIn
<1>9. l \in Nat /\ u \in Nat /\ l < u
  <2>1. l < k /\ k <= u
    BY <1>5, <1>8
  <2> QED BY <1>1, <1>2, <2>1
<1>10. Middle(<<l, u>>) + 1 # 0
  <2>1. Middle(<<l, u>>) \in Nat
    BY <1>9, MiddleBetween
  <2> QED BY <2>1
<1> QED BY <1>8, <1>9, <1>10

\* pu_filelist_contains_path finds what is there.
LEMMA ContainsWhatIsThere ==
    ASSUME NEW path, NEW files, ToSearch(path, files), Bare(path) = path, InOrder(files)
    PROVE  FilelistContains(files, path) <=> \E i \in DOMAIN files : PathCmp(path, files[i]) = 0
BY SearchSound, SearchFinds DEF FilelistContains

-----------------------------------------------------------------------------
(***************************************************************************)
(* pacrepairfile: the entries of the packages for a path.                  *)
(***************************************************************************)

LEMMA MtreeEntriesList ==
    ASSUME NEW mtree, IsList(mtree.lines), NEW unset
    PROVE  IsList(MtreeEntries(mtree, unset))
<1>1. PICK ids, entries : /\ ids = [i \in DOMAIN mtree.lines |-> i]
                          /\ entries = {i \in DOMAIN mtree.lines : mtree.lines[i].kind = "entry"}
  OBVIOUS
<1>2. PICK N \in Nat : DOMAIN mtree.lines = 1..N
  BY DEF IsList
<1>3. ids \in Seq(Nat)
  <2>1. ids = [i \in 1..N |-> i] /\ \A i \in 1..N : i \in Nat
    BY <1>1, <1>2
  <2> QED BY <2>1
<1>4. PICK at \in Seq(Nat) : at = Select(ids, entries)
  BY <1>3, SelectList
<1>5. PICK all : all = [n \in DOMAIN at |->
                          [field \in MtreeFields |-> EntryField(mtree.lines, at[n], field, unset)]]
  OBVIOUS
<1>6. PICK M \in Nat : DOMAIN at = 1..M
  OBVIOUS
<1>7. all \in Seq(ToSet(all))
  <2>1. DOMAIN all = 1..M /\ all = [n \in 1..M |-> all[n]]
    BY <1>5, <1>6
  <2>2. \A n \in 1..M : all[n] \in ToSet(all)
    BY <2>1 DEF ToSet
  <2> QED BY <2>1, <2>2
<1>8. MtreeEntries(mtree, unset) = all
  BY <1>1, <1>4, <1>5 DEF MtreeEntries
<1> QED BY <1>7, <1>8 DEF IsList

\* A package as libalpm has it.
Packaged(p) ==
    /\ IsList(p.files) /\ \A i \in DOMAIN p.files : Tidy(p.files[i])
    /\ p.mtree # None => IsList(p.mtree.lines)

\* What a package records for a path.
RecordsIn(p, path) ==
    {e \in ToSet(MtreeEntries(p.mtree, None)) :
       /\ p.mtree # None /\ \E i \in DOMAIN p.files : PathCmp(path, p.files[i]) = 0
       /\ PathCmp(path, e.path) = 0}

LEMMA EntriesInRecords ==
    ASSUME NEW p, Packaged(p), NEW path, Tidy(path)
    PROVE  IsList(EntriesIn(p, path)) /\ ToSet(EntriesIn(p, path)) \subseteq RecordsIn(p, path)
<1>1. CASE ~(FilelistContains(p.files, path) /\ p.mtree # None)
  <2>1. EntriesIn(p, path) = << >>
    BY <1>1 DEF EntriesIn
  <2>2. PICK s \in Seq({}) : s = << >>
    <3>1. << >> \in Seq({})
      OBVIOUS
    <3> QED BY <3>1
  <2>3. IsList(s) /\ ToSet(s) \subseteq {}
    BY MembersOfList
  <2> QED BY <2>1, <2>2, <2>3
<1>2. CASE FilelistContains(p.files, path) /\ p.mtree # None
  <2>1. PICK s, T : s = MtreeEntries(p.mtree, None) /\ T = ToSet(s) /\ s \in Seq(T)
    BY <1>2, MtreeEntriesList DEF Packaged, IsList
  <2>2. PICK S : S = {e \in ToSet(MtreeEntries(p.mtree, None)) : PathCmp(path, e.path) = 0}
    OBVIOUS
  <2>3. EntriesIn(p, path) = Select(s, S)
    BY <1>2, <2>1, <2>2 DEF EntriesIn
  <2>4. Select(s, S) \in Seq(T) /\ ToSet(Select(s, S)) = ToSet(s) \cap S
    BY <2>1, SelectList, SelectMembers
  <2>5. IsList(Select(s, S))
    BY <2>4, MembersOfList
  <2>6. \E i \in DOMAIN p.files : PathCmp(path, p.files[i]) = 0
    <3>1. ToSearch(path, p.files)
      BY DEF ToSearch, Packaged
    <3> QED BY <1>2, <3>1, SearchSound DEF FilelistContains
  <2>7. ToSet(Select(s, S)) \subseteq RecordsIn(p, path)
    BY <1>2, <2>1, <2>2, <2>4, <2>6 DEF RecordsIn
  <2> QED BY <2>3, <2>5, <2>7
<1> QED BY <1>1, <1>2

LEMMA EntriesForRecords ==
    ASSUME NEW pkgs, IsList(pkgs), \A p \in ToSet(pkgs) : Packaged(p), NEW path, Tidy(path)
    PROVE  /\ IsList(EntriesFor(pkgs, path))
           /\ \A e \in ToSet(EntriesFor(pkgs, path)) :
                \E p \in ToSet(pkgs) : e \in RecordsIn(p, path)
<1>1. PICK T : T = UNION {RecordsIn(p, path) : p \in ToSet(pkgs)}
  OBVIOUS
<1>2. PICK N \in Nat : DOMAIN pkgs = 1..N
  BY DEF IsList
<1>3. PICK ss : ss = [i \in DOMAIN pkgs |-> EntriesIn(pkgs[i], path)]
  OBVIOUS
<1>4. ASSUME NEW i \in 1..N PROVE ss[i] \in Seq(T)
  <2>1. PICK p \in ToSet(pkgs) : p = pkgs[i]
    BY <1>2 DEF ToSet
  <2>2. ss[i] = EntriesIn(p, path)
    BY <1>2, <1>3, <2>1
  <2>3. IsList(ss[i]) /\ ToSet(ss[i]) \subseteq RecordsIn(p, path)
    BY <2>2, EntriesInRecords
  <2>4. ToSet(ss[i]) \subseteq T
    BY <1>1, <2>3
  <2> QED BY <2>3, <2>4, ListOfMembers
<1>5. ss \in Seq(Seq(T))
  <2>1. ss = [i \in 1..N |-> ss[i]]
    BY <1>2, <1>3
  <2> QED BY <1>4, <2>1
<1>6. FlattenSeq(ss) \in Seq(T)
  BY <1>5, FlattenList
<1>7. EntriesFor(pkgs, path) = FlattenSeq(ss)
  BY <1>3 DEF EntriesFor
<1>8. PICK all \in Seq(T) : all = EntriesFor(pkgs, path)
  BY <1>6, <1>7
<1>9. IsList(all) /\ ToSet(all) \subseteq T
  BY MembersOfList
<1> QED BY <1>1, <1>8, <1>9

-----------------------------------------------------------------------------
(***************************************************************************)
(* pacrepairfile: its options.                                             *)
(***************************************************************************)

RepairGlobals(names, files) ==
    [uid : BOOLEAN, gid : BOOLEAN, mode : BOOLEAN, mtime : BOOLEAN, verbose : BOOLEAN,
     packages : Seq(names), targets : Seq(files)]

LEMMA RepairTakes ==
    ASSUME NEW names, NEW files, NEW g \in RepairGlobals(names, files), NEW a, a[2] \in names,
           a[1] = "target" => a[2] \in files,
           a[1] \in DOMAIN RepairFileOptions.set \cup DOMAIN RepairFileOptions.count
                    \cup DOMAIN RepairFileOptions.assign \cup DOMAIN RepairFileOptions.add
    PROVE  Takes(RepairFileOptions, g, a) \in RepairGlobals(names, files)
<1> DEFINE t == RepairFileOptions
<1>1. /\ DOMAIN t.set = {"uid", "gid", "mode", "mtime", "quiet"} /\ DOMAIN t.count = {}
      /\ DOMAIN t.assign = {} /\ DOMAIN t.add = {"package", "target"}
  BY DEF RepairFileOptions, NoOptions
<1>2. CASE a[1] \in DOMAIN t.set
  <2>1. Takes(t, g, a) = [g EXCEPT ![t.set[a[1]][1]] = t.set[a[1]][2]]
    <3> HIDE DEF t
    <3> QED BY <1>1, <1>2 DEF Takes
  <2>2. t.set[a[1]][1] \in {"uid", "gid", "mode", "mtime", "verbose"} /\ t.set[a[1]][2] \in BOOLEAN
    <3>1. /\ t.set["uid"][1] = "uid" /\ t.set["gid"][1] = "gid" /\ t.set["mode"][1] = "mode"
          /\ t.set["mtime"][1] = "mtime" /\ t.set["quiet"][1] = "verbose"
      BY DEF RepairFileOptions
    <3>2. /\ t.set["uid"][2] = TRUE /\ t.set["gid"][2] = TRUE /\ t.set["mode"][2] = TRUE
          /\ t.set["mtime"][2] = TRUE /\ t.set["quiet"][2] = FALSE
      BY DEF RepairFileOptions
    <3> HIDE DEF t
    <3>3. t.set[a[1]][1] \in {"uid", "gid", "mode", "mtime", "verbose"}
      BY <1>1, <1>2, <3>1
    <3>4. t.set[a[1]][2] = TRUE \/ t.set[a[1]][2] = FALSE
      BY <1>1, <1>2, <3>2, Zenon
    <3> QED BY <3>3, <3>4
  <2>3. PICK field \in {"uid", "gid", "mode", "mtime", "verbose"}, value \in BOOLEAN :
          Takes(t, g, a) = [g EXCEPT ![field] = value]
    <3> HIDE DEF t
    <3> QED BY <2>1, <2>2
  <2>4. [g EXCEPT ![field] = value] \in RepairGlobals(names, files)
    BY DEF RepairGlobals
  <2> HIDE DEF t
  <2> QED BY <2>3, <2>4 DEF t
<1>3. CASE a[1] = "package"
  <2>1. Takes(t, g, a) = [g EXCEPT !.packages = Append(@, a[2])]
    <3>1. t.add["package"] = "packages"
      BY DEF RepairFileOptions
    <3> HIDE DEF t
    <3>2. a[1] \notin DOMAIN t.set /\ a[1] \notin DOMAIN t.count /\ a[1] \notin DOMAIN t.assign
      BY <1>1, <1>3
    <3>3. Takes(t, g, a) = [g EXCEPT ![t.add[a[1]]] = Append(@, a[2])]
      BY <1>1, <1>3, <3>2 DEF Takes
    <3> QED BY <1>3, <3>1, <3>3
  <2>2. Append(g.packages, a[2]) \in Seq(names)
    BY DEF RepairGlobals
  <2> QED BY <2>1, <2>2 DEF RepairGlobals
<1>4. CASE a[1] = "target"
  <2>1. Takes(t, g, a) = [g EXCEPT !.targets = Append(@, a[2])]
    <3>1. t.add["target"] = "targets"
      BY DEF RepairFileOptions
    <3> HIDE DEF t
    <3>2. a[1] \notin DOMAIN t.set /\ a[1] \notin DOMAIN t.count /\ a[1] \notin DOMAIN t.assign
      BY <1>1, <1>4
    <3>3. Takes(t, g, a) = [g EXCEPT ![t.add[a[1]]] = Append(@, a[2])]
      BY <1>1, <1>4, <3>2 DEF Takes
    <3> QED BY <1>4, <3>1, <3>3
  <2>2. Append(g.targets, a[2]) \in Seq(files)
    BY <1>4 DEF RepairGlobals
  <2> QED BY <2>1, <2>2 DEF RepairGlobals
<1> QED BY <1>1, <1>2, <1>3, <1>4

LEMMA RepairSetsUp ==
    ASSUME Accepts(RepairFileOptions, argv), RepairFileSetup
    PROVE  /\ pc' = "failed" \/ (pc' = "load" /\ ret' = ret)
           /\ o' \in RepairGlobals(ToSet([n \in DOMAIN argv |-> argv[n][2]]),
                                   {a[2] : a \in {b \in ToSet(argv) : b[1] = "target"}})
<1> DEFINE A == ToSet(argv)
<1>1. argv \in Seq(A)
  BY DEF Accepts, IsList
<1>2. PICK names, files : /\ names = ToSet([n \in DOMAIN argv |-> argv[n][2]])
                          /\ files = {a[2] : a \in {b \in ToSet(argv) : b[1] = "target"}}
  OBVIOUS
<1>3. RepairFileDefaults \in RepairGlobals(names, files)
  BY DEF RepairFileDefaults, RepairGlobals
<1>4. ASSUME NEW g \in RepairGlobals(names, files), NEW a \in A
      PROVE  Takes(RepairFileOptions, g, a) \in RepairGlobals(names, files)
  <2>1. a[2] \in names
    BY <1>2 DEF ToSet
  <2>2. a[1] = "target" => a[2] \in files
    BY <1>2
  <2>3. a[1] \in DOMAIN RepairFileOptions.set \cup DOMAIN RepairFileOptions.count
                 \cup DOMAIN RepairFileOptions.assign \cup DOMAIN RepairFileOptions.add
    BY DEF Accepts
  <2> QED BY <2>1, <2>2, <2>3, RepairTakes
<1>5. Parse(RepairFileOptions, RepairFileDefaults) \in RepairGlobals(names, files)
  BY <1>1, <1>3, <1>4, ParseKeeps
<1>6. o' = Parse(RepairFileOptions, RepairFileDefaults)
      /\ (pc' = "failed" \/ (pc' = "load" /\ ret' = ret))
  BY DEF RepairFileSetup, Setup
<1> QED BY <1>2, <1>5, <1>6

-----------------------------------------------------------------------------
(***************************************************************************)
(* pacrepairfile: the inductive invariant.                                 *)
(***************************************************************************)

RepairSystem ==
    /\ IsList(sys.local) /\ IsList(sys.stdin)
    /\ \A p \in ToSet(sys.local) : Packaged(p)
    /\ \A f \in ToSet(sys.stdin) : IsTarget(sys, f)
    /\ "fs" \in DOMAIN sys
    /\ \A path \in DOMAIN sys.fs :
         {"type", "uid", "gid", "mode", "mtime"} \subseteq DOMAIN sys.fs[path]

Asked == ToSet(o.targets \o sys.stdin)

AsksTargets == IsList(o.targets) /\ \A f \in ToSet(o.targets) : IsTarget(sys, f)

\* The files that are done with are as recorded; the one that is worked on may be one of
\* those again.
RepairLoop ==
    /\ todo \in Seq(Asked)
    /\ DOMAIN acc = {"packages", "path", "entry", "kinds"}
    /\ IsList(acc.packages) /\ ToSet(acc.packages) \subseteq ToSet(sys.local)
    /\ ret = 0 => \A f \in Asked \ ToSet(todo) :
         /\ sys.real[f].resolves /\ sys.real[f].inside /\ sys.real[f].path \in DOMAIN sys.fs
         /\ AsRecorded(sys.real[f].path) \/ (pc = "fix" /\ sys.real[f].path = acc.path)

\* The order of fix_file.
Before ==
    {<<"uid", "gid">>, <<"uid", "mode">>, <<"uid", "mtime">>, <<"gid", "mode">>,
     <<"gid", "mtime">>, <<"mode", "mtime">>}

\* Those kinds are still to be set, in order, and with an owner or a group the permissions.
StillToSet(kinds) ==
    /\ IsList(kinds) /\ ToSet(kinds) \subseteq ToSet(Kinds) /\ InOrderOf(kinds, Before)
    /\ o.mode /\ ("uid" \in ToSet(kinds) \/ "gid" \in ToSet(kinds)) => "mode" \in ToSet(kinds)

\* Within fix_file.
Mending ==
    /\ todo # << >> /\ sys.real[Head(todo)].resolves /\ sys.real[Head(todo)].inside
    /\ sys.real[Head(todo)].path = acc.path /\ acc.path \in DOMAIN sys.fs
    /\ acc.entry \in RecordedFor(acc.path)
    /\ StillToSet(acc.kinds)
    /\ ret = 0 => \A kind \in ToSet(Kinds) \ ToSet(acc.kinds) :
                    o[kind] => sys.fs[acc.path][kind] = acc.entry[kind]

RepairInv ==
    tool = "pacrepairfile" =>
      /\ RepairSystem
      /\ pc = "start" =>
           /\ Accepts(RepairFileOptions, argv) /\ acc = None
           /\ \A a \in ToSet(argv) : a[1] = "target" => IsTarget(sys, a[2])
      /\ pc \in {"load", "file", "fix", "exited"} => AsksTargets
      /\ pc = "load" => acc = None /\ IsList(o.packages)
      /\ pc \in {"file", "fix"} => RepairLoop
      /\ pc = "fix" => Mending
      /\ pc = "exited" /\ acc # None /\ ret = 0 =>
           \A f \in Asked :
             /\ sys.real[f].resolves /\ sys.real[f].inside
             /\ AsRecorded(sys.real[f].path)

LEMMA RepairBegins == Init => RepairInv
<1> SUFFICES ASSUME Init, tool = "pacrepairfile"
             PROVE  /\ RepairSystem /\ pc = "start"
                    /\ Accepts(RepairFileOptions, argv) /\ acc = None
                    /\ \A a \in ToSet(argv) : a[1] = "target" => IsTarget(sys, a[2])
  BY DEF RepairInv
<1>1. PICK r \in RepairRuns : argv = r.argv /\ sys = r.sys /\ pc = "start" /\ acc = None
  BY DEF Init, Started
<1>2. /\ Accepts(RepairFileOptions, r.argv)
      /\ \A a \in ToSet(r.argv) : a[1] = "target" => IsTarget(r.sys, a[2])
  BY RepairRunsAssumption, Zenon
<1>3. /\ IsList(r.sys.local) /\ IsList(r.sys.stdin)
      /\ \A f \in ToSet(r.sys.stdin) : IsTarget(r.sys, f)
  BY RepairRunsAssumption, Zenon
<1>4. /\ \A p \in ToSet(r.sys.local) : Packaged(p)
      /\ "fs" \in DOMAIN r.sys
      /\ \A path \in DOMAIN r.sys.fs :
           {"type", "uid", "gid", "mode", "mtime"} \subseteq DOMAIN r.sys.fs[path]
  BY RepairRunsAssumption, Zenon DEF Packaged
<1>5. RepairSystem
  BY <1>1, <1>3, <1>4 DEF RepairSystem
<1> QED BY <1>1, <1>2, <1>5

LEMMA KindsInOrder ==
    /\ ToSet(Kinds) = {"uid", "gid", "mode", "mtime"}
    /\ Kinds \in Seq(ToSet(Kinds)) /\ InOrderOf(Kinds, Before)
<1>1. /\ Len(Kinds) = 4 /\ DOMAIN Kinds = 1..4
      /\ Kinds[1] = "uid" /\ Kinds[2] = "gid" /\ Kinds[3] = "mode" /\ Kinds[4] = "mtime"
  BY DEF Kinds
<1>2. \A i \in 1..4 : i = 1 \/ i = 2 \/ i = 3 \/ i = 4
  OBVIOUS
<1>3. ToSet(Kinds) = {"uid", "gid", "mode", "mtime"}
  BY <1>1, <1>2 DEF ToSet
<1>4. Kinds \in Seq(ToSet(Kinds))
  <2>1. PICK T : T = ToSet(Kinds)
    OBVIOUS
  <2>2. "uid" \in T /\ "gid" \in T /\ "mode" \in T /\ "mtime" \in T
    BY <1>3, <2>1
  <2> QED BY <2>1, <2>2 DEF Kinds
<1>5. InOrderOf(Kinds, Before)
  <2> SUFFICES ASSUME NEW i \in 1..4, NEW j \in 1..4, i < j PROVE <<Kinds[i], Kinds[j]>> \in Before
    BY <1>1 DEF InOrderOf
  <2>1. \/ i = 1 /\ (j = 2 \/ j = 3 \/ j = 4)
        \/ i = 2 /\ (j = 3 \/ j = 4)
        \/ i = 3 /\ j = 4
    OBVIOUS
  <2> QED BY <1>1, <2>1 DEF Before
<1> QED BY <1>3, <1>4, <1>5

LEMMA KindsLeft ==
    ASSUME NEW kinds, StillToSet(kinds), kinds # << >>
    PROVE  /\ StillToSet(Tail(kinds)) /\ ToSet(kinds) = {Head(kinds)} \cup ToSet(Tail(kinds))
           /\ Head(kinds) \in ToSet(Kinds)
           /\ o.mode /\ Head(kinds) \in {"uid", "gid"} => "mode" \in ToSet(Tail(kinds))
<1>1. kinds \in Seq(ToSet(Kinds))
  BY ListOfMembers DEF StillToSet
<1>2. PICK K : K = ToSet(Kinds)
  OBVIOUS
<1>3. PICK h \in K, t \in Seq(K) : h = Head(kinds) /\ t = Tail(kinds) /\ ToSet(kinds) = {h} \cup ToSet(t)
  <2>1. kinds \in Seq(K)
    BY <1>1, <1>2
  <2>2. Head(kinds) \in K /\ Tail(kinds) \in Seq(K) /\ ToSet(kinds) = {Head(kinds)} \cup ToSet(Tail(kinds))
    BY <2>1, HeadTailMembers
  <2> QED BY <2>2
<1>4. PICK n \in Nat : n = Len(t) /\ DOMAIN t = 1..n /\ Len(kinds) = n + 1
  BY <1>1, <1>3, HeadTailProperties
<1>5. kinds[1] = h /\ \A i \in 1..n : t[i] = kinds[i + 1]
  BY <1>1, <1>3, <1>4, HeadTailProperties
<1>6. InOrderOf(t, Before)
  <2> SUFFICES ASSUME NEW i \in 1..n, NEW j \in 1..n, i < j PROVE <<t[i], t[j]>> \in Before
    BY <1>4 DEF InOrderOf
  <2>1. i + 1 \in 1..(n + 1) /\ j + 1 \in 1..(n + 1) /\ i + 1 < j + 1
    OBVIOUS
  <2> QED BY <1>4, <1>5, <2>1 DEF StillToSet, InOrderOf
<1>7. ASSUME NEW k \in ToSet(t) PROVE <<h, k>> \in Before
  <2>1. PICK i \in 1..n : k = t[i]
    BY <1>4 DEF ToSet
  <2>2. 1 \in 1..(n + 1) /\ i + 1 \in 1..(n + 1) /\ 1 < i + 1
    OBVIOUS
  <2> QED BY <1>4, <1>5, <2>1, <2>2 DEF StillToSet, InOrderOf
<1>8. h = "mode" => "uid" \notin ToSet(t) /\ "gid" \notin ToSet(t)
  BY <1>7 DEF Before
<1>9. o.mode /\ ("uid" \in ToSet(t) \/ "gid" \in ToSet(t)) => "mode" \in ToSet(t)
  BY <1>3, <1>8 DEF StillToSet
<1>10. o.mode /\ h \in {"uid", "gid"} => "mode" \in ToSet(t)
  BY <1>3 DEF StillToSet
<1>11. IsList(t) /\ ToSet(t) \subseteq K
  BY MembersOfList
<1> QED BY <1>2, <1>3, <1>6, <1>9, <1>10, <1>11 DEF StillToSet

\* What is recorded does not depend on the files, and is there as long as they stay.
LEMMA SameRecorded ==
    ASSUME NEW path, acc'.packages = acc.packages, o' = o
    PROVE  /\ RecordedFor(path)' = RecordedFor(path)
           /\ sys'.fs[path] = sys.fs[path] => (AsRecorded(path)' <=> AsRecorded(path))
<1>1. RecordedFor(path)' = RecordedFor(path)
  BY DEF RecordedFor
<1>2. ASSUME sys'.fs[path] = sys.fs[path] PROVE AsRecorded(path)' <=> AsRecorded(path)
  BY <1>1, <1>2 DEF AsRecorded
<1> QED BY <1>1, <1>2

\* The files alone change.
LEMMA FsChanges ==
    ASSUME NEW s, "fs" \in DOMAIN s, NEW path \in DOMAIN s.fs, NEW x, NEW t,
           t = [s EXCEPT !.fs[path] = x]
    PROVE  /\ t.local = s.local /\ t.stdin = s.stdin /\ t.real = s.real /\ t.eof = s.eof
           /\ "fs" \in DOMAIN t /\ DOMAIN t.fs = DOMAIN s.fs /\ t.fs[path] = x
           /\ \A q \in DOMAIN s.fs : q # path => t.fs[q] = s.fs[q]
OBVIOUS

\* A package list is one of installed packages.
LEMMA PackagesInstalled ==
    ASSUME IsList(sys.local), IsList(o.packages)
    PROVE  IsList(RepairPackages) /\ ToSet(RepairPackages) \subseteq ToSet(sys.local)
<1>1. PICK T, db : db = sys.local /\ T = ToSet(db) /\ db \in Seq(T)
  BY DEF IsList
<1>2. CASE o.packages = << >>
  <2>1. RepairPackages = sys.local
    BY <1>2 DEF RepairPackages
  <2> QED BY <2>1
<1>3. CASE o.packages # << >>
  <2>1. PICK ss : ss = [i \in DOMAIN o.packages |->
                          Select(sys.local, {p \in ToSet(sys.local) : p.name = o.packages[i]})]
    OBVIOUS
  <2>2. PICK n \in Nat : DOMAIN o.packages = 1..n
    BY DEF IsList
  <2>3. ASSUME NEW i \in 1..n PROVE ss[i] \in Seq(T)
    <3>1. PICK S : S = {p \in ToSet(sys.local) : p.name = o.packages[i]}
      OBVIOUS
    <3>2. ss[i] = Select(db, S)
      BY <1>1, <2>1, <2>2, <3>1
    <3>3. Select(db, S) \in Seq(T)
      BY <1>1, SelectList
    <3> QED BY <3>2, <3>3
  <2>4. ss \in Seq(Seq(T))
    <3>1. ss = [i \in 1..n |-> ss[i]]
      BY <2>1, <2>2
    <3> QED BY <2>3, <3>1
  <2>5. FlattenSeq(ss) \in Seq(T)
    BY <2>4, FlattenList
  <2>6. RepairPackages = FlattenSeq(ss)
    BY <1>3, <2>1 DEF RepairPackages
  <2>7. PICK all \in Seq(T) : all = RepairPackages
    BY <2>5, <2>6
  <2>8. IsList(all) /\ ToSet(all) \subseteq T
    BY MembersOfList
  <2> QED BY <1>1, <2>7, <2>8
<1> QED BY <1>2, <1>3

LEMMA RepairSetsUpInv ==
    ASSUME RepairInv, RepairFileSetup
    PROVE  RepairInv'
<1>1. tool = "pacrepairfile" /\ pc = "start"
  BY DEF RepairFileSetup, Setup
<1>2. /\ RepairSystem /\ Accepts(RepairFileOptions, argv) /\ acc = None
      /\ \A a \in ToSet(argv) : a[1] = "target" => IsTarget(sys, a[2])
  BY <1>1 DEF RepairInv
<1>3. sys' = sys /\ acc' = acc
  BY DEF RepairFileSetup, Setup
<1>4. RepairSystem'
  BY <1>2, <1>3 DEF RepairSystem, Packaged
<1>5. PICK names, files : /\ files = {a[2] : a \in {b \in ToSet(argv) : b[1] = "target"}}
                          /\ o' \in RepairGlobals(names, files)
  BY <1>2, RepairSetsUp
<1>6. pc' = "failed" \/ pc' = "load"
  BY <1>2, RepairSetsUp
<1>7. o'.targets \in Seq(files) /\ o'.packages \in Seq(names)
  BY <1>5 DEF RepairGlobals
<1>8. IsList(o'.targets) /\ ToSet(o'.targets) \subseteq files /\ IsList(o'.packages)
  <2>1. IsList(o'.targets) /\ ToSet(o'.targets) \subseteq files
    BY <1>7, MembersOfList
  <2>2. IsList(o'.packages)
    BY <1>7, MembersOfList
  <2> QED BY <2>1, <2>2
<1>9. AsksTargets'
  <2>1. ASSUME NEW f \in ToSet(o'.targets) PROVE IsTarget(sys, f)
    BY <1>2, <1>5, <1>8
  <2> QED BY <1>3, <1>8, <2>1 DEF AsksTargets
<1> QED BY <1>2, <1>3, <1>4, <1>6, <1>8, <1>9 DEF RepairInv

\* What the steps after the parsing keep.
Targeting == RepairSystem /\ AsksTargets

LEMMA TargetsAsked ==
    ASSUME Targeting
    PROVE  /\ o.targets \o sys.stdin \in Seq(Asked)
           /\ \A f \in Asked : IsTarget(sys, f)
<1>1. PICK T : T = ToSet(o.targets) \cup ToSet(sys.stdin)
  OBVIOUS
<1>2. PICK s \in Seq(T), t \in Seq(T) : s = o.targets /\ t = sys.stdin
  <2>1. o.targets \in Seq(T)
    BY <1>1, ListOfMembers DEF Targeting, AsksTargets
  <2>2. sys.stdin \in Seq(T)
    BY <1>1, ListOfMembers DEF Targeting, RepairSystem
  <2> QED BY <2>1, <2>2
<1>3. s \o t \in Seq(T) /\ ToSet(s \o t) = ToSet(s) \cup ToSet(t)
  BY ConcatMembers
<1>4. IsList(s \o t)
  BY <1>3, MembersOfList
<1>5. Asked = T
  BY <1>1, <1>2, <1>3 DEF Asked
<1> QED BY <1>1, <1>2, <1>4, <1>5 DEF Asked, IsList, Targeting, RepairSystem, AsksTargets

LEMMA RepairLoads ==
    ASSUME Targeting, pc = "load", acc = None, IsList(o.packages), RepairFileLoad
    PROVE  /\ sys' = sys /\ o' = o
           /\ \/ pc' = "exited" /\ acc' = None
              \/ pc' = "file" /\ RepairLoop'
<1>1. sys' = sys /\ o' = o
  BY DEF RepairFileLoad, Stays
<1>2. CASE RepairPackages = << >>
  BY <1>1, <1>2 DEF RepairFileLoad, Exit
<1>3. CASE RepairPackages # << >>
  <2>1. /\ pc' = "file" /\ todo' = o.targets \o sys.stdin
        /\ acc' = [packages |-> RepairPackages, path |-> << >>, entry |-> None, kinds |-> << >>]
    BY <1>3 DEF RepairFileLoad, Goto
  <2>2. IsList(RepairPackages) /\ ToSet(RepairPackages) \subseteq ToSet(sys.local)
    BY PackagesInstalled DEF Targeting, RepairSystem
  <2>3. Asked' = Asked /\ todo' \in Seq(Asked) /\ Asked = ToSet(todo')
    BY <1>1, <2>1, TargetsAsked DEF Asked
  <2> QED BY <1>1, <2>1, <2>2, <2>3 DEF RepairLoop
<1> QED BY <1>2, <1>3

\* The first entry for a path that is found is one that is recorded.
LEMMA FoundIsRecorded ==
    ASSUME Targeting, RepairLoop, NEW path, Tidy(path), NEW found,
           found = EntriesFor(acc.packages, path), found # << >>
    PROVE  Head(found) \in RecordedFor(path)
<1>1. /\ IsList(found)
      /\ \A e \in ToSet(found) : \E p \in ToSet(acc.packages) : e \in RecordsIn(p, path)
  <2>1. \A p \in ToSet(acc.packages) : Packaged(p)
    BY DEF Targeting, RepairSystem, RepairLoop
  <2>2. IsList(acc.packages)
    BY DEF RepairLoop
  <2> QED BY <2>1, <2>2, EntriesForRecords
<1>2. PICK T, s : s = found /\ T = ToSet(s) /\ s \in Seq(T)
  BY <1>1 DEF IsList
<1>3. Head(s) \in ToSet(s)
  <2>1. ToSet(s) = {Head(s)} \cup ToSet(Tail(s))
    BY <1>2, HeadTailMembers
  <2> QED BY <2>1
<1>4. PICK e, p : /\ e = Head(found) /\ p \in ToSet(acc.packages) /\ e \in RecordsIn(p, path)
  BY <1>1, <1>2, <1>3
<1> QED BY <1>4 DEF RecordsIn, RecordedFor

\* fix_file finds an entry, or not.
LEMMA RepairFinds ==
    ASSUME Targeting, RepairLoop, pc = "file", FixFile
    PROVE  /\ sys' = sys /\ o' = o /\ RepairLoop'
           /\ pc' = "file" \/ (pc' = "fix" /\ Mending')
<1>1. sys' = sys /\ o' = o /\ todo # << >> /\ Asked' = Asked
  BY DEF FixFile, Stays, Asked
<1>2. PICK A, rest : A = Asked /\ rest = todo /\ rest \in Seq(A)
  BY DEF RepairLoop
<1>3. /\ Head(rest) \in A /\ Tail(rest) \in Seq(A)
      /\ ToSet(rest) = {Head(rest)} \cup ToSet(Tail(rest))
  BY <1>1, <1>2, HeadTailMembers
<1>4. PICK f, real : f = Head(todo) /\ real = sys.real[f]
  OBVIOUS
<1>5. PICK found : found = IF real.resolves /\ real.inside /\ real.writable
                           THEN EntriesFor(acc.packages, real.path) ELSE << >>
  OBVIOUS
<1>6. CASE found = << >>
  <2>1. ret' = 1 /\ todo' = Tail(todo) /\ acc' = acc /\ pc' = pc
    BY <1>4, <1>5, <1>6 DEF FixFile
  <2>2. todo' \in Seq(Asked')
    BY <1>1, <1>2, <1>3, <2>1
  <2> QED BY <1>1, <2>1, <2>2 DEF RepairLoop
<1>7. CASE found # << >>
  <2>1. real.resolves /\ real.inside /\ real.writable /\ found = EntriesFor(acc.packages, real.path)
    BY <1>5, <1>7
  <2>2. PICK kinds : kinds = Select(Kinds, {k \in ToSet(Kinds) : o[k]})
    OBVIOUS
  <2>3. /\ acc' = [acc EXCEPT !.path = real.path, !.entry = Head(found), !.kinds = kinds]
        /\ pc' = "fix" /\ ret' = ret /\ todo' = todo
    BY <1>4, <1>5, <1>7, <2>2 DEF FixFile, Goto
  <2>4. Tidy(real.path) /\ real.path \in DOMAIN sys.fs
    <3>1. IsTarget(sys, f)
      BY <1>2, <1>3, <1>4, TargetsAsked
    <3> QED BY <1>4, <2>1, <3>1 DEF IsTarget
  <2>5. Head(found) \in RecordedFor(real.path)
    BY <1>7, <2>1, <2>4, FoundIsRecorded
  <2>6. /\ DOMAIN acc' = DOMAIN acc /\ acc'.packages = acc.packages /\ acc'.path = real.path
        /\ acc'.entry = Head(found) /\ acc'.kinds = kinds
    BY <2>3 DEF RepairLoop
  <2>7. \A path : RecordedFor(path)' = RecordedFor(path) /\ (AsRecorded(path)' <=> AsRecorded(path))
    BY <1>1, <2>6, SameRecorded
  <2>8. PICK K : K = ToSet(Kinds)
    OBVIOUS
  <2>9. PICK S : S = {k \in ToSet(Kinds) : o[k]}
    OBVIOUS
  <2>10. kinds \in Seq(K) /\ ToSet(kinds) = K \cap S /\ InOrderOf(kinds, Before)
    <3>1. Kinds \in Seq(K) /\ InOrderOf(Kinds, Before)
      BY <2>8, KindsInOrder
    <3>2. Select(Kinds, S) \in Seq(K)
      BY <3>1, SelectList
    <3>3. ToSet(Select(Kinds, S)) = ToSet(Kinds) \cap S
      BY <3>1, SelectMembers
    <3>4. InOrderOf(Select(Kinds, S), Before)
      BY <3>1, SelectInOrder
    <3> QED BY <2>2, <2>8, <2>9, <3>2, <3>3, <3>4
  <2>11. \A k : k \in ToSet(kinds) <=> k \in ToSet(Kinds) /\ o[k]
    BY <2>8, <2>9, <2>10
  <2>12. StillToSet(kinds)'
    <3>1. IsList(kinds) /\ ToSet(kinds) \subseteq ToSet(Kinds)
      BY <2>8, <2>10, MembersOfList
    <3>2. o.mode => "mode" \in ToSet(kinds)
      <4>1. "mode" \in ToSet(Kinds)
        BY KindsInOrder
      <4> QED BY <2>11, <4>1
    <3> QED BY <1>1, <2>10, <3>1, <3>2 DEF StillToSet
  <2>13. Mending'
    <3>1. \A kind \in ToSet(Kinds) \ ToSet(kinds) : ~o[kind]
      BY <2>11
    <3>2. acc'.entry \in RecordedFor(real.path)'
      BY <2>5, <2>6, <2>7
    <3>3. StillToSet(acc.kinds)'
      BY <2>6, <2>12 DEF StillToSet
    <3>4. (RecordedFor(acc.path))' = RecordedFor(real.path)'
      BY <2>6 DEF RecordedFor
    <3> QED BY <1>1, <1>4, <2>1, <2>3, <2>4, <2>6, <3>1, <3>2, <3>3, <3>4 DEF Mending
  <2>14. RepairLoop'
    <3>1. todo' \in Seq(Asked')
      BY <1>1, <1>2, <2>3
    <3>2. ASSUME ret' = 0, NEW g \in Asked' \ ToSet(todo')
          PROVE  /\ sys'.real[g].resolves /\ sys'.real[g].inside
                 /\ sys'.real[g].path \in DOMAIN sys'.fs /\ AsRecorded(sys.real[g].path)'
      <4>1. PICK path : path = sys.real[g].path
        OBVIOUS
      <4>2. /\ sys.real[g].resolves /\ sys.real[g].inside /\ path \in DOMAIN sys.fs
            /\ AsRecorded(path)
        BY <1>1, <2>3, <3>2, <4>1 DEF RepairLoop
      <4>3. AsRecorded(path)' /\ sys'.real[g].path = path
        BY <1>1, <2>7, <4>1, <4>2
      <4> QED BY <1>1, <4>2, <4>3 DEF AsRecorded, RecordedFor
    <3>3. IsList(acc'.packages) /\ ToSet(acc'.packages) \subseteq ToSet(sys'.local)
      BY <1>1, <2>6 DEF RepairLoop
    <3>4. DOMAIN acc' = {"packages", "path", "entry", "kinds"}
      BY <2>6 DEF RepairLoop
    <3> QED BY <3>1, <3>2, <3>3, <3>4 DEF RepairLoop
  <2> QED BY <1>1, <2>3, <2>13, <2>14
<1> QED BY <1>6, <1>7

\* A kind is set, or the system refuses and the status tells.
LEMMA KindIsFixed ==
    ASSUME Targeting, RepairLoop, Mending, pc = "fix", FixKind
    PROVE  /\ Targeting' /\ RepairLoop' /\ Mending' /\ pc' = "fix"
<1>1. /\ o' = o /\ pc' = pc /\ todo' = todo /\ acc.kinds # << >>
      /\ acc' = [acc EXCEPT !.kinds = Tail(acc.kinds)]
  BY DEF FixKind
<1>2. PICK kind, kinds, path, e :
        kind = Head(acc.kinds) /\ kinds = Tail(acc.kinds) /\ path = acc.path /\ e = acc.entry
  OBVIOUS
<1>3. /\ DOMAIN acc' = DOMAIN acc /\ acc'.packages = acc.packages /\ acc'.path = path
      /\ acc'.entry = e /\ acc'.kinds = kinds
  BY <1>1, <1>2 DEF RepairLoop
<1>4. /\ StillToSet(kinds) /\ ToSet(acc.kinds) = {kind} \cup ToSet(kinds)
      /\ kind \in ToSet(Kinds)
      /\ o.mode /\ kind \in {"uid", "gid"} => "mode" \in ToSet(kinds)
  BY <1>1, <1>2, KindsLeft DEF Mending
<1>5. path \in DOMAIN sys.fs /\ {"type", "uid", "gid", "mode", "mtime"} \subseteq DOMAIN sys.fs[path]
  BY <1>2 DEF Mending, Targeting, RepairSystem
<1>6. PICK x : x = Changed(sys.fs[path], kind, e[kind])
  OBVIOUS
<1>7. \/ sys' = [sys EXCEPT !.fs[path] = x] /\ ret' = ret
      \/ sys' = sys /\ ret' = 1
  BY <1>2, <1>6 DEF FixKind
<1>8. /\ DOMAIN x = DOMAIN sys.fs[path] /\ x[kind] = e[kind]
      /\ \A k \in ToSet(Kinds) : k = kind \/ x[k] = sys.fs[path][k]
                                 \/ (k = "mode" /\ kind \in {"uid", "gid"})
  <2>1. PICK f : f = sys.fs[path]
    OBVIOUS
  <2>2. {"uid", "gid", "mode", "mtime"} \subseteq DOMAIN f /\ ToSet(Kinds) = {"uid", "gid", "mode", "mtime"}
    BY <1>5, <2>1, KindsInOrder
  <2>3. CASE kind \in {"uid", "gid"}
    <3>1. PICK m : x = [f EXCEPT ![kind] = e[kind], !.mode = m]
      BY <1>6, <2>1, <2>3 DEF Changed, Chowned
    <3>2. kind # "mode" /\ kind \in DOMAIN f /\ "mode" \in DOMAIN f
      BY <2>2, <2>3
    <3>3. DOMAIN x = DOMAIN f /\ x[kind] = e[kind]
      BY <3>1, <3>2
    <3>4. \A k \in DOMAIN f : k = kind \/ k = "mode" \/ x[k] = f[k]
      BY <3>1, <3>2
    <3> QED BY <2>1, <2>2, <2>3, <3>3, <3>4
  <2>4. CASE kind \notin {"uid", "gid"}
    <3>1. x = [f EXCEPT ![kind] = e[kind]]
      BY <1>6, <2>1, <2>4 DEF Changed
    <3>2. kind \in DOMAIN f
      BY <1>4, <2>2
    <3> QED BY <2>1, <2>2, <3>1, <3>2
  <2> QED BY <2>3, <2>4
<1>9. /\ sys'.local = sys.local /\ sys'.stdin = sys.stdin /\ sys'.real = sys.real
      /\ "fs" \in DOMAIN sys' /\ DOMAIN sys'.fs = DOMAIN sys.fs
      /\ \A q \in DOMAIN sys.fs : q # path => sys'.fs[q] = sys.fs[q]
      /\ (sys'.fs[path] = x /\ ret' = ret) \/ (sys'.fs[path] = sys.fs[path] /\ ret' = 1)
  <2>1. CASE sys' = [sys EXCEPT !.fs[path] = x] /\ ret' = ret
    <3>1. "fs" \in DOMAIN sys
      BY DEF Targeting, RepairSystem
    <3>2. PICK t : t = sys'
      OBVIOUS
    <3>3. PICK s : s = sys
      OBVIOUS
    <3>4. "fs" \in DOMAIN s /\ path \in DOMAIN s.fs /\ t = [s EXCEPT !.fs[path] = x]
      BY <1>5, <2>1, <3>1, <3>2, <3>3
    <3>5. /\ t.local = s.local /\ t.stdin = s.stdin /\ t.real = s.real
          /\ "fs" \in DOMAIN t /\ DOMAIN t.fs = DOMAIN s.fs /\ t.fs[path] = x
          /\ \A q \in DOMAIN s.fs : q # path => t.fs[q] = s.fs[q]
      BY <3>4, FsChanges
    <3> QED BY <2>1, <3>2, <3>3, <3>5
  <2>2. CASE sys' = sys /\ ret' = 1
    BY <2>2 DEF Targeting, RepairSystem
  <2> QED BY <1>7, <2>1, <2>2
<1>10. Asked' = Asked
  BY <1>1, <1>9 DEF Asked
<1>11. Targeting'
  <2>1. \A f : IsTarget(sys, f) => IsTarget(sys, f)'
    BY <1>9 DEF IsTarget
  <2>2. \A q \in DOMAIN sys'.fs :
          {"type", "uid", "gid", "mode", "mtime"} \subseteq DOMAIN sys'.fs[q]
    <3> SUFFICES ASSUME NEW q \in DOMAIN sys.fs
                 PROVE  {"type", "uid", "gid", "mode", "mtime"} \subseteq DOMAIN sys'.fs[q]
      BY <1>9
    <3>1. DOMAIN sys'.fs[q] = DOMAIN sys.fs[q]
      <4>1. CASE q = path
        BY <1>8, <1>9, <4>1
      <4>2. CASE q # path
        BY <1>9, <4>2
      <4> QED BY <4>1, <4>2
    <3> QED BY <3>1 DEF Targeting, RepairSystem
  <2>3. RepairSystem'
    BY <1>9, <2>1, <2>2 DEF Targeting, RepairSystem, Packaged
  <2>4. AsksTargets'
    BY <1>1, <2>1 DEF Targeting, AsksTargets
  <2> QED BY <2>3, <2>4 DEF Targeting
<1>12. RepairLoop'
  <2>1. todo' \in Seq(Asked')
    BY <1>1, <1>10 DEF RepairLoop
  <2>2. IsList(acc'.packages) /\ ToSet(acc'.packages) \subseteq ToSet(sys'.local)
    BY <1>3, <1>9 DEF RepairLoop
  <2>3. DOMAIN acc' = {"packages", "path", "entry", "kinds"}
    BY <1>3 DEF RepairLoop
  <2>4. ASSUME ret' = 0, NEW f \in Asked' \ ToSet(todo')
        PROVE  /\ sys'.real[f].resolves /\ sys'.real[f].inside /\ sys'.real[f].path \in DOMAIN sys'.fs
               /\ AsRecorded(sys.real[f].path)' \/ (pc' = "fix" /\ sys'.real[f].path = acc'.path)
    <3>1. PICK q : q = sys.real[f].path
      OBVIOUS
    <3>2. ret = 0 /\ f \in Asked \ ToSet(todo)
      BY <1>1, <1>9, <1>10, <2>4
    <3>3. /\ sys.real[f].resolves /\ sys.real[f].inside /\ q \in DOMAIN sys.fs
          /\ AsRecorded(q) \/ q = path
      BY <1>2, <3>1, <3>2 DEF RepairLoop
    <3>4. sys'.real[f].path = q
      BY <1>9, <3>1
    <3>5. CASE q = path
      BY <1>1, <1>3, <1>9, <3>3, <3>4, <3>5
    <3>6. CASE q # path
      <4>1. AsRecorded(q)'
        BY <1>1, <1>3, <1>9, <3>3, <3>6, SameRecorded
      <4>2. AsRecorded(sys.real[f].path)'
        BY <3>4, <4>1 DEF AsRecorded, RecordedFor
      <4> QED BY <1>9, <3>3, <3>4, <4>2
    <3> QED BY <3>5, <3>6
  <2> QED BY <2>1, <2>2, <2>3, <2>4 DEF RepairLoop
<1>13. Mending'
  <2>1. StillToSet(acc.kinds)'
    BY <1>1, <1>3, <1>4 DEF StillToSet
  <2>2. acc'.entry \in RecordedFor(acc.path)'
    <3>1. e \in RecordedFor(path)
      BY <1>2 DEF Mending
    <3>2. RecordedFor(path)' = RecordedFor(path)
      BY <1>1, <1>3, SameRecorded
    <3> QED BY <1>3, <3>1, <3>2 DEF RecordedFor
  <2>3. ASSUME ret' = 0, NEW k \in ToSet(Kinds) \ ToSet(kinds), o[k]
        PROVE  sys'.fs[path][k] = e[k]
    <3>1. ret = 0 /\ sys'.fs[path] = x
      BY <1>9, <2>3
    <3>2. CASE k = kind
      BY <1>8, <3>1, <3>2
    <3>3. CASE k # kind
      <4>1. k \in ToSet(Kinds) \ ToSet(acc.kinds)
        BY <1>4, <2>3, <3>3
      <4>2. sys.fs[path][k] = e[k]
        BY <1>2, <2>3, <3>1, <4>1 DEF Mending
      <4>3. ~(k = "mode" /\ kind \in {"uid", "gid"})
        <5> SUFFICES ASSUME k = "mode", kind \in {"uid", "gid"} PROVE FALSE
          OBVIOUS
        <5>1. o.mode
          BY <2>3, Zenon
        <5>2. "mode" \in ToSet(kinds)
          BY <1>4, <5>1, Zenon
        <5> QED BY <2>3, <5>2
      <4> QED BY <1>8, <2>3, <3>1, <3>3, <4>2, <4>3
    <3> QED BY <3>2, <3>3
  <2>4. /\ todo' # << >> /\ sys'.real[Head(todo')].resolves /\ sys'.real[Head(todo')].inside
        /\ sys'.real[Head(todo')].path = acc'.path /\ acc'.path \in DOMAIN sys'.fs
    BY <1>1, <1>2, <1>3, <1>9 DEF Mending
  <2>5. ret' = 0 => \A k \in ToSet(Kinds) \ ToSet(acc'.kinds) :
                      o'[k] => sys'.fs[acc'.path][k] = acc'.entry[k]
    BY <1>1, <1>3, <2>3, Zenon
  <2> QED BY <2>1, <2>2, <2>4, <2>5, Zenon DEF Mending
<1> QED BY <1>1, <1>11, <1>12, <1>13

\* fix_file is done: nothing is left to set.
LEMMA FileIsFixed ==
    ASSUME Targeting, RepairLoop, Mending, pc = "fix", FixedFile
    PROVE  sys' = sys /\ o' = o /\ pc' = "file" /\ RepairLoop'
<1>1. /\ sys' = sys /\ o' = o /\ pc' = "file" /\ todo' = Tail(todo) /\ ret' = ret /\ acc' = acc
      /\ acc.kinds = << >>
  BY DEF FixedFile, Stays, Goto
<1>2. Asked' = Asked
  BY <1>1 DEF Asked
<1>3. PICK A, rest, f : A = Asked /\ rest = todo /\ rest \in Seq(A) /\ rest # << >> /\ f = Head(rest)
  BY DEF RepairLoop, Mending
<1>4. Tail(rest) \in Seq(A) /\ ToSet(rest) = {f} \cup ToSet(Tail(rest))
  BY <1>3, HeadTailMembers
<1>5. ToSet(acc.kinds) = {}
  BY <1>1 DEF ToSet
<1>6. PICK path : path = acc.path
  OBVIOUS
<1>7. ret = 0 => AsRecorded(path)
  BY <1>5, <1>6 DEF Mending, AsRecorded
<1>8. \A q : AsRecorded(q)' <=> AsRecorded(q)
  BY <1>1 DEF AsRecorded, RecordedFor
<1>9. ASSUME ret' = 0, NEW g \in Asked' \ ToSet(todo')
      PROVE  /\ sys'.real[g].resolves /\ sys'.real[g].inside /\ sys'.real[g].path \in DOMAIN sys'.fs
             /\ AsRecorded(sys.real[g].path)'
  <2>1. PICK q : q = sys.real[g].path
    OBVIOUS
  <2>2. g = f \/ g \in Asked \ ToSet(todo)
    BY <1>1, <1>2, <1>3, <1>4, <1>9
  <2>3. /\ sys.real[g].resolves /\ sys.real[g].inside /\ q \in DOMAIN sys.fs
        /\ AsRecorded(q) \/ q = path
    <3>1. CASE g = f
      BY <1>3, <1>6, <2>1, <3>1 DEF Mending
    <3>2. CASE g \in Asked \ ToSet(todo)
      BY <1>1, <1>6, <1>9, <2>1, <3>2 DEF RepairLoop
    <3> QED BY <2>2, <3>1, <3>2
  <2>4. AsRecorded(q)'
    BY <1>1, <1>7, <1>8, <1>9, <2>3
  <2>5. AsRecorded(sys.real[g].path)'
    BY <1>1, <2>1, <2>4 DEF AsRecorded, RecordedFor
  <2> QED BY <1>1, <2>1, <2>3, <2>5
<1>10. todo' \in Seq(Asked')
  BY <1>1, <1>2, <1>3, <1>4
<1> QED BY <1>1, <1>9, <1>10 DEF RepairLoop

LEMMA RepairSteps ==
    ASSUME RepairInv, RepairFileStep
    PROVE  RepairInv'
<1>1. CASE RepairFileSetup
  BY <1>1, RepairSetsUpInv
<1>2. CASE RepairFileLoad
  <2>1. tool = "pacrepairfile" /\ pc = "load"
    BY <1>2 DEF RepairFileLoad, At
  <2>2. Targeting /\ acc = None /\ IsList(o.packages)
    BY <2>1 DEF RepairInv, Targeting
  <2>3. /\ sys' = sys /\ o' = o
        /\ (pc' = "exited" /\ acc' = None) \/ (pc' = "file" /\ RepairLoop')
    BY <1>2, <2>1, <2>2, RepairLoads
  <2>4. RepairSystem' /\ AsksTargets'
    BY <2>2, <2>3 DEF Targeting, RepairSystem, AsksTargets, Packaged
  <2> QED BY <2>3, <2>4 DEF RepairInv
<1>3. CASE FixFile
  <2>1. tool = "pacrepairfile" /\ pc = "file"
    BY <1>3 DEF FixFile, At
  <2>2. Targeting /\ RepairLoop
    BY <2>1 DEF RepairInv, Targeting
  <2>3. /\ sys' = sys /\ o' = o /\ RepairLoop'
        /\ pc' = "file" \/ (pc' = "fix" /\ Mending')
    BY <1>3, <2>1, <2>2, RepairFinds
  <2>4. RepairSystem' /\ AsksTargets'
    BY <2>2, <2>3 DEF Targeting, RepairSystem, AsksTargets, Packaged
  <2> QED BY <2>3, <2>4 DEF RepairInv
<1>4. CASE FixKind
  <2>1. tool = "pacrepairfile" /\ pc = "fix"
    BY <1>4 DEF FixKind, At
  <2>2. Targeting /\ RepairLoop /\ Mending
    BY <2>1 DEF RepairInv, Targeting
  <2>3. Targeting' /\ RepairLoop' /\ Mending' /\ pc' = "fix"
    BY <1>4, <2>1, <2>2, KindIsFixed
  <2> QED BY <2>3 DEF RepairInv, Targeting
<1>5. CASE FixedFile
  <2>1. tool = "pacrepairfile" /\ pc = "fix"
    BY <1>5 DEF FixedFile, At
  <2>2. Targeting /\ RepairLoop /\ Mending
    BY <2>1 DEF RepairInv, Targeting
  <2>3. sys' = sys /\ o' = o /\ pc' = "file" /\ RepairLoop'
    BY <1>5, <2>1, <2>2, FileIsFixed
  <2>4. RepairSystem' /\ AsksTargets'
    BY <2>2, <2>3 DEF Targeting, RepairSystem, AsksTargets, Packaged
  <2> QED BY <2>3, <2>4 DEF RepairInv
<1>6. CASE RepairFileEnd
  <2>1. /\ tool = "pacrepairfile" /\ pc = "file" /\ todo = << >>
        /\ sys' = sys /\ o' = o /\ acc' = acc /\ pc' = "exited" /\ ret' = IF sys.eof THEN ret ELSE 1
    BY <1>6 DEF RepairFileEnd, At, Stays
  <2>2. Targeting /\ RepairLoop
    BY <2>1 DEF RepairInv, Targeting
  <2>3. RepairSystem' /\ AsksTargets' /\ Asked' = Asked
    BY <2>1, <2>2 DEF Targeting, RepairSystem, AsksTargets, Packaged, Asked
  <2>4. ToSet(todo) = {}
    BY <2>1 DEF ToSet
  <2>5. ASSUME ret' = 0, NEW f \in Asked'
        PROVE  /\ sys'.real[f].resolves /\ sys'.real[f].inside
               /\ AsRecorded(sys.real[f].path)'
    <3>1. ret = 0
      BY <2>1, <2>5
    <3>2. sys.real[f].resolves /\ sys.real[f].inside /\ AsRecorded(sys.real[f].path)
      BY <2>1, <2>2, <2>3, <2>4, <2>5, <3>1 DEF RepairLoop
    <3>3. AsRecorded(sys.real[f].path)'
      BY <2>1, <3>2 DEF AsRecorded, RecordedFor
    <3> QED BY <2>1, <3>2, <3>3
  <2> QED BY <2>1, <2>3, <2>5 DEF RepairInv
<1> QED BY <1>1, <1>2, <1>3, <1>4, <1>5, <1>6 DEF RepairFileStep

LEMMA RepairStutters ==
    ASSUME RepairInv, UNCHANGED toolVars
    PROVE  RepairInv'
<1>1. /\ sys' = sys /\ o' = o /\ todo' = todo /\ acc' = acc /\ pc' = pc /\ tool' = tool
      /\ argv' = argv /\ ret' = ret
  BY DEF toolVars
<1>2. /\ RepairSystem' <=> RepairSystem
      /\ AsksTargets' <=> AsksTargets
      /\ Asked' = Asked
  BY <1>1 DEF RepairSystem, AsksTargets, Packaged, Asked
<1>3. /\ \A path : RecordedFor(path)' = RecordedFor(path)
      /\ \A f : AsRecorded(sys.real[f].path)' <=> AsRecorded(sys.real[f].path)
  BY <1>1 DEF AsRecorded, RecordedFor
<1>4. RepairLoop' <=> RepairLoop
  BY <1>1, <1>2, <1>3 DEF RepairLoop
<1>5. Mending' <=> Mending
  <2>1. StillToSet(acc.kinds)' <=> StillToSet(acc.kinds)
    BY <1>1 DEF StillToSet
  <2>2. RecordedFor(acc.path)' = RecordedFor(acc.path)
    BY <1>1 DEF RecordedFor
  <2>3. ToSet(acc.kinds)' = ToSet(acc.kinds)
    BY <1>1
  <2> QED BY <1>1, <2>1, <2>2, <2>3 DEF Mending
<1> QED BY <1>1, <1>2, <1>3, <1>4, <1>5 DEF RepairInv

LEMMA RepairHolds == Spec => []RepairInv
<1>1. RepairInv /\ [Next]_toolVars => RepairInv'
  <2> SUFFICES ASSUME RepairInv, [Next]_toolVars PROVE RepairInv'
    OBVIOUS
  <2>1. CASE SiftStep \/ ReportStep \/ CheckStep \/ SyncStep
    <3>1. tool' # "pacrepairfile"
      BY <2>1, OwnSteps
    <3> QED BY <3>1 DEF RepairInv
  <2>2. CASE RepairFileStep
    BY <2>2, RepairSteps
  <2>3. CASE UNCHANGED toolVars
    BY <2>3, RepairStutters
  <2> QED BY <2>1, <2>2, <2>3 DEF Next, Finished
<1> QED BY <1>1, RepairBegins, PTL DEF Spec

\* When pacrepairfile succeeds, all of its files have, in every respect asked for, what the
\* mtree of a package that owns them says, on every system it can be started on; and the
\* search in a list of files finds what is there, of any length, if the list is in order.
THEOREM RepairsAsRecorded == Spec => []RepairedAsRecorded
<1>1. RepairInv => RepairedAsRecorded
  <2> SUFFICES ASSUME RepairInv, tool = "pacrepairfile" PROVE RepairedAsRecorded
    BY DEF RepairedAsRecorded, At
  <2>1. ASSUME pc = "exited", acc # None, ret = 0, NEW f \in ToSet(o.targets \o sys.stdin)
        PROVE  /\ sys.real[f].resolves /\ sys.real[f].inside
               /\ AsRecorded(sys.real[f].path)
    BY <2>1 DEF RepairInv, Asked
  <2>2. ASSUME pc = "file", NEW f \in ToSet(todo), sys.real[f].resolves, sys.real[f].inside
        PROVE  OwnerIsFound(sys.real[f].path)
    <3>1. Targeting /\ RepairLoop
      BY <2>2 DEF RepairInv, Targeting
    <3>2. PICK A, rest : A = Asked /\ rest = todo /\ rest \in Seq(A)
      BY <3>1 DEF RepairLoop
    <3>3. f \in Asked
      BY <3>2, MembersOfList
    <3>4. PICK path : path = sys.real[f].path
      OBVIOUS
    <3>5. Tidy(path) /\ Bare(path) = path
      BY <2>2, <3>1, <3>3, <3>4, TargetsAsked DEF IsTarget
    <3>6. ASSUME NEW p \in ToSet(acc.packages), InOrder(p.files)
          PROVE  FilelistContains(p.files, path)
                 <=> \E i \in DOMAIN p.files : PathCmp(path, p.files[i]) = 0
      <4>1. ToSearch(path, p.files)
        BY <3>1, <3>5 DEF ToSearch, Targeting, RepairSystem, RepairLoop, Packaged
      <4> QED BY <3>5, <3>6, <4>1, ContainsWhatIsThere
    <3> QED BY <3>4, <3>6 DEF OwnerIsFound
  <2> QED BY <2>1, <2>2 DEF RepairedAsRecorded, At
<1> QED BY <1>1, RepairHolds, PTL
-----------------------------------------------------------------------------
(***************************************************************************)
(* The kinds of the values.                                                *)
(***************************************************************************)

\* None is not a function, and so none of the records that options are parsed into.
NoneIsNoFunction == \A S : None # [x \in S |-> None[x]]

Places ==
    {"start", "load", "filter", "conf", "scan", "leaves", "connect", "print", "chain",
     "deps", "check", "file", "fix", "targets", "update", "exited", "failed"}

Typed ==
    /\ tool \in Tools /\ pc \in Places /\ ret \in {-1, 0, 1, 2}
    /\ pc = "start" <=> o = None /\ ~Over
    /\ IsList(todo) /\ IsList(out)
    /\ tool = "pacreport" => IsList(sys.caches)

ToolInvs == SiftInv /\ ReportInv /\ ScanInv /\ CheckInv /\ RepairInv /\ SyncInv

LEMMA TypedBegins == Init => Typed
<1> SUFFICES ASSUME Init PROVE Typed
  OBVIOUS
<1>1. tool \in Tools /\ pc = "start" /\ o = None /\ todo = << >> /\ out = << >> /\ ret = 0
  BY DEF Init, Started, Tools
<1>2. tool = "pacreport" => IsList(sys.caches)
  <2>1. ASSUME tool = "pacreport" PROVE \E r \in ReportRuns : sys = r.sys
    BY <2>1 DEF Init, Started
  <2> QED BY <2>1, ReportRunsAssumption
<1>3. IsList(<< >>)
  BY DEF IsList, ToSet
<1>4. pc \in Places /\ ~Over
  BY <1>1 DEF Places, Over
<1> QED BY <1>1, <1>2, <1>3, <1>4 DEF Typed

\* Parsing leaves a record and stays at the start no longer.
LEMMA TypedSetUp ==
    ASSUME Typed, NEW program, NEW g, g # None, NEW next \in Places \ {"start"},
           NEW failures \in SUBSET {-1, 0, 1, 2}, Setup(program, g, next, failures)
    PROVE  Typed'
<1>1. /\ o' = g /\ tool' = tool /\ sys' = sys /\ todo' = todo /\ out' = out
      /\ (pc' = next /\ ret' = ret) \/ (pc' = "failed" /\ ret' \in failures)
  BY DEF Setup
<1>2. pc' \in Places /\ pc' # "start" /\ ret' \in {-1, 0, 1, 2}
  BY <1>1 DEF Typed, Places
<1> QED BY <1>1, <1>2 DEF Typed

\* After it the options stay as they are.
LEMMA TypedStays ==
    ASSUME Typed, pc \notin {"start", "exited", "failed"}, tool' = tool, o' = o,
           tool = "pacreport" => sys' = sys,
           pc' \in Places \ {"start"}, ret' \in {-1, 0, 1, 2}, IsList(todo'), IsList(out')
    PROVE  Typed'
<1>1. o # None
  BY DEF Typed, Over
<1> QED BY <1>1 DEF Typed

LEMMA AppendListed ==
    ASSUME NEW s, IsList(s), NEW x
    PROVE  IsList(Append(s, x))
<1>1. PICK T : T = ToSet(s) \cup {x}
  OBVIOUS
<1>2. s \in Seq(T)
  BY <1>1, ListOfMembers
<1>3. Append(s, x) \in Seq(T)
  BY <1>1, <1>2
<1> QED BY <1>3, MembersOfList

LEMMA OneOrNone ==
    ASSUME NEW x
    PROVE  IsList(<< >>) /\ IsList(<<x>>)
<1>1. PICK T : T = {x}
  OBVIOUS
<1>2. << >> \in Seq(T)
  OBVIOUS
<1>3. <<x>> \in Seq(T)
  BY <1>1
<1> QED BY <1>2, <1>3, MembersOfList

LEMMA ConcatListed ==
    ASSUME NEW s, IsList(s), NEW t, IsList(t)
    PROVE  IsList(s \o t)
<1>1. PICK T : T = ToSet(s) \cup ToSet(t)
  OBVIOUS
<1>2. s \in Seq(T) /\ t \in Seq(T)
  BY <1>1, ListOfMembers
<1>3. s \o t \in Seq(T)
  BY <1>2
<1> QED BY <1>3, MembersOfList

LEMMA ReportOptionsApart ==
    ASSUME NoneIsNoFunction, NEW values, NEW g \in ReportGlobals(values)
    PROVE  g # None
<1>1. g = [x \in {"optionalDeps", "showFor", "backups", "orphans", "missing", "groups"} |-> g[x]]
  BY DEF ReportGlobals
<1> QED BY <1>1 DEF NoneIsNoFunction

LEMMA SyncOptionsApart ==
    ASSUME NoneIsNoFunction, NEW values, NEW g \in SyncGlobals(values)
    PROVE  g # None
<1>1. g = [x \in {"force", "updated", "repos"} |-> g[x]]
  BY DEF SyncGlobals
<1> QED BY <1>1 DEF NoneIsNoFunction

LEMMA RepairOptionsApart ==
    ASSUME NoneIsNoFunction, NEW names, NEW files, NEW g \in RepairGlobals(names, files)
    PROVE  g # None
<1>1. g = [x \in {"uid", "gid", "mode", "mtime", "verbose", "packages", "targets"} |-> g[x]]
  BY DEF RepairGlobals
<1> QED BY <1>1 DEF NoneIsNoFunction

LEMMA CheckOptionsApart ==
    ASSUME NoneIsNoFunction, NEW values, NEW g \in CheckGlobals(values)
    PROVE  /\ g # None
           /\ [g EXCEPT !.depends = TRUE, !.files = TRUE] # None
<1>1. PICK D : D = DOMAIN g
  OBVIOUS
<1>2. g = [x \in D |-> g[x]]
  BY <1>1 DEF CheckGlobals
<1>3. PICK h : h = [g EXCEPT !.depends = TRUE, !.files = TRUE]
  OBVIOUS
<1>4. h = [x \in D |-> h[x]]
  BY <1>2, <1>3
<1> QED BY <1>2, <1>3, <1>4 DEF NoneIsNoFunction

LEMMA SiftOptionsApart ==
    ASSUME NoneIsNoFunction, NEW g, NEW garbage
    PROVE  /\ SizesRead(g, garbage) # None
           /\ [SizesRead(g, garbage) EXCEPT !.dbext = "files"] # None
<1>1. PICK D : D = DOMAIN g
  OBVIOUS
<1>2. PICK h : h = SizesRead(g, garbage)
  OBVIOUS
<1>3. h = [x \in D |-> h[x]]
  BY <1>1, <1>2 DEF SizesRead
<1>4. PICK k : k = [h EXCEPT !.dbext = "files"]
  OBVIOUS
<1>5. k = [x \in D |-> k[x]]
  BY <1>3, <1>4
<1> QED BY <1>2, <1>3, <1>4, <1>5 DEF NoneIsNoFunction

LEMMA SyncTyped ==
    ASSUME NoneIsNoFunction, Typed, SyncInv, SyncStep
    PROVE  Typed'
<1>1. tool = "pacsync" /\ tool' = tool
  BY OwnSteps
<1>2. IsList(todo) /\ IsList(out) /\ ret \in {-1, 0, 1, 2}
  BY DEF Typed
<1>3. CASE SyncSetup
  <2>1. Accepts(SyncOptions, argv)
    BY <1>1, <1>3 DEF SyncSetup, Setup, SyncInv
  <2>2. PICK values : Parse(SyncOptions, SyncDefaults) \in SyncGlobals(values)
    BY <2>1, SyncParsed
  <2>3. PICK g : g = Parse(SyncOptions, SyncDefaults)
    OBVIOUS
  <2>4. g # None
    BY <2>2, <2>3, SyncOptionsApart
  <2>5. PICK failures : failures = {1, SyncStatus(0, FALSE, g.updated)}
    OBVIOUS
  <2>6. failures \in SUBSET {-1, 0, 1, 2}
    BY <2>5 DEF SyncStatus
  <2>7. Setup("pacsync", g, "targets", failures)
    BY <1>3, <2>3, <2>5 DEF SyncSetup
  <2>8. "targets" \in Places \ {"start"}
    BY DEF Places
  <2> QED BY <2>4, <2>6, <2>7, <2>8, TypedSetUp
<1>4. CASE SyncTargets \/ SyncEnd
  <2>1. /\ pc \in {"targets", "update"} /\ todo' = todo /\ out' = out /\ o' = o
        /\ pc' \in {"update", "exited"}
    BY <1>4 DEF SyncTargets, SyncEnd, At, Stays, Exit, Goto
  <2>2. ret' \in {-1, 0, 1, 2}
    BY <1>2, <1>4 DEF SyncTargets, SyncEnd, SyncStatus, Exit
  <2> QED BY <1>1, <1>2, <2>1, <2>2, TypedStays DEF Places
<1>5. CASE DownloadEvent
  <2>1. /\ pc = "update" /\ pc' = pc /\ ret' = ret /\ todo' = todo /\ o' = o
    BY <1>5 DEF DownloadEvent, DownloadInit, DownloadProgress, DownloadRetry, DownloadCompleted,
                Event, At, Stays
  <2>2. out' = out \/ \E line : out' = Append(out, line)
    BY <1>5 DEF DownloadEvent, DownloadInit, DownloadProgress, DownloadRetry, DownloadCompleted
  <2>3. IsList(out')
    BY <1>2, <2>2, AppendListed
  <2> QED BY <1>1, <1>2, <2>1, <2>3, TypedStays DEF Places
<1> QED BY <1>3, <1>4, <1>5 DEF SyncStep

LEMMA RepairTyped ==
    ASSUME NoneIsNoFunction, Typed, RepairInv, RepairInv', RepairFileStep
    PROVE  Typed'
<1>1. tool = "pacrepairfile" /\ tool' = tool
  BY OwnSteps
<1>2. IsList(todo) /\ IsList(out) /\ ret \in {-1, 0, 1, 2}
  BY DEF Typed
<1>3. CASE RepairFileSetup
  <2>1. Accepts(RepairFileOptions, argv)
    BY <1>1, <1>3 DEF RepairFileSetup, Setup, RepairInv
  <2>2. PICK names, files : o' \in RepairGlobals(names, files)
    BY <1>3, <2>1, RepairSetsUp
  <2>3. PICK g : g = Parse(RepairFileOptions, RepairFileDefaults)
    OBVIOUS
  <2>4. Setup("pacrepairfile", g, "load", {1})
    BY <1>3, <2>3 DEF RepairFileSetup
  <2>5. o' = g
    BY <2>4 DEF Setup
  <2>6. g # None
    BY <2>2, <2>5, RepairOptionsApart
  <2>7. "load" \in Places \ {"start"}
    BY DEF Places
  <2> QED BY <2>4, <2>6, <2>7, TypedSetUp
<1>4. ASSUME pc' \in {"file", "fix"} PROVE IsList(todo')
  <2>1. RepairLoop'
    BY <1>1, <1>4 DEF RepairInv
  <2>2. PICK A, rest : rest = todo' /\ rest \in Seq(A)
    BY <2>1 DEF RepairLoop
  <2> QED BY <2>2, MembersOfList
<1>5. CASE RepairFileLoad \/ FixFile \/ FixedFile \/ RepairFileEnd
  <2>1. /\ pc \in {"load", "file", "fix"} /\ o' = o /\ out' = out
        /\ pc' \in {"file", "fix", "exited"} /\ (pc' = "exited" => todo' = todo)
    BY <1>5 DEF RepairFileLoad, FixFile, FixedFile, RepairFileEnd, At, Stays, Exit, Goto
  <2>2. ret' \in {-1, 0, 1, 2}
    BY <1>2, <1>5 DEF RepairFileLoad, FixFile, FixedFile, RepairFileEnd, Exit
  <2> QED BY <1>1, <1>2, <1>4, <2>1, <2>2, TypedStays DEF Places
<1>6. CASE FixKind
  <2>1. pc = "fix" /\ pc' = pc /\ o' = o /\ todo' = todo /\ ret' \in {ret, 1}
    BY <1>6 DEF FixKind, At
  <2>2. out' = out \/ \E line : out' = Append(out, line)
    BY <1>6 DEF FixKind
  <2>3. IsList(out')
    BY <1>2, <2>2, AppendListed
  <2> QED BY <1>1, <1>2, <2>1, <2>3, TypedStays DEF Places
<1> QED BY <1>3, <1>5, <1>6 DEF RepairFileStep

LEMMA CheckTyped ==
    ASSUME NoneIsNoFunction, Typed, CheckInv, CheckInv', CheckStep
    PROVE  Typed'
<1>1. tool = "paccheck" /\ tool' = tool
  BY OwnSteps
<1>2. IsList(todo) /\ IsList(out) /\ ret \in {-1, 0, 1, 2}
  BY DEF Typed
<1>3. CASE CheckSetup
  <2>1. Accepts(CheckOptions, argv)
    BY <1>1, <1>3 DEF CheckSetup, Setup, CheckInv
  <2>0. PICK values : Parse(CheckOptions, CheckDefaults) \in CheckGlobals(values)
    BY <2>1, CheckParsed
  <2>2. PICK g \in CheckGlobals(values) : g = Parse(CheckOptions, CheckDefaults)
    BY <2>0
  <2>3. PICK h : h = IF \E c \in Checks : g[c] THEN g
                     ELSE [g EXCEPT !.depends = TRUE, !.files = TRUE]
    OBVIOUS
  <2>4. h # None
    BY <2>2, <2>3, CheckOptionsApart
  <2>5. Setup("paccheck", h, "load", {1})
    BY <1>3, <2>2, <2>3 DEF CheckSetup
  <2>6. "load" \in Places \ {"start"}
    BY DEF Places
  <2> QED BY <2>4, <2>5, <2>6, TypedSetUp
<1>4. IsList(todo')
  <2>1. CASE pc' = "deps"
    <3>1. DepsInv'
      BY <1>1, <2>1 DEF CheckInv
    <3> QED BY <3>1 DEF DepsInv
  <2>2. CASE pc' = "check"
    <3>1. ChecksInv'
      BY <1>1, <2>2 DEF CheckInv
    <3>2. PICK T, rest : rest = todo' /\ rest \in Seq(T)
      BY <3>1 DEF ChecksInv, Split
    <3> QED BY <3>2, MembersOfList
  <2>3. CASE pc' \notin {"deps", "check"}
    <3>1. todo' = todo
      BY <2>3 DEF CheckStep, CheckSetup, Setup, CheckLoad, AddDep, DepsAdded, CheckPackage,
                  CheckEnd, At, Exit, Goto
    <3> QED BY <1>2, <3>1
  <2> QED BY <2>1, <2>2, <2>3
<1>5. CASE CheckLoad \/ AddDep \/ DepsAdded \/ CheckEnd
  <2>1. /\ pc \in {"load", "deps", "check"} /\ o' = o /\ out' = out
        /\ pc' \in {"deps", "check", "exited"} /\ ret' \in {ret, 1}
    BY <1>5 DEF CheckLoad, AddDep, DepsAdded, CheckEnd, At, Stays, Exit, Goto
  <2> QED BY <1>1, <1>2, <1>4, <2>1, TypedStays DEF Places
<1>6. CASE CheckPackage
  <2>1. pc = "check" /\ pc' = pc /\ o' = o /\ ret' \in {ret, 1}
    BY <1>6 DEF CheckPackage, At, Stays
  <2>2. out' = out \/ \E line : out' = Append(out, line)
    BY <1>6 DEF CheckPackage
  <2>3. IsList(out')
    BY <1>2, <2>2, AppendListed
  <2> QED BY <1>1, <1>2, <1>4, <2>1, <2>3, TypedStays DEF Places
<1> QED BY <1>3, <1>5, <1>6 DEF CheckStep

LEMMA SiftTyped ==
    ASSUME NoneIsNoFunction, Typed, SiftInv, SiftInv', SiftStep
    PROVE  Typed'
<1>1. tool = "pacsift" /\ tool' = tool
  BY OwnSteps
<1>2. IsList(todo) /\ IsList(out) /\ ret \in {-1, 0, 1, 2}
  BY DEF Typed
<1>3. CASE SiftSetup /\ BadNumbers(SiftParsed)
  <2>1. pc = "start" /\ pc' = "exited" /\ ret' = 1 /\ todo' = todo /\ out' = out
    BY <1>3 DEF SiftSetup, Exit
  <2> QED BY <1>1, <1>2, <2>1 DEF Typed, Places, Over
<1>4. CASE SiftSetup /\ ~BadNumbers(SiftParsed)
  <2>1. PICK p : p = SiftParsed
    OBVIOUS
  <2>2. PICK garbage \in Garbage :
          Setup("pacsift",
                IF SizesRead(p, garbage).ownsfile # << >> /\ SizesRead(p, garbage).dbext = None
                THEN [SizesRead(p, garbage) EXCEPT !.dbext = "files"] ELSE SizesRead(p, garbage),
                "load", {0, 1})
    BY <1>4, <2>1, Zenon DEF SiftSetup
  <2>3. PICK g : g = IF SizesRead(p, garbage).ownsfile # << >> /\ SizesRead(p, garbage).dbext = None
                     THEN [SizesRead(p, garbage) EXCEPT !.dbext = "files"]
                     ELSE SizesRead(p, garbage)
    OBVIOUS
  <2>4. g # None
    BY <2>3, SiftOptionsApart
  <2>5. Setup("pacsift", g, "load", {0, 1})
    BY <2>2, <2>3
  <2>6. "load" \in Places \ {"start"}
    BY DEF Places
  <2> QED BY <2>4, <2>5, <2>6, TypedSetUp
<1>5. ASSUME pc' = "filter" PROVE IsList(todo')
  <2>1. PICK T, rest : rest = todo' /\ rest \in Seq(T)
    BY <1>1, <1>5 DEF SiftInv, FilterInv, SearchedBy
  <2> QED BY <2>1, MembersOfList
<1>6. CASE SiftLoad \/ FilterField
  <2>1. /\ pc \in {"load", "filter"} /\ o' = o /\ out' = out /\ ret' \in {ret, 1}
        /\ pc' = "filter" \/ (pc' = "exited" /\ todo' = todo)
    BY <1>6 DEF SiftLoad, FilterField, At, Stays, Exit, Goto
  <2>2. IsList(todo')
    BY <1>2, <1>5, <2>1
  <2> QED BY <1>1, <1>2, <2>1, <2>2, TypedStays DEF Places
<1>7. CASE SiftPrint
  <2>1. pc = "filter" /\ pc' = "exited" /\ o' = o /\ todo' = todo
    BY <1>7 DEF SiftPrint, At, Stays, Exit
  <2>2. ret' \in {0, 1}
    BY <1>7 DEF SiftPrint, Exit
  <2>3. PICK a, P : a = acc /\ a \in SiftAcc(P)
    BY <1>1, <2>1 DEF SiftInv, FilterInv, SearchedBy
  <2>4. PICK r : r = ResultOf(a) /\ r \in Seq(P)
    <3>1. a.all \in Seq(P) /\ a.hay \in Seq(P) /\ a.matches \in Seq(P)
      BY <2>3 DEF SiftAcc
    <3>2. Select(a.all, ToSet(a.all) \ ToSet(a.hay)) \in Seq(P)
      BY <3>1, SelectList
    <3> QED BY <3>1, <3>2 DEF ResultOf
  <2>5. out' = [i \in DOMAIN r |-> r[i].spec]
    BY <1>7, <2>3, <2>4 DEF SiftPrint, SiftResult, ResultOf
  <2>6. out' \in Seq({q.spec : q \in P})
    BY <2>4, <2>5
  <2>7. IsList(out')
    BY <2>6, MembersOfList
  <2> QED BY <1>1, <1>2, <2>1, <2>2, <2>7, TypedStays DEF Places
<1> QED BY <1>3, <1>4, <1>6, <1>7 DEF SiftStep

LEMMA ReportTodo ==
    ASSUME Typed, ReportInv', ScanInv', ReportStep
    PROVE  IsList(todo')
<1>1. tool = "pacreport" /\ tool' = tool
  BY OwnSteps
<1>2. CASE pc' = "scan"
  <2>1. ScanAt'
    BY <1>1, <1>2 DEF ScanInv
  <2> QED BY <2>1 DEF ScanAt, ScanHolds
<1>3. CASE pc' = "connect"
  <2>1. PICK T, rest : rest = todo' /\ rest \in Seq(T)
    BY <1>1, <1>3 DEF ReportInv, ConnectInv
  <2> QED BY <2>1, MembersOfList
<1>4. CASE pc' = "chain"
  <2>1. ChainInv'
    BY <1>1, <1>4 DEF ReportInv
  <2> QED BY <2>1 DEF ChainInv, OwnChain
<1>5. CASE pc' \notin {"scan", "connect", "chain"}
  <2>1. todo' = todo
    BY <1>5 DEF ReportStep, ReportSetup, Setup, ReportConf, Scan, Scanned, FindLeaves, Connect,
                Connected, ChainStart, ChainDep, ChainNext, ChainEnd, ReportEnd, At, Exit, Goto
  <2> QED BY <2>1 DEF Typed
<1> QED BY <1>2, <1>3, <1>4, <1>5

LEMMA ReportTyped ==
    ASSUME NoneIsNoFunction, Typed, ReportInv, ReportInv', ScanInv', ReportStep
    PROVE  Typed'
<1>1. tool = "pacreport" /\ tool' = tool
  BY OwnSteps
<1>2. IsList(todo) /\ IsList(out) /\ ret \in {-1, 0, 1, 2} /\ IsList(sys.caches)
  BY <1>1 DEF Typed
<1>3. IsList(todo')
  BY ReportTodo
<1>4. CASE ReportSetup /\ ReportParsed.showFor
  <2>1. pc = "start" /\ pc' = "exited" /\ ret' = 2 /\ o' = o /\ sys' = sys /\ out' = out
    BY <1>4 DEF ReportSetup, Exit, Stays
  <2> QED BY <1>1, <1>2, <1>3, <2>1 DEF Typed, Places, Over
<1>5. CASE ReportSetup /\ ~ReportParsed.showFor
  <2>1. Accepts(ReportOptions, argv)
    BY <1>1, <1>5 DEF ReportSetup, Setup, ReportInv
  <2>2. PICK values : Parse(ReportOptions, ReportDefaults) \in ReportGlobals(values)
    BY <2>1, ReportIsParsed
  <2>3. PICK g : g = Parse(ReportOptions, ReportDefaults)
    OBVIOUS
  <2>4. g # None
    BY <2>2, <2>3, ReportOptionsApart
  <2>5. Setup("pacreport", g, "conf", {0, 1})
    BY <1>5, <2>3 DEF ReportSetup, ReportParsed
  <2>6. "conf" \in Places \ {"start"}
    BY DEF Places
  <2> QED BY <2>4, <2>5, <2>6, TypedSetUp
<1>6. CASE ReportConf
  <2>1. /\ pc = "conf" /\ o' = o /\ sys' = sys /\ out' = out /\ ret' \in {ret, -1}
        /\ pc' \in {"exited", "leaves", "scan"}
    BY <1>6 DEF ReportConf, At, Stays, Exit, Goto
  <2> QED BY <1>1, <1>2, <1>3, <2>1, TypedStays DEF Places
<1>7. CASE Scan \/ FindLeaves \/ Connect \/ Connected \/ ChainStart \/ ChainDep \/ ChainNext
  <2>1. /\ pc \in {"scan", "leaves", "connect", "print", "chain"}
        /\ pc' \in {"scan", "connect", "print", "chain"}
        /\ o' = o /\ sys' = sys /\ out' = out /\ ret' = ret
    BY <1>7 DEF Scan, FindLeaves, Connect, Connected, ChainStart, ChainDep, ChainNext, At, Stays, Goto
  <2> QED BY <1>1, <1>2, <1>3, <2>1, TypedStays DEF Places
<1>8. CASE Scanned
  <2>1. pc = "scan" /\ pc' = "leaves" /\ o' = o /\ sys' = sys /\ ret' = ret
    BY <1>8 DEF Scanned, At, Stays, Goto
  <2>2. PICK x, y : /\ x = IF o.orphans > 0 THEN <<[heading |-> "unowned", paths |-> acc.orphans]>>
                           ELSE << >>
                    /\ y = IF o.backups > 0 THEN <<[heading |-> "backups", paths |-> acc.backups]>>
                           ELSE << >>
    OBVIOUS
  <2>3. out' = x \o y
    BY <1>8, <2>2 DEF Scanned
  <2>4. IsList(x)
    BY <2>2, OneOrNone
  <2>5. IsList(y)
    BY <2>2, OneOrNone
  <2> QED BY <1>1, <1>2, <1>3, <2>1, <2>3, <2>4, <2>5, ConcatListed, TypedStays DEF Places
<1>9. CASE ChainEnd
  <2>1. pc = "chain" /\ pc' = "print" /\ o' = o /\ sys' = sys /\ ret' = ret
    BY <1>9 DEF ChainEnd, At, Stays, Goto
  <2>2. \E line : out' = Append(out, line)
    BY <1>9 DEF ChainEnd
  <2> QED BY <1>1, <1>2, <1>3, <2>1, <2>2, AppendListed, TypedStays DEF Places
<1>10. CASE ReportEnd
  <2>1. pc = "print" /\ pc' = "exited" /\ o' = o /\ sys' = sys /\ ret' = 0
    BY <1>10 DEF ReportEnd, At, Stays, Exit
  <2>2. PICK x, y : /\ x = IF o.missing > 0 THEN <<[heading |-> "missing", files |-> MissingFiles]>>
                           ELSE << >>
                    /\ y = [i \in DOMAIN sys.caches |->
                              [heading |-> "cache", size |-> CacheSize(sys.caches[i])]]
    OBVIOUS
  <2>3. IsList(x)
    BY <2>2, OneOrNone
  <2>4. IsList(y)
    <3>1. PICK c, T : c = sys.caches /\ c \in Seq(T)
      BY <1>2 DEF IsList
    <3>2. PICK U : U = {y[i] : i \in DOMAIN c}
      OBVIOUS
    <3>3. y = [i \in DOMAIN c |-> y[i]]
      BY <2>2, <3>1
    <3>4. y \in Seq(U)
      BY <3>1, <3>2, <3>3
    <3> QED BY <3>4, MembersOfList
  <2>5. out' = out \o x \o y
    BY <1>10, <2>2 DEF ReportEnd
  <2>6. IsList(out \o x)
    BY <1>2, <2>3, ConcatListed
  <2>7. IsList(out')
    BY <2>4, <2>5, <2>6, ConcatListed
  <2> QED BY <1>1, <1>2, <1>3, <2>1, <2>7, TypedStays DEF Places
<1> QED BY <1>4, <1>5, <1>6, <1>7, <1>8, <1>9, <1>10 DEF ReportStep

\* Whatever its arguments and its system, a program is at a place of its own, has parsed
\* its options when it is past the start, goes through a list, prints a list, and ends
\* with -1, 0 or 1.
THEOREM TypeCorrect == ASSUME NoneIsNoFunction PROVE Spec => []TypeOK
<1>1. ToolInvs /\ ToolInvs' /\ Typed /\ [Next]_toolVars => Typed'
  <2> SUFFICES ASSUME ToolInvs, ToolInvs', Typed, [Next]_toolVars PROVE Typed'
    OBVIOUS
  <2>1. CASE SiftStep
    BY <2>1, SiftTyped DEF ToolInvs
  <2>2. CASE ReportStep
    BY <2>2, ReportTyped DEF ToolInvs
  <2>3. CASE CheckStep
    BY <2>3, CheckTyped DEF ToolInvs
  <2>4. CASE RepairFileStep
    BY <2>4, RepairTyped DEF ToolInvs
  <2>5. CASE SyncStep
    BY <2>5, SyncTyped DEF ToolInvs
  <2>6. CASE UNCHANGED toolVars
    BY <2>6 DEF toolVars, Typed, Over
  <2> QED BY <2>1, <2>2, <2>3, <2>4, <2>5, <2>6 DEF Next, Finished
<1>2. Typed => TypeOK
  <2>1. \A s : IsList(s) => Len(s) >= 0
    BY DEF IsList
  <2> QED BY <2>1 DEF Typed, TypeOK, Places
<1>3. Spec => []ToolInvs
  BY SiftHolds, ReportHolds, ScanAlways, CheckHolds, RepairHolds, SyncHolds, PTL DEF ToolInvs
<1> QED BY <1>1, <1>2, <1>3, TypedBegins, PTL DEF Spec
=============================================================================
