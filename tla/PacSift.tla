------------------------------- MODULE PacSift -------------------------------
(***************************************************************************)
(* pacsift: the packages that match search terms.  The terms of one field  *)
(* are alternatives; the fields must all match, or any with --any.         *)
(*                                                                         *)
(* A package has the words of each string field (one, several, or none if  *)
(* the field is missing), numbers for sizes and dates, and dependencies.   *)
(* It is printed as its database, or "file", and its name or path.         *)
(***************************************************************************)
EXTENDS ToolState, Depends

CONSTANTS
    Found,          \* <<term, word>>: the word contains the term
    SameLetters,    \* <<term, word>>: they differ in case only
    BadPatterns,    \* terms that are no regular expression
    Garbage         \* what an uninitialised size may be

WordFields == <<"name", "base", "description", "packager", "repo", "arch", "group",
                "license", "ownsfile", "url">>
SizeFields == <<"isize", "dsize", "size">>
DateFields == <<"builddate", "installdate">>
DependFields == <<"provides", "depends", "optdepends", "conflicts", "replaces">>

\* In the order in which filter_pkgs goes through them.
Fields == WordFields \o SizeFields \o DateFields \o DependFields \o <<"satisfies">>

SiftOptions ==
    [set |-> [local |-> <<"local", TRUE>>, sync |-> <<"sync", TRUE>>,
              cache |-> <<"cache", TRUE>>, invert |-> <<"invert", TRUE>>,
              regex |-> <<"re", TRUE>>, exact |-> <<"exact", TRUE>>,
              any |-> <<"any", TRUE>>, or |-> <<"any", TRUE>>,
              exists |-> <<"exists", "some">>, not_exists |-> <<"exists", "none">>],
     count |-> NoOptions, assign |-> [dbext |-> "dbext"],
     add |-> [f \in ToSet(Fields) |-> f]]

SwitchDefaults ==
    [local |-> FALSE, sync |-> FALSE, cache |-> FALSE, invert |-> FALSE, re |-> FALSE,
     exact |-> FALSE, any |-> FALSE, exists |-> "any", dbext |-> None]

SiftDefaults ==
    [x \in ToSet(Fields) \cup DOMAIN SwitchDefaults |->
      IF x \in DOMAIN SwitchDefaults THEN SwitchDefaults[x] ELSE << >>]

\* parse_size: a number that is not zero is assigned only if it has a unit.
\* K and its like are powers of 1024, Ki powers of 1000; Kb counts bits.
Bytes(t, garbage) ==
    LET u == t.unit
        n == t.number * (IF u.i THEN 1000 ELSE 1024) ^ u.power
    IN  CASE t.number = 0 -> 0
          [] t.number # 0 /\ u = None -> garbage
          [] u.bits -> (n + 7) \div 8
          [] OTHER -> n

SizesRead(g, garbage) ==
    [f \in DOMAIN g |->
      IF f \notin ToSet(SizeFields) THEN g[f]
      ELSE [i \in DOMAIN g[f] |->
             [cmp |-> g[f][i].cmp, number |-> Bytes(g[f][i], garbage)]]]

SiftParsed == Parse(SiftOptions, SiftDefaults)

\* A number that cannot be read ends parse_opts.
BadNumbers(g) ==
    \E f \in ToSet(SizeFields \o DateFields) : \E t \in ToSet(g[f]) : t.number = None

\* main gives up with status 0 if the configuration cannot be read.  --owns-file
\* needs the database with the file lists.
SiftSetup ==
    /\ tool = "pacsift"
    /\ IF BadNumbers(SiftParsed)
       THEN pc = "start" /\ Exit(1) /\ UNCHANGED <<todo, acc, out>> /\ Stays
       ELSE \E garbage \in Garbage :
              LET parsed == SizesRead(SiftParsed, garbage) IN
              Setup("pacsift",
                    IF parsed.ownsfile # << >> /\ parsed.dbext = None
                    THEN [parsed EXCEPT !.dbext = "files"] ELSE parsed,
                    "load", {0, 1})

-----------------------------------------------------------------------------
\* pu_find_pkgspec
FindSpec(spec) ==
    LET from == CASE spec[1] = "file" -> sys.cache
                  [] spec[1] = "local" -> sys.local
                  [] OTHER -> LET dbs == Select(sys.sync, {d \in ToSet(sys.sync) : d.name = spec[1]})
                              IN  IF dbs = << >> THEN << >> ELSE Head(dbs).pkgs
    IN  Select(from, {p \in ToSet(from) : p.spec = spec})

ByDefault == ~o.local /\ ~o.sync /\ ~o.cache

\* What stdin names, or what the databases and the cache hold.
Haystack ==
    IF sys.stdin # None THEN FlattenSeq([i \in DOMAIN sys.stdin |-> FindSpec(sys.stdin[i])])
    ELSE (IF o.local \/ ByDefault THEN sys.local ELSE << >>)
         \o (IF o.sync \/ ByDefault
             THEN FlattenSeq([i \in DOMAIN sys.sync |-> sys.sync[i].pkgs]) ELSE << >>)
         \o (IF o.cache THEN sys.cache ELSE << >>)

SiftLoad ==
    /\ At("pacsift", "load")
    /\ IF sys.stdin # None /\ ~ByDefault
       THEN Exit(1) /\ UNCHANGED <<todo, acc>>
       ELSE /\ acc' = [all |-> Haystack, hay |-> Haystack, matches |-> << >>]
            /\ todo' = Select(Fields, {f \in ToSet(Fields) : o[f] # << >>})
            /\ Goto("filter") /\ UNCHANGED ret
    /\ Stays /\ UNCHANGED out

Holds(cmp, a, b) ==
    CASE cmp = "=" -> a = b
      [] cmp = "!=" -> a # b
      [] cmp = ">" -> a > b
      [] cmp = ">=" -> a >= b
      [] cmp = "<" -> a < b
      [] cmp = "<=" -> a <= b

\* With --exact the installation root is taken off a path that begins with it.
Unrooted(t) == IF t \in DOMAIN sys.rooted THEN sys.rooted[t] ELSE t

MatchesWord(f, t, p) ==
    IF ~o.exact \/ o.re THEN \E w \in p.words[f] : <<t, w>> \in Found
    ELSE IF f \in {"group", "license", "ownsfile"}
    THEN (IF f = "ownsfile" THEN Unrooted(t) ELSE t) \in p.words[f]
    ELSE \E w \in p.words[f] : t = w \/ <<t, w>> \in SameLetters

\* depcmp: a term without a version matches any version, unless --exact is given.
MatchesDepend(t, d) ==
    /\ t.name = d.name
    /\ (~o.exact /\ t.mod = "any") \/ (t.mod = d.mod /\ t.version = d.version)

Matches(f, t, p) ==
    CASE f \in ToSet(WordFields) -> MatchesWord(f, t, p)
      [] f \in ToSet(SizeFields \o DateFields) -> Holds(t.cmp, p.numbers[f], t.number)
      [] f \in ToSet(DependFields) -> \E d \in p.depend[f] : MatchesDepend(t, d)
      [] f = "satisfies" -> AlpmSatisfies(p, t)

\* Mutant: a term leaves its matches in the haystack.
TakeCopies(f, a, t) ==
    [a EXCEPT !.matches = @ \o Select(a.hay, {p \in ToSet(a.hay) : Matches(f, t, p)})]

\* One term takes its matches out of the haystack, so that no other finds them again.
Take(f, a, t) ==
    LET matching == {p \in ToSet(a.hay) : Matches(f, t, p)}
    IN  [a EXCEPT !.hay = Select(@, ToSet(a.hay) \ matching),
                  !.matches = @ \o Select(a.hay, matching)]

\* All terms of a field.
TakeAll(f, a) ==
    LET after[n \in 0..Len(o[f])] == IF n = 0 THEN a ELSE Take(f, after[n - 1], o[f][n])
    IN  after[Len(o[f])]

\* Without --any the matches of a field are the haystack of the next.
FieldDone(a) == IF o.any THEN a ELSE [a EXCEPT !.hay = a.matches, !.matches = << >>]

Unreadable(f, t) ==
    \/ f \in ToSet(WordFields) /\ o.re /\ t \in BadPatterns
    \/ f \in ToSet(DependFields) /\ t.name = None

FilterField ==
    /\ At("pacsift", "filter") /\ todo # << >>
    /\ LET f == Head(todo) IN
       IF \E t \in ToSet(o[f]) : Unreadable(f, t)
       THEN Exit(1) /\ UNCHANGED <<todo, acc>>
       ELSE /\ acc' = FieldDone(TakeAll(f, acc))
            /\ todo' = Tail(todo)
            /\ UNCHANGED <<pc, ret>>
    /\ Stays /\ UNCHANGED out

\* alpm_list_diff with --invert, in the order of the list; the library's is by address.
SiftResult ==
    CASE o.invert -> Select(acc.all, ToSet(acc.all) \ ToSet(acc.hay))
      [] ~o.invert /\ o.any -> acc.matches
      [] OTHER -> acc.hay

SiftPrint ==
    /\ At("pacsift", "filter") /\ todo = << >>
    /\ out' = [i \in DOMAIN SiftResult |-> SiftResult[i].spec]
    /\ LET refused == CASE o.exists = "some" -> SiftResult = << >>
                        [] o.exists = "none" -> SiftResult # << >>
                        [] OTHER -> FALSE
       IN  Exit(IF refused THEN 1 ELSE 0)
    /\ Stays /\ UNCHANGED <<todo, acc>>

SiftStep == SiftSetup \/ SiftLoad \/ FilterField \/ SiftPrint

-----------------------------------------------------------------------------
Times(s, x) == Cardinality({i \in DOMAIN s : s[i] = x})

Searched == {f \in ToSet(Fields) : o[f] # << >>}

\* What the manual says of the terms of a field: a size without a unit is that many
\* bytes, and with --exact a string field "must match val exactly" (pacsift.pod:113-114),
\* so not with other letters.
Meant(f) ==
    IF f \notin ToSet(SizeFields) THEN ToSet(SiftParsed[f])
    ELSE {[cmp |-> t.cmp, number |-> Bytes(t, t.number)] : t \in ToSet(SiftParsed[f])}

IsMeant(f, t, p) ==
    IF f \in ToSet(WordFields) /\ o.exact /\ ~o.re
    THEN (IF f = "ownsfile" THEN Unrooted(t) ELSE t) \in p.words[f]
    ELSE Matches(f, t, p)

\* What the search is for: the terms of a field are alternatives, the fields must all
\* match, or one with --any.
Sought(p) ==
    LET hit(f) == \E t \in Meant(f) : IsMeant(f, t, p)
    IN  IF o.any THEN \E f \in Searched : hit(f) ELSE \A f \in Searched : hit(f)

\* Where the program does what its manual says.  It does not do so in three cases: --any
\* --invert prints the packages that match, --invert should print those "that DO NOT match"
\* (pacsift.pod:63); a size without a unit is not initialised (pacsift.c:290-295); and
\* --exact compares single words with strcasecmp (pacsift.c:457).
AsDocumented ==
    /\ ~(o.any /\ o.invert)
    /\ \A f \in ToSet(SizeFields) : \A t \in ToSet(SiftParsed[f]) : t.number = 0 \/ t.unit # None
    /\ o.exact /\ ~o.re =>
         \A f \in ToSet(WordFields) \ {"group", "license", "ownsfile"} :
         \A t \in Meant(f), p \in ToSet(acc.all) :
         \A w \in p.words[f] : <<t, w>> \in SameLetters => t = w

\* A package of the haystack is printed as often as the haystack has it or not at all,
\* nothing else is printed, and the status is what --exists and --not-exists ask.  Where
\* the program does what its manual says, the packages printed are those the search is
\* for or, with --invert, those it is not for.  filter_pkgs moves packages between two
\* lists, where each term takes its matches away from the next.
SiftIsSearch ==
    At("pacsift", "exited") /\ o # None /\ acc # None /\ todo = << >> =>
      /\ \A p \in ToSet(acc.all) :
           Times(out, p.spec) \in {0, Times([i \in DOMAIN acc.all |-> acc.all[i].spec], p.spec)}
      /\ ToSet(out) \subseteq {p.spec : p \in ToSet(acc.all)}
      /\ ret = 0 <=> ((o.exists = "some" => out # << >>) /\ (o.exists = "none" => out = << >>))
      /\ AsDocumented =>
           \A p \in ToSet(acc.all) : p.spec \in ToSet(out) <=> Sought(p) # o.invert
=============================================================================
