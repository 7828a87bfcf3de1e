---------------------------- MODULE ConfigProofs -----------------------------
(***************************************************************************)
(* Proofs about ConfigReader: that reading a configuration with its        *)
(* includes is reading the text with the includes in place, and what the   *)
(* programs are given in the end.                                          *)
(***************************************************************************)
EXTENDS ConfigMeaning, ListProofs

-----------------------------------------------------------------------------
(***************************************************************************)
(* Texts one after the other.                                              *)
(***************************************************************************)
Contents(P) == [lines : Seq(P), whole : BOOLEAN]

LEMMA ThenContents ==
    ASSUME NEW P, NEW a \in Contents(P), NEW b \in Contents(P)
    PROVE  Then(a, b) \in Contents(P)
<1>1. a.lines \in Seq(P) /\ b.lines \in Seq(P) /\ b.whole \in BOOLEAN
  BY DEF Contents
<1>2. a.lines \o b.lines \in Seq(P)
  BY <1>1
<1> QED BY <1>1, <1>2, Zenon DEF Contents, Then

LEMMA NothingIsContents ==
    ASSUME NEW P
    PROVE  Nothing \in Contents(P) /\ Whole(<< >>) \in Contents(P)
BY DEF Nothing, Whole, Contents

LEMMA WholeContents ==
    ASSUME NEW P, NEW s \in Seq(P)
    PROVE  Whole(s) \in Contents(P)
BY DEF Whole, Contents

\* The empty text changes nothing.
LEMMA ThenEmpty ==
    ASSUME NEW P, NEW a \in Contents(P)
    PROVE  Then(Whole(<< >>), a) = a /\ Then(a, Whole(<< >>)) = a
<1>1. a.lines \in Seq(P) /\ a.whole \in BOOLEAN
      /\ a = [lines |-> a.lines, whole |-> a.whole]
  BY DEF Contents
<1>2. << >> \o a.lines = a.lines /\ a.lines \o << >> = a.lines
  BY <1>1
<1>3. Then(Whole(<< >>), a) = a
  BY <1>1, <1>2, Zenon DEF Then, Whole
<1>4. Then(a, Whole(<< >>)) = a
  <2>1. Whole(<< >>).lines = << >> /\ Whole(<< >>).whole = TRUE
    BY DEF Whole
  <2>2. CASE a.whole
    <3>1. a.whole = TRUE
      BY <1>1, <2>2
    <3> QED BY <1>1, <1>2, <2>1, <3>1, Zenon DEF Then
  <2>3. CASE ~a.whole
    BY <2>3 DEF Then
  <2> QED BY <2>2, <2>3
<1> QED BY <1>3, <1>4

LEMMA ThenFields ==
    ASSUME NEW a, NEW b, a.whole
    PROVE  Then(a, b).lines = a.lines \o b.lines /\ Then(a, b).whole = b.whole
BY Zenon DEF Then

LEMMA ThenAssociates ==
    ASSUME NEW P, NEW a \in Contents(P), NEW b \in Contents(P), NEW c \in Contents(P)
    PROVE  Then(Then(a, b), c) = Then(a, Then(b, c))
<1>1. a.lines \in Seq(P) /\ b.lines \in Seq(P) /\ c.lines \in Seq(P)
  BY DEF Contents
<1>2. (a.lines \o b.lines) \o c.lines = a.lines \o (b.lines \o c.lines)
  <2>1. PICK al, bl, cl \in Seq(P) : al = a.lines /\ bl = b.lines /\ cl = c.lines
    BY <1>1
  <2>2. (al \o bl) \o cl = al \o (bl \o cl)
    BY ConcatAssociative
  <2> QED BY <2>1, <2>2
<1>3. CASE ~a.whole
  BY <1>3 DEF Then
<1>4. CASE a.whole
  <2>1. Then(a, b) = [lines |-> a.lines \o b.lines, whole |-> b.whole]
    BY <1>4 DEF Then
  <2>2. CASE ~b.whole
    <3>1. Then(b, c) = b
      BY <2>2 DEF Then
    <3>2. ~Then(a, b).whole
      BY <2>1, <2>2
    <3> QED BY <3>1, <3>2 DEF Then
  <2>3. CASE b.whole
    <3>1. Then(b, c) = [lines |-> b.lines \o c.lines, whole |-> c.whole]
      BY <2>3 DEF Then
    <3>2. PICK ab : ab = Then(a, b)
      OBVIOUS
    <3>3. ab.lines = a.lines \o b.lines /\ ab.whole = b.whole
      BY <1>4, <3>2, ThenFields
    <3>4. PICK bc : bc = Then(b, c)
      OBVIOUS
    <3>5. bc.lines = b.lines \o c.lines /\ bc.whole = c.whole
      BY <2>3, <3>4, ThenFields
    <3>6. Then(ab, c) = [lines |-> (a.lines \o b.lines) \o c.lines, whole |-> c.whole]
      BY <2>3, <3>3, Zenon DEF Then
    <3>7. Then(a, bc) = [lines |-> a.lines \o (b.lines \o c.lines), whole |-> c.whole]
      BY <1>4, <3>5, Zenon DEF Then
    <3> QED BY <1>2, <3>2, <3>4, <3>6, <3>7
  <2> QED BY <2>2, <2>3
<1> QED BY <1>3, <1>4

\* What was read is the beginning of a text that goes on.
LEMMA ThenPrefix ==
    ASSUME NEW P, NEW s \in Seq(P), NEW a \in Contents(P)
    PROVE  IsPrefix(s, Then(Whole(s), a).lines)
<1>1. a.lines \in Seq(P)
  BY DEF Contents
<1>2. Then(Whole(s), a).lines = s \o a.lines
  BY Zenon DEF Then, Whole
<1>3. /\ s \o a.lines \in Seq(P) /\ Len(s \o a.lines) = Len(s) + Len(a.lines)
      /\ Len(s) \in Nat /\ Len(a.lines) \in Nat
      /\ \A i \in 1..Len(s) : (s \o a.lines)[i] = s[i]
  BY <1>1
<1>4. PICK t : t = s \o a.lines
  OBVIOUS
<1>5. t \in Seq(P) /\ Len(s) <= Len(t) /\ \A i \in 1..Len(s) : t[i] = s[i]
  BY <1>3, <1>4
<1>6. PICK n \in Nat : n = Len(s)
  BY <1>3
<1>7. SubSeq(t, 1, n) = SubSeq(s, 1, n)
  BY <1>5, <1>6, SubSeqSame, 1 \in Nat \ {0}
<1> QED BY <1>2, <1>4, <1>5, <1>6, <1>7 DEF IsPrefix

-----------------------------------------------------------------------------
(***************************************************************************)
(* The definitions by recursion from the end of a list.                    *)
(***************************************************************************)
\* f is what the last n of N texts are together.
Chains(f, N, x) == f[0] = Whole(<< >>) /\ \A n \in 1..N : f[n] = Then(x[n], f[n - 1])
ByRecursion(f, N, x) ==
    f = [n \in 0..N |-> IF n = 0 THEN Whole(<< >>) ELSE Then(x[n], f[n - 1])]

LEMMA ChainExists ==
    ASSUME NEW P, NEW N \in Nat, NEW x \in [1..N -> Contents(P)]
    PROVE  \E f \in [0..N -> Contents(P)] : Chains(f, N, x) /\ ByRecursion(f, N, x)
<1> DEFINE V == Contents(P)
           step == [n \in 1..N |-> [q \in V |-> Then(x[n], q)]]
<1>1. step \in [1..N -> [V -> V]]
  <2>1. ASSUME NEW n \in 1..N, NEW q \in V PROVE Then(x[n], q) \in V
    <3>1. x[n] \in Contents(P)
      OBVIOUS
    <3>2. PICK y \in Contents(P) : y = x[n]
      BY <3>1
    <3> QED BY <3>2, ThenContents
  <2> QED BY <2>1
<1>2. PICK e : e = Whole(<< >>)
  OBVIOUS
<1>3. e \in V
  BY <1>2, NothingIsContents
<1>4. PICK f \in [0..N -> V] : Recursive(f, N, e, step)
  <2> HIDE DEF step, V
  <2> QED BY <1>1, <1>3, RecursionExists
<1>5. f[0] = Whole(<< >>)
  BY <1>2, <1>4 DEF Recursive
<1>6. ASSUME NEW n \in 1..N PROVE f[n] = Then(x[n], f[n - 1])
  <2>1. f[n - 1] \in V
    BY n - 1 \in 0..N
  <2>2. f[n] = step[n][f[n - 1]]
    BY <1>4 DEF Recursive
  <2> QED BY <2>1, <2>2
<1>7. ByRecursion(f, N, x)
  <2>1. f = [n \in 0..N |-> f[n]]
    OBVIOUS
  <2>2. ASSUME NEW n \in 0..N
        PROVE  f[n] = IF n = 0 THEN Whole(<< >>) ELSE Then(x[n], f[n - 1])
    <3>1. n = 0 \/ n \in 1..N
      OBVIOUS
    <3> QED BY <1>5, <1>6, <3>1
  <2> QED BY <2>1, <2>2 DEF ByRecursion
<1> QED BY <1>5, <1>6, <1>7 DEF Chains

\* Chains of the same texts are the same.
LEMMA ChainsSame ==
    ASSUME NEW N \in Nat, NEW x, NEW y, NEW f, NEW g, Chains(f, N, x), Chains(g, N, y),
           \A n \in 1..N : x[n] = y[n]
    PROVE  \A n \in 0..N : f[n] = g[n]
<1>1. Alike(f, g, N)
  BY DEF Alike, Chains
<1> QED BY <1>1, SameAlong

\* What place has for the files that can be opened.
PlaceOf(P, place) == \A f \in DOMAIN place : place[f] \in Contents(P)

FileTexts(files, place) ==
    [n \in 1..Len(files) |-> FileText(files[Len(files) + 1 - n], place)]

\* Texts put together from the same parts are the same.
LEMMA ChainsAlong ==
    ASSUME NEW K \in Nat, NEW f, NEW g, NEW x, NEW y, Chains(g, K, y), Chains(f, K, x),
           \A n \in 1..K : y[n] = x[n]
    PROVE  g[K] = f[K]
<1>1. \A n \in 0..K : g[n] = f[n]
  BY ChainsSame
<1> QED BY <1>1

LEMMA FileContents ==
    ASSUME NEW P, NEW place, PlaceOf(P, place), NEW f
    PROVE  FileText(f, place) \in Contents(P)
BY NothingIsContents DEF FileText, PlaceOf

LEMMA FilesSteps ==
    ASSUME NEW P, NEW place, PlaceOf(P, place), NEW T, NEW files \in Seq(T)
    PROVE  \E f \in [0..Len(files) -> Contents(P)] :
             /\ Chains(f, Len(files), FileTexts(files, place))
             /\ FilesText(files, place) = f[Len(files)]
<1> DEFINE N == Len(files)
           x == FileTexts(files, place)
           F(g) == [n \in 0..N |-> IF n = 0 THEN Whole(<< >>)
                                   ELSE Then(FileText(files[N + 1 - n], place), g[n - 1])]
           g == CHOOSE g : g = F(g)
<1>1. N \in Nat
  OBVIOUS
<1>2. x \in [1..N -> Contents(P)]
  BY FileContents DEF FileTexts
<1>3. PICK f \in [0..N -> Contents(P)] : Chains(f, N, x) /\ ByRecursion(f, N, x)
  <2> HIDE DEF x, N
  <2> QED BY <1>1, <1>2, ChainExists
<1>4. f = F(f)
  <2>1. ASSUME NEW n \in 0..N, n # 0 PROVE x[n] = FileText(files[N + 1 - n], place)
    BY <2>1, <1>1 DEF FileTexts
  <2> QED BY <1>3, <2>1 DEF ByRecursion
<1>5. g = F(g)
  <2> HIDE DEF F
  <2> QED BY <1>4
<1>6. FilesText(files, place) = g[N]
  BY DEF FilesText
<1>7. Chains(g, N, x)
  <2>1. g[0] = Whole(<< >>)
    BY <1>1, <1>5, 0 \in 0..N
  <2>2. ASSUME NEW n \in 1..N PROVE g[n] = Then(x[n], g[n - 1])
    <3>1. n \in 0..N /\ n # 0
      BY <1>1
    <3>2. g[n] = Then(FileText(files[N + 1 - n], place), g[n - 1])
      BY <1>5, <3>1
    <3> QED BY <3>2 DEF FileTexts
  <2> HIDE DEF g, x, N
  <2> QED BY <2>1, <2>2 DEF Chains
<1>8. g[N] = f[N]
  <2> HIDE DEF g, x, N, F
  <2>1. \A n \in 0..N : g[n] = f[n]
    BY <1>1, <1>3, <1>7, ChainsSame
  <2> QED BY <1>1, <2>1
<1> QED
  <2> HIDE DEF g, F
  <2> QED BY <1>3, <1>6, <1>8

LEMMA FilesEmpty ==
    ASSUME NEW P, NEW place, PlaceOf(P, place)
    PROVE  FilesText(<< >>, place) = Whole(<< >>)
<1>1. PICK files \in Seq({}) : files = << >>
  <2>1. << >> \in Seq({})
    OBVIOUS
  <2> QED BY <2>1
<1>2. PICK f \in [0..Len(files) -> Contents(P)] :
             /\ Chains(f, Len(files), FileTexts(files, place))
             /\ FilesText(files, place) = f[Len(files)]
  BY FilesSteps
<1>3. Len(files) = 0
  BY <1>1
<1> QED BY <1>1, <1>2, <1>3 DEF Chains

\* The first of several files comes before the others.
LEMMA FilesFirst ==
    ASSUME NEW P, NEW place, PlaceOf(P, place), NEW T, NEW files \in Seq(T), files # << >>
    PROVE  /\ FilesText(files, place) = Then(FileText(Head(files), place),
                                             FilesText(Tail(files), place))
           /\ FilesText(files, place) \in Contents(P)
           /\ FilesText(Tail(files), place) \in Contents(P)
<1>1. PICK rest \in Seq(T) : rest = Tail(files)
  BY HeadTailMembers
<1> DEFINE N == Len(files)
           x == FileTexts(files, place)
           M == Len(rest)
           y == FileTexts(rest, place)
<1>2. PICK f \in [0..N -> Contents(P)] : Chains(f, N, x) /\ FilesText(files, place) = f[N]
  BY FilesSteps
<1>3. PICK g \in [0..M -> Contents(P)] : Chains(g, M, y) /\ FilesText(rest, place) = g[M]
  BY FilesSteps
<1>4. N \in Nat /\ N >= 1 /\ M \in Nat /\ M = N - 1 /\ \A i \in 1..M : rest[i] = files[i + 1]
  BY <1>1
<1>5. \A n \in 1..M : y[n] = x[n]
  <2>1. ASSUME NEW n \in 1..M PROVE y[n] = x[n]
    <3>1. n \in 1..N /\ M + 1 - n \in 1..M /\ (M + 1 - n) + 1 = N + 1 - n
      BY <1>4
    <3>2. rest[M + 1 - n] = files[N + 1 - n]
      BY <1>4, <3>1
    <3> QED BY <3>1, <3>2 DEF FileTexts
  <2> QED BY <2>1
<1>6. x[N] = FileText(Head(files), place)
  <2>1. N \in 1..N /\ N + 1 - N = 1 /\ Head(files) = files[1]
    BY <1>4
  <2> QED BY <2>1 DEF FileTexts
<1>7. f[N] = Then(x[N], f[M]) /\ f[N] \in Contents(P) /\ g[M] \in Contents(P)
  <2> HIDE DEF N, M, x
  <2>1. N \in 1..N /\ N - 1 = M /\ N \in 0..N /\ M \in 0..M
    BY <1>4
  <2> QED BY <1>2, <1>3, <2>1 DEF Chains
<1>8. g[M] = f[M]
  <2> HIDE DEF N, M, x, y
  <2>1. Chains(f, M, x)
    BY <1>2, <1>4 DEF Chains
  <2>2. Chains(g, M, y)
    BY <1>3
  <2> QED BY <1>4, <1>5, <2>1, <2>2, ChainsAlong
<1> QED
  <2> HIDE DEF N, M, x, y
  <2> QED BY <1>1, <1>2, <1>3, <1>6, <1>7, <1>8

LEMMA FilesContents ==
    ASSUME NEW P, NEW place, PlaceOf(P, place), NEW T, NEW files \in Seq(T)
    PROVE  FilesText(files, place) \in Contents(P)
<1>1. CASE files = << >>
  BY <1>1, FilesEmpty, NothingIsContents
<1>2. CASE files # << >>
  BY <1>2, FilesFirst
<1> QED BY <1>1, <1>2

LEMMA LineContents ==
    ASSUME NEW P, NEW place, PlaceOf(P, place), NEW t, NEW f, IsFile(t[f]),
           NEW n \in 1..Len(t[f]), <<f, n>> \in P
    PROVE  LineText(t, f, n, place) \in Contents(P)
<1>1. CASE t[f][n].key = "Blank"
  <2>1. LineText(t, f, n, place) = Whole(<< >>)
    BY <1>1 DEF LineText
  <2> QED BY <2>1, NothingIsContents
<1>2. CASE t[f][n].key = "Include"
  <2>1. LineText(t, f, n, place) = FilesText(t[f][n].value, place)
    BY <1>2 DEF LineText
  <2>2. t[f][n] \in ToSet(t[f])
    <3>1. t[f] \in Seq(ToSet(t[f]))
      BY DEF IsFile, IsList
    <3> QED BY <3>1
  <2>3. PICK v : v = t[f][n].value
    OBVIOUS
  <2>4. v \in Seq(ToSet(v))
    BY <1>2, <2>2, <2>3 DEF IsFile, IsLine, IsList
  <2> QED BY <2>1, <2>3, <2>4, FilesContents
<1>3. CASE t[f][n].key \notin {"Blank", "Include"}
  <2>1. LineText(t, f, n, place) = Whole(<<<<f, n>>>>)
    BY <1>3 DEF LineText
  <2>2. PICK s : s = <<<<f, n>>>>
    OBVIOUS
  <2>3. s \in Seq(P)
    BY <2>2
  <2> QED BY <2>1, <2>2, <2>3, WholeContents
<1> QED BY <1>1, <1>2, <1>3

LineTexts(t, f, n, place) ==
    [j \in 1..(Len(t[f]) - n) |-> LineText(t, f, Len(t[f]) + 1 - j, place)]

LEMMA TextSteps ==
    ASSUME NEW P, NEW place, PlaceOf(P, place), NEW t, NEW f, IsFile(t[f]),
           NEW n \in 0..Len(t[f]), \A m \in 1..Len(t[f]) : <<f, m>> \in P
    PROVE  \E g \in [0..(Len(t[f]) - n) -> Contents(P)] :
             /\ Chains(g, Len(t[f]) - n, LineTexts(t, f, n, place))
             /\ TextAfter(t, f, n, place) = g[Len(t[f]) - n]
<1> DEFINE L == Len(t[f])
           N == Len(t[f]) - n
           x == LineTexts(t, f, n, place)
           F(g) == [j \in 0..N |-> IF j = 0 THEN Whole(<< >>)
                                   ELSE Then(LineText(t, f, L + 1 - j, place), g[j - 1])]
           g == CHOOSE g : g = F(g)
<1>1. L \in Nat /\ N \in Nat /\ N <= L
  <2>1. t[f] \in Seq(ToSet(t[f]))
    BY DEF IsFile, IsList
  <2>2. Len(t[f]) \in Nat
    BY <2>1
  <2> QED BY <2>2
<1>2. x \in [1..N -> Contents(P)]
  <2>1. ASSUME NEW j \in 1..N PROVE LineText(t, f, L + 1 - j, place) \in Contents(P)
    <3>1. PICK m \in 1..L : m = L + 1 - j
      <4>1. j \in Nat /\ 1 <= j /\ j <= L
        BY <1>1
      <4> HIDE DEF L, N
      <4> QED BY <1>1, <4>1
    <3>2. LineText(t, f, m, place) \in Contents(P)
      BY LineContents
    <3> QED BY <3>1, <3>2
  <2> QED BY <2>1 DEF LineTexts
<1>3. PICK h \in [0..N -> Contents(P)] : Chains(h, N, x) /\ ByRecursion(h, N, x)
  <2> HIDE DEF x, N
  <2> QED BY <1>1, <1>2, ChainExists
<1>4. h = F(h)
  <2>1. ASSUME NEW j \in 0..N, j # 0 PROVE x[j] = LineText(t, f, L + 1 - j, place)
    <3>1. j \in 1..N
      <4> HIDE DEF N
      <4> QED BY <1>1, <2>1
    <3> QED BY <3>1 DEF LineTexts
  <2> QED BY <1>3, <2>1 DEF ByRecursion
<1>5. g = F(g)
  <2> HIDE DEF F
  <2> QED BY <1>4
<1>6. TextAfter(t, f, n, place) = g[N]
  BY DEF TextAfter
<1>7. Chains(g, N, x)
  <2>1. g[0] = Whole(<< >>)
    BY <1>1, <1>5, 0 \in 0..N
  <2>2. ASSUME NEW j \in 1..N PROVE g[j] = Then(x[j], g[j - 1])
    <3>1. j \in 0..N /\ j # 0
      BY <1>1
    <3>2. g[j] = Then(LineText(t, f, L + 1 - j, place), g[j - 1])
      BY <1>5, <3>1
    <3> QED BY <3>2 DEF LineTexts
  <2> HIDE DEF g, x, N
  <2> QED BY <2>1, <2>2 DEF Chains
<1>8. g[N] = h[N]
  <2> HIDE DEF g, x, N, F
  <2>1. \A j \in 0..N : g[j] = h[j]
    BY <1>1, <1>3, <1>7, ChainsSame
  <2> QED BY <1>1, <2>1
<1> QED
  <2> HIDE DEF g, F
  <2> QED BY <1>3, <1>6, <1>8

LEMMA TextContents ==
    ASSUME NEW P, NEW place, PlaceOf(P, place), NEW t, NEW f, IsFile(t[f]),
           NEW n \in 0..Len(t[f]), \A m \in 1..Len(t[f]) : <<f, m>> \in P
    PROVE  TextAfter(t, f, n, place) \in Contents(P)
<1> DEFINE N == Len(t[f]) - n
<1>1. N \in Nat
  <2>1. t[f] \in Seq(ToSet(t[f]))
    BY DEF IsFile, IsList
  <2>2. Len(t[f]) \in Nat
    BY <2>1
  <2> QED BY <2>2
<1>2. PICK g \in [0..N -> Contents(P)] :
             Chains(g, N, LineTexts(t, f, n, place)) /\ TextAfter(t, f, n, place) = g[N]
  BY TextSteps
<1> QED
  <2> HIDE DEF N
  <2> QED BY <1>1, <1>2

LEMMA TextLast ==
    ASSUME NEW P, NEW place, PlaceOf(P, place), NEW t, NEW f, IsFile(t[f]),
           NEW n \in 0..Len(t[f]), \A m \in 1..Len(t[f]) : <<f, m>> \in P
    PROVE  n = Len(t[f]) => TextAfter(t, f, n, place) = Whole(<< >>)
<1> DEFINE N == Len(t[f]) - n
<1>1. n = Len(t[f]) => N = 0
  <2>1. t[f] \in Seq(ToSet(t[f]))
    BY DEF IsFile, IsList
  <2>2. Len(t[f]) \in Nat
    BY <2>1
  <2> QED BY <2>2
<1>2. PICK g \in [0..N -> Contents(P)] :
             Chains(g, N, LineTexts(t, f, n, place)) /\ TextAfter(t, f, n, place) = g[N]
  BY TextSteps
<1> QED
  <2> HIDE DEF N
  <2> QED BY <1>1, <1>2 DEF Chains

\* The next line comes before those after it.
LEMMA TextNext ==
    ASSUME NEW P, NEW place, PlaceOf(P, place), NEW t, NEW f, IsFile(t[f]),
           NEW n \in 1..Len(t[f]), \A m \in 1..Len(t[f]) : <<f, m>> \in P
    PROVE  TextAfter(t, f, n - 1, place) =
             Then(LineText(t, f, n, place), TextAfter(t, f, n, place))
<1>1. Len(t[f]) \in Nat
  <2>1. t[f] \in Seq(ToSet(t[f]))
    BY DEF IsFile, IsList
  <2> QED BY <2>1
<1>2. PICK p \in 0..Len(t[f]) : p = n - 1
  BY <1>1
<1>3. n \in 0..Len(t[f])
  BY <1>1
<1> DEFINE N == Len(t[f]) - p
           x == LineTexts(t, f, p, place)
           M == Len(t[f]) - n
           y == LineTexts(t, f, n, place)
<1>4. N \in Nat /\ M \in Nat /\ N = M + 1
  BY <1>1, <1>2
<1>5. PICK g \in [0..N -> Contents(P)] : Chains(g, N, x) /\ TextAfter(t, f, p, place) = g[N]
  BY TextSteps
<1>6. PICK h \in [0..M -> Contents(P)] : Chains(h, M, y) /\ TextAfter(t, f, n, place) = h[M]
  BY <1>3, TextSteps
<1>7. \A j \in 1..M : y[j] = x[j]
  <2>1. ASSUME NEW j \in 1..M PROVE y[j] = x[j]
    <3>1. j \in 1..N
      <4> HIDE DEF N, M
      <4> QED BY <1>4
    <3> QED BY <3>1 DEF LineTexts
  <2> QED BY <2>1
<1>8. x[N] = LineText(t, f, n, place)
  <2>1. N \in 1..N /\ Len(t[f]) + 1 - N = n
    BY <1>1, <1>2
  <2> QED BY <2>1 DEF LineTexts
<1>9. g[N] = Then(x[N], g[M])
  <2> HIDE DEF N, M, x
  <2>1. N \in 1..N /\ N - 1 = M
    BY <1>4
  <2> QED BY <1>5, <2>1 DEF Chains
<1>10. h[M] = g[M]
  <2> HIDE DEF N, M, x, y
  <2>1. Chains(h, M, y) /\ Chains(g, M, x)
    BY <1>4, <1>5, <1>6 DEF Chains
  <2> QED BY <1>4, <1>7, <2>1, ChainsAlong
<1> QED
  <2> HIDE DEF N, M, x, y
  <2> QED BY <1>2, <1>5, <1>6, <1>8, <1>9, <1>10

\* Blank lines are nothing.
LEMMA TextSkipsBlanks ==
    ASSUME NEW P, NEW place, PlaceOf(P, place), NEW t, NEW f, IsFile(t[f]),
           NEW a \in 0..Len(t[f]), NEW b \in 0..Len(t[f]), a <= b,
           \A m \in 1..Len(t[f]) : <<f, m>> \in P,
           \A m \in 1..Len(t[f]) : m > a /\ m <= b => t[f][m].key = "Blank"
    PROVE  TextAfter(t, f, a, place) = TextAfter(t, f, b, place)
<1>1. Len(t[f]) \in Nat
  <2>1. t[f] \in Seq(ToSet(t[f]))
    BY DEF IsFile, IsList
  <2> QED BY <2>1
<1> DEFINE U == {d \in Nat : a + d <= b =>
                   TextAfter(t, f, a, place) = TextAfter(t, f, a + d, place)}
<1>2. 0 \in U
  BY <1>1
<1>3. ASSUME NEW d \in Nat, d \in U PROVE d + 1 \in U
  <2> SUFFICES ASSUME a + (d + 1) <= b
               PROVE  TextAfter(t, f, a, place) = TextAfter(t, f, a + (d + 1), place)
    OBVIOUS
  <2>1. PICK n \in 1..Len(t[f]) : n = a + (d + 1) /\ n - 1 = a + d
    BY <1>1
  <2>2. TextAfter(t, f, n - 1, place) = Then(LineText(t, f, n, place), TextAfter(t, f, n, place))
    BY TextNext
  <2>3. LineText(t, f, n, place) = Whole(<< >>)
    <3>1. n > a /\ n <= b
      BY <2>1, <1>1
    <3> QED BY <3>1 DEF LineText
  <2>4. TextAfter(t, f, n, place) \in Contents(P)
    <3>1. n \in 0..Len(t[f])
      BY <1>1
    <3> QED BY <3>1, TextContents
  <2>5. TextAfter(t, f, n - 1, place) = TextAfter(t, f, n, place)
    BY <2>2, <2>3, <2>4, ThenEmpty
  <2>6. TextAfter(t, f, a, place) = TextAfter(t, f, a + d, place)
    BY <1>3, <1>1
  <2> QED BY <2>1, <2>5, <2>6
<1>4. Nat \subseteq U
  <2> HIDE DEF U
  <2> QED BY <1>2, <1>3, NatSetInduction
<1>5. PICK d \in Nat : a + d = b
  <2>1. b - a \in Nat /\ a + (b - a) = b
    BY <1>1
  <2> QED BY <2>1
<1>6. d \in U /\ a + d <= b
  <2>1. d \in U
    <3> HIDE DEF U
    <3> QED BY <1>4
  <2> QED BY <1>1, <1>5, <2>1
<1> QED BY <1>5, <1>6

AreFiles(t) == \A f \in DOMAIN t : IsFile(t[f])
PlacesIn(t) == (DOMAIN t) \X Nat

LEMMA FileLength ==
    ASSUME NEW t, AreFiles(t), NEW f \in DOMAIN t
    PROVE  Len(t[f]) \in Nat /\ DOMAIN t[f] = 1..Len(t[f])
           /\ \A m \in 1..Len(t[f]) : t[f][m] \in ToSet(t[f]) /\ <<f, m>> \in PlacesIn(t)
<1>1. t[f] \in Seq(ToSet(t[f]))
  BY DEF AreFiles, IsFile, IsList
<1>2. PICK S : S = ToSet(t[f])
  OBVIOUS
<1>3. PICK s \in Seq(S) : s = t[f]
  BY <1>1, <1>2
<1>4. Len(s) \in Nat /\ DOMAIN s = 1..Len(s) /\ \A m \in 1..Len(s) : s[m] \in S
  OBVIOUS
<1>5. \A m \in 1..Len(t[f]) : <<f, m>> \in PlacesIn(t)
  BY <1>3, <1>4 DEF PlacesIn
<1> QED BY <1>2, <1>3, <1>4, <1>5

InPlaceStep(t, q) == [f \in DOMAIN t |-> TextAfter(t, f, 0, q)]

\* What can be read of each file when one more may be open.
LEMMA InPlaceSteps ==
    ASSUME NEW t, AreFiles(t)
    PROVE  /\ InPlace(t) \in [0..MaxOpen -> [DOMAIN t -> Contents(PlacesIn(t))]]
           /\ InPlace(t)[0] = [f \in DOMAIN t |-> Nothing]
           /\ \A d \in 1..MaxOpen : InPlace(t)[d] = InPlaceStep(t, InPlace(t)[d - 1])
<1> DEFINE P == PlacesIn(t)
           V == [DOMAIN t -> Contents(P)]
           none == [f \in DOMAIN t |-> Nothing]
           step == [n \in 1..MaxOpen |-> [q \in V |-> InPlaceStep(t, q)]]
           F(g) == [n \in 0..MaxOpen |->
                     [f \in DOMAIN t |-> IF n = 0 THEN Nothing ELSE TextAfter(t, f, 0, g[n - 1])]]
           g == CHOOSE g : g = F(g)
<1>1. MaxOpen \in Nat
  BY MaxOpenPositive
<1>2. none \in V
  BY NothingIsContents
<1>3. step \in [1..MaxOpen -> [V -> V]]
  <2>1. ASSUME NEW q \in V PROVE InPlaceStep(t, q) \in V
    <3>1. PlaceOf(P, q)
      BY DEF PlaceOf
    <3>2. ASSUME NEW f \in DOMAIN t PROVE TextAfter(t, f, 0, q) \in Contents(P)
      <4>1. IsFile(t[f]) /\ \A m \in 1..Len(t[f]) : <<f, m>> \in P
        BY FileLength DEF AreFiles
      <4>2. PICK z \in 0..Len(t[f]) : z = 0
        BY FileLength
      <4>3. TextAfter(t, f, z, q) \in Contents(P)
        <5> HIDE DEF P, V
        <5> QED BY <3>1, <4>1, TextContents
      <4> QED BY <4>2, <4>3
    <3> QED BY <3>2 DEF InPlaceStep
  <2> HIDE DEF V
  <2> QED BY <2>1
<1>4. PICK h \in [0..MaxOpen -> V] : Recursive(h, MaxOpen, none, step)
  <2> HIDE DEF none, step, V
  <2> QED BY <1>1, <1>2, <1>3, RecursionExists
<1>5. h[0] = none
  <2> HIDE DEF none, step, V
  <2> QED BY <1>4 DEF Recursive
<1>6. ASSUME NEW n \in 1..MaxOpen PROVE h[n] = InPlaceStep(t, h[n - 1])
  <2>1. h[n - 1] \in V
    <3>1. n - 1 \in 0..MaxOpen
      BY <1>1
    <3> HIDE DEF V
    <3> QED BY <3>1
  <2>2. h[n] = step[n][h[n - 1]]
    <3> HIDE DEF none, step, V
    <3> QED BY <1>4 DEF Recursive
  <2> HIDE DEF V
  <2> QED BY <2>1, <2>2
<1>7. h = F(h)
  <2>1. h = [n \in 0..MaxOpen |-> h[n]]
    OBVIOUS
  <2>2. ASSUME NEW n \in 0..MaxOpen
        PROVE  h[n] = [f \in DOMAIN t |-> IF n = 0 THEN Nothing ELSE TextAfter(t, f, 0, h[n - 1])]
    <3>1. CASE n = 0
      BY <1>5, <3>1
    <3>2. CASE n # 0
      <4>1. n \in 1..MaxOpen
        BY <1>1, <3>2
      <4> QED BY <1>6, <3>2, <4>1 DEF InPlaceStep
    <3> QED BY <3>1, <3>2
  <2> QED BY <2>1, <2>2
<1>8. g = F(g)
  <2> HIDE DEF F
  <2> QED BY <1>7
<1>9. InPlace(t) = g
  BY DEF InPlace
<1>10. g[0] = none
  <2>1. 0 \in 0..MaxOpen
    BY <1>1
  <2> QED BY <1>8, <2>1
<1>11. ASSUME NEW n \in 1..MaxOpen PROVE g[n] = InPlaceStep(t, g[n - 1])
  <2>1. n \in 0..MaxOpen /\ n # 0
    BY <1>1
  <2>2. g[n] = [f \in DOMAIN t |-> IF n = 0 THEN Nothing ELSE TextAfter(t, f, 0, g[n - 1])]
    BY <1>8, <2>1
  <2> QED BY <2>1, <2>2 DEF InPlaceStep
<1>12. \A n \in 0..MaxOpen : g[n] = h[n]
  <2> HIDE DEF g, none, step, V, F
  <2>1. Alike(g, h, MaxOpen)
    BY <1>5, <1>6, <1>10, <1>11 DEF Alike
  <2> QED BY <1>1, <2>1, SameAlong
<1>13. DOMAIN g = 0..MaxOpen /\ g = [n \in 0..MaxOpen |-> g[n]]
  <2>1. \A G : DOMAIN F(G) = 0..MaxOpen /\ F(G) = [n \in 0..MaxOpen |-> F(G)[n]]
    OBVIOUS
  <2> HIDE DEF F, g
  <2> QED BY <1>8, <2>1
<1>14. g \in [0..MaxOpen -> V]
  <2> HIDE DEF g, V
  <2> QED BY <1>4, <1>12, <1>13
<1> QED
  <2> HIDE DEF g, F, step
  <2> QED BY <1>9, <1>10, <1>11, <1>14

-----------------------------------------------------------------------------
(***************************************************************************)
(* What the reader has still to read: the rest of the file it is in, and   *)
(* for each file above it the files of the same Include and then the rest  *)
(* of that file.                                                           *)
(***************************************************************************)
Named(t) == UNION {UNION {ToSet(l.value) : l \in {l \in ToSet(t[f]) : l.key = "Include"}} :
                     f \in DOMAIN t}
FrameSet(t) ==
    {p \in [file : DOMAIN t, lineno : Nat, includes : Seq(Named(t))] : p.lineno <= Len(t[p.file])}

\* p when there are k files open, it and those above it.
AfterFrame(t, p, k) == TextAfter(t, p.file, p.lineno, InPlace(t)[MaxOpen - k])
FrameText(t, p, k) ==
    Then(FilesText(p.includes, InPlace(t)[MaxOpen - k]), AfterFrame(t, p, k))

FrameTexts(t, ps) == [k \in 1..Len(ps) |-> FrameText(t, ps[Len(ps) + 1 - k], k)]
Remaining(t, r, ps, c) ==
    \E f \in [0..Len(ps) -> Contents(PlacesIn(t))] :
      /\ Chains(f, Len(ps), FrameTexts(t, ps))
      /\ c = Then(AfterFrame(t, r, Len(ps) + 1), f[Len(ps)])

LEMMA PlaceIsPlace ==
    ASSUME NEW t, AreFiles(t), NEW d \in 0..MaxOpen
    PROVE  PlaceOf(PlacesIn(t), InPlace(t)[d]) /\ DOMAIN InPlace(t)[d] = DOMAIN t
<1>1. PICK q : q = InPlace(t)[d]
  OBVIOUS
<1>2. q \in [DOMAIN t -> Contents(PlacesIn(t))]
  BY <1>1, InPlaceSteps
<1> QED BY <1>1, <1>2 DEF PlaceOf

LEMMA AfterContents ==
    ASSUME NEW t, AreFiles(t), NEW p, p.file \in DOMAIN t, p.lineno \in Nat,
           p.lineno <= Len(t[p.file]), NEW k \in 0..MaxOpen
    PROVE  AfterFrame(t, p, k) \in Contents(PlacesIn(t))
<1>1. PICK d \in 0..MaxOpen : d = MaxOpen - k
  BY MaxOpenPositive
<1>2. PICK P, q : P = PlacesIn(t) /\ q = InPlace(t)[d]
  OBVIOUS
<1>3. PlaceOf(P, q)
  BY <1>2, PlaceIsPlace
<1>4. PICK f \in DOMAIN t : f = p.file
  OBVIOUS
<1>5. PICK n \in 0..Len(t[f]) : n = p.lineno
  BY <1>4, FileLength
<1>6. IsFile(t[f]) /\ \A m \in 1..Len(t[f]) : <<f, m>> \in P
  BY <1>2, FileLength DEF AreFiles
<1>7. TextAfter(t, f, n, q) \in Contents(P)
  BY <1>3, <1>6, TextContents
<1> QED BY <1>1, <1>2, <1>4, <1>5, <1>7 DEF AfterFrame

LEMMA FrameContents ==
    ASSUME NEW t, AreFiles(t), NEW p \in FrameSet(t), NEW k \in 0..MaxOpen
    PROVE  /\ FrameText(t, p, k) \in Contents(PlacesIn(t))
           /\ AfterFrame(t, p, k) \in Contents(PlacesIn(t))
           /\ FilesText(p.includes, InPlace(t)[MaxOpen - k]) \in Contents(PlacesIn(t))
<1>1. PICK d \in 0..MaxOpen : d = MaxOpen - k
  BY MaxOpenPositive
<1>2. PICK P, q : P = PlacesIn(t) /\ q = InPlace(t)[d]
  OBVIOUS
<1>3. PlaceOf(P, q)
  BY <1>2, PlaceIsPlace
<1>4. p.file \in DOMAIN t /\ p.lineno \in Nat /\ p.lineno <= Len(t[p.file])
      /\ p.includes \in Seq(Named(t))
  BY DEF FrameSet
<1>5. AfterFrame(t, p, k) \in Contents(PlacesIn(t))
  BY <1>4, AfterContents
<1>6. PICK T, v : T = Named(t) /\ v = p.includes
  OBVIOUS
<1>7. v \in Seq(T)
  BY <1>4, <1>6
<1>8. FilesText(v, q) \in Contents(P)
  BY <1>3, <1>7, FilesContents
<1>9. PICK a, b : a = FilesText(v, q) /\ b = AfterFrame(t, p, k)
  OBVIOUS
<1>10. Then(a, b) \in Contents(P)
  BY <1>2, <1>5, <1>8, <1>9, ThenContents
<1> QED BY <1>1, <1>2, <1>5, <1>6, <1>8, <1>9, <1>10 DEF FrameText

\* The text of a file is read with one more file open.
LEMMA OpenedText ==
    ASSUME NEW t, AreFiles(t), NEW f \in DOMAIN t, NEW k \in Nat, k < MaxOpen
    PROVE  FileText(f, InPlace(t)[MaxOpen - k]) = AfterFrame(t, Opened(f), k + 1)
<1>1. PICK d \in 1..MaxOpen : d = MaxOpen - k /\ d - 1 = MaxOpen - (k + 1)
  BY MaxOpenPositive
<1>2. InPlace(t)[d] = InPlaceStep(t, InPlace(t)[d - 1])
  BY InPlaceSteps
<1>3. DOMAIN InPlace(t)[d] = DOMAIN t
        /\ InPlace(t)[d][f] = TextAfter(t, f, 0, InPlace(t)[d - 1])
  BY <1>2 DEF InPlaceStep
<1>4. FileText(f, InPlace(t)[d]) = TextAfter(t, f, 0, InPlace(t)[d - 1])
  BY <1>3 DEF FileText
<1>5. Opened(f).file = f /\ Opened(f).lineno = 0
  BY DEF Opened
<1> QED BY <1>1, <1>4, <1>5 DEF AfterFrame

\* n is the first line after a that is not blank.
IsNext(ls, a, n) ==
    /\ n \in 1..Len(ls) /\ n > a
    /\ \A m \in 1..Len(ls) : m > a /\ m < n => ls[m].key = "Blank"

LEMMA AfterNext ==
    ASSUME NEW t, AreFiles(t), NEW r, r.file \in DOMAIN t, r.lineno \in Nat,
           r.lineno <= Len(t[r.file]), NEW k \in 0..MaxOpen, NEW n, IsNext(t[r.file], r.lineno, n)
    PROVE  /\ AfterFrame(t, r, k) = Then(LineText(t, r.file, n, InPlace(t)[MaxOpen - k]),
                                         TextAfter(t, r.file, n, InPlace(t)[MaxOpen - k]))
           /\ LineText(t, r.file, n, InPlace(t)[MaxOpen - k]) \in Contents(PlacesIn(t))
           /\ TextAfter(t, r.file, n, InPlace(t)[MaxOpen - k]) \in Contents(PlacesIn(t))
<1>1. PICK d \in 0..MaxOpen : d = MaxOpen - k
  BY MaxOpenPositive
<1>2. PICK P, q : P = PlacesIn(t) /\ q = InPlace(t)[d]
  OBVIOUS
<1>3. PlaceOf(P, q)
  BY <1>2, PlaceIsPlace
<1>4. PICK f \in DOMAIN t : f = r.file
  OBVIOUS
<1>5. PICK a \in 0..Len(t[f]) : a = r.lineno
  BY <1>4, FileLength
<1>6. IsFile(t[f]) /\ (\A m \in 1..Len(t[f]) : <<f, m>> \in P) /\ Len(t[f]) \in Nat
  BY <1>2, FileLength DEF AreFiles
<1>7. n \in 1..Len(t[f]) /\ n > a /\ \A m \in 1..Len(t[f]) : m > a /\ m < n => t[f][m].key = "Blank"
  BY <1>4, <1>5 DEF IsNext
<1>8. PICK b \in 0..Len(t[f]) : b = n - 1 /\ a <= b
  BY <1>6, <1>7
<1>9. \A m \in 1..Len(t[f]) : m > a /\ m <= b => t[f][m].key = "Blank"
  BY <1>6, <1>7, <1>8
<1>10. TextAfter(t, f, a, q) = TextAfter(t, f, b, q)
  <2>1. IsFile(t[f]) /\ a <= b /\ \A m \in 1..Len(t[f]) : <<f, m>> \in P
    BY <1>6, <1>8
  <2> QED BY <1>3, <1>9, <2>1, TextSkipsBlanks, SMTT(30)
<1>11. TextAfter(t, f, n - 1, q) = Then(LineText(t, f, n, q), TextAfter(t, f, n, q))
  BY <1>3, <1>6, <1>7, TextNext
<1>12. LineText(t, f, n, q) \in Contents(P)
  BY <1>3, <1>6, <1>7, LineContents
<1>13. TextAfter(t, f, n, q) \in Contents(P)
  <2>1. n \in 0..Len(t[f])
    BY <1>6, <1>7
  <2> QED BY <1>3, <1>6, <2>1, TextContents
<1> QED BY <1>1, <1>2, <1>4, <1>5, <1>8, <1>10, <1>11, <1>12, <1>13 DEF AfterFrame

\* After the last line there is nothing.
LEMMA AfterLast ==
    ASSUME NEW t, AreFiles(t), NEW r, r.file \in DOMAIN t, r.lineno \in Nat,
           r.lineno <= Len(t[r.file]), NEW k \in 0..MaxOpen,
           \A m \in 1..Len(t[r.file]) : m > r.lineno => t[r.file][m].key = "Blank"
    PROVE  AfterFrame(t, r, k) = Whole(<< >>)
<1>1. PICK d \in 0..MaxOpen : d = MaxOpen - k
  BY MaxOpenPositive
<1>2. PICK P, q : P = PlacesIn(t) /\ q = InPlace(t)[d]
  OBVIOUS
<1>3. PlaceOf(P, q)
  BY <1>2, PlaceIsPlace
<1>4. PICK f \in DOMAIN t : f = r.file
  OBVIOUS
<1>5. PICK a \in 0..Len(t[f]) : a = r.lineno
  BY <1>4, FileLength
<1>6. IsFile(t[f]) /\ (\A m \in 1..Len(t[f]) : <<f, m>> \in P) /\ Len(t[f]) \in Nat
  BY <1>2, FileLength DEF AreFiles
<1>7. PICK b \in 0..Len(t[f]) : b = Len(t[f]) /\ a <= b
  BY <1>6
<1>8. \A m \in 1..Len(t[f]) : m > a /\ m <= b => t[f][m].key = "Blank"
  BY <1>4, <1>5
<1>9. TextAfter(t, f, a, q) = TextAfter(t, f, b, q)
  BY <1>3, <1>6, <1>7, <1>8, TextSkipsBlanks
<1>10. TextAfter(t, f, b, q) = Whole(<< >>)
  BY <1>3, <1>6, <1>7, TextLast
<1> QED BY <1>1, <1>2, <1>4, <1>5, <1>9, <1>10 DEF AfterFrame

\* A line is taken.
LEMMA RemainingTaken ==
    ASSUME NEW t, AreFiles(t), NEW r, r.file \in DOMAIN t, r.lineno \in Nat,
           r.lineno <= Len(t[r.file]), NEW ps \in Seq(FrameSet(t)), Len(ps) < MaxOpen,
           NEW c, Remaining(t, r, ps, c), NEW n, IsNext(t[r.file], r.lineno, n),
           t[r.file][n].key \notin {"Blank", "Include"},
           NEW r2, r2.file = r.file, r2.lineno = n
    PROVE  \E c2 \in Contents(PlacesIn(t)) :
             Remaining(t, r2, ps, c2) /\ c = Then(Whole(<<<<r.file, n>>>>), c2)
<1>1. PICK k \in 0..MaxOpen : k = Len(ps) + 1
  BY MaxOpenPositive
<1>2. PICK f \in [0..Len(ps) -> Contents(PlacesIn(t))] :
             /\ Chains(f, Len(ps), FrameTexts(t, ps))
             /\ c = Then(AfterFrame(t, r, k), f[Len(ps)])
  BY <1>1 DEF Remaining
<1>3. PICK P, q : P = PlacesIn(t) /\ q = InPlace(t)[MaxOpen - k]
  OBVIOUS
<1>4. PICK x, y, z : /\ x = LineText(t, r.file, n, q) /\ y = TextAfter(t, r.file, n, q)
                     /\ z = f[Len(ps)]
  OBVIOUS
<1>5. AfterFrame(t, r, k) = Then(x, y) /\ x \in Contents(P) /\ y \in Contents(P)
  BY <1>3, <1>4, AfterNext
<1>6. z \in Contents(P)
  <2>1. Len(ps) \in 0..Len(ps)
    OBVIOUS
  <2> QED BY <1>3, <1>4, <2>1
<1>7. AfterFrame(t, r2, k) = y
  BY <1>3, <1>4 DEF AfterFrame
<1>8. c = Then(x, Then(y, z)) /\ Then(y, z) \in Contents(P)
  BY <1>2, <1>4, <1>5, <1>6, ThenAssociates, ThenContents
<1>9. x = Whole(<<<<r.file, n>>>>)
  BY <1>4 DEF LineText
<1>10. Remaining(t, r2, ps, Then(y, z))
  BY <1>1, <1>2, <1>4, <1>7 DEF Remaining
<1> QED BY <1>3, <1>8, <1>9, <1>10

LEMMA PushFrame ==
    ASSUME NEW t, AreFiles(t), NEW ps \in Seq(FrameSet(t)), NEW p \in FrameSet(t),
           Len(ps) < MaxOpen, NEW f \in [0..Len(ps) -> Contents(PlacesIn(t))],
           Chains(f, Len(ps), FrameTexts(t, ps))
    PROVE  LET qs == <<p>> \o ps IN
           /\ qs \in Seq(FrameSet(t)) /\ Len(qs) = Len(ps) + 1
           /\ \E g \in [0..Len(qs) -> Contents(PlacesIn(t))] :
                /\ Chains(g, Len(qs), FrameTexts(t, qs))
                /\ g[Len(qs)] = Then(FrameText(t, p, Len(ps) + 1), f[Len(ps)])
<1>1. PICK T, P : T = FrameSet(t) /\ P = PlacesIn(t)
  OBVIOUS
<1>2. PICK N \in Nat : N = Len(ps)
  OBVIOUS
<1>3. PICK k \in 0..MaxOpen : k = N + 1
  BY <1>2, MaxOpenPositive
<1>4. PICK qs : qs = <<p>> \o ps
  OBVIOUS
<1>5. qs \in Seq(T) /\ Len(qs) = k /\ qs[1] = p /\ \A i \in 1..N : qs[i + 1] = ps[i]
  <2>1. PICK ts \in Seq(T) : ts = ps
    BY <1>1
  <2>2. p \in T
    BY <1>1
  <2>3. <<p>> \o ts \in Seq(T) /\ Len(<<p>> \o ts) = Len(ts) + 1
        /\ (<<p>> \o ts)[1] = p /\ \A i \in 1..Len(ts) : (<<p>> \o ts)[i + 1] = ts[i]
    BY <2>2
  <2> QED BY <1>2, <1>3, <1>4, <2>1, <2>3
<1>6. PICK a \in Contents(P) : a = FrameText(t, p, k)
  BY <1>1, FrameContents
<1>7. PICK z \in Contents(P) : z = f[N]
  <2>1. N \in 0..Len(ps)
    BY <1>2
  <2> QED BY <1>1, <2>1
<1>8. PICK e \in Contents(P) : e = Then(a, z)
  BY ThenContents
<1> DEFINE g == [i \in 0..k |-> IF i = k THEN e ELSE f[i]]
<1>9. g \in [0..k -> Contents(P)]
  <2>1. ASSUME NEW i \in 0..k, i # k PROVE f[i] \in Contents(P)
    <3>1. i \in 0..Len(ps)
      BY <1>2, <1>3, <2>1
    <3> QED BY <1>1, <3>1
  <2> QED BY <2>1
<1>10. g[k] = e /\ \A i \in 0..N : g[i] = f[i]
  BY <1>3
<1>11. ASSUME NEW i \in 1..N PROVE FrameTexts(t, qs)[i] = FrameTexts(t, ps)[i]
  <2>1. N + 1 - i \in 1..N /\ (N + 1 - i) + 1 = k + 1 - i /\ i \in 1..k
    BY <1>3
  <2>2. qs[k + 1 - i] = ps[N + 1 - i]
    BY <1>5, <2>1
  <2>3. FrameTexts(t, qs)[i] = FrameText(t, qs[k + 1 - i], i)
    BY <1>5, <2>1 DEF FrameTexts
  <2>4. FrameTexts(t, ps)[i] = FrameText(t, ps[N + 1 - i], i)
    BY <1>2 DEF FrameTexts
  <2> QED BY <2>2, <2>3, <2>4
<1>12. FrameTexts(t, qs)[k] = a
  <2>1. k \in 1..k /\ k + 1 - k = 1
    BY <1>3
  <2>2. FrameTexts(t, qs)[k] = FrameText(t, qs[k + 1 - k], k)
    BY <1>5, <2>1 DEF FrameTexts
  <2> QED BY <1>5, <1>6, <2>1, <2>2
<1>13. Chains(g, k, FrameTexts(t, qs))
  <2> HIDE DEF g
  <2>1. g[0] = Whole(<< >>)
    BY <1>2, <1>10 DEF Chains
  <2>2. ASSUME NEW i \in 1..k PROVE g[i] = Then(FrameTexts(t, qs)[i], g[i - 1])
    <3>1. CASE i = k
      <4>1. g[k - 1] = z /\ k - 1 \in 0..N
        BY <1>3, <1>7, <1>10
      <4> QED BY <1>8, <1>10, <1>12, <3>1, <4>1
    <3>2. CASE i # k
      <4>1. i \in 1..N /\ i - 1 \in 0..N /\ i \in 0..N
        BY <1>3, <3>2
      <4>2. f[i] = Then(FrameTexts(t, ps)[i], f[i - 1])
        BY <1>2, <4>1 DEF Chains
      <4> QED BY <1>10, <1>11, <4>1, <4>2
    <3> QED BY <3>1, <3>2
  <2> QED BY <2>1, <2>2 DEF Chains
<1> QED
  <2> HIDE DEF g
  <2> QED BY <1>1, <1>2, <1>3, <1>4, <1>5, <1>6, <1>7, <1>8, <1>9, <1>10, <1>13

LEMMA PopFrame ==
    ASSUME NEW t, AreFiles(t), NEW ps \in Seq(FrameSet(t)), ps # << >>,
           Len(ps) <= MaxOpen, NEW f \in [0..Len(ps) -> Contents(PlacesIn(t))],
           Chains(f, Len(ps), FrameTexts(t, ps))
    PROVE  /\ Head(ps) \in FrameSet(t) /\ Tail(ps) \in Seq(FrameSet(t))
           /\ Len(Tail(ps)) = Len(ps) - 1
           /\ \E g \in [0..Len(Tail(ps)) -> Contents(PlacesIn(t))] :
                /\ Chains(g, Len(Tail(ps)), FrameTexts(t, Tail(ps)))
                /\ f[Len(ps)] = Then(FrameText(t, Head(ps), Len(ps)), g[Len(Tail(ps))])
<1>1. PICK T, P : T = FrameSet(t) /\ P = PlacesIn(t)
  OBVIOUS
<1>2. PICK k \in Nat : k = Len(ps) /\ k >= 1
  OBVIOUS
<1>3. PICK N \in Nat : k = N + 1
  BY <1>2
<1>4. PICK qs, p : qs = Tail(ps) /\ p = Head(ps)
  OBVIOUS
<1>5. qs \in Seq(T) /\ p \in T /\ Len(qs) = N /\ ps[1] = p /\ \A i \in 1..N : ps[i + 1] = qs[i]
  <2>1. PICK ts \in Seq(T) : ts = ps
    BY <1>1
  <2>2. ts # << >> /\ Len(ts) = N + 1
    BY <1>2, <1>3, <2>1
  <2>3. /\ Tail(ts) \in Seq(T) /\ Len(Tail(ts)) = N /\ Head(ts) \in T /\ ts[1] = Head(ts)
        /\ \A i \in 1..N : Tail(ts)[i] = ts[i + 1]
    BY <2>2
  <2> QED BY <1>4, <2>1, <2>3
<1> DEFINE g == [i \in 0..N |-> f[i]]
<1>6. \A i \in 0..N : i \in 0..Len(ps)
  BY <1>2, <1>3
<1>7. g \in [0..N -> Contents(P)] /\ \A i \in 0..N : g[i] = f[i]
  BY <1>1, <1>6
<1>8. ASSUME NEW i \in 1..N PROVE FrameTexts(t, qs)[i] = FrameTexts(t, ps)[i]
  <2>1. N + 1 - i \in 1..N /\ (N + 1 - i) + 1 = k + 1 - i /\ i \in 1..k
    BY <1>3
  <2>2. ps[k + 1 - i] = qs[N + 1 - i]
    BY <1>5, <2>1
  <2>3. FrameTexts(t, ps)[i] = FrameText(t, ps[k + 1 - i], i)
    BY <1>2, <2>1 DEF FrameTexts
  <2>4. FrameTexts(t, qs)[i] = FrameText(t, qs[N + 1 - i], i)
    BY <1>5 DEF FrameTexts
  <2> QED BY <2>2, <2>3, <2>4
<1>9. FrameTexts(t, ps)[k] = FrameText(t, p, k)
  <2>1. k \in 1..k /\ k + 1 - k = 1
    BY <1>3
  <2>2. FrameTexts(t, ps)[k] = FrameText(t, ps[k + 1 - k], k)
    BY <1>2, <2>1 DEF FrameTexts
  <2> QED BY <1>5, <2>1, <2>2
<1>10. f[0] = Whole(<< >>) /\ \A i \in 1..k : f[i] = Then(FrameTexts(t, ps)[i], f[i - 1])
  BY <1>2 DEF Chains
<1>11. Chains(g, N, FrameTexts(t, qs))
  <2> HIDE DEF g
  <2>1. g[0] = Whole(<< >>)
    BY <1>7, <1>10
  <2>2. ASSUME NEW i \in 1..N PROVE g[i] = Then(FrameTexts(t, qs)[i], g[i - 1])
    <3>1. i \in 1..k /\ i - 1 \in 0..N /\ i \in 0..N
      BY <1>3
    <3> QED BY <1>7, <1>8, <1>10, <3>1
  <2> QED BY <2>1, <2>2 DEF Chains
<1>12. f[k] = Then(FrameText(t, p, k), g[N])
  <2> HIDE DEF g
  <2>1. k \in 1..k /\ k - 1 = N /\ N \in 0..N
    BY <1>3
  <2> QED BY <1>7, <1>9, <1>10, <2>1
<1> QED
  <2> HIDE DEF g
  <2> QED BY <1>1, <1>2, <1>3, <1>4, <1>5, <1>7, <1>11, <1>12

\* An Include is entered: its first file, and then the others and the rest of this one.
LEMMA RemainingIncluded ==
    ASSUME NEW t, AreFiles(t), NEW r, r.file \in DOMAIN t, r.lineno \in Nat,
           r.lineno <= Len(t[r.file]), NEW ps \in Seq(FrameSet(t)), Len(ps) + 1 < MaxOpen,
           NEW c, Remaining(t, r, ps, c), NEW n, IsNext(t[r.file], r.lineno, n),
           t[r.file][n].key = "Include", NEW g \in DOMAIN t, g = Head(t[r.file][n].value),
           NEW p \in FrameSet(t), p.file = r.file, p.lineno = n,
           p.includes = Tail(t[r.file][n].value)
    PROVE  <<p>> \o ps \in Seq(FrameSet(t)) /\ Remaining(t, Opened(g), <<p>> \o ps, c)
<1>1. PICK k \in 0..MaxOpen : k = Len(ps) + 1 /\ k < MaxOpen
  BY MaxOpenPositive
<1>2. PICK f \in [0..Len(ps) -> Contents(PlacesIn(t))] :
             /\ Chains(f, Len(ps), FrameTexts(t, ps))
             /\ c = Then(AfterFrame(t, r, k), f[Len(ps)])
  BY <1>1 DEF Remaining
<1>3. PICK P, q : P = PlacesIn(t) /\ q = InPlace(t)[MaxOpen - k]
  OBVIOUS
<1>4. PICK qs : qs = <<p>> \o ps
  OBVIOUS
<1>5. /\ qs \in Seq(FrameSet(t)) /\ Len(qs) = k
      /\ \E h \in [0..Len(qs) -> Contents(PlacesIn(t))] :
           /\ Chains(h, Len(qs), FrameTexts(t, qs))
           /\ h[Len(qs)] = Then(FrameText(t, p, k), f[Len(ps)])
  <2>1. Len(ps) < MaxOpen
    <3>1. Len(ps) \in Nat
      OBVIOUS
    <3> QED BY <3>1, MaxOpenPositive
  <2> QED BY <1>1, <1>2, <1>4, <2>1, PushFrame
<1>6. PICK h \in [0..Len(qs) -> Contents(PlacesIn(t))] :
           /\ Chains(h, Len(qs), FrameTexts(t, qs))
           /\ h[Len(qs)] = Then(FrameText(t, p, k), f[Len(ps)])
  BY <1>5
<1>7. PICK v : v = t[r.file][n].value
  OBVIOUS
<1>8. PICK T : v \in Seq(T) /\ v # << >>
  <2>1. t[r.file][n] \in ToSet(t[r.file])
    BY FileLength DEF IsNext
  <2>2. IsFile(t[r.file])
    BY DEF AreFiles
  <2>3. IsList(v) /\ v # << >>
    BY <1>7, <2>1, <2>2 DEF IsFile, IsLine
  <2> QED BY <2>3 DEF IsList
<1>9. PICK o, w, y, z : /\ o = FileText(g, q) /\ w = FilesText(Tail(v), q)
                        /\ y = TextAfter(t, r.file, n, q) /\ z = f[Len(ps)]
  OBVIOUS
<1>10. PlaceOf(P, q)
  <2>1. PICK d \in 0..MaxOpen : d = MaxOpen - k
    BY MaxOpenPositive
  <2> QED BY <1>3, <2>1, PlaceIsPlace
<1>11. LineText(t, r.file, n, q) = Then(o, w) /\ o \in Contents(P) /\ w \in Contents(P)
  <2>1. LineText(t, r.file, n, q) = FilesText(v, q)
    BY <1>7 DEF LineText
  <2>2. FilesText(v, q) = Then(FileText(Head(v), q), FilesText(Tail(v), q))
        /\ FilesText(Tail(v), q) \in Contents(P)
    BY <1>8, <1>10, FilesFirst
  <2>3. FileText(g, q) \in Contents(P)
    BY <1>10, FileContents
  <2> QED BY <1>7, <1>9, <2>1, <2>2, <2>3
<1>12. AfterFrame(t, r, k) = Then(Then(o, w), y) /\ y \in Contents(P)
  BY <1>3, <1>9, <1>11, AfterNext
<1>13. z \in Contents(P)
  <2>1. Len(ps) \in 0..Len(ps)
    OBVIOUS
  <2> QED BY <1>3, <1>9, <2>1
<1>14. FrameText(t, p, k) = Then(w, y)
  BY <1>3, <1>7, <1>9 DEF FrameText, AfterFrame
<1>15. o = AfterFrame(t, Opened(g), k + 1)
  BY <1>1, <1>3, <1>9, OpenedText
<1>16. c = Then(o, Then(Then(w, y), z))
  <2>1. PICK wy \in Contents(P) : wy = Then(w, y)
    BY <1>11, <1>12, ThenContents
  <2>2. AfterFrame(t, r, k) = Then(o, wy)
    BY <1>11, <1>12, <2>1, ThenAssociates
  <2>3. Then(Then(o, wy), z) = Then(o, Then(wy, z))
    BY <1>11, <1>13, ThenAssociates
  <2> QED BY <1>2, <1>9, <2>1, <2>2, <2>3
<1>17. c = Then(AfterFrame(t, Opened(g), Len(qs) + 1), h[Len(qs)])
  BY <1>5, <1>6, <1>9, <1>14, <1>15, <1>16
<1>18. Remaining(t, Opened(g), qs, c)
  BY <1>6, <1>17 DEF Remaining
<1> QED BY <1>4, <1>5, <1>18

\* The file has ended, and the next one of the Include takes its place.
LEMMA RemainingSwitched ==
    ASSUME NEW t, AreFiles(t), NEW r, r.file \in DOMAIN t, r.lineno \in Nat,
           r.lineno <= Len(t[r.file]),
           \A m \in 1..Len(t[r.file]) : m > r.lineno => t[r.file][m].key = "Blank",
           NEW ps \in Seq(FrameSet(t)), ps # << >>, Len(ps) < MaxOpen,
           NEW c, Remaining(t, r, ps, c),
           Head(ps).includes # << >>, NEW g \in DOMAIN t, g = Head(Head(ps).includes),
           NEW p \in FrameSet(t), p.file = Head(ps).file, p.lineno = Head(ps).lineno,
           p.includes = Tail(Head(ps).includes)
    PROVE  /\ <<p>> \o Tail(ps) \in Seq(FrameSet(t))
           /\ Remaining(t, Opened(g), <<p>> \o Tail(ps), c)
<1>1. PICK k \in 0..MaxOpen : k = Len(ps) /\ k + 1 \in 0..MaxOpen /\ k < MaxOpen
  BY MaxOpenPositive
<1>2. PICK f \in [0..Len(ps) -> Contents(PlacesIn(t))] :
             /\ Chains(f, Len(ps), FrameTexts(t, ps))
             /\ c = Then(AfterFrame(t, r, k + 1), f[Len(ps)])
  BY <1>1 DEF Remaining
<1>3. PICK P, q, a, ts : P = PlacesIn(t) /\ q = InPlace(t)[MaxOpen - k]
                         /\ a = Head(ps) /\ ts = Tail(ps)
  OBVIOUS
<1>4. Len(ps) <= MaxOpen
  BY <1>1
<1>5. /\ a \in FrameSet(t) /\ ts \in Seq(FrameSet(t)) /\ Len(ts) = k - 1
      /\ \E h \in [0..Len(ts) -> Contents(PlacesIn(t))] :
           /\ Chains(h, Len(ts), FrameTexts(t, ts))
           /\ f[Len(ps)] = Then(FrameText(t, a, Len(ps)), h[Len(ts)])
  <2>1. /\ Head(ps) \in FrameSet(t) /\ Tail(ps) \in Seq(FrameSet(t))
        /\ Len(Tail(ps)) = Len(ps) - 1
        /\ \E h \in [0..Len(Tail(ps)) -> Contents(PlacesIn(t))] :
             /\ Chains(h, Len(Tail(ps)), FrameTexts(t, Tail(ps)))
             /\ f[Len(ps)] = Then(FrameText(t, Head(ps), Len(ps)), h[Len(Tail(ps))])
    BY <1>2, <1>4, PopFrame
  <2> QED BY <1>1, <1>3, <2>1
<1>6. PICK h \in [0..Len(ts) -> Contents(PlacesIn(t))] :
           /\ Chains(h, Len(ts), FrameTexts(t, ts))
           /\ f[Len(ps)] = Then(FrameText(t, a, Len(ps)), h[Len(ts)])
  BY <1>5
<1>7. PICK qs : qs = <<p>> \o ts
  OBVIOUS
<1>8. /\ qs \in Seq(FrameSet(t)) /\ Len(qs) = k
      /\ \E e \in [0..Len(qs) -> Contents(PlacesIn(t))] :
           /\ Chains(e, Len(qs), FrameTexts(t, qs))
           /\ e[Len(qs)] = Then(FrameText(t, p, k), h[Len(ts)])
  <2>1. Len(ts) < MaxOpen /\ Len(ts) + 1 = k
    <3>1. k \in Nat /\ k < MaxOpen /\ Len(ts) = k - 1
      BY <1>1, <1>5, MaxOpenPositive
    <3> QED BY <3>1, MaxOpenPositive
  <2>2. LET us == <<p>> \o ts IN
           /\ us \in Seq(FrameSet(t)) /\ Len(us) = Len(ts) + 1
           /\ \E e \in [0..Len(us) -> Contents(PlacesIn(t))] :
                /\ Chains(e, Len(us), FrameTexts(t, us))
                /\ e[Len(us)] = Then(FrameText(t, p, Len(ts) + 1), h[Len(ts)])
    BY <1>5, <1>6, <2>1, PushFrame
  <2> QED BY <1>7, <2>1, <2>2
<1>9. PICK e \in [0..Len(qs) -> Contents(PlacesIn(t))] :
           /\ Chains(e, Len(qs), FrameTexts(t, qs))
           /\ e[Len(qs)] = Then(FrameText(t, p, k), h[Len(ts)])
  BY <1>8
<1>10. PICK v : v = a.includes
  OBVIOUS
<1>11. v \in Seq(Named(t)) /\ v # << >> /\ g = Head(v) /\ p.includes = Tail(v)
  BY <1>3, <1>5, <1>10 DEF FrameSet
<1>12. PICK o, w, y, z : /\ o = FileText(g, q) /\ w = FilesText(Tail(v), q)
                         /\ y = AfterFrame(t, a, k) /\ z = h[Len(ts)]
  OBVIOUS
<1>13. PlaceOf(P, q)
  <2>1. PICK d \in 0..MaxOpen : d = MaxOpen - k
    BY MaxOpenPositive
  <2> QED BY <1>3, <2>1, PlaceIsPlace
<1>14. FilesText(v, q) = Then(o, w) /\ o \in Contents(P) /\ w \in Contents(P)
  <2>1. PICK T : T = Named(t)
    OBVIOUS
  <2>2. v \in Seq(T)
    BY <1>11, <2>1
  <2>3. FilesText(v, q) = Then(FileText(Head(v), q), FilesText(Tail(v), q))
        /\ FilesText(Tail(v), q) \in Contents(P)
    BY <1>11, <1>13, <2>2, FilesFirst
  <2>4. FileText(g, q) \in Contents(P)
    BY <1>13, FileContents
  <2> QED BY <1>11, <1>12, <2>3, <2>4
<1>15. FrameText(t, a, k) = Then(Then(o, w), y) /\ y \in Contents(P)
  BY <1>3, <1>5, <1>10, <1>12, <1>14, FrameContents DEF FrameText
<1>16. FrameText(t, p, k) = Then(w, y)
  BY <1>3, <1>11, <1>12 DEF FrameText, AfterFrame
<1>17. z \in Contents(P)
  <2>1. Len(ts) \in 0..Len(ts)
    BY <1>5
  <2> QED BY <1>3, <1>12, <2>1
<1>18. o = AfterFrame(t, Opened(g), k + 1)
  BY <1>1, <1>3, <1>12, OpenedText
<1>19. AfterFrame(t, r, k + 1) = Whole(<< >>)
  BY <1>1, AfterLast
<1>20. PICK wy \in Contents(P) : wy = Then(w, y)
  BY <1>14, <1>15, ThenContents
<1>21. f[Len(ps)] = Then(o, Then(wy, z))
  <2>1. FrameText(t, a, k) = Then(o, wy)
    BY <1>14, <1>15, <1>20, ThenAssociates
  <2>2. Then(Then(o, wy), z) = Then(o, Then(wy, z))
    BY <1>14, <1>17, ThenAssociates
  <2> QED BY <1>1, <1>6, <1>12, <2>1, <2>2
<1>22. f[Len(ps)] \in Contents(P)
  <2>1. Len(ps) \in 0..Len(ps)
    OBVIOUS
  <2> QED BY <1>3, <2>1
<1>23. c = f[Len(ps)]
  BY <1>2, <1>19, <1>22, ThenEmpty
<1>24. c = Then(AfterFrame(t, Opened(g), Len(qs) + 1), e[Len(qs)])
  BY <1>8, <1>9, <1>12, <1>16, <1>18, <1>20, <1>21, <1>23
<1>25. Remaining(t, Opened(g), qs, c)
  BY <1>9, <1>24 DEF Remaining
<1> QED BY <1>3, <1>7, <1>8, <1>25

\* The last file of the Include has ended: the file it is in goes on.
LEMMA RemainingBack ==
    ASSUME NEW t, AreFiles(t), NEW r, r.file \in DOMAIN t, r.lineno \in Nat,
           r.lineno <= Len(t[r.file]),
           \A m \in 1..Len(t[r.file]) : m > r.lineno => t[r.file][m].key = "Blank",
           NEW ps \in Seq(FrameSet(t)), ps # << >>, Len(ps) < MaxOpen,
           NEW c, Remaining(t, r, ps, c), Head(ps).includes = << >>
    PROVE  /\ Head(ps) \in FrameSet(t) /\ Tail(ps) \in Seq(FrameSet(t))
           /\ Len(Tail(ps)) = Len(ps) - 1
           /\ Remaining(t, Head(ps), Tail(ps), c)
<1>1. PICK k \in 0..MaxOpen : k = Len(ps) /\ k + 1 \in 0..MaxOpen
  BY MaxOpenPositive
<1>2. PICK f \in [0..Len(ps) -> Contents(PlacesIn(t))] :
             /\ Chains(f, Len(ps), FrameTexts(t, ps))
             /\ c = Then(AfterFrame(t, r, k + 1), f[Len(ps)])
  BY <1>1 DEF Remaining
<1>3. PICK P, q, a, ts : P = PlacesIn(t) /\ q = InPlace(t)[MaxOpen - k]
                         /\ a = Head(ps) /\ ts = Tail(ps)
  OBVIOUS
<1>4. Len(ps) <= MaxOpen
  BY <1>1
<1>5. /\ a \in FrameSet(t) /\ ts \in Seq(FrameSet(t)) /\ Len(ts) = Len(ps) - 1
      /\ \E h \in [0..Len(ts) -> Contents(PlacesIn(t))] :
           /\ Chains(h, Len(ts), FrameTexts(t, ts))
           /\ f[Len(ps)] = Then(FrameText(t, a, Len(ps)), h[Len(ts)])
  <2>1. /\ Head(ps) \in FrameSet(t) /\ Tail(ps) \in Seq(FrameSet(t))
        /\ Len(Tail(ps)) = Len(ps) - 1
        /\ \E h \in [0..Len(Tail(ps)) -> Contents(PlacesIn(t))] :
             /\ Chains(h, Len(Tail(ps)), FrameTexts(t, Tail(ps)))
             /\ f[Len(ps)] = Then(FrameText(t, Head(ps), Len(ps)), h[Len(Tail(ps))])
    BY <1>2, <1>4, PopFrame
  <2> QED BY <1>3, <2>1
<1>6. PICK h \in [0..Len(ts) -> Contents(PlacesIn(t))] :
           /\ Chains(h, Len(ts), FrameTexts(t, ts))
           /\ f[Len(ps)] = Then(FrameText(t, a, Len(ps)), h[Len(ts)])
  BY <1>5
<1>7. AfterFrame(t, r, k + 1) = Whole(<< >>)
  BY <1>1, AfterLast
<1>8. f[Len(ps)] \in Contents(P)
  <2>1. Len(ps) \in 0..Len(ps)
    OBVIOUS
  <2> QED BY <1>3, <2>1
<1>9. c = f[Len(ps)]
  BY <1>2, <1>7, <1>8, ThenEmpty
<1>10. FrameText(t, a, k) = AfterFrame(t, a, k)
  <2>1. PlaceOf(P, q)
    <3>1. PICK d \in 0..MaxOpen : d = MaxOpen - k
      BY MaxOpenPositive
    <3> QED BY <1>3, <3>1, PlaceIsPlace
  <2>2. FilesText(a.includes, q) = Whole(<< >>)
    BY <1>3, <2>1, FilesEmpty
  <2>3. AfterFrame(t, a, k) \in Contents(P)
    BY <1>3, <1>5, FrameContents
  <2> QED BY <1>3, <2>2, <2>3, ThenEmpty DEF FrameText
<1>11. Len(ts) + 1 = k
  BY <1>1, <1>5
<1>12. c = Then(AfterFrame(t, a, Len(ts) + 1), h[Len(ts)])
  BY <1>1, <1>6, <1>9, <1>10, <1>11
<1>13. Remaining(t, a, ts, c)
  BY <1>6, <1>12 DEF Remaining
<1> QED BY <1>3, <1>5, <1>13

\* The file that was loaded has ended: there is nothing left.
LEMMA RemainingEnd ==
    ASSUME NEW t, AreFiles(t), NEW r, r.file \in DOMAIN t, r.lineno \in Nat,
           r.lineno <= Len(t[r.file]),
           \A m \in 1..Len(t[r.file]) : m > r.lineno => t[r.file][m].key = "Blank",
           NEW ps, ps = << >>, NEW c, Remaining(t, r, ps, c)
    PROVE  c = Whole(<< >>)
<1>1. 1 \in 0..MaxOpen /\ Len(ps) = 0
  BY MaxOpenPositive
<1>2. PICK f \in [0..Len(ps) -> Contents(PlacesIn(t))] :
             /\ Chains(f, Len(ps), FrameTexts(t, ps))
             /\ c = Then(AfterFrame(t, r, 1), f[Len(ps)])
  BY <1>1 DEF Remaining
<1>3. AfterFrame(t, r, 1) = Whole(<< >>)
  BY <1>1, AfterLast
<1>4. f[Len(ps)] = Whole(<< >>)
  BY <1>1, <1>2 DEF Chains
<1> QED BY <1>2, <1>3, <1>4, ThenEmpty, NothingIsContents

\* Before the first line everything is left.
LEMMA RemainingBegin ==
    ASSUME NEW t, AreFiles(t), NEW f \in DOMAIN t, NEW ps, ps = << >>
    PROVE  Remaining(t, Opened(f), ps, FileText(f, InPlace(t)[MaxOpen]))
<1>1. FileText(f, InPlace(t)[MaxOpen]) = AfterFrame(t, Opened(f), 1)
  <2>1. PICK k \in Nat : k = 0 /\ MaxOpen - k = MaxOpen /\ k < MaxOpen /\ k + 1 = 1
    BY MaxOpenPositive
  <2> QED BY <2>1, OpenedText
<1>2. AfterFrame(t, Opened(f), 1) \in Contents(PlacesIn(t))
  <2>1. Opened(f).file = f /\ Opened(f).lineno = 0 /\ 1 \in 0..MaxOpen
    BY MaxOpenPositive DEF Opened
  <2>2. 0 \in Nat /\ 0 <= Len(t[f])
    BY FileLength
  <2>3. PICK p : p = Opened(f)
    OBVIOUS
  <2> QED BY <2>1, <2>2, <2>3, AfterContents
<1> DEFINE g == [i \in 0..0 |-> Whole(<< >>)]
<1>3. g \in [0..Len(ps) -> Contents(PlacesIn(t))] /\ Chains(g, Len(ps), FrameTexts(t, ps))
      /\ g[Len(ps)] = Whole(<< >>) /\ Len(ps) + 1 = 1
  <2>1. Len(ps) = 0
    OBVIOUS
  <2>2. Whole(<< >>) \in Contents(PlacesIn(t))
    BY NothingIsContents
  <2> QED BY <2>1, <2>2 DEF Chains
<1>4. AfterFrame(t, Opened(f), 1) = Then(AfterFrame(t, Opened(f), 1), g[Len(ps)])
  BY <1>2, <1>3, ThenEmpty
<1> QED
  <2> HIDE DEF g
  <2> QED BY <1>1, <1>3, <1>4 DEF Remaining

LEMMA RemainingContents ==
    ASSUME NEW t, AreFiles(t), NEW r, r.file \in DOMAIN t, r.lineno \in Nat,
           r.lineno <= Len(t[r.file]), NEW ps \in Seq(FrameSet(t)), Len(ps) < MaxOpen,
           NEW c, Remaining(t, r, ps, c)
    PROVE  c \in Contents(PlacesIn(t))
<1>1. PICK k \in 0..MaxOpen : k = Len(ps) + 1
  BY MaxOpenPositive
<1>2. PICK f \in [0..Len(ps) -> Contents(PlacesIn(t))] : c = Then(AfterFrame(t, r, k), f[Len(ps)])
  BY <1>1 DEF Remaining
<1>3. PICK P, a, b : P = PlacesIn(t) /\ a = AfterFrame(t, r, k) /\ b = f[Len(ps)]
  OBVIOUS
<1>4. a \in Contents(P)
  BY <1>3, AfterContents
<1>5. b \in Contents(P)
  <2>1. Len(ps) \in 0..Len(ps)
    OBVIOUS
  <2> QED BY <1>3, <2>1
<1> QED BY <1>2, <1>3, <1>4, <1>5, ThenContents

-----------------------------------------------------------------------------
(***************************************************************************)
(* The reader: types, and what is left to read.                            *)
(***************************************************************************)
InFile == reader.file \in DOMAIN text /\ reader.lineno <= Len(text[reader.file])

ReaderInv ==
    /\ AreFiles(text)
    /\ pc \in {"reading", "read", "merged", "loaded", "failed"}
    /\ status \in {"ok", "unknown_option", "invalid_value", "error"}
    /\ line \in Nat
    /\ reader = [file |-> reader.file, lineno |-> reader.lineno, includes |-> << >>]
    /\ reader.lineno \in Nat
    /\ parents \in Seq(FrameSet(text))
    /\ pc = "reading" => InFile /\ Len(parents) < MaxOpen
    /\ taken \in Seq(PlacesIn(text))

TextInv ==
    /\ IsPrefix(taken, TextInPlace.lines)
    /\ pc = "reading" => \E c : /\ Remaining(text, reader, parents, c)
                                /\ TextInPlace = Then(Whole(taken), c)
    /\ pc = "read" => TextInPlace.whole /\ taken = TextInPlace.lines

LEMMA PlaceContents ==
    ASSUME AreFiles(text)
    PROVE  TextInPlace \in Contents(PlacesIn(text))
<1>1. PICK d \in 0..MaxOpen : d = MaxOpen
  BY MaxOpenPositive
<1>2. PICK P, q : P = PlacesIn(text) /\ q = InPlace(text)[d]
  OBVIOUS
<1>3. PlaceOf(P, q)
  BY <1>2, PlaceIsPlace
<1> QED BY <1>1, <1>2, <1>3, FileContents DEF TextInPlace

LEMMA ReaderInit == Init => ReaderInv /\ TextInv
<1> SUFFICES ASSUME Init PROVE ReaderInv /\ TextInv
  OBVIOUS
<1>1. AreFiles(text)
  BY TextsAssumption DEF Init, AreFiles
<1>2. /\ reader = [file |-> Main, lineno |-> 0, includes |-> << >>]
      /\ parents = << >> /\ taken = << >> /\ status = "ok" /\ line = 0
      /\ pc = IF Main \in DOMAIN text THEN "reading" ELSE "failed"
  BY DEF Init, Opened
<1>3. reader.file = Main /\ reader.lineno = 0
  BY <1>2
<1>4. parents \in Seq(FrameSet(text)) /\ Len(parents) = 0 /\ taken \in Seq(PlacesIn(text))
  BY <1>2
<1>5. pc = "reading" => InFile /\ Len(parents) < MaxOpen
  <2> SUFFICES ASSUME pc = "reading" PROVE InFile /\ Len(parents) < MaxOpen
    OBVIOUS
  <2>1. Main \in DOMAIN text
    BY <1>2
  <2>2. Len(text[Main]) \in Nat
    BY <1>1, <2>1, FileLength
  <2> QED BY <1>3, <1>4, <2>1, <2>2, MaxOpenPositive DEF InFile
<1>6. ReaderInv
  <2>1. pc \in {"reading", "failed"}
    BY <1>2
  <2>2. reader = [file |-> reader.file, lineno |-> reader.lineno, includes |-> << >>]
    BY <1>2, <1>3
  <2> QED BY <1>1, <1>2, <1>3, <1>4, <1>5, <2>1, <2>2 DEF ReaderInv
<1>7. TextInPlace \in Contents(PlacesIn(text))
  BY <1>1, PlaceContents
<1>8. Then(Whole(taken), TextInPlace) = TextInPlace
  BY <1>2, <1>7, ThenEmpty
<1>9. IsPrefix(taken, TextInPlace.lines)
  BY <1>4, <1>7, <1>8, ThenPrefix
<1>10. pc = "reading" => \E c : /\ Remaining(text, reader, parents, c)
                                /\ TextInPlace = Then(Whole(taken), c)
  <2> SUFFICES ASSUME pc = "reading" PROVE Remaining(text, reader, parents, TextInPlace)
    BY <1>8
  <2>1. PICK f \in DOMAIN text : f = Main
    BY <1>2
  <2>2. Remaining(text, Opened(f), parents, FileText(f, InPlace(text)[MaxOpen]))
    BY <1>1, <1>2, RemainingBegin
  <2>3. reader = Opened(f)
    BY <1>2, <2>1 DEF Opened
  <2> QED BY <2>1, <2>2, <2>3 DEF TextInPlace
<1>11. pc # "read"
  BY <1>2
<1> QED BY <1>6, <1>9, <1>10, <1>11 DEF TextInv

\* mini_next skips blank lines.
LEMMA NumberIsNext ==
    ASSUME ReaderInv, pc = "reading", ~AtEof
    PROVE  /\ IsNext(text[reader.file], reader.lineno, Number)
           /\ Number \in Nat /\ Number <= Len(text[reader.file])
           /\ text[reader.file][Number].key # "Blank" /\ Line \in ToSet(text[reader.file])
<1>1. /\ AreFiles(text) /\ reader.file \in DOMAIN text /\ reader.lineno \in Nat
  BY DEF ReaderInv, InFile
<1>2. PICK ls : ls = text[reader.file]
  OBVIOUS
<1>3. Len(ls) \in Nat /\ DOMAIN ls = 1..Len(ls) /\ \A m \in 1..Len(ls) : ls[m] \in ToSet(ls)
  BY <1>1, <1>2, FileLength
<1>4. Ahead = {n \in 1..Len(ls) : n > reader.lineno /\ ls[n].key # "Blank"}
  BY <1>2, <1>3 DEF Ahead
<1>5. Ahead \in SUBSET Nat /\ Ahead # {}
  BY <1>3, <1>4 DEF AtEof
<1>6. \E n \in Ahead : \A m \in Ahead : n <= m
  BY <1>5, LeastNat
<1>7. Number \in Ahead /\ \A m \in Ahead : Number <= m
  BY <1>6 DEF Number
<1>8. \A m \in 1..Len(ls) : m > reader.lineno /\ m < Number => ls[m].key = "Blank"
  BY <1>3, <1>4, <1>5, <1>7
<1>9. Number \in 1..Len(ls) /\ Number > reader.lineno /\ ls[Number].key # "Blank"
  BY <1>4, <1>7
<1> QED BY <1>2, <1>3, <1>8, <1>9 DEF IsNext, Line

LEMMA EofIsLast ==
    ASSUME ReaderInv, pc = "reading", AtEof
    PROVE  \A m \in 1..Len(text[reader.file]) :
             m > reader.lineno => text[reader.file][m].key = "Blank"
<1>1. DOMAIN text[reader.file] = 1..Len(text[reader.file])
  BY FileLength DEF ReaderInv, InFile
<1> QED BY <1>1 DEF AtEof, Ahead

\* A line more was read.
LEMMA OneMore ==
    ASSUME NEW P, NEW s \in Seq(P), NEW e \in P, NEW a \in Contents(P)
    PROVE  Then(Whole(s), Then(Whole(<<e>>), a)) = Then(Whole(Append(s, e)), a)
<1>1. <<e>> \in Seq(P) /\ s \o <<e>> = Append(s, e)
  OBVIOUS
<1>2. PICK one \in Seq(P) : one = <<e>>
  BY <1>1
<1>3. Whole(s) \in Contents(P) /\ Whole(one) \in Contents(P)
  BY WholeContents
<1>4. Then(Whole(s), Then(Whole(one), a)) = Then(Then(Whole(s), Whole(one)), a)
  BY <1>3, ThenAssociates
<1>5. Then(Whole(s), Whole(one)) = Whole(s \o one)
  BY Zenon DEF Then, Whole
<1> QED BY <1>1, <1>2, <1>4, <1>5

LEMMA TextSame == text' = text => TextInPlace' = TextInPlace
BY DEF TextInPlace

\* A line that is taken is the next one of the text.
LEMMA TakesNext ==
    ASSUME ReaderInv, TextInv, Reads, Line.key # "Include", Advance, Takes,
           text' = text, parents' = parents, pc' \in {"reading", "failed"},
           status' \in {"ok", "unknown_option", "invalid_value", "error"}
    PROVE  ReaderInv' /\ TextInv'
<1>1. PICK n \in Nat : n = Number
  BY NumberIsNext DEF Reads
<1>2. /\ IsNext(text[reader.file], reader.lineno, n) /\ n <= Len(text[reader.file])
      /\ text[reader.file][n].key # "Blank" /\ Line = text[reader.file][n]
  BY <1>1, NumberIsNext DEF Reads, Line
<1>3. /\ AreFiles(text) /\ reader.file \in DOMAIN text /\ reader.lineno \in Nat
      /\ reader.lineno <= Len(text[reader.file]) /\ Len(parents) < MaxOpen
      /\ parents \in Seq(FrameSet(text)) /\ taken \in Seq(PlacesIn(text))
  BY DEF ReaderInv, InFile, Reads
<1>4. PICK f, r2 : f = reader.file /\ r2 = [reader EXCEPT !.lineno = n]
  OBVIOUS
<1>5. r2 = [file |-> f, lineno |-> n, includes |-> << >>]
  BY <1>4 DEF ReaderInv
<1>6. r2.file = f /\ r2.lineno = n
  BY <1>5
<1>7. reader' = r2 /\ line' = n /\ taken' = Append(taken, <<f, n>>)
  BY <1>1, <1>4 DEF Advance, CurrentLine, Takes
<1>8. PICK P, e : P = PlacesIn(text) /\ e = <<f, n>>
  OBVIOUS
<1>9. e \in P /\ taken \in Seq(P)
  <2>1. n \in 1..Len(text[f])
    BY <1>2, <1>4 DEF IsNext
  <2> QED BY <1>3, <1>4, <1>8, <2>1, FileLength
<1>10. taken' \in Seq(P)
  BY <1>7, <1>8, <1>9
<1>11. ReaderInv'
  <2>1. reader' = [file |-> reader'.file, lineno |-> reader'.lineno, includes |-> << >>]
    BY <1>5, <1>6, <1>7
  <2>2. InFile'
    BY <1>2, <1>3, <1>4, <1>6, <1>7 DEF InFile
  <2>3. taken' \in Seq(PlacesIn(text)') /\ parents' \in Seq(FrameSet(text)') /\ AreFiles(text)'
    BY <1>3, <1>8, <1>10
  <2>4. line' \in Nat /\ reader'.lineno \in Nat /\ Len(parents') < MaxOpen
    BY <1>3, <1>6, <1>7
  <2> QED BY <2>1, <2>2, <2>3, <2>4 DEF ReaderInv
<1>12. PICK c : /\ Remaining(text, reader, parents, c) /\ TextInPlace = Then(Whole(taken), c)
  BY DEF TextInv, Reads
<1>13. PICK c2 \in Contents(P) :
         Remaining(text, r2, parents, c2) /\ c = Then(Whole(<<e>>), c2)
  <2>1. text[reader.file][n].key \notin {"Blank", "Include"}
    BY <1>2
  <2>2. r2.file = reader.file /\ r2.lineno = n
    BY <1>4, <1>6
  <2>3. PICK t, r, ps : t = text /\ r = reader /\ ps = parents
    OBVIOUS
  <2>4. /\ AreFiles(t) /\ r.file \in DOMAIN t /\ r.lineno \in Nat /\ r.lineno <= Len(t[r.file])
        /\ ps \in Seq(FrameSet(t)) /\ Len(ps) < MaxOpen
    BY <1>3, <2>3
  <2>5. /\ Remaining(t, r, ps, c) /\ IsNext(t[r.file], r.lineno, n)
        /\ t[r.file][n].key \notin {"Blank", "Include"} /\ r2.file = r.file /\ r2.lineno = n
    BY <1>2, <1>12, <2>1, <2>2, <2>3
  <2>6. \E c2 \in Contents(PlacesIn(t)) :
          Remaining(t, r2, ps, c2) /\ c = Then(Whole(<<<<r.file, n>>>>), c2)
    BY <2>4, <2>5, RemainingTaken
  <2> QED BY <1>4, <1>8, <2>3, <2>6
<1>14. TextInPlace = Then(Whole(taken'), c2)
  BY <1>7, <1>8, <1>9, <1>12, <1>13, OneMore
<1>15. IsPrefix(taken', TextInPlace.lines)
  BY <1>10, <1>14, ThenPrefix
<1>16. TextInPlace' = TextInPlace
  BY TextSame
<1>17. Remaining(text, reader, parents, c2)'
  BY <1>7, <1>13
<1> QED BY <1>11, <1>14, <1>15, <1>16, <1>17 DEF TextInv

\* A reader that takes no line and fails, or is done with, has read what it had.
LEMMA TextStays ==
    ASSUME TextInv, text' = text, taken' = taken, pc' \notin {"reading", "read"}
    PROVE  TextInv'
<1>1. TextInPlace' = TextInPlace
  BY TextSame
<1> QED BY <1>1 DEF TextInv

LEMMA SectionReads == ReaderInv /\ TextInv /\ Section => ReaderInv' /\ TextInv'
<1> SUFFICES ASSUME ReaderInv, TextInv, Section PROVE ReaderInv' /\ TextInv'
  OBVIOUS
<1>1. Reads /\ Line.key # "Include" /\ Advance /\ Takes /\ text' = text /\ parents' = parents
  BY DEF Section, env
<1>2. pc' \in {"reading", "failed"}
      /\ status' \in {"ok", "unknown_option", "invalid_value", "error"}
  BY DEF Section, Returns
<1> QED BY <1>1, <1>2, TakesNext

LEMMA SettingReads == ReaderInv /\ TextInv /\ Setting => ReaderInv' /\ TextInv'
<1> SUFFICES ASSUME ReaderInv, TextInv, Setting PROVE ReaderInv' /\ TextInv'
  OBVIOUS
<1>1. Reads /\ Line.key # "Include" /\ Advance /\ Takes /\ text' = text /\ parents' = parents
  BY DEF Setting, env
<1>2. pc' \in {"reading", "failed"}
      /\ status' \in {"ok", "unknown_option", "invalid_value", "error"}
  BY DEF Setting, Returns
<1> QED BY <1>1, <1>2, TakesNext

LEMMA IncludeReads == ReaderInv /\ TextInv /\ Include => ReaderInv' /\ TextInv'
<1> SUFFICES ASSUME ReaderInv, TextInv, Include PROVE ReaderInv' /\ TextInv'
  OBVIOUS
<1>1. PICK n \in Nat : n = Number
  BY NumberIsNext DEF Reads, Include
<1>2. /\ IsNext(text[reader.file], reader.lineno, n) /\ n <= Len(text[reader.file])
      /\ Line = text[reader.file][n] /\ Line \in ToSet(text[reader.file])
      /\ Line.key = "Include" /\ n \in 1..Len(text[reader.file])
  BY <1>1, NumberIsNext DEF Reads, Line, Include, IsNext
<1>3. /\ AreFiles(text) /\ reader.file \in DOMAIN text /\ reader.lineno \in Nat
      /\ reader.lineno <= Len(text[reader.file])
      /\ parents \in Seq(FrameSet(text)) /\ taken \in Seq(PlacesIn(text))
  BY DEF ReaderInv, InFile, Reads, Include
<1>4. PICK v : v = Line.value
  OBVIOUS
<1>5. IsList(v) /\ v # << >> /\ ToSet(v) \subseteq Named(text)
  <2>1. IsList(v) /\ v # << >>
    BY <1>2, <1>3, <1>4 DEF AreFiles, IsFile, IsLine
  <2>2. ToSet(v) \subseteq Named(text)
    BY <1>2, <1>3, <1>4 DEF Named
  <2> QED BY <2>1, <2>2
<1>6. PICK S : S = Named(text)
  OBVIOUS
<1>7. v \in Seq(S)
  BY <1>5, <1>6, ListOfMembers
<1>8. PICK g \in DOMAIN text : g = Head(v)
  BY <1>4 DEF Include, CanOpen
<1>9. Len(parents) + 1 < MaxOpen
  <2>1. Len(<<reader>> \o parents) < MaxOpen
    BY DEF Include, CanOpen
  <2>2. PICK T : parents \in Seq(T) /\ reader \in T
    <3>1. parents \in Seq(FrameSet(text) \cup {reader})
      BY <1>3
    <3> QED BY <3>1
  <2>3. Len(<<reader>> \o parents) = Len(parents) + 1
    BY <2>2
  <2> QED BY <2>1, <2>3
<1>10. PICK p : p = [reader EXCEPT !.lineno = n, !.includes = Tail(v)]
  OBVIOUS
<1>11. p = [file |-> reader.file, lineno |-> n, includes |-> Tail(v)]
  BY <1>10 DEF ReaderInv
<1>12. p.file = reader.file /\ p.lineno = n /\ p.includes = Tail(v)
  BY <1>11
<1>13. p \in FrameSet(text)
  <2>1. Tail(v) \in Seq(S)
    BY <1>5, <1>7, HeadTailMembers
  <2>2. p \in [file : DOMAIN text, lineno : Nat, includes : Seq(S)]
    BY <1>3, <1>11, <2>1
  <2> QED BY <1>2, <1>6, <1>12, <2>2 DEF FrameSet
<1>14. /\ parents' = <<p>> \o parents /\ reader' = Opened(g) /\ line' = 0
       /\ pc' = "reading" /\ status' = "ok" /\ taken' = taken /\ text' = text
  BY <1>1, <1>4, <1>8, <1>10 DEF Include, Returns, env
<1>15. PICK c : /\ Remaining(text, reader, parents, c) /\ TextInPlace = Then(Whole(taken), c)
  BY DEF TextInv, Reads, Include
<1>16. <<p>> \o parents \in Seq(FrameSet(text)) /\ Remaining(text, Opened(g), <<p>> \o parents, c)
  <2>1. g = Head(text[reader.file][n].value) /\ p.includes = Tail(text[reader.file][n].value)
        /\ text[reader.file][n].key = "Include"
    BY <1>2, <1>4, <1>8, <1>12
  <2> QED BY <1>2, <1>3, <1>9, <1>12, <1>13, <1>15, <2>1, RemainingIncluded
<1>17. Len(parents') = Len(parents) + 1
  <2>1. PICK T : T = FrameSet(text)
    OBVIOUS
  <2>2. parents \in Seq(T) /\ p \in T
    BY <1>3, <1>13, <2>1
  <2>3. Len(<<p>> \o parents) = Len(parents) + 1
    BY <2>2
  <2> QED BY <1>14, <2>3
<1>18. ReaderInv'
  <2>1. reader' = [file |-> g, lineno |-> 0, includes |-> << >>]
    BY <1>14 DEF Opened
  <2>2. reader'.file = g /\ reader'.lineno = 0
    BY <2>1
  <2>3. reader' = [file |-> reader'.file, lineno |-> reader'.lineno, includes |-> << >>]
    BY <2>1, <2>2
  <2>4. InFile'
    BY <1>3, <1>14, <2>2, FileLength DEF InFile
  <2>5. AreFiles(text)' /\ parents' \in Seq(FrameSet(text)') /\ taken' \in Seq(PlacesIn(text)')
    BY <1>3, <1>14, <1>16
  <2> QED BY <1>9, <1>14, <1>17, <2>2, <2>3, <2>4, <2>5 DEF ReaderInv
<1>19. TextInPlace' = TextInPlace
  BY <1>14, TextSame
<1>20. Remaining(text, reader, parents, c)'
  BY <1>14, <1>16
<1>21. IsPrefix(taken, TextInPlace.lines)'
  BY <1>14, <1>19 DEF TextInv
<1>22. (\E d : Remaining(text, reader, parents, d) /\ TextInPlace = Then(Whole(taken), d))'
  BY <1>14, <1>15, <1>19, <1>20
<1> QED BY <1>14, <1>18, <1>21, <1>22 DEF TextInv

\* A reader that fails keeps the place it is in.
LEMMA FailsReads ==
    ASSUME ReaderInv, TextInv, pc' = "failed", status' = "error", text' = text, taken' = taken,
           parents' \in Seq(FrameSet(text)), line' \in Nat,
           reader' = [file |-> reader'.file, lineno |-> reader'.lineno, includes |-> << >>],
           reader'.lineno \in Nat
    PROVE  ReaderInv' /\ TextInv'
<1>1. AreFiles(text)' /\ parents' \in Seq(FrameSet(text)') /\ taken' \in Seq(PlacesIn(text)')
  BY DEF ReaderInv
<1>2. ReaderInv'
  BY <1>1 DEF ReaderInv
<1> QED BY <1>2, TextStays

LEMMA IncludeFailsReads == ReaderInv /\ TextInv /\ IncludeFails => ReaderInv' /\ TextInv'
<1> SUFFICES ASSUME ReaderInv, TextInv, IncludeFails PROVE ReaderInv' /\ TextInv'
  OBVIOUS
<1>1. PICK n \in Nat : n = Number
  BY NumberIsNext DEF Reads, IncludeFails
<1>2. /\ pc' = "failed" /\ status' = "error" /\ text' = text /\ taken' = taken /\ line' = n
      /\ parents' = parents /\ reader' = [reader EXCEPT !.lineno = n]
  BY <1>1 DEF IncludeFails, Returns, Advance, CurrentLine, env
<1>3. reader' = [file |-> reader.file, lineno |-> n, includes |-> << >>]
  BY <1>2 DEF ReaderInv
<1>4. reader'.file = reader.file /\ reader'.lineno = n
  BY <1>3
<1>5. parents' \in Seq(FrameSet(text))
  BY <1>2 DEF ReaderInv
<1> QED BY <1>2, <1>3, <1>4, <1>5, FailsReads

LEMMA ReadFailsReads == ReaderInv /\ TextInv /\ ReadFails => ReaderInv' /\ TextInv'
<1> SUFFICES ASSUME ReaderInv, TextInv, ReadFails PROVE ReaderInv' /\ TextInv'
  OBVIOUS
<1>1. /\ pc' = "failed" /\ status' = "error" /\ text' = text /\ taken' = taken /\ line' = line
      /\ parents' = parents /\ reader' = reader
  BY DEF ReadFails, Returns, env
<1> QED BY <1>1, FailsReads DEF ReaderInv

LEMMA BackToParentReads == ReaderInv /\ TextInv /\ BackToParent => ReaderInv' /\ TextInv'
<1> SUFFICES ASSUME ReaderInv, TextInv, BackToParent PROVE ReaderInv' /\ TextInv'
  OBVIOUS
<1>1. /\ pc = "reading" /\ AtEof /\ parents # << >> /\ Head(parents).includes = << >>
      /\ pc' = "reading" /\ status' = "ok" /\ text' = text /\ taken' = taken /\ line' = line
      /\ reader' = Head(parents) /\ parents' = Tail(parents)
  BY DEF BackToParent, Returns, Resumed, env
<1>2. /\ AreFiles(text) /\ reader.file \in DOMAIN text /\ reader.lineno \in Nat
      /\ reader.lineno <= Len(text[reader.file]) /\ Len(parents) < MaxOpen
      /\ parents \in Seq(FrameSet(text)) /\ taken \in Seq(PlacesIn(text)) /\ line \in Nat
  BY <1>1 DEF ReaderInv, InFile
<1>3. \A m \in 1..Len(text[reader.file]) : m > reader.lineno => text[reader.file][m].key = "Blank"
  BY <1>1, EofIsLast
<1>4. PICK c : /\ Remaining(text, reader, parents, c) /\ TextInPlace = Then(Whole(taken), c)
  BY <1>1 DEF TextInv
<1>5. /\ Head(parents) \in FrameSet(text) /\ Tail(parents) \in Seq(FrameSet(text))
      /\ Len(Tail(parents)) = Len(parents) - 1
      /\ Remaining(text, Head(parents), Tail(parents), c)
  <2>1. PICK t, r, ps : t = text /\ r = reader /\ ps = parents
    OBVIOUS
  <2>2. /\ AreFiles(t) /\ r.file \in DOMAIN t /\ r.lineno \in Nat /\ r.lineno <= Len(t[r.file])
        /\ ps \in Seq(FrameSet(t)) /\ Len(ps) < MaxOpen
    BY <1>2, <2>1
  <2>3. \A m \in 1..Len(t[r.file]) : m > r.lineno => t[r.file][m].key = "Blank"
    BY <1>3, <2>1
  <2>4. ps # << >> /\ Head(ps).includes = << >> /\ Remaining(t, r, ps, c)
    BY <1>1, <1>4, <2>1
  <2>5. /\ Head(ps) \in FrameSet(t) /\ Tail(ps) \in Seq(FrameSet(t))
        /\ Len(Tail(ps)) = Len(ps) - 1
        /\ Remaining(t, Head(ps), Tail(ps), c)
    BY <2>2, <2>3, <2>4, RemainingBack
  <2> QED BY <2>1, <2>5
<1>6. ReaderInv'
  <2>1. /\ Head(parents).file \in DOMAIN text /\ Head(parents).lineno \in Nat
        /\ Head(parents).lineno <= Len(text[Head(parents).file])
        /\ Head(parents) = [file |-> Head(parents).file, lineno |-> Head(parents).lineno,
                            includes |-> << >>]
    <3>1. PICK p \in FrameSet(text) : p = Head(parents)
      BY <1>5
    <3>2. p \in [file : DOMAIN text, lineno : Nat, includes : Seq(Named(text))]
          /\ p.lineno <= Len(text[p.file])
      BY DEF FrameSet
    <3>3. p.includes = << >>
      BY <1>1, <3>1
    <3>4. p = [file |-> p.file, lineno |-> p.lineno, includes |-> << >>]
      BY <3>2, <3>3
    <3> QED BY <3>1, <3>2, <3>4
  <2>2. InFile'
    BY <1>1, <2>1 DEF InFile
  <2>3. AreFiles(text)' /\ parents' \in Seq(FrameSet(text)') /\ taken' \in Seq(PlacesIn(text)')
    BY <1>1, <1>2, <1>5
  <2>4. Len(parents') < MaxOpen
    BY <1>1, <1>2, <1>5, MaxOpenPositive
  <2>5. reader' = [file |-> reader'.file, lineno |-> reader'.lineno, includes |-> << >>]
        /\ reader'.lineno \in Nat /\ line' \in Nat
    BY <1>1, <1>2, <2>1
  <2> QED BY <1>1, <2>2, <2>3, <2>4, <2>5 DEF ReaderInv
<1>7. TextInPlace' = TextInPlace
  BY <1>1, TextSame
<1>8. Remaining(text, reader, parents, c)'
  BY <1>1, <1>5
<1>9. IsPrefix(taken, TextInPlace.lines)'
  BY <1>1, <1>7 DEF TextInv
<1>10. (\E d : Remaining(text, reader, parents, d) /\ TextInPlace = Then(Whole(taken), d))'
  BY <1>1, <1>4, <1>7, <1>8
<1> QED BY <1>1, <1>6, <1>9, <1>10 DEF TextInv

LEMMA EofReads == ReaderInv /\ TextInv /\ Eof => ReaderInv' /\ TextInv'
<1> SUFFICES ASSUME ReaderInv, TextInv, Eof PROVE ReaderInv' /\ TextInv'
  OBVIOUS
<1>1. /\ pc = "reading" /\ AtEof /\ parents = << >>
      /\ pc' = "read" /\ status' = "ok" /\ text' = text /\ taken' = taken /\ line' = line
      /\ reader' = reader /\ parents' = parents
  BY DEF Eof, env
<1>2. /\ AreFiles(text) /\ reader.file \in DOMAIN text /\ reader.lineno \in Nat
      /\ reader.lineno <= Len(text[reader.file]) /\ taken \in Seq(PlacesIn(text))
  BY <1>1 DEF ReaderInv, InFile
<1>3. \A m \in 1..Len(text[reader.file]) : m > reader.lineno => text[reader.file][m].key = "Blank"
  BY <1>1, EofIsLast
<1>4. PICK c : /\ Remaining(text, reader, parents, c) /\ TextInPlace = Then(Whole(taken), c)
  BY <1>1 DEF TextInv
<1>5. c = Whole(<< >>)
  BY <1>1, <1>2, <1>3, <1>4, RemainingEnd
<1>6. TextInPlace = Whole(taken)
  <2>1. PICK P : P = PlacesIn(text)
    OBVIOUS
  <2>2. Whole(taken) \in Contents(P)
    BY <1>2, <2>1, WholeContents
  <2> QED BY <1>4, <1>5, <2>2, ThenEmpty
<1>7. TextInPlace.whole /\ taken = TextInPlace.lines
  BY <1>6, Zenon DEF Whole
<1>8. TextInPlace' = TextInPlace
  BY <1>1, TextSame
<1>9. ReaderInv'
  <2>1. AreFiles(text)' /\ parents' \in Seq(FrameSet(text)') /\ taken' \in Seq(PlacesIn(text)')
    BY <1>1 DEF ReaderInv
  <2> QED BY <1>1, <2>1 DEF ReaderInv
<1>10. IsPrefix(taken, TextInPlace.lines)'
  BY <1>1, <1>8 DEF TextInv
<1>11. (TextInPlace.whole /\ taken = TextInPlace.lines)'
  BY <1>1, <1>7, <1>8
<1> QED BY <1>1, <1>9, <1>10, <1>11 DEF TextInv

LEMMA FirstReplaced ==
    ASSUME NEW T, NEW s \in Seq(T), s # << >>, NEW x \in T
    PROVE  /\ [s EXCEPT ![1] = x] = <<x>> \o Tail(s)
           /\ Len(<<x>> \o Tail(s)) = Len(s) /\ Head(s) = s[1] /\ Head(s) \in T
           /\ <<x>> \o Tail(s) \in Seq(T)
<1>1. Len(s) \in Nat \ {0} /\ Tail(s) \in Seq(T) /\ Len(Tail(s)) = Len(s) - 1
      /\ \A i \in 1..Len(s) - 1 : Tail(s)[i] = s[i + 1]
  OBVIOUS
<1>2. PICK u \in Seq(T) : u = Tail(s)
  BY <1>1
<1>3. <<x>> \o u \in Seq(T) /\ Len(<<x>> \o u) = Len(u) + 1 /\ (<<x>> \o u)[1] = x
      /\ \A i \in 1..Len(u) + 1 : i # 1 => (<<x>> \o u)[i] = u[i - 1]
  OBVIOUS
<1>4. PICK v \in Seq(T) : v = <<x>> \o u
  BY <1>3
<1>5. PICK w : w = [s EXCEPT ![1] = x]
  OBVIOUS
<1>6. w \in Seq(T) /\ Len(w) = Len(s) /\ w[1] = x /\ \A i \in 1..Len(s) : i # 1 => w[i] = s[i]
  BY <1>1, <1>5
<1>7. Len(v) = Len(w)
  BY <1>1, <1>2, <1>3, <1>4, <1>6
<1>8. \A i \in 1..Len(v) : v[i] = w[i]
  <2> SUFFICES ASSUME NEW i \in 1..Len(v) PROVE v[i] = w[i]
    OBVIOUS
  <2>1. CASE i = 1
    BY <1>3, <1>4, <1>6, <2>1
  <2>2. CASE i # 1
    <3>1. i \in 1..Len(s) /\ i \in 1..Len(u) + 1 /\ i - 1 \in 1..Len(s) - 1
      BY <1>1, <1>2, <1>3, <1>4, <2>2
    <3>2. v[i] = u[i - 1] /\ w[i] = s[i] /\ u[i - 1] = s[i]
      BY <1>1, <1>2, <1>3, <1>4, <1>6, <2>2, <3>1
    <3> QED BY <3>2
  <2> QED BY <2>1, <2>2
<1>9. v = w
  <2>1. w \in Seq(T)
    BY <1>6
  <2> QED BY <1>7, <1>8, <2>1, SeqEqual
<1> QED BY <1>1, <1>2, <1>3, <1>4, <1>5, <1>7, <1>9

LEMMA NextIncludeReads == ReaderInv /\ TextInv /\ NextInclude => ReaderInv' /\ TextInv'
<1> SUFFICES ASSUME ReaderInv, TextInv, NextInclude PROVE ReaderInv' /\ TextInv'
  OBVIOUS
<1>1. PICK h, g : h = Head(parents) /\ g = Head(h.includes)
  OBVIOUS
<1>2. /\ pc = "reading" /\ AtEof /\ parents # << >> /\ h.includes # << >>
      /\ parents' = [parents EXCEPT ![1].includes = Tail(@)] /\ reader' = Opened(g)
      /\ Returns(IF CanOpen(g, parents) THEN "ok" ELSE "error")
      /\ text' = text /\ taken' = taken /\ line' = line
  BY <1>1 DEF NextInclude, Rest, env
<1>3. /\ AreFiles(text) /\ reader.file \in DOMAIN text /\ reader.lineno \in Nat
      /\ reader.lineno <= Len(text[reader.file]) /\ Len(parents) < MaxOpen
      /\ parents \in Seq(FrameSet(text)) /\ taken \in Seq(PlacesIn(text)) /\ line \in Nat
  BY <1>2 DEF ReaderInv, InFile
<1>4. PICK p : p = [h EXCEPT !.includes = Tail(@)]
  OBVIOUS
<1>5. h = parents[1] /\ h \in FrameSet(text) /\ 1 \in DOMAIN parents
  BY <1>1, <1>2, <1>3
<1>6. /\ p \in FrameSet(text) /\ p.file = h.file /\ p.lineno = h.lineno
      /\ p.includes = Tail(h.includes)
  <2>1. PICK S : S = Named(text)
    OBVIOUS
  <2>2. h \in [file : DOMAIN text, lineno : Nat, includes : Seq(S)] /\ h.lineno <= Len(text[h.file])
    BY <1>5, <2>1 DEF FrameSet
  <2>3. Tail(h.includes) \in Seq(S)
    BY <1>2, <2>2
  <2>4. /\ p \in [file : DOMAIN text, lineno : Nat, includes : Seq(S)]
        /\ p.file = h.file /\ p.lineno = h.lineno /\ p.includes = Tail(h.includes)
    BY <1>4, <2>2, <2>3
  <2> QED BY <2>1, <2>2, <2>4 DEF FrameSet
<1>7. parents' = [parents EXCEPT ![1] = p]
  BY <1>2, <1>4, <1>5
<1>8. /\ parents' = <<p>> \o Tail(parents) /\ parents' \in Seq(FrameSet(text))
      /\ Len(parents') = Len(parents)
  <2>1. PICK T, ps : T = FrameSet(text) /\ ps = parents
    OBVIOUS
  <2>2. /\ [ps EXCEPT ![1] = p] = <<p>> \o Tail(ps) /\ Len(<<p>> \o Tail(ps)) = Len(ps)
        /\ <<p>> \o Tail(ps) \in Seq(T)
    BY <1>2, <1>3, <1>6, <2>1, FirstReplaced
  <2> QED BY <1>7, <2>1, <2>2
<1>9. reader' = [file |-> g, lineno |-> 0, includes |-> << >>]
  BY <1>2 DEF Opened
<1>10. reader'.file = g /\ reader'.lineno = 0
  BY <1>9
<1>11. reader' = [file |-> reader'.file, lineno |-> reader'.lineno, includes |-> << >>]
  BY <1>9, <1>10
<1>12. CASE ~CanOpen(g, parents)
  <2>1. pc' = "failed" /\ status' = "error"
    BY <1>2, <1>12 DEF Returns
  <2> QED BY <1>2, <1>3, <1>8, <1>10, <1>11, <2>1, FailsReads
<1>13. CASE CanOpen(g, parents)
  <2>1. pc' = "reading" /\ status' = "ok" /\ g \in DOMAIN text
    BY <1>2, <1>13 DEF Returns, CanOpen
  <2>2. \A m \in 1..Len(text[reader.file]) :
          m > reader.lineno => text[reader.file][m].key = "Blank"
    BY <1>2, EofIsLast
  <2>3. PICK c : /\ Remaining(text, reader, parents, c) /\ TextInPlace = Then(Whole(taken), c)
    BY <1>2 DEF TextInv
  <2>4. Remaining(text, Opened(g), <<p>> \o Tail(parents), c)
    <3>1. PICK t, r, ps : t = text /\ r = reader /\ ps = parents
      OBVIOUS
    <3>2. /\ AreFiles(t) /\ r.file \in DOMAIN t /\ r.lineno \in Nat /\ r.lineno <= Len(t[r.file])
          /\ ps \in Seq(FrameSet(t)) /\ Len(ps) < MaxOpen
      BY <1>3, <3>1
    <3>3. \A m \in 1..Len(t[r.file]) : m > r.lineno => t[r.file][m].key = "Blank"
      BY <2>2, <3>1
    <3>4. /\ ps # << >> /\ Remaining(t, r, ps, c)
          /\ Head(ps).includes # << >> /\ g \in DOMAIN t /\ g = Head(Head(ps).includes)
      BY <1>1, <1>2, <2>1, <2>3, <3>1
    <3>5. /\ p \in FrameSet(t) /\ p.file = Head(ps).file /\ p.lineno = Head(ps).lineno
          /\ p.includes = Tail(Head(ps).includes)
      BY <1>1, <1>6, <3>1
    <3>6. Remaining(t, Opened(g), <<p>> \o Tail(ps), c)
      BY <3>2, <3>3, <3>4, <3>5, RemainingSwitched
    <3> QED BY <3>1, <3>6
  <2>5. ReaderInv'
    <3>1. InFile'
      BY <1>2, <1>3, <1>10, <2>1, FileLength DEF InFile
    <3>2. AreFiles(text)' /\ parents' \in Seq(FrameSet(text)') /\ taken' \in Seq(PlacesIn(text)')
      BY <1>2, <1>3, <1>8
    <3> QED BY <1>2, <1>3, <1>8, <1>10, <1>11, <2>1, <3>1, <3>2 DEF ReaderInv
  <2>6. TextInPlace' = TextInPlace
    BY <1>2, TextSame
  <2>7. Remaining(text, reader, parents, c)'
    BY <1>2, <1>8, <2>4
  <2>8. IsPrefix(taken, TextInPlace.lines)'
    BY <1>2, <2>6 DEF TextInv
  <2>9. (\E d : Remaining(text, reader, parents, d) /\ TextInPlace = Then(Whole(taken), d))'
    BY <1>2, <2>3, <2>6, <2>7
  <2> QED BY <2>1, <2>5, <2>8, <2>9 DEF TextInv
<1> QED BY <1>12, <1>13

\* After the reader is done with, the text and what was taken of it stay.
LEMMA DoneReads ==
    ASSUME ReaderInv, TextInv, MergeRead \/ ResolveRead
    PROVE  ReaderInv' /\ TextInv'
<1>1. /\ pc' \in {"merged", "loaded", "failed"} /\ text' = text /\ taken' = taken
      /\ reader' = reader /\ parents' = parents /\ status' = status /\ line' = line
  BY DEF MergeRead, ResolveRead, env, readerVars
<1>2. AreFiles(text)' /\ parents' \in Seq(FrameSet(text)') /\ taken' \in Seq(PlacesIn(text)')
  BY <1>1 DEF ReaderInv
<1>3. ReaderInv'
  BY <1>1, <1>2 DEF ReaderInv
<1> QED BY <1>1, <1>3, TextStays

LEMMA NothingReads == ReaderInv /\ TextInv /\ UNCHANGED vars => ReaderInv' /\ TextInv'
<1> SUFFICES ASSUME ReaderInv, TextInv, UNCHANGED vars PROVE ReaderInv' /\ TextInv'
  OBVIOUS
<1>1. /\ pc' = pc /\ text' = text /\ taken' = taken
      /\ reader' = reader /\ parents' = parents /\ status' = status /\ line' = line
  BY DEF vars, env, readerVars
<1>2. ReaderInv'
  BY <1>1 DEF ReaderInv, InFile
<1>3. TextInPlace' = TextInPlace
  BY <1>1, TextSame
<1>4. TextInv'
  BY <1>1, <1>3 DEF TextInv
<1> QED BY <1>2, <1>4

LEMMA Reading == Spec => [](ReaderInv /\ TextInv)
<1>1. ReaderInv /\ TextInv /\ [Next]_vars => ReaderInv' /\ TextInv'
  BY SectionReads, SettingReads, IncludeReads, IncludeFailsReads, ReadFailsReads,
     NextIncludeReads, BackToParentReads, EofReads, DoneReads, NothingReads
     DEF Next, Finished
<1> QED BY <1>1, ReaderInit, PTL DEF Spec

\* The reader returns the lines of the text with the includes in place, whatever the
\* files are: pu_config_reader_next, its calls of itself and its calls of mini_next.
THEOREM ReadingInPlace == Spec => []ReadsInPlace
<1>1. ReaderInv /\ TextInv => ReadsInPlace
  BY DEF TextInv, ReadsInPlace
<1> QED BY <1>1, Reading, PTL

-----------------------------------------------------------------------------
(***************************************************************************)
(* The lines that were taken, when there is one more.                      *)
(***************************************************************************)
Indices(n) == [i \in 1..n |-> i]
Mapped(q, v) == [j \in DOMAIN q |-> v[q[j]]]

LEMMA IndicesGrow ==
    ASSUME NEW n \in Nat
    PROVE  /\ Indices(n) \in Seq(1..n) /\ Indices(n) \in Seq(Nat) /\ Len(Indices(n)) = n
           /\ \A i \in 1..n : Indices(n)[i] = i
           /\ Indices(n + 1) = Append(Indices(n), n + 1)
<1>1. /\ Indices(n) \in Seq(1..n) /\ Indices(n) \in Seq(Nat) /\ Len(Indices(n)) = n
      /\ \A i \in 1..n : Indices(n)[i] = i
  BY DEF Indices
<1>2. /\ n + 1 \in Nat /\ Indices(n + 1) \in Seq(Nat) /\ Len(Indices(n + 1)) = n + 1
      /\ \A i \in 1..n + 1 : Indices(n + 1)[i] = i
  BY DEF Indices
<1>3. PICK s \in Seq(Nat), t \in Seq(Nat) : s = Indices(n) /\ t = Indices(n + 1)
  BY <1>1, <1>2
<1>4. Len(s) = n /\ Len(t) = n + 1 /\ t[n + 1] = n + 1 /\ n + 1 \in Nat
  BY <1>1, <1>2, <1>3
<1>5. \A i \in 1..n : t[i] = s[i]
  BY <1>1, <1>2, <1>3
<1>6. t = Append(s, n + 1)
  BY <1>4, <1>5, AppendEqual
<1> QED BY <1>1, <1>3, <1>6

LEMMA SelectGrows ==
    ASSUME NEW n \in Nat, NEW S, NEW R, \A i \in 1..n : i \in S <=> i \in R
    PROVE  /\ Select(Indices(n), S) \in Seq(1..n)
           /\ Select(Indices(n + 1), R) = With(Select(Indices(n), S), n + 1, R)
<1>1. PICK s : s = Indices(n)
  OBVIOUS
<1>2. s \in Seq(1..n) /\ s \in Seq(Nat) /\ Len(s) = n /\ \A i \in 1..n : s[i] = i
  BY <1>1, IndicesGrow
<1>3. Select(s, S) = Select(s, R)
  <2>1. \A i \in 1..Len(s) : s[i] \in S <=> s[i] \in R
    BY <1>2
  <2> QED BY <1>2, <2>1, SelectSame
<1>4. n + 1 \in Nat /\ Indices(n + 1) = Append(s, n + 1)
  <2>1. Indices(n + 1) = Append(Indices(n), n + 1)
    BY IndicesGrow, Zenon
  <2> QED BY <1>1, <2>1
<1>5. Select(Append(s, n + 1), R) = With(Select(s, R), n + 1, R)
  BY <1>2, <1>4, SelectAppend
<1>6. Select(s, S) \in Seq(1..n)
  BY <1>2, SelectList
<1> QED BY <1>1, <1>3, <1>4, <1>5, <1>6

LEMMA MappedGrows ==
    ASSUME NEW n \in Nat, NEW q \in Seq(1..n), NEW v, NEW w, \A i \in 1..n : w[i] = v[i],
           NEW e
    PROVE  /\ Mapped(q, w) = Mapped(q, v)
           /\ Mapped(Append(q, e), w) = Append(Mapped(q, v), w[e])
           /\ Len(Mapped(q, v)) = Len(q) /\ DOMAIN Mapped(q, v) = 1..Len(q)
<1>1. Len(q) \in Nat /\ DOMAIN q = 1..Len(q) /\ \A j \in 1..Len(q) : q[j] \in 1..n
  OBVIOUS
<1>2. DEFINE V == {w[e]} \cup {w[i] : i \in 1..n}
<1>3. Mapped(q, w) = Mapped(q, v)
  BY <1>1 DEF Mapped
<1>4. /\ Mapped(q, w) \in Seq(V) /\ Len(Mapped(q, w)) = Len(q)
      /\ \A j \in 1..Len(q) : Mapped(q, w)[j] = w[q[j]]
  BY <1>1 DEF Mapped
<1>5. /\ Append(q, e) \in Seq((1..n) \cup {e}) /\ Len(Append(q, e)) = Len(q) + 1
      /\ DOMAIN Append(q, e) = 1..(Len(q) + 1) /\ Append(q, e)[Len(q) + 1] = e
      /\ \A j \in 1..Len(q) : Append(q, e)[j] = q[j]
  BY <1>1
<1>6. PICK a : a = Append(q, e)
  OBVIOUS
<1>7. PICK m \in Nat : m = Len(q)
  BY <1>1
<1>8. DOMAIN a = 1..(m + 1) /\ a[m + 1] = e /\ \A j \in 1..m : a[j] = q[j]
  BY <1>5, <1>6, <1>7
<1>9. PICK t : t = Mapped(a, w)
  OBVIOUS
<1>10. t = [j \in 1..(m + 1) |-> w[a[j]]]
  BY <1>8, <1>9 DEF Mapped
<1>11. \A j \in 1..(m + 1) : w[a[j]] \in V
  <2> SUFFICES ASSUME NEW j \in 1..(m + 1) PROVE w[a[j]] \in V
    OBVIOUS
  <2>1. CASE j = m + 1
    BY <1>8, <2>1
  <2>2. CASE j # m + 1
    <3>1. j \in 1..m
      BY <2>2
    <3> QED BY <1>1, <1>7, <1>8, <3>1
  <2> QED BY <2>1, <2>2
<1>12. t \in Seq(V) /\ Len(t) = m + 1
  <2> HIDE DEF V
  <2> QED BY <1>10, <1>11
<1>13. t[m + 1] = w[e] /\ w[e] \in V
  BY <1>8, <1>10
<1>14. PICK s \in Seq(V) : s = Mapped(q, w)
  BY <1>4
<1>15. Len(s) = m /\ \A i \in 1..m : t[i] = s[i]
  <2>1. \A i \in 1..m : t[i] = w[q[i]] /\ s[i] = w[q[i]]
    BY <1>4, <1>7, <1>8, <1>10, <1>14
  <2> QED BY <1>4, <1>7, <1>14, <2>1
<1>16. t = Append(s, w[e])
  <2> HIDE DEF V
  <2> QED BY <1>12, <1>13, <1>15, AppendEqual
<1>17. Len(Mapped(q, v)) = Len(q) /\ DOMAIN Mapped(q, v) = 1..Len(q)
  BY <1>1, <1>3, <1>4 DEF Mapped
<1> QED BY <1>3, <1>6, <1>9, <1>14, <1>16, <1>17

\* The line l was taken when n had been taken.
Grows(n, l) ==
    /\ n \in Nat /\ Len(taken) = n /\ DOMAIN taken = 1..n
    /\ Len(taken') = n + 1 /\ DOMAIN taken' = 1..n + 1
    /\ \A i \in 1..n : TakenLine(i)' = TakenLine(i)
    /\ TakenLine(n + 1)' = l

LEMMA TakenGrow ==
    ASSUME ReaderInv, Reads, Takes, text' = text
    PROVE  \E n : Grows(n, Line)
<1>1. PICK m \in Nat : m = Number
  BY NumberIsNext DEF Reads
<1>2. PICK e : e = <<reader.file, m>>
  OBVIOUS
<1>3. e \in PlacesIn(text)
  <2>1. m \in Nat /\ reader.file \in DOMAIN text
    BY DEF Reads, ReaderInv, InFile
  <2> QED BY <1>2, <2>1 DEF PlacesIn
<1>4. PICK P : P = PlacesIn(text)
  OBVIOUS
<1>5. PICK s \in Seq(P) : s = taken
  BY <1>4 DEF ReaderInv
<1>6. taken' = Append(s, e)
  BY <1>1, <1>2, <1>5 DEF Takes
<1>7. PICK n \in Nat : n = Len(s)
  OBVIOUS
<1>8. /\ DOMAIN s = 1..n /\ Len(Append(s, e)) = n + 1 /\ DOMAIN Append(s, e) = 1..n + 1
      /\ Append(s, e)[n + 1] = e /\ \A i \in 1..n : Append(s, e)[i] = s[i]
  BY <1>3, <1>4, <1>7
<1>9. \A i \in 1..n : TakenLine(i)' = TakenLine(i)
  BY <1>5, <1>6, <1>8 DEF TakenLine
<1>10. TakenLine(n + 1)' = Line
  BY <1>1, <1>2, <1>6, <1>8 DEF TakenLine, Line
<1> QED BY <1>5, <1>6, <1>7, <1>8, <1>9, <1>10 DEF Grows

Current == HeaderOf(Len(taken))

LEMMA HeadersGrow ==
    ASSUME NEW n, NEW l, Grows(n, l)
    PROVE  /\ Headers \subseteq 1..n
           /\ Headers' = IF l.key = "Header" THEN Headers \cup {n + 1} ELSE Headers
<1>1. Headers \subseteq 1..n
  BY DEF Headers, Grows
<1>2. Headers' = {i \in 1..n + 1 : TakenLine(i)'.key = "Header"}
  BY DEF Headers, Grows
<1>3. \A i \in 1..n : i \in Headers' <=> i \in Headers
  <2> SUFFICES ASSUME NEW i \in 1..n PROVE i \in Headers' <=> i \in Headers
    OBVIOUS
  <2>1. TakenLine(i)' = TakenLine(i) /\ DOMAIN taken = 1..n /\ i \in 1..n + 1
    BY DEF Grows
  <2>2. i \in Headers <=> TakenLine(i).key = "Header"
    BY <2>1 DEF Headers
  <2>3. i \in Headers' <=> TakenLine(i)'.key = "Header"
    BY <1>2, <2>1
  <2> QED BY <2>1, <2>2, <2>3
<1>4. n + 1 \in Headers' <=> l.key = "Header"
  BY <1>2 DEF Grows
<1>5. Headers' \subseteq 1..n + 1 /\ n \in Nat
  BY <1>2 DEF Grows
<1>6. \A i \in 1..n + 1 : i \in 1..n \/ i = n + 1
  BY <1>5
<1>7. n + 1 \notin 1..n
  BY <1>5
<1>8. Headers' \subseteq (1..n) \cup {n + 1}
  BY <1>5, <1>6
<1>9. CASE l.key = "Header"
  <2>1. Headers' = Headers \cup {n + 1}
    BY <1>1, <1>3, <1>4, <1>8, <1>9
  <2> QED BY <1>1, <1>9, <2>1
<1>10. CASE l.key # "Header"
  <2>1. Headers' = Headers
    BY <1>1, <1>3, <1>4, <1>8, <1>10
  <2> QED BY <1>1, <1>10, <2>1
<1> QED BY <1>9, <1>10

LEMMA MaxIs ==
    ASSUME NEW n \in Nat, NEW H \in SUBSET (1..n), H # {}
    PROVE  Max(H) \in H /\ \A i \in H : i <= Max(H)
<1>1. H \subseteq Nat /\ \A i \in H : i <= n
  OBVIOUS
<1>2. PICK m \in H : \A i \in H : i <= m
  BY <1>1, GreatestNat
<1> QED BY <1>1, <1>2 DEF Max

LEMMA HeaderOfGrows ==
    ASSUME NEW n, NEW l, Grows(n, l)
    PROVE  /\ \A i \in 0..n : HeaderOf(i)' = HeaderOf(i) /\ HeaderOf(i) \in 0..n
           /\ HeaderOf(n + 1)' = IF l.key = "Header" THEN n + 1 ELSE HeaderOf(n)
           /\ HeaderOf(n) = 0 \/ HeaderOf(n) \in Headers
<1>1. n \in Nat
  BY DEF Grows
<1>2. ASSUME NEW i \in 0..n PROVE HeaderOf(i)' = HeaderOf(i) /\ HeaderOf(i) \in 0..n
  <2>1. {h \in Headers' : h <= i} = {h \in Headers : h <= i}
    BY <1>1, HeadersGrow
  <2>2. HeaderOf(i)' = HeaderOf(i)
    BY <2>1 DEF HeaderOf
  <2>3. HeaderOf(i) \in 0..n
    <3>1. PICK hs : hs = {h \in Headers : h <= i}
      OBVIOUS
    <3>2. hs \in SUBSET (1..n)
      BY <3>1, HeadersGrow
    <3>3. hs # {} => Max(hs) \in hs
      BY <1>1, <3>2, MaxIs
    <3> QED BY <1>1, <3>1, <3>2, <3>3 DEF HeaderOf
  <2> QED BY <2>2, <2>3
<1>3. ASSUME l.key = "Header" PROVE HeaderOf(n + 1)' = n + 1
  <2>1. PICK hs : hs = {h \in Headers' : h <= n + 1}
    OBVIOUS
  <2>2. hs \in SUBSET (1..n + 1) /\ n + 1 \in hs
    BY <1>1, <1>3, <2>1, HeadersGrow
  <2>3. Max(hs) \in hs /\ \A i \in hs : i <= Max(hs)
    <3>1. PICK m \in Nat : m = n + 1
      BY <1>1
    <3> QED BY <2>2, <3>1, MaxIs
  <2>4. PICK x : x = Max(hs)
    OBVIOUS
  <2>5. x \in 1..n + 1 /\ n + 1 <= x
    BY <2>2, <2>3, <2>4
  <2>6. x = n + 1
    BY <1>1, <2>5
  <2>7. HeaderOf(n + 1)' = IF hs = {} THEN 0 ELSE Max(hs)
    BY <2>1 DEF HeaderOf
  <2>8. HeaderOf(n + 1)' = n + 1
    BY <2>2, <2>4, <2>6, <2>7
  <2> QED BY <2>8
<1>4. ASSUME l.key # "Header" PROVE HeaderOf(n + 1)' = HeaderOf(n)
  <2>1. {h \in Headers' : h <= n + 1} = {h \in Headers : h <= n}
    BY <1>1, <1>4, HeadersGrow
  <2>2. HeaderOf(n + 1)' = HeaderOf(n)
    BY <2>1 DEF HeaderOf
  <2> QED BY <2>2
<1>5. HeaderOf(n) = 0 \/ HeaderOf(n) \in Headers
  <2>1. PICK hs : hs = {h \in Headers : h <= n}
    OBVIOUS
  <2>2. hs \in SUBSET (1..n)
    BY <2>1, HeadersGrow
  <2>3. hs # {} => Max(hs) \in hs
    BY <1>1, <2>2, MaxIs
  <2> QED BY <2>1, <2>3 DEF HeaderOf
<1> QED BY <1>1, <1>2, <1>3, <1>4, <1>5

LEMMA SectionOfGrows ==
    ASSUME NEW n, NEW l, Grows(n, l)
    PROVE  /\ \A i \in 0..n : SectionOf(i)' = SectionOf(i)
           /\ SectionOf(n + 1)' = IF l.key = "Header" THEN l.value ELSE SectionOf(n)
<1>1. n \in Nat
  BY DEF Grows
<1>2. ASSUME NEW i \in 0..n, NEW j, HeaderOf(j)' = HeaderOf(i)
      PROVE  SectionOf(j)' = SectionOf(i)
  <2>1. PICK h : h = HeaderOf(i)
    OBVIOUS
  <2>2. h \in 0..n
    BY <2>1, HeaderOfGrows
  <2>3. h # 0 => TakenLine(h)' = TakenLine(h)
    BY <1>1, <2>2 DEF Grows
  <2>4. SectionOf(i) = IF h = 0 THEN None ELSE TakenLine(h).value
    BY <2>1 DEF SectionOf
  <2>5. SectionOf(j)' = IF h = 0 THEN None ELSE TakenLine(h)'.value
    BY <1>2, <2>1 DEF SectionOf
  <2> QED BY <2>3, <2>4, <2>5
<1>3. \A i \in 0..n : SectionOf(i)' = SectionOf(i)
  BY <1>2, HeaderOfGrows
<1>4. ASSUME l.key = "Header" PROVE SectionOf(n + 1)' = l.value
  <2>1. HeaderOf(n + 1)' = n + 1
    BY <1>4, HeaderOfGrows
  <2>2. PICK m : m = n + 1
    OBVIOUS
  <2>3. HeaderOf(m)' = m /\ m # 0
    BY <1>1, <2>1, <2>2
  <2>4. SectionOf(m)' = TakenLine(m)'.value
    BY <2>3 DEF SectionOf
  <2>5. TakenLine(m)' = l
    BY <2>2 DEF Grows
  <2> QED BY <2>2, <2>4, <2>5
<1>5. ASSUME l.key # "Header" PROVE SectionOf(n + 1)' = SectionOf(n)
  <2>1. n \in 0..n /\ HeaderOf(n + 1)' = HeaderOf(n)
    BY <1>1, <1>5, HeaderOfGrows
  <2> QED BY <1>2, <2>1
<1> QED BY <1>3, <1>4, <1>5

\* Whether the line l that is taken is known.
KnowsNext(n, l) == l.key # "Header" /\ KnownIn(SectionOf(n), l)

LEMMA KnownGrows ==
    ASSUME NEW n, NEW l, Grows(n, l)
    PROVE  /\ \A i \in 1..n : i \in Known' <=> i \in Known
           /\ n + 1 \in Known' <=> KnowsNext(n, l)
           /\ \A i \in 1..n : i \in Headers' <=> i \in Headers
           /\ n + 1 \in Headers' <=> l.key = "Header"
<1>1. n \in Nat
  BY DEF Grows
<1>2. \A i \in 1..n : i \in Headers' <=> i \in Headers
  BY <1>1, HeadersGrow
<1>3. n + 1 \in Headers' <=> l.key = "Header"
  BY <1>1, HeadersGrow
<1>4. ASSUME NEW i \in 1..n PROVE i \in Known' <=> i \in Known
  <2>1. TakenLine(i)' = TakenLine(i) /\ DOMAIN taken = 1..n /\ DOMAIN taken' = 1..n + 1
        /\ i \in 1..n + 1
    BY DEF Grows
  <2>2. SectionOf(i)' = SectionOf(i)
    BY <1>1, SectionOfGrows
  <2>3. KnownIn(SectionOf(i), TakenLine(i))' <=> KnownIn(SectionOf(i), TakenLine(i))
    BY <2>1, <2>2 DEF KnownIn
  <2>4. i \in Known <=> i \notin Headers /\ KnownIn(SectionOf(i), TakenLine(i))
    BY <2>1 DEF Known
  <2>5. i \in Known' <=> i \notin Headers' /\ KnownIn(SectionOf(i), TakenLine(i))'
    BY <2>1 DEF Known
  <2> QED BY <1>2, <2>3, <2>4, <2>5
<1>5. n + 1 \in Known' <=> KnowsNext(n, l)
  <2>1. PICK m : m = n + 1
    OBVIOUS
  <2>2. TakenLine(m)' = l /\ m \in DOMAIN taken'
    BY <1>1, <2>1 DEF Grows
  <2>3. m \in Known' <=> m \notin Headers' /\ KnownIn(SectionOf(m), TakenLine(m))'
    BY <2>2 DEF Known
  <2>4. l.key # "Header" => SectionOf(m)' = SectionOf(n)
    BY <2>1, SectionOfGrows
  <2>5. l.key # "Header" => (KnownIn(SectionOf(m), TakenLine(m))' <=> KnownIn(SectionOf(n), l))
    BY <2>2, <2>4 DEF KnownIn
  <2> QED BY <1>3, <2>1, <2>3, <2>5 DEF KnowsNext
<1> QED BY <1>2, <1>3, <1>4, <1>5

LEMMA InOrderGrows ==
    ASSUME NEW n, NEW l, Grows(n, l), NEW S, NEW R, \A i \in 1..n : i \in R <=> i \in S,
           NEW q, q = InOrder(S)
    PROVE  /\ q \in Seq(1..n)
           /\ InOrder(R)' = IF n + 1 \in R THEN Append(q, n + 1) ELSE q
<1>1. n \in Nat /\ DOMAIN taken = 1..n /\ DOMAIN taken' = 1..n + 1
  BY DEF Grows
<1>2. InOrder(S) = Select(Indices(n), S) /\ InOrder(R)' = Select(Indices(n + 1), R)
  BY <1>1 DEF InOrder, Indices
<1>3. q = Select(Indices(n), S)
  BY <1>2
<1>4. q \in Seq(1..n) /\ Select(Indices(n + 1), R) = With(q, n + 1, R)
  BY <1>1, <1>3, SelectGrows
<1> QED BY <1>2, <1>4 DEF With

TakenValues == [i \in DOMAIN taken |-> TakenLine(i).value]

LEMMA ValuesGrow ==
    ASSUME NEW n, NEW l, Grows(n, l), NEW S, NEW R, \A i \in 1..n : i \in R <=> i \in S
    PROVE  ValuesAt(R)' = IF n + 1 \in R THEN Append(ValuesAt(S), l.value) ELSE ValuesAt(S)
<1>1. n \in Nat /\ DOMAIN taken = 1..n /\ DOMAIN taken' = 1..n + 1
  BY DEF Grows
<1>2. PICK q, q2 : q = InOrder(S) /\ q2 = InOrder(R)'
  OBVIOUS
<1>3. q \in Seq(1..n) /\ q2 = IF n + 1 \in R THEN Append(q, n + 1) ELSE q
  BY <1>2, InOrderGrows
<1>4. PICK v, w : v = [i \in DOMAIN taken |-> TakenLine(i).value]
                  /\ w = [i \in DOMAIN taken' |-> TakenLine(i)'.value]
  OBVIOUS
<1>5. (\A i \in 1..n : w[i] = v[i]) /\ w[n + 1] = l.value
  BY <1>1, <1>4 DEF Grows
<1>6. \A j \in DOMAIN q : q[j] \in 1..n /\ v[q[j]] = TakenLine(q[j]).value
  BY <1>1, <1>3, <1>4
<1>7. ValuesAt(S) = Mapped(q, v)
  BY <1>2, <1>6 DEF ValuesAt, Mapped
<1>8. \A j \in DOMAIN q2 : q2[j] \in 1..n + 1
  <2>1. q \in Seq(1..n + 1) /\ n + 1 \in 1..n + 1
    BY <1>1, <1>3
  <2>2. PICK T, e : T = 1..n + 1 /\ e = n + 1
    OBVIOUS
  <2>3. q \in Seq(T) /\ e \in T
    BY <2>1, <2>2
  <2>4. Append(q, e) \in Seq(T)
    BY <2>3
  <2>5. q2 \in Seq(T)
    BY <1>3, <2>2, <2>3, <2>4
  <2>6. \A j \in DOMAIN q2 : q2[j] \in T
    BY <2>5
  <2> QED BY <2>2, <2>6
<1>9. \A j \in DOMAIN q2 : w[q2[j]] = TakenLine(q2[j])'.value
  BY <1>1, <1>4, <1>8
<1>10. ValuesAt(R)' = Mapped(q2, w)
  BY <1>2, <1>9 DEF ValuesAt, Mapped
<1>11. Mapped(q, w) = Mapped(q, v) /\ Mapped(Append(q, n + 1), w) = Append(Mapped(q, v), w[n + 1])
  BY <1>1, <1>3, <1>5, MappedGrows
<1> QED BY <1>3, <1>5, <1>7, <1>10, <1>11

OptionPlaces(k) == {i \in Known : TakenLine(i).key = k /\ SectionOf(i) = "options"}
SectionPlaces(k, h) == {i \in Known : TakenLine(i).key = k /\ HeaderOf(i) = h}
RepoPlaces == {i \in Headers : TakenLine(i).value # "options"}
UnknownPlaces == DOMAIN taken \ (Headers \cup Known)

LEMMA OptionsGrow ==
    ASSUME NEW n, NEW l, Grows(n, l), NEW k
    PROVE  InOptions(k)' = IF KnowsNext(n, l) /\ l.key = k /\ SectionOf(n) = "options"
                             THEN Append(InOptions(k), l.value) ELSE InOptions(k)
<1>1. n \in Nat
  BY DEF Grows
<1>2. PICK S, R : S = OptionPlaces(k) /\ R = OptionPlaces(k)'
  OBVIOUS
<1>3. ASSUME NEW i \in 1..n PROVE i \in R <=> i \in S
  <2>1. TakenLine(i)' = TakenLine(i)
    BY DEF Grows
  <2>2. SectionOf(i)' = SectionOf(i)
    BY <1>1, SectionOfGrows
  <2>3. i \in Known' <=> i \in Known
    BY KnownGrows
  <2> QED BY <1>2, <2>1, <2>2, <2>3 DEF OptionPlaces
<1>4. n + 1 \in R <=> KnowsNext(n, l) /\ l.key = k /\ SectionOf(n) = "options"
  <2>1. PICK m : m = n + 1
    OBVIOUS
  <2>2. TakenLine(m)' = l
    BY <2>1 DEF Grows
  <2>3. m \in Known' <=> KnowsNext(n, l)
    BY <2>1, KnownGrows
  <2>4. KnowsNext(n, l) => SectionOf(m)' = SectionOf(n)
    BY <2>1, SectionOfGrows DEF KnowsNext
  <2>5. m \in R <=> m \in Known' /\ l.key = k /\ SectionOf(m)' = "options"
    BY <1>2, <2>2 DEF OptionPlaces
  <2> QED BY <2>1, <2>3, <2>4, <2>5
<1>5. InOptions(k) = ValuesAt(S) /\ InOptions(k)' = ValuesAt(R)'
  BY <1>2 DEF InOptions, OptionPlaces, ValuesAt, InOrder
<1>6. ValuesAt(R)' = IF n + 1 \in R THEN Append(ValuesAt(S), l.value) ELSE ValuesAt(S)
  BY <1>3, ValuesGrow
<1> QED BY <1>4, <1>5, <1>6

LEMMA SectionGrows ==
    ASSUME NEW n, NEW l, Grows(n, l), NEW k, NEW h
    PROVE  InSection(k, h)' = IF KnowsNext(n, l) /\ l.key = k /\ HeaderOf(n) = h
                                THEN Append(InSection(k, h), l.value) ELSE InSection(k, h)
<1>1. n \in Nat
  BY DEF Grows
<1>2. PICK S, R : S = SectionPlaces(k, h) /\ R = SectionPlaces(k, h)'
  OBVIOUS
<1>3. ASSUME NEW i \in 1..n PROVE i \in R <=> i \in S
  <2>1. TakenLine(i)' = TakenLine(i)
    BY DEF Grows
  <2>2. HeaderOf(i)' = HeaderOf(i)
    BY <1>1, HeaderOfGrows
  <2>3. i \in Known' <=> i \in Known
    BY KnownGrows
  <2> QED BY <1>2, <2>1, <2>2, <2>3 DEF SectionPlaces
<1>4. n + 1 \in R <=> KnowsNext(n, l) /\ l.key = k /\ HeaderOf(n) = h
  <2>1. PICK m : m = n + 1
    OBVIOUS
  <2>2. TakenLine(m)' = l
    BY <2>1 DEF Grows
  <2>3. m \in Known' <=> KnowsNext(n, l)
    BY <2>1, KnownGrows
  <2>4. KnowsNext(n, l) => HeaderOf(m)' = HeaderOf(n)
    BY <2>1, HeaderOfGrows DEF KnowsNext
  <2>5. m \in R <=> m \in Known' /\ l.key = k /\ HeaderOf(m)' = h
    BY <1>2, <2>2 DEF SectionPlaces
  <2> QED BY <2>1, <2>3, <2>4, <2>5
<1>5. InSection(k, h) = ValuesAt(S) /\ InSection(k, h)' = ValuesAt(R)'
  BY <1>2 DEF InSection, SectionPlaces, ValuesAt, InOrder
<1>6. ValuesAt(R)' = IF n + 1 \in R THEN Append(ValuesAt(S), l.value) ELSE ValuesAt(S)
  BY <1>3, ValuesGrow
<1> QED BY <1>4, <1>5, <1>6

LEMMA RepoHeadersGrow ==
    ASSUME NEW n, NEW l, Grows(n, l), NEW q, q = RepoHeaders
    PROVE  /\ q \in Seq(1..n)
           /\ RepoHeaders' = IF l.key = "Header" /\ l.value # "options"
                               THEN Append(q, n + 1) ELSE q
<1>1. n \in Nat
  BY DEF Grows
<1>2. PICK S, R : S = RepoPlaces /\ R = RepoPlaces'
  OBVIOUS
<1>3. ASSUME NEW i \in 1..n PROVE i \in R <=> i \in S
  <2>1. TakenLine(i)' = TakenLine(i)
    BY DEF Grows
  <2>2. i \in Headers' <=> i \in Headers
    BY KnownGrows
  <2> QED BY <1>2, <2>1, <2>2 DEF RepoPlaces
<1>4. n + 1 \in R <=> l.key = "Header" /\ l.value # "options"
  <2>1. PICK m : m = n + 1
    OBVIOUS
  <2>2. TakenLine(m)' = l
    BY <2>1 DEF Grows
  <2>3. m \in Headers' <=> l.key = "Header"
    BY <2>1, KnownGrows
  <2>4. m \in R <=> m \in Headers' /\ l.value # "options"
    BY <1>2, <2>2 DEF RepoPlaces
  <2> QED BY <2>1, <2>3, <2>4
<1>5. q = InOrder(S) /\ RepoHeaders' = InOrder(R)'
  BY <1>2 DEF RepoHeaders, RepoPlaces, InOrder
<1>6. q \in Seq(1..n) /\ InOrder(R)' = IF n + 1 \in R THEN Append(q, n + 1) ELSE q
  BY <1>3, <1>5, InOrderGrows
<1> QED BY <1>4, <1>5, <1>6

LEMMA UnknownGrow ==
    ASSUME NEW n, NEW l, Grows(n, l), NEW q, q = InOrder(UnknownPlaces)
    PROVE  /\ q \in Seq(1..n)
           /\ InOrder(UnknownPlaces)' = IF l.key # "Header" /\ ~KnownIn(SectionOf(n), l)
                                          THEN Append(q, n + 1) ELSE q
<1>1. n \in Nat /\ DOMAIN taken = 1..n /\ DOMAIN taken' = 1..n + 1
  BY DEF Grows
<1>2. PICK S, R : S = UnknownPlaces /\ R = UnknownPlaces'
  OBVIOUS
<1>3. ASSUME NEW i \in 1..n PROVE i \in R <=> i \in S
  <2>1. i \in DOMAIN taken /\ i \in DOMAIN taken'
    BY <1>1
  <2>2. (i \in Headers' <=> i \in Headers) /\ (i \in Known' <=> i \in Known)
    BY KnownGrows
  <2> QED BY <1>2, <2>1, <2>2 DEF UnknownPlaces
<1>4. n + 1 \in R <=> l.key # "Header" /\ ~KnownIn(SectionOf(n), l)
  <2>1. PICK m : m = n + 1
    OBVIOUS
  <2>2. m \in DOMAIN taken'
    BY <1>1, <2>1
  <2>3. (m \in Headers' <=> l.key = "Header") /\ (m \in Known' <=> KnowsNext(n, l))
    BY <2>1, KnownGrows
  <2>4. m \in R <=> m \notin Headers' /\ m \notin Known'
    BY <1>2, <2>2 DEF UnknownPlaces
  <2> QED BY <2>1, <2>3, <2>4 DEF KnowsNext
<1>5. q = InOrder(S) /\ InOrder(UnknownPlaces)' = InOrder(R)'
  BY <1>2 DEF UnknownPlaces, InOrder
<1>6. q \in Seq(1..n) /\ InOrder(R)' = IF n + 1 \in R THEN Append(q, n + 1) ELSE q
  BY <1>3, <1>5, InOrderGrows
<1> QED BY <1>4, <1>5, <1>6

-----------------------------------------------------------------------------
(***************************************************************************)
(* Signature levels: the words one after the other.                        *)
(***************************************************************************)
IsWord(w) == w.parts \subseteq {"Package", "Database"} /\ w.mode \in DOMAIN SetsOf
LevelRecords == [bits : SUBSET (SigBits \cup {UseDefault}), mask : SUBSET SigBits]
LevelFits(level, words) ==
    /\ level.mask = Said(words)
    /\ level.bits \ {UseDefault} = {b \in Said(words) : Says(words, b)}

LEMMA WordBits ==
    ASSUME NEW w, IsWord(w)
    PROVE  On(w) \subseteq SigBits /\ Off(w) \subseteq SigBits /\ On(w) \cap Off(w) = {}
           /\ KnownWord(w)
<1>1. PICK p, m : p = w.parts /\ m = w.mode
  OBVIOUS
<1>2. p \subseteq {"Package", "Database"} /\ m \in DOMAIN SetsOf
  BY <1>1 DEF IsWord
<1>3. m \in {"Never", "Optional", "Required", "TrustedOnly", "TrustAll"}
  BY <1>2 DEF SetsOf
<1>4. /\ SetsOf[m] \subseteq {"check", "optional", "marginal", "unknown"}
      /\ ClearsOf[m] \subseteq {"check", "optional", "marginal", "unknown"}
      /\ SetsOf[m] \cap ClearsOf[m] = {}
  BY <1>3 DEF SetsOf, ClearsOf
<1>5. PICK S, C : S = SetsOf[m] /\ C = ClearsOf[m]
  OBVIOUS
<1>6. On(w) = p \X S /\ Off(w) = p \X C
  BY <1>1, <1>5 DEF On, Off
<1>7. p \X S \subseteq SigBits /\ p \X C \subseteq SigBits
  BY <1>2, <1>4, <1>5 DEF SigBits
<1>8. (p \X S) \cap (p \X C) = {}
  BY <1>4, <1>5
<1> QED BY <1>1, <1>2, <1>6, <1>7, <1>8 DEF KnownWord

LEMMA DefaultIsNoBit == UseDefault \notin SigBits
BY DEF UseDefault, SigBits

LEMMA SaidEmpty == Said(<< >>) = {}
BY DEF Said, Mentions

LEMMA SaidAppend ==
    ASSUME NEW T, NEW ws \in Seq(T), NEW w, IsWord(w)
    PROVE  /\ Said(Append(ws, w)) = Said(ws) \cup On(w) \cup Off(w)
           /\ \A b \in On(w) \cup Off(w) : Says(Append(ws, w), b) <=> b \in On(w)
           /\ \A b \in Said(ws) : b \notin On(w) \cup Off(w)
                                    => (Says(Append(ws, w), b) <=> Says(ws, b))
<1>1. PICK n \in Nat : n = Len(ws) /\ DOMAIN ws = 1..n
  OBVIOUS
<1>2. PICK v : v = Append(ws, w)
  OBVIOUS
<1>3. DOMAIN v = 1..n + 1 /\ v[n + 1] = w /\ \A i \in 1..n : v[i] = ws[i]
  BY <1>1, <1>2
<1>4. ASSUME NEW b
      PROVE  Mentions(v, b) = IF b \in On(w) \cup Off(w) THEN Mentions(ws, b) \cup {n + 1}
                              ELSE Mentions(ws, b)
  <2>1. \A i \in 1..n + 1 : i \in 1..n \/ i = n + 1
    OBVIOUS
  <2>2. \A i \in 1..n : i \in Mentions(v, b) <=> i \in Mentions(ws, b)
    BY <1>1, <1>3 DEF Mentions
  <2>3. n + 1 \in Mentions(v, b) <=> b \in On(w) \cup Off(w)
    BY <1>3 DEF Mentions
  <2>4. Mentions(v, b) \subseteq 1..n + 1 /\ Mentions(ws, b) \subseteq 1..n
    BY <1>1, <1>3 DEF Mentions
  <2>5. PICK M, N : M = Mentions(v, b) /\ N = Mentions(ws, b)
    OBVIOUS
  <2>6. M \subseteq 1..n + 1 /\ N \subseteq 1..n /\ \A i \in 1..n : i \in M <=> i \in N
    BY <2>2, <2>4, <2>5
  <2>7. CASE b \in On(w) \cup Off(w)
    <3>1. M = N \cup {n + 1}
      BY <2>1, <2>3, <2>5, <2>6, <2>7
    <3> QED BY <2>5, <2>7, <3>1
  <2>8. CASE b \notin On(w) \cup Off(w)
    <3>1. M = N
      BY <2>1, <2>3, <2>5, <2>6, <2>8
    <3> QED BY <2>5, <2>8, <3>1
  <2> QED BY <2>7, <2>8
<1>5. ASSUME NEW b PROVE Mentions(ws, b) \in SUBSET (1..n) /\ n + 1 \notin Mentions(ws, b)
  BY <1>1 DEF Mentions
<1>6. On(w) \subseteq SigBits /\ Off(w) \subseteq SigBits
  BY WordBits
<1>7. ASSUME NEW b PROVE b \in Said(v) <=> b \in Said(ws) \/ b \in On(w) \cup Off(w)
  BY <1>4, <1>6 DEF Said
<1>8. Said(v) = Said(ws) \cup On(w) \cup Off(w)
  BY <1>7
<1>9. ASSUME NEW b \in On(w) \cup Off(w) PROVE Says(v, b) <=> b \in On(w)
  <2>1. PICK M, x : M = Mentions(v, b) /\ x = Max(M)
    OBVIOUS
  <2>2. PICK e \in Nat : e = n + 1
    OBVIOUS
  <2>3. M \in SUBSET (1..e) /\ e \in M
    BY <1>4, <1>5, <2>1, <2>2
  <2>4. x \in M /\ \A i \in M : i <= x
    BY <2>1, <2>3, MaxIs
  <2>5. x \in 1..e /\ e <= x
    BY <2>3, <2>4
  <2>6. x = e
    BY <2>5
  <2>7. v[x] = w
    BY <1>3, <2>2, <2>6
  <2> QED BY <2>1, <2>7 DEF Says
<1>10. ASSUME NEW b \in Said(ws), b \notin On(w) \cup Off(w) PROVE Says(v, b) <=> Says(ws, b)
  <2>1. PICK M, x : M = Mentions(ws, b) /\ x = Max(M)
    OBVIOUS
  <2>2. M \in SUBSET (1..n) /\ M # {}
    BY <1>5, <2>1 DEF Said
  <2>3. x \in 1..n
    BY <2>1, <2>2, MaxIs
  <2>4. v[x] = ws[x] /\ Mentions(v, b) = M
    BY <1>3, <1>4, <1>10, <2>1, <2>3
  <2> QED BY <2>1, <2>4 DEF Says
<1> QED BY <1>2, <1>8, <1>9, <1>10

LEMMA WordFits ==
    ASSUME NEW T, NEW ws \in Seq(T), NEW w, IsWord(w), NEW level, LevelFits(level, ws)
    PROVE  LevelFits(ApplyWord(level, w), Append(ws, w))
<1>1. PICK v, o, f : v = Append(ws, w) /\ o = On(w) /\ f = Off(w)
  OBVIOUS
<1>2. o \subseteq SigBits /\ f \subseteq SigBits /\ o \cap f = {} /\ KnownWord(w)
  BY <1>1, WordBits
<1>3. ApplyWord(level, w) = [bits |-> (level.bits \cup o) \ f, mask |-> level.mask \cup o \cup f]
  BY <1>1, <1>2 DEF ApplyWord
<1>4. ApplyWord(level, w).bits = (level.bits \cup o) \ f
      /\ ApplyWord(level, w).mask = level.mask \cup o \cup f
  BY <1>3
<1>5. /\ Said(v) = Said(ws) \cup o \cup f
      /\ \A b \in o \cup f : Says(v, b) <=> b \in o
      /\ \A b \in Said(ws) : b \notin o \cup f => (Says(v, b) <=> Says(ws, b))
  BY <1>1, SaidAppend
<1>6. UseDefault \notin o \cup f
  BY <1>2, DefaultIsNoBit
<1>7. ASSUME NEW b
      PROVE  b \in ((level.bits \cup o) \ f) \ {UseDefault} <=> b \in Said(v) /\ Says(v, b)
  <2>1. b \in level.bits \ {UseDefault} <=> b \in Said(ws) /\ Says(ws, b)
    BY DEF LevelFits
  <2>2. CASE b \in o \cup f
    BY <1>2, <1>5, <1>6, <2>2
  <2>3. CASE b \notin o \cup f
    BY <1>5, <2>1, <2>3
  <2> QED BY <2>2, <2>3
<1>8. ((level.bits \cup o) \ f) \ {UseDefault} = {b \in Said(v) : Says(v, b)}
  BY <1>7
<1> QED BY <1>1, <1>4, <1>5, <1>8 DEF LevelFits

Parses(f, words, level) ==
    /\ f[0] = level /\ \A n \in 1..Len(words) : f[n] = ApplyWord(f[n - 1], words[n])
    /\ ParseSigLevel(words, level) = [f[Len(words)] EXCEPT !.bits = @ \ {UseDefault}]

LEMMA ParseSteps ==
    ASSUME NEW T, \A w \in T : IsWord(w), NEW words \in Seq(T), NEW level \in LevelRecords
    PROVE  \E f \in [0..Len(words) -> LevelRecords] : Parses(f, words, level)
<1> DEFINE N == Len(words)
           V == LevelRecords
           step == [n \in 1..N |-> [l \in V |-> ApplyWord(l, words[n])]]
           F(g) == [n \in 0..N |-> IF n = 0 THEN level ELSE ApplyWord(g[n - 1], words[n])]
           g == CHOOSE g : g = F(g)
<1>1. N \in Nat
  OBVIOUS
<1>2. step \in [1..N -> [V -> V]]
  <2>1. ASSUME NEW n \in 1..N, NEW l \in V PROVE ApplyWord(l, words[n]) \in V
    <3>1. PICK w \in T : w = words[n]
      OBVIOUS
    <3>2. IsWord(w)
      OBVIOUS
    <3>3. On(w) \subseteq SigBits /\ Off(w) \subseteq SigBits
      BY <3>2, WordBits
    <3>4. l.bits \subseteq SigBits \cup {UseDefault} /\ l.mask \subseteq SigBits
      BY DEF LevelRecords
    <3>5. ApplyWord(l, w) \in V
      BY <3>3, <3>4 DEF LevelRecords, ApplyWord
    <3> QED BY <3>1, <3>5
  <2> QED BY <2>1
<1>3. PICK f \in [0..N -> V] : Recursive(f, N, level, step)
  <2> HIDE DEF step, N
  <2> QED BY <1>1, <1>2, RecursionExists
<1>4. ASSUME NEW n \in 1..N PROVE f[n] = ApplyWord(f[n - 1], words[n])
  <2>1. f[n - 1] \in V
    BY n - 1 \in 0..N
  <2>2. f[n] = step[n][f[n - 1]]
    BY <1>3 DEF Recursive
  <2> QED BY <2>1, <2>2
<1>5. f[0] = level
  BY <1>3 DEF Recursive
<1>6. f = F(f)
  <2>1. f = [n \in 0..N |-> f[n]]
    OBVIOUS
  <2>2. ASSUME NEW n \in 0..N
        PROVE  f[n] = IF n = 0 THEN level ELSE ApplyWord(f[n - 1], words[n])
    <3>1. n = 0 \/ n \in 1..N
      OBVIOUS
    <3> QED BY <1>4, <1>5, <3>1
  <2> QED BY <2>1, <2>2
<1>7. g = F(g)
  <2> HIDE DEF F
  <2> QED BY <1>6
<1>8. ParseSigLevel(words, level) = [g[N] EXCEPT !.bits = @ \ {UseDefault}]
  BY DEF ParseSigLevel
<1>9. g[N] = f[N]
  <2>1. g[0] = f[0]
    BY <1>1, <1>5, <1>7, 0 \in 0..N
  <2>2. ASSUME NEW n \in 1..N, g[n - 1] = f[n - 1] PROVE g[n] = f[n]
    <3>1. n \in 0..N /\ n # 0
      BY <1>1
    <3>2. g[n] = ApplyWord(g[n - 1], words[n])
      BY <1>7, <3>1
    <3> QED BY <1>4, <2>2, <3>2
  <2>3. Alike(g, f, N)
    <3> HIDE DEF g, N
    <3> QED BY <2>1, <2>2 DEF Alike
  <2>4. \A n \in 0..N : g[n] = f[n]
    <3> HIDE DEF g, N, F
    <3> QED BY <1>1, <2>3, SameAlong
  <2> QED BY <1>1, <2>4
<1>10. Parses(f, words, level)
  <2> HIDE DEF g, F, V, step
  <2> QED BY <1>4, <1>5, <1>8, <1>9 DEF Parses
<1> QED BY <1>10

\* A setting of a level says what its words say after those of the settings before it.
LEMMA ParseFits ==
    ASSUME NEW T, \A w \in T : IsWord(w), NEW words \in Seq(T), NEW level \in LevelRecords,
           NEW ws \in Seq(T), LevelFits(level, ws)
    PROVE  /\ ParseSigLevel(words, level) \in LevelRecords
           /\ LevelFits(ParseSigLevel(words, level), ws \o words)
           /\ UseDefault \notin ParseSigLevel(words, level).bits
<1>1. PICK f \in [0..Len(words) -> LevelRecords] : Parses(f, words, level)
  BY ParseSteps
<1>2. PICK N \in Nat : N = Len(words)
  OBVIOUS
<1>3. f \in [0..N -> LevelRecords] /\ f[0] = level
      /\ \A n \in 1..N : f[n] = ApplyWord(f[n - 1], words[n])
  BY <1>1, <1>2 DEF Parses
<1> DEFINE So(n) == ws \o SubSeq(words, 1, n)
           Good == {n \in Nat : n <= N => LevelFits(f[n], So(n)) /\ So(n) \in Seq(T)}
<1>4. 0 \in Good
  <2>1. SubSeq(words, 1, 0) = << >> /\ ws \o << >> = ws
    OBVIOUS
  <2> QED BY <1>3, <2>1
<1>5. ASSUME NEW n \in Nat, n \in Good PROVE n + 1 \in Good
  <2> SUFFICES ASSUME n + 1 <= N PROVE LevelFits(f[n + 1], So(n + 1)) /\ So(n + 1) \in Seq(T)
    BY <1>2
  <2>1. n <= N /\ n + 1 \in 1..N
    BY <1>2
  <2>2. LevelFits(f[n], So(n)) /\ So(n) \in Seq(T)
    BY <1>5, <2>1
  <2>3. PICK a, b, e : a = So(n) /\ b = SubSeq(words, 1, n) /\ e = words[n + 1]
    OBVIOUS
  <2>4. e \in T /\ IsWord(e)
    BY <1>2, <2>1, <2>3
  <2>5. SubSeq(words, 1, n + 1) = Append(b, e) /\ b \in Seq(T)
    <3>1. /\ SubSeq(words, 1, n + 1) \in Seq(T) /\ b \in Seq(T) /\ Len(b) = n
          /\ Len(SubSeq(words, 1, n + 1)) = n + 1
          /\ \A i \in 1..n : SubSeq(words, 1, n + 1)[i] = words[i] /\ b[i] = words[i]
          /\ SubSeq(words, 1, n + 1)[n + 1] = e
      BY <1>2, <2>1, <2>3
    <3>2. PICK t \in Seq(T) : t = SubSeq(words, 1, n + 1)
      BY <3>1
    <3>3. Len(t) = n + 1 /\ t[n + 1] = e /\ \A i \in 1..n : t[i] = b[i]
      BY <3>1, <3>2
    <3>4. t = Append(b, e)
      BY <2>4, <3>1, <3>3, AppendEqual
    <3> QED BY <3>1, <3>2, <3>4
  <2>6. ws \o Append(b, e) = Append(ws \o b, e)
    BY <2>4, <2>5
  <2>7. So(n + 1) = Append(a, e)
    BY <2>3, <2>5, <2>6
  <2>8. a \in Seq(T) /\ LevelFits(f[n], a)
    BY <2>2, <2>3
  <2>9. PICK l : l = f[n]
    OBVIOUS
  <2>10. LevelFits(ApplyWord(l, e), Append(a, e))
    BY <2>4, <2>8, <2>9, WordFits
  <2>11. f[n + 1] = ApplyWord(l, e)
    <3>1. f[n + 1] = ApplyWord(f[(n + 1) - 1], words[n + 1]) /\ (n + 1) - 1 = n
      BY <1>3, <2>1
    <3> QED BY <2>3, <2>9, <3>1
  <2>12. Append(a, e) \in Seq(T)
    BY <2>4, <2>8
  <2> QED BY <2>7, <2>10, <2>11, <2>12
<1>6. N \in Good
  <2>1. Good \subseteq Nat
    OBVIOUS
  <2> HIDE DEF Good
  <2> QED BY <1>4, <1>5, NatSetInduction
<1>7. PICK l \in LevelRecords : l = f[N]
  BY <1>2
<1>8. SubSeq(words, 1, N) = words
  BY <1>2
<1>9. LevelFits(l, ws \o words)
  BY <1>6, <1>7, <1>8
<1>10. PICK m : m = [l EXCEPT !.bits = @ \ {UseDefault}]
  OBVIOUS
<1>11. ParseSigLevel(words, level) = m
  BY <1>1, <1>2, <1>7, <1>10 DEF Parses
<1>12. m \in LevelRecords /\ m.bits = l.bits \ {UseDefault} /\ m.mask = l.mask
  BY <1>10 DEF LevelRecords
<1>13. LevelFits(m, ws \o words)
  BY <1>9, <1>12 DEF LevelFits
<1> QED BY <1>11, <1>12, <1>13

-----------------------------------------------------------------------------
(***************************************************************************)
(* What a setting changes.                                                 *)
(***************************************************************************)
IsConfig(c) ==
    /\ c = [str |-> c.str, list |-> c.list, flag |-> c.flag, level |-> c.level,
            cleanmethod |-> c.cleanmethod, paralleldownloads |-> c.paralleldownloads,
            repos |-> c.repos]
    /\ c.str = [k \in Strings |-> c.str[k]] /\ c.list = [k \in Lists |-> c.list[k]]
    /\ c.flag = [k \in Flags |-> c.flag[k]] /\ c.level = [k \in Levels |-> c.level[k]]

IsRepo(r) ==
    /\ r = [name |-> r.name, server |-> r.server, usage |-> r.usage, level |-> r.level]
    /\ r.server = [k \in ServerLists |-> r.server[k]]

LEMMA NewIsConfig ==
    /\ IsConfig(NewConfig) /\ NewConfig.repos = << >>
    /\ (\A k \in Strings : NewConfig.str[k] = None) /\ (\A k \in Lists : NewConfig.list[k] = << >>)
    /\ (\A k \in Flags : NewConfig.flag[k] = Unset)
    /\ \A k \in Levels : NewConfig.level[k] = [bits |-> {UseDefault}, mask |-> {}]
BY Zenon DEF NewConfig, IsConfig

LEMMA NewIsRepo ==
    ASSUME NEW name
    PROVE  /\ IsRepo(NewRepo(name)) /\ NewRepo(name).name = name
           /\ \A k \in ServerLists : NewRepo(name).server[k] = << >>
           /\ NewRepo(name).level = [bits |-> {UseDefault}, mask |-> {}]
BY Zenon DEF NewRepo, IsRepo

KindsOfKeys ==
    /\ FirstWins \cap LastWins = {} /\ Strings \cap Lists = {} /\ Strings \cap Flags = {}
    /\ Strings \cap Levels = {} /\ Lists \cap Flags = {} /\ Lists \cap Levels = {}
    /\ Flags \cap Levels = {} /\ ServerLists \cap Levels = {}
    /\ "SigLevel" \in Levels /\ "Usage" \notin Levels \cup ServerLists
    /\ {"CleanMethod", "ParallelDownloads"} \cap (Strings \cup Lists \cup Flags \cup Levels) = {}
    /\ Strings = FirstWins \cup LastWins

LEMMA KeysDiffer == KindsOfKeys
BY DEF KindsOfKeys, Strings, FirstWins, LastWins, Lists, Flags, Levels, ServerLists

\* What a setting of [options] makes of the configuration.
LEMMA SetsOption ==
    ASSUME NEW c, IsConfig(c), NEW l, KnownIn("options", l), NEW d, d = SetInOptions(c, l)
    PROVE  /\ IsConfig(d) /\ d.repos = c.repos
           /\ \A k \in FirstWins :
                d.str[k] = IF l.key = k /\ c.str[k] = None THEN l.value ELSE c.str[k]
           /\ \A k \in LastWins : d.str[k] = IF l.key = k THEN l.value ELSE c.str[k]
           /\ \A k \in Lists :
                d.list[k] = IF l.key = k THEN c.list[k] \o l.value ELSE c.list[k]
           /\ \A k \in Flags : d.flag[k] = IF l.key = k THEN 1 ELSE c.flag[k]
           /\ \A k \in Levels :
                d.level[k] = IF l.key = k THEN ParseSigLevel(l.value, c.level[k]) ELSE c.level[k]
<1>1. l.key \in Strings \cup Lists \cup Flags \cup Levels \cup {"CleanMethod", "ParallelDownloads"}
  BY DEF KnownIn
<1>2. PICK key, v : key = l.key /\ v = l.value
  OBVIOUS
<1>3. CASE key \in FirstWins
  <2>1. d = [c EXCEPT !.str[key] = IF @ = None THEN v ELSE @]
    BY <1>2, <1>3, KeysDiffer DEF SetInOptions, KindsOfKeys
  <2>2. PICK x, f : x = (IF c.str[key] = None THEN v ELSE c.str[key]) /\ f = [c.str EXCEPT ![key] = x]
    OBVIOUS
  <2>3. d = [c EXCEPT !.str = f]
    BY <2>1, <2>2
  <2>4. d.str = f /\ IsConfig(d)
        /\ d.list = c.list /\ d.flag = c.flag /\ d.level = c.level /\ d.repos = c.repos
    <3>1. f = [k \in Strings |-> f[k]]
      BY <2>2 DEF IsConfig
    <3> QED BY <2>3, <3>1 DEF IsConfig
  <2>5. \A k \in Strings : f[k] = IF k = key THEN x ELSE c.str[k]
    BY <1>3, <2>2, KeysDiffer DEF IsConfig, KindsOfKeys
  <2> QED BY <1>2, <1>3, <2>2, <2>4, <2>5, KeysDiffer DEF KindsOfKeys
<1>4. CASE key \in LastWins
  <2>1. d = [c EXCEPT !.str[key] = v]
    BY <1>2, <1>4, KeysDiffer DEF SetInOptions, KindsOfKeys
  <2>2. PICK x, f : x = (v) /\ f = [c.str EXCEPT ![key] = x]
    OBVIOUS
  <2>3. d = [c EXCEPT !.str = f]
    BY <2>1, <2>2
  <2>4. d.str = f /\ IsConfig(d)
        /\ d.list = c.list /\ d.flag = c.flag /\ d.level = c.level /\ d.repos = c.repos
    <3>1. f = [k \in Strings |-> f[k]]
      BY <2>2 DEF IsConfig
    <3> QED BY <2>3, <3>1 DEF IsConfig
  <2>5. \A k \in Strings : f[k] = IF k = key THEN x ELSE c.str[k]
    BY <1>4, <2>2, KeysDiffer DEF IsConfig, KindsOfKeys
  <2> QED BY <1>2, <1>4, <2>2, <2>4, <2>5, KeysDiffer DEF KindsOfKeys
<1>5. CASE key \in Lists
  <2>1. d = [c EXCEPT !.list[key] = @ \o v]
    BY <1>2, <1>5, KeysDiffer DEF SetInOptions, KindsOfKeys
  <2>2. PICK x, f : x = (c.list[key] \o v) /\ f = [c.list EXCEPT ![key] = x]
    OBVIOUS
  <2>3. d = [c EXCEPT !.list = f]
    BY <2>1, <2>2
  <2>4. d.list = f /\ IsConfig(d)
        /\ d.str = c.str /\ d.flag = c.flag /\ d.level = c.level /\ d.repos = c.repos
    <3>1. f = [k \in Lists |-> f[k]]
      BY <2>2 DEF IsConfig
    <3> QED BY <2>3, <3>1 DEF IsConfig
  <2>5. \A k \in Lists : f[k] = IF k = key THEN x ELSE c.list[k]
    BY <1>5, <2>2, KeysDiffer DEF IsConfig, KindsOfKeys
  <2>6. \A k \in Strings \cup Flags \cup Levels : key # k
    BY <1>5, KeysDiffer DEF KindsOfKeys
  <2>7. FirstWins \subseteq Strings /\ LastWins \subseteq Strings
    BY KeysDiffer DEF KindsOfKeys
  <2> QED BY <1>2, <1>5, <2>2, <2>4, <2>5, <2>6, <2>7
<1>6. CASE key \in Flags
  <2>1. d = [c EXCEPT !.flag[key] = 1]
    BY <1>2, <1>6, KeysDiffer DEF SetInOptions, KindsOfKeys
  <2> QED BY <1>2, <1>6, <2>1, KeysDiffer DEF KindsOfKeys, IsConfig
<1>7. CASE key \in Levels
  <2>1. d = [c EXCEPT !.level[key] = ParseSigLevel(v, @)]
    BY <1>2, <1>7, KeysDiffer DEF SetInOptions, KindsOfKeys
  <2> QED BY <1>2, <1>7, <2>1, KeysDiffer DEF KindsOfKeys, IsConfig
<1>8. CASE key = "CleanMethod"
  <2>1. d = [c EXCEPT !.cleanmethod = ParseCleanMethod(v, @)]
    BY <1>2, <1>8, KeysDiffer DEF SetInOptions, KindsOfKeys
  <2> QED BY <1>2, <1>8, <2>1, KeysDiffer DEF KindsOfKeys, IsConfig
<1>9. CASE key = "ParallelDownloads"
  <2>1. d = [c EXCEPT !.paralleldownloads = IF Head(v) >= 1 THEN Head(v) ELSE @]
    BY <1>2, <1>9, KeysDiffer DEF SetInOptions, KindsOfKeys
  <2> QED BY <1>2, <1>9, <2>1, KeysDiffer DEF KindsOfKeys, IsConfig
<1> QED BY <1>1, <1>2, <1>3, <1>4, <1>5, <1>6, <1>7, <1>8, <1>9, KeysDiffer DEF KindsOfKeys

\* What a setting in the section of a repository makes of it.
LEMMA SetsRepo ==
    ASSUME NEW r, IsRepo(r), NEW s, s \notin {None, "options"}, NEW l, KnownIn(s, l),
           NEW q, q = SetInRepo(r, l)
    PROVE  /\ IsRepo(q) /\ q.name = r.name
           /\ \A k \in ServerLists :
                q.server[k] = IF l.key = k THEN Append(r.server[k], l.value) ELSE r.server[k]
           /\ q.level = IF l.key = "SigLevel" THEN ParseSigLevel(l.value, r.level) ELSE r.level
<1>1. l.key \in ServerLists \cup {"SigLevel", "Usage"}
  BY DEF KnownIn
<1>2. PICK key, v : key = l.key /\ v = l.value
  OBVIOUS
<1>3. CASE key \in ServerLists
  <2>1. q = [r EXCEPT !.server[key] = Append(@, v)]
    BY <1>2, <1>3, KeysDiffer DEF SetInRepo, KindsOfKeys
  <2>2. PICK x, f : x = Append(r.server[key], v) /\ f = [r.server EXCEPT ![key] = x]
    OBVIOUS
  <2>3. q = [r EXCEPT !.server = f]
    BY <2>1, <2>2
  <2>4. /\ q.server = f /\ IsRepo(q) /\ q.name = r.name /\ q.level = r.level
    <3>1. f = [k \in ServerLists |-> f[k]]
      BY <2>2 DEF IsRepo
    <3> QED BY <2>3, <3>1 DEF IsRepo
  <2>5. \A k \in ServerLists : f[k] = IF k = key THEN x ELSE r.server[k]
    BY <1>3, <2>2 DEF IsRepo
  <2> QED BY <1>2, <1>3, <2>2, <2>4, <2>5, KeysDiffer DEF KindsOfKeys
<1>4. CASE key = "SigLevel"
  <2>1. q = [r EXCEPT !.level = ParseSigLevel(v, @)]
    BY <1>2, <1>4, KeysDiffer DEF SetInRepo, KindsOfKeys
  <2> QED BY <1>2, <1>4, <2>1, KeysDiffer DEF KindsOfKeys, IsRepo
<1>5. CASE key = "Usage"
  <2>1. q = [r EXCEPT !.usage = ParseUsage(v, @)]
    BY <1>2, <1>5, KeysDiffer DEF SetInRepo, KindsOfKeys
  <2> QED BY <1>2, <1>5, <2>1, KeysDiffer DEF KindsOfKeys, IsRepo
<1> QED BY <1>1, <1>2, <1>3, <1>4, <1>5

LEMMA NewLevelIs ==
    LET new == [bits |-> {UseDefault}, mask |-> {}] IN
    new \in LevelRecords /\ LevelIs(new, << >>)
<1>1. PICK new : new = [bits |-> {UseDefault}, mask |-> {}]
  OBVIOUS
<1>2. new.bits = {UseDefault} /\ new.mask = {} /\ new \in LevelRecords
  BY <1>1 DEF LevelRecords
<1>3. LevelIs(new, << >>)
  BY <1>2, FlattenEmpty, SaidEmpty DEF LevelIs
<1> QED BY <1>1, <1>2, <1>3

LEMMA LevelGrows ==
    ASSUME NEW T, \A w \in T : IsWord(w), NEW level \in LevelRecords,
           NEW values \in Seq(Seq(T)), LevelIs(level, values), NEW v \in Seq(T)
    PROVE  /\ ParseSigLevel(v, level) \in LevelRecords
           /\ LevelIs(ParseSigLevel(v, level), Append(values, v))
<1>1. PICK ws : ws = FlattenSeq(values)
  OBVIOUS
<1>2. ws \in Seq(T) /\ FlattenSeq(Append(values, v)) = ws \o v
  BY <1>1, FlattenAppend
<1>3. level.mask = Said(ws) /\ level.bits = IF values = << >> THEN {UseDefault}
                                            ELSE {b \in Said(ws) : Says(ws, b)}
  BY <1>1 DEF LevelIs
<1>4. Said(ws) \subseteq SigBits
  BY DEF Said
<1>5. level.bits \ {UseDefault} = {b \in Said(ws) : Says(ws, b)}
  <2>1. CASE values = << >>
    <3>1. Said(ws) = {}
      BY <1>1, <2>1, FlattenEmpty, SaidEmpty
    <3> QED BY <1>3, <2>1, <3>1
  <2>2. CASE values # << >>
    BY <1>3, <1>4, <2>2, DefaultIsNoBit
  <2> QED BY <2>1, <2>2
<1>6. LevelFits(level, ws)
  BY <1>3, <1>5 DEF LevelFits
<1>7. PICK p : p = ParseSigLevel(v, level)
  OBVIOUS
<1>8. p \in LevelRecords /\ LevelFits(p, ws \o v) /\ UseDefault \notin p.bits
  BY <1>2, <1>6, <1>7, ParseFits
<1>9. p.bits = p.bits \ {UseDefault}
  BY <1>8
<1>10. Append(values, v) # << >>
  BY AppendProperties
<1>11. LevelIs(p, Append(values, v))
  BY <1>2, <1>8, <1>9, <1>10 DEF LevelIs, LevelFits
<1> QED BY <1>7, <1>8, <1>11

-----------------------------------------------------------------------------
(***************************************************************************)
(* The configuration and the lines it was read from.                       *)
(***************************************************************************)
AllLines == UNION {ToSet(text[f]) : f \in DOMAIN text}
AllValues == {l.value : l \in AllLines}
Items == UNION {ToSet(l.value) :
                l \in {l \in AllLines : l.key \in Lists \cup Levels /\ l.value # None}}
GoodWords == {w \in Items : IsWord(w)}

OptionsTyped ==
    /\ \A k \in Strings : InOptions(k) \in Seq(AllValues)
    /\ \A k \in Flags : InOptions(k) \in Seq(AllValues)
    /\ \A k \in FirstWins : InOptions(k) # << >> => Head(InOptions(k)) # None
    /\ \A k \in Lists : InOptions(k) \in Seq(Seq(Items))
LevelsTyped ==
    /\ \A k \in Levels : InOptions(k) \in Seq(Seq(GoodWords)) /\ config.level[k] \in LevelRecords
    /\ \A h : InSection("SigLevel", h) \in Seq(Seq(GoodWords))
    /\ \A r \in DOMAIN config.repos : config.repos[r].level \in LevelRecords
ReposTyped ==
    /\ IsConfig(config)
    /\ IsList(config.repos) /\ \A r \in DOMAIN config.repos : IsRepo(config.repos[r])
SectionInv ==
    /\ section = SectionOf(Len(taken))
    /\ Len(config.repos) = Len(RepoHeaders)
    /\ \A i, j \in 1..Len(RepoHeaders) : i # j => RepoHeaders[i] # RepoHeaders[j]
    /\ section \in {None, "options"} => repo = 0
    /\ section \notin {None, "options"} =>
         /\ repo = Len(config.repos) /\ repo # 0
         /\ config.repos[repo].name = section /\ RepoHeaders[repo] = HeaderOf(Len(taken))

LEMMA GoodAreWords == \A w \in GoodWords : IsWord(w)
BY DEF GoodWords

LEMMA ValidWords ==
    ASSUME NEW l, l.key \in Levels, IsLine(l), l \in AllLines, l.value # None,
           Valid(l.key, l.value)
    PROVE  l.value \in Seq(GoodWords)
<1>1. PICK v : v = l.value
  OBVIOUS
<1>2. \A w \in ToSet(v) : KnownWord(w)
  <2>1. PICK k : k = l.key
    OBVIOUS
  <2>2. Valid(k, v) <=> \A w \in ToSet(v) : KnownWord(w)
    BY <2>1, KeysDiffer DEF Valid, KindsOfKeys
  <2> QED BY <1>1, <2>1, <2>2
<1>3. IsList(v) /\ \A w \in ToSet(v) : w.parts \subseteq {"Package", "Database"}
  BY <1>1 DEF IsLine
<1>4. ToSet(v) \subseteq Items
  BY <1>1 DEF Items
<1>5. ToSet(v) \subseteq GoodWords
  BY <1>2, <1>3, <1>4 DEF GoodWords, IsWord, KnownWord
<1>6. PICK T : T = GoodWords
  OBVIOUS
<1> QED BY <1>1, <1>3, <1>5, <1>6, ListOfMembers

LEMMA ListValue ==
    ASSUME NEW l, l.key \in Lists, IsLine(l), l \in AllLines, l.value # None
    PROVE  l.value \in Seq(Items)
<1>1. PICK v, T : v = l.value /\ T = Items
  OBVIOUS
<1>2. IsList(v) /\ ToSet(v) \subseteq T
  BY <1>1 DEF IsLine, Items
<1> QED BY <1>1, <1>2, ListOfMembers

\* A line of [options] that is known.
LEMMA OptionMeans ==
    ASSUME NEW n, NEW l, Grows(n, l), l \in AllLines, IsLine(l), text' = text,
           SectionOf(n) = "options", KnownIn("options", l), l.key # "Header",
           IsConfig(config), config' = SetInOptions(config, l), OptionsTyped
    PROVE  /\ OptionsTyped'
           /\ OptionsMeanText => \A k \in FirstWins : config'.str[k] =
                IF InOptions(k)' = << >> THEN None ELSE Head(InOptions(k)')
           /\ OptionsMeanText => \A k \in LastWins : config'.str[k] =
                IF InOptions(k)' = << >> THEN None ELSE Last(InOptions(k)')
           /\ OptionsMeanText => \A k \in Lists : config'.list[k] = FlattenSeq(InOptions(k)')
           /\ OptionsMeanText => \A k \in Flags : config'.flag[k] =
                IF InOptions(k)' = << >> THEN Unset ELSE 1
           /\ OptionsMeanText /\ LevelsTyped /\ Valid(l.key, l.value) =>
                \A k \in Levels : /\ LevelIs(config'.level[k], InOptions(k)')
                                  /\ InOptions(k)' \in Seq(Seq(GoodWords))
                                  /\ config'.level[k] \in LevelRecords
<1>1. ASSUME NEW k
      PROVE  InOptions(k)' = IF l.key = k THEN Append(InOptions(k), l.value) ELSE InOptions(k)
  BY OptionsGrow DEF KnowsNext
<1>2. l.key \notin Flags => l.value # None
  BY KeysDiffer DEF KnownIn, KindsOfKeys
<1>3. PICK d, v : d = config' /\ v = l.value
  OBVIOUS
<1>4. /\ \A k \in FirstWins :
           d.str[k] = IF l.key = k /\ config.str[k] = None THEN v ELSE config.str[k]
      /\ \A k \in LastWins : d.str[k] = IF l.key = k THEN v ELSE config.str[k]
      /\ \A k \in Lists :
           d.list[k] = IF l.key = k THEN config.list[k] \o v ELSE config.list[k]
      /\ \A k \in Flags : d.flag[k] = IF l.key = k THEN 1 ELSE config.flag[k]
      /\ \A k \in Levels :
           d.level[k] = IF l.key = k THEN ParseSigLevel(v, config.level[k]) ELSE config.level[k]
  BY <1>3, SetsOption
<1>5. AllValues' = AllValues /\ Items' = Items /\ GoodWords' = GoodWords
  BY DEF AllValues, Items, GoodWords, AllLines
<1>6. PICK V, I : V = AllValues /\ I = Items
  OBVIOUS
<1>7. v \in V
  BY <1>3, <1>6 DEF AllValues
<1>8. ASSUME NEW k, InOptions(k) \in Seq(V)
      PROVE  /\ InOptions(k)' \in Seq(V)
             /\ l.key = k => InOptions(k)' # << >> /\ Last(InOptions(k)') = v
             /\ l.key = k /\ InOptions(k) = << >> => Head(InOptions(k)') = v
             /\ InOptions(k) # << >> => /\ InOptions(k)' # << >>
                                        /\ Head(InOptions(k)') = Head(InOptions(k))
  <2>1. PICK s \in Seq(V) : s = InOptions(k)
    BY <1>8
  <2>2. /\ Append(s, v) \in Seq(V) /\ Append(s, v) # << >>
        /\ Len(Append(s, v)) = Len(s) + 1 /\ Append(s, v)[Len(s) + 1] = v
        /\ \A i \in 1..Len(s) : Append(s, v)[i] = s[i]
    BY <1>7, AppendProperties
  <2>3. PICK t \in Seq(V) : t = Append(s, v)
    BY <2>2
  <2>4. Last(t) = v
    BY <2>2, <2>3 DEF Last
  <2>5. s = << >> => Head(t) = v
    BY <2>2, <2>3
  <2>6. s # << >> => Head(t) = Head(s)
    <3> SUFFICES ASSUME s # << >> PROVE Head(t) = Head(s)
      OBVIOUS
    <3>1. 1 \in 1..Len(s) /\ Head(s) = s[1] /\ Head(t) = t[1]
      BY <2>2, <2>3
    <3> QED BY <2>2, <2>3, <3>1
  <2>7. InOptions(k)' = IF l.key = k THEN t ELSE s
    BY <1>1, <1>3, <2>1, <2>3
  <2> QED BY <2>1, <2>2, <2>3, <2>4, <2>5, <2>6, <2>7
<1>9. \A k \in Strings : InOptions(k) \in Seq(V)
  BY <1>6 DEF OptionsTyped
<1>10. \A k \in Flags : InOptions(k) \in Seq(V)
  BY <1>6 DEF OptionsTyped
<1>11. (\A k \in FirstWins : k \in Strings /\ k \notin Flags) /\ \A k \in LastWins : k \in Strings
  BY KeysDiffer DEF KindsOfKeys
<1>12. \A k \in FirstWins : InOptions(k)' # << >> => Head(InOptions(k)') # None
  <2> SUFFICES ASSUME NEW k \in FirstWins, InOptions(k)' # << >>
               PROVE  Head(InOptions(k)') # None
    OBVIOUS
  <2>1. CASE InOptions(k) # << >>
    BY <1>8, <1>9, <1>11, <2>1 DEF OptionsTyped
  <2>2. CASE InOptions(k) = << >>
    <3>1. l.key = k
      BY <1>1, <2>2
    <3>2. Head(InOptions(k)') = v
      BY <1>8, <1>9, <1>11, <2>2, <3>1
    <3> QED BY <1>2, <1>3, <1>11, <3>1, <3>2
  <2> QED BY <2>1, <2>2
<1>13. ASSUME NEW k \in Lists PROVE InOptions(k)' \in Seq(Seq(Items))
  <2>1. PICK s \in Seq(Seq(I)) : s = InOptions(k)
    BY <1>6 DEF OptionsTyped
  <2>2. CASE l.key = k
    <3>1. v \in Seq(I)
      BY <1>2, <1>3, <1>6, <2>2, ListValue, KeysDiffer DEF KindsOfKeys
    <3>2. Append(s, v) \in Seq(Seq(I))
      BY <3>1
    <3> QED BY <1>1, <1>3, <1>6, <2>1, <2>2, <3>2
  <2>3. CASE l.key # k
    BY <1>1, <1>6, <2>1, <2>3
  <2> QED BY <2>2, <2>3
<1>14. OptionsTyped'
  <2>1. \A k \in Strings : InOptions(k)' \in Seq(V)
    BY <1>8, <1>9
  <2>2. \A k \in Flags : InOptions(k)' \in Seq(V)
    BY <1>8, <1>10
  <2> QED BY <1>5, <1>6, <1>12, <1>13, <2>1, <2>2 DEF OptionsTyped
<1>15. ASSUME OptionsMeanText, NEW k \in FirstWins
       PROVE  d.str[k] = IF InOptions(k)' = << >> THEN None ELSE Head(InOptions(k)')
  <2>1. config.str[k] = IF InOptions(k) = << >> THEN None ELSE Head(InOptions(k))
    BY <1>15 DEF OptionsMeanText
  <2>2. InOptions(k) # << >> => Head(InOptions(k)) # None
    BY DEF OptionsTyped
  <2>3. l.key # k => InOptions(k)' = InOptions(k)
    BY <1>1
  <2> QED BY <1>4, <1>8, <1>9, <1>11, <2>1, <2>2, <2>3
<1>16. ASSUME OptionsMeanText, NEW k \in LastWins
       PROVE  d.str[k] = IF InOptions(k)' = << >> THEN None ELSE Last(InOptions(k)')
  <2>1. config.str[k] = IF InOptions(k) = << >> THEN None ELSE Last(InOptions(k))
    BY <1>16 DEF OptionsMeanText
  <2>2. l.key # k => InOptions(k)' = InOptions(k)
    BY <1>1
  <2> QED BY <1>4, <1>8, <1>9, <1>11, <2>1, <2>2
<1>17. ASSUME OptionsMeanText, NEW k \in Lists
       PROVE  d.list[k] = FlattenSeq(InOptions(k)')
  <2>1. config.list[k] = FlattenSeq(InOptions(k))
    BY <1>17 DEF OptionsMeanText
  <2>2. PICK s \in Seq(Seq(I)) : s = InOptions(k)
    BY <1>6 DEF OptionsTyped
  <2>3. CASE l.key = k
    <3>1. v \in Seq(I)
      BY <1>2, <1>3, <1>6, <2>3, ListValue, KeysDiffer DEF KindsOfKeys
    <3>2. FlattenSeq(Append(s, v)) = FlattenSeq(s) \o v
      BY <3>1, FlattenAppend
    <3> QED BY <1>1, <1>3, <1>4, <2>1, <2>2, <2>3, <3>2
  <2>4. CASE l.key # k
    BY <1>1, <1>4, <2>1, <2>4
  <2> QED BY <2>3, <2>4
<1>18. ASSUME OptionsMeanText, NEW k \in Flags
       PROVE  d.flag[k] = IF InOptions(k)' = << >> THEN Unset ELSE 1
  <2>1. config.flag[k] = IF InOptions(k) = << >> THEN Unset ELSE 1
    BY <1>18 DEF OptionsMeanText
  <2>2. l.key # k => InOptions(k)' = InOptions(k)
    BY <1>1
  <2> QED BY <1>4, <1>8, <1>10, <2>1, <2>2
<1>19. ASSUME OptionsMeanText, LevelsTyped, Valid(l.key, l.value), NEW k \in Levels
       PROVE  /\ LevelIs(d.level[k], InOptions(k)') /\ InOptions(k)' \in Seq(Seq(GoodWords))
              /\ d.level[k] \in LevelRecords
  <2>1. LevelIs(config.level[k], InOptions(k))
    BY <1>19 DEF OptionsMeanText
  <2>2. PICK T, s, c : T = GoodWords /\ s = InOptions(k) /\ c = config.level[k]
    OBVIOUS
  <2>3. s \in Seq(Seq(T)) /\ c \in LevelRecords /\ \A w \in T : IsWord(w)
    BY <1>19, <2>2, GoodAreWords DEF LevelsTyped
  <2>4. CASE l.key = k
    <3>1. v \in Seq(T)
      BY <1>2, <1>3, <1>19, <2>2, <2>4, ValidWords, KeysDiffer DEF KindsOfKeys
    <3>2. ParseSigLevel(v, c) \in LevelRecords /\ LevelIs(ParseSigLevel(v, c), Append(s, v))
      BY <2>1, <2>2, <2>3, <3>1, LevelGrows
    <3>3. Append(s, v) \in Seq(Seq(T))
      BY <2>3, <3>1
    <3>4. d.level[k] = ParseSigLevel(v, c) /\ InOptions(k)' = Append(s, v)
      BY <1>1, <1>3, <1>4, <2>2, <2>4
    <3> QED BY <2>2, <3>2, <3>3, <3>4
  <2>5. CASE l.key # k
    BY <1>1, <1>4, <2>1, <2>2, <2>3, <2>5
  <2> QED BY <2>4, <2>5
<1> QED BY <1>3, <1>14, <1>15, <1>16, <1>17, <1>18, <1>19

SameOptions ==
    /\ \A k : InOptions(k)' = InOptions(k)
    /\ config'.str = config.str /\ config'.list = config.list /\ config'.flag = config.flag
    /\ config'.level = config.level

LEMMA OptionsStay ==
    ASSUME SameOptions, text' = text
    PROVE  /\ OptionsTyped => OptionsTyped'
           /\ OptionsMeanText => OptionsMeanText'
           /\ GoodWords' = GoodWords
<1>1. AllValues' = AllValues /\ Items' = Items /\ GoodWords' = GoodWords
  BY DEF AllValues, Items, GoodWords, AllLines
<1>2. \A k : InOptions(k)' = InOptions(k)
  BY DEF SameOptions
<1>3. OptionsTyped => OptionsTyped'
  BY <1>1, <1>2 DEF OptionsTyped
<1>4. ASSUME OptionsMeanText PROVE OptionsMeanText'
  <2>1. \A k \in Levels : LevelIs(config.level[k], InOptions(k))'
    BY <1>2, <1>4 DEF OptionsMeanText, SameOptions, LevelIs
  <2>2. ASSUME NEW k \in FirstWins
        PROVE  config'.str[k] = IF InOptions(k)' = << >> THEN None ELSE Head(InOptions(k)')
    BY <1>2, <1>4 DEF OptionsMeanText, SameOptions
  <2>3. ASSUME NEW k \in LastWins
        PROVE  config'.str[k] = IF InOptions(k)' = << >> THEN None ELSE Last(InOptions(k)')
    BY <1>2, <1>4 DEF OptionsMeanText, SameOptions
  <2>4. ASSUME NEW k \in Lists PROVE config'.list[k] = FlattenSeq(InOptions(k)')
    BY <1>2, <1>4 DEF OptionsMeanText, SameOptions
  <2>5. ASSUME NEW k \in Flags
        PROVE  config'.flag[k] = IF InOptions(k)' = << >> THEN Unset ELSE 1
    BY <1>2, <1>4 DEF OptionsMeanText, SameOptions
  <2> QED BY <2>1, <2>2, <2>3, <2>4, <2>5 DEF OptionsMeanText
<1> QED BY <1>1, <1>3, <1>4

\* A line in the section of a repository that is known.
LEMMA RepoMeans ==
    ASSUME NEW n, NEW l, Grows(n, l), l \in AllLines, IsLine(l), text' = text,
           l.key # "Header", ReposTyped, SectionInv, section \notin {None, "options"},
           KnownIn(section, l), config' = [config EXCEPT !.repos[repo] = SetInRepo(@, l)]
    PROVE  /\ ReposTyped' /\ SameOptions
           /\ Len(config'.repos) = Len(config.repos)
           /\ config'.repos[repo].name = config.repos[repo].name
           /\ ReposMeanText /\ LevelsTyped /\ Valid(l.key, l.value) =>
                /\ \A r \in DOMAIN config'.repos : /\ RepoMeansText(config.repos[r], RepoHeaders[r])'
                                                   /\ config'.repos[r].level \in LevelRecords
                /\ \A h : InSection("SigLevel", h)' \in Seq(Seq(GoodWords))
<1>1. PICK c, d, rs, ds, m, v : /\ c = config /\ d = config' /\ rs = config.repos
                                /\ ds = config'.repos /\ m = repo /\ v = l.value
  OBVIOUS
<1>2. PICK q : q = SetInRepo(rs[m], l)
  OBVIOUS
<1>3. n \in Nat /\ Len(taken) = n
  BY DEF Grows
<1>4. /\ SectionOf(n) = section /\ Len(rs) = Len(RepoHeaders) /\ m = Len(rs) /\ m # 0
      /\ RepoHeaders[m] = HeaderOf(n)
  BY <1>1, <1>3 DEF SectionInv
<1>5. IsConfig(c) /\ IsList(rs) /\ \A r \in DOMAIN rs : IsRepo(rs[r])
  BY <1>1 DEF ReposTyped
<1>6. PICK T : rs \in Seq(T) /\ q \in T
  <2>1. PICK U : U = ToSet(rs) \cup {q}
    OBVIOUS
  <2>2. rs \in Seq(U)
    BY <1>5, <2>1, ListOfMembers
  <2> QED BY <2>1, <2>2
<1>7. m \in DOMAIN rs /\ DOMAIN rs = 1..Len(rs) /\ Len(rs) \in Nat
  BY <1>4, <1>6
<1>8. d = [c EXCEPT !.repos = [rs EXCEPT ![m] = q]]
  BY <1>1, <1>2
<1>9. /\ ds = [rs EXCEPT ![m] = q] /\ d.str = c.str /\ d.list = c.list /\ d.flag = c.flag
      /\ d.level = c.level /\ IsConfig(d)
  BY <1>1, <1>5, <1>8 DEF IsConfig
<1>10. /\ ds \in Seq(T) /\ Len(ds) = Len(rs) /\ DOMAIN ds = DOMAIN rs
       /\ ds[m] = q /\ \A r \in DOMAIN rs : r # m => ds[r] = rs[r]
  BY <1>6, <1>7, <1>9
<1>11. /\ IsRepo(q) /\ q.name = rs[m].name
       /\ \A k \in ServerLists :
            q.server[k] = IF l.key = k THEN Append(rs[m].server[k], v) ELSE rs[m].server[k]
       /\ q.level = IF l.key = "SigLevel" THEN ParseSigLevel(v, rs[m].level) ELSE rs[m].level
  <2>1. IsRepo(rs[m])
    BY <1>5, <1>7
  <2>2. PICK a, s : a = rs[m] /\ s = section
    OBVIOUS
  <2>3. IsRepo(a) /\ s \notin {None, "options"} /\ KnownIn(s, l) /\ q = SetInRepo(a, l)
    BY <1>2, <2>1, <2>2
  <2>4. /\ IsRepo(q) /\ q.name = a.name
        /\ \A k \in ServerLists :
             q.server[k] = IF l.key = k THEN Append(a.server[k], l.value) ELSE a.server[k]
        /\ q.level = IF l.key = "SigLevel" THEN ParseSigLevel(l.value, a.level) ELSE a.level
    BY <2>3, SetsRepo
  <2> QED BY <1>1, <2>2, <2>4
<1>12. ReposTyped'
  <2>1. IsList(ds)
    BY <1>10, MembersOfList
  <2>2. \A r \in DOMAIN ds : IsRepo(ds[r])
    BY <1>5, <1>10, <1>11
  <2> QED BY <1>1, <1>9, <2>1, <2>2 DEF ReposTyped
<1>13. SameOptions
  <2>1. \A k : InOptions(k)' = InOptions(k)
    BY <1>4, OptionsGrow
  <2> QED BY <1>1, <1>9, <2>1 DEF SameOptions
<1>14. ASSUME NEW k, NEW h
       PROVE  InSection(k, h)' = IF l.key = k /\ RepoHeaders[m] = h
                                   THEN Append(InSection(k, h), v) ELSE InSection(k, h)
  <2>1. KnowsNext(n, l)
    BY <1>4 DEF KnowsNext
  <2> QED BY <1>1, <1>4, <2>1, SectionGrows
<1>15. RepoHeaders' = RepoHeaders /\ RepoHeaders \in Seq(1..n)
  BY RepoHeadersGrow
<1>16. ASSUME ReposMeanText, LevelsTyped, Valid(l.key, l.value)
       PROVE  /\ \A r \in DOMAIN ds : /\ RepoMeansText(ds[r], RepoHeaders[r])'
                                      /\ ds[r].level \in LevelRecords
              /\ \A h : InSection("SigLevel", h)' \in Seq(Seq(GoodWords))
  <2>1. PICK W : W = GoodWords
    OBVIOUS
  <2>2. /\ \A w \in W : IsWord(w)
        /\ \A h : InSection("SigLevel", h) \in Seq(Seq(W))
        /\ \A r \in DOMAIN rs : rs[r].level \in LevelRecords
    BY <1>1, <1>16, <2>1, GoodAreWords DEF LevelsTyped
  <2>3. l.key = "SigLevel" => v \in Seq(W)
    <3>1. l.key = "SigLevel" => l.value # None /\ l.key \in Levels
      BY KeysDiffer DEF IsLine, KindsOfKeys
    <3> QED BY <1>1, <1>16, <2>1, <3>1, ValidWords
  <2>4. ASSUME NEW h PROVE InSection("SigLevel", h)' \in Seq(Seq(W))
    <3>1. PICK s \in Seq(Seq(W)) : s = InSection("SigLevel", h)
      BY <2>2
    <3>2. v \in Seq(W) => Append(s, v) \in Seq(Seq(W))
      OBVIOUS
    <3> QED BY <1>14, <2>3, <3>1, <3>2
  <2>5. ASSUME NEW r \in DOMAIN ds
        PROVE  RepoMeansText(ds[r], RepoHeaders[r])' /\ ds[r].level \in LevelRecords
    <3>1. PICK h, a : h = RepoHeaders[r] /\ a = rs[r]
      OBVIOUS
    <3>2. r \in DOMAIN rs /\ r \in 1..Len(RepoHeaders) /\ h \in 1..n
      <4>1. r \in DOMAIN rs /\ r \in 1..Len(RepoHeaders)
        BY <1>4, <1>7, <1>10
      <4>2. PICK q2, S : q2 = RepoHeaders /\ S = 1..n
        OBVIOUS
      <4>3. q2 \in Seq(S) /\ r \in 1..Len(q2)
        BY <1>15, <4>1, <4>2
      <4>4. q2[r] \in S
        BY <4>3
      <4> QED BY <3>1, <4>1, <4>2, <4>4
    <3>3. TakenLine(h)' = TakenLine(h)
      BY <3>2 DEF Grows
    <3>4. /\ a.name = TakenLine(h).value
          /\ \A k \in ServerLists : a.server[k] = InSection(k, h)
          /\ LevelIs(a.level, InSection("SigLevel", h))
      <4>1. RepoMeansText(rs[r], RepoHeaders[r])
        BY <1>1, <1>16, <3>2 DEF ReposMeanText
      <4> QED BY <3>1, <4>1 DEF RepoMeansText
    <3>5. a.level \in LevelRecords
      BY <2>2, <3>1, <3>2
    <3>6. CASE r # m
      <4>1. RepoHeaders[m] # h
        <5>1. m \in 1..Len(RepoHeaders)
          BY <1>4, <1>7
        <5> QED BY <3>1, <3>2, <3>6, <5>1 DEF SectionInv
      <4>2. \A k : InSection(k, h)' = InSection(k, h)
        BY <1>14, <4>1
      <4>3. ds[r] = a
        BY <1>10, <3>1, <3>2, <3>6
      <4>4. LevelIs(a.level, InSection("SigLevel", h)')
        BY <3>4, <4>2
      <4>5. /\ ds[r].name = TakenLine(h)'.value
            /\ \A k \in ServerLists : ds[r].server[k] = InSection(k, h)'
            /\ LevelIs(ds[r].level, InSection("SigLevel", h)')
        BY <3>3, <3>4, <4>2, <4>3, <4>4
      <4>6. RepoMeansText(ds[r], h)'
        BY <4>5 DEF RepoMeansText
      <4>7. RepoHeaders'[r] = h
        BY <1>15, <3>1
      <4> QED BY <3>5, <4>3, <4>6, <4>7
    <3>7. CASE r = m
      <4>1. ds[r] = q /\ RepoHeaders[m] = h /\ a = rs[m]
        BY <1>10, <3>1, <3>2, <3>7
      <4>2. \A k \in ServerLists : q.server[k] = InSection(k, h)'
        BY <1>11, <1>14, <3>4, <4>1
      <4>3. LevelIs(q.level, InSection("SigLevel", h)') /\ q.level \in LevelRecords
        <5>1. PICK s \in Seq(Seq(W)) : s = InSection("SigLevel", h)
          BY <2>2
        <5>2. CASE l.key = "SigLevel"
          <6>1. PICK b : b = a.level
            OBVIOUS
          <6>2. /\ ParseSigLevel(v, b) \in LevelRecords
                /\ LevelIs(ParseSigLevel(v, b), Append(s, v))
            BY <2>2, <2>3, <3>4, <3>5, <5>1, <5>2, <6>1, LevelGrows
          <6>3. q.level = ParseSigLevel(v, b) /\ InSection("SigLevel", h)' = Append(s, v)
            BY <1>11, <1>14, <4>1, <5>1, <5>2, <6>1
          <6> QED BY <6>2, <6>3
        <5>3. CASE l.key # "SigLevel"
          BY <1>11, <1>14, <3>4, <3>5, <4>1, <5>3
        <5> QED BY <5>2, <5>3
      <4>4. q.name = TakenLine(h)'.value
        BY <1>11, <3>3, <3>4, <4>1
      <4>5. RepoMeansText(q, h)'
        BY <4>2, <4>3, <4>4 DEF RepoMeansText
      <4>6. RepoHeaders'[r] = h
        BY <1>15, <3>1
      <4> QED BY <4>1, <4>3, <4>5, <4>6
    <3> QED BY <3>6, <3>7
  <2> QED BY <2>1, <2>4, <2>5
<1> QED BY <1>1, <1>10, <1>11, <1>12, <1>13, <1>16

LEMMA ListShape ==
    ASSUME NEW T, NEW s \in Seq(T), NEW N, N = Len(s)
    PROVE  DOMAIN s = 1..N /\ \A r \in 1..N : s[r] \in T
OBVIOUS

LEMMA LongerShape ==
    ASSUME NEW T, NEW s \in Seq(T), NEW e, NEW N, N = Len(s)
    PROVE  /\ Len(Append(s, e)) = N + 1 /\ DOMAIN Append(s, e) = 1..N + 1
           /\ Append(s, e)[N + 1] = e /\ \A r \in 1..N : Append(s, e)[r] = s[r]
<1>1. PICK U : U = T \cup {e}
  OBVIOUS
<1>2. s \in Seq(U) /\ e \in U
  BY <1>1
<1> QED BY <1>2, AppendProperties

\* Nothing was said yet in the section that begins with the line that is taken.
LEMMA NewSectionEmpty ==
    ASSUME NEW n, NEW l, Grows(n, l), l.key = "Header", NEW k
    PROVE  InSection(k, n + 1)' = << >>
<1>1. n \in Nat
  BY DEF Grows
<1>2. ASSUME NEW i PROVE i \notin SectionPlaces(k, n + 1)'
  <2> SUFFICES ASSUME i \in SectionPlaces(k, n + 1)' PROVE FALSE
    OBVIOUS
  <2>1. i \in Known' /\ HeaderOf(i)' = n + 1
    BY DEF SectionPlaces
  <2>2. i \in 1..n + 1
    BY <2>1 DEF Known, Grows
  <2>3. CASE i \in 1..n
    <3>1. HeaderOf(i)' \in 0..n
      BY <1>1, <2>3, HeaderOfGrows
    <3> QED BY <1>1, <2>1, <3>1
  <2>4. CASE i = n + 1
    <3>1. i \in Headers'
      BY <2>4, KnownGrows
    <3> QED BY <2>1, <3>1 DEF Known
  <2> QED BY <1>1, <2>2, <2>3, <2>4
<1>3. SectionPlaces(k, n + 1)' = {}
  BY <1>2
<1>4. InSection(k, n + 1)' = ValuesAt({})'
  BY <1>3 DEF InSection, SectionPlaces, ValuesAt, InOrder
<1>5. InOrder({})' = << >>
  <2>1. DOMAIN taken' = 1..n + 1
    BY DEF Grows
  <2>2. PICK N, s : N = n + 1 /\ s = Indices(N)
    OBVIOUS
  <2>3. N \in Nat /\ s \in Seq(Nat)
    BY <1>1, <2>2, IndicesGrow
  <2>4. InOrder({})' = Select(s, {})
    BY <2>1, <2>2 DEF InOrder, Indices
  <2>5. Select(s, {}) \in Seq(Nat) /\ ToSet(Select(s, {})) = {}
    BY <2>3, SelectList, SelectMembers
  <2>6. PICK q \in Seq(Nat) : q = Select(s, {}) /\ ToSet(q) = {}
    BY <2>5
  <2>7. Len(q) \in Nat /\ DOMAIN q = 1..Len(q) /\ \A i \in DOMAIN q : q[i] \in ToSet(q)
    BY <2>6 DEF ToSet
  <2>8. Len(q) = 0
    BY <2>6, <2>7
  <2>9. q = << >>
    BY <2>6, <2>8, EmptySeq
  <2> QED BY <2>4, <2>6, <2>9
<1>6. ValuesAt({})' = << >>
  BY <1>5 DEF ValuesAt
<1> QED BY <1>4, <1>6

\* A line that begins a section.
LEMMA HeaderMeans ==
    ASSUME NEW n, NEW l, Grows(n, l), l.key = "Header", l.value # None, text' = text,
           ReposTyped, SectionInv, section' = l.value,
           IF l.value = "options"
             THEN repo' = 0 /\ config' = config
             ELSE /\ config' = [config EXCEPT !.repos = Append(@, NewRepo(l.value))]
                  /\ repo' = Len(config'.repos)
    PROVE  /\ ReposTyped' /\ SectionInv' /\ SameOptions
           /\ ReposMeanText /\ LevelsTyped =>
                /\ \A r \in DOMAIN config'.repos : /\ RepoMeansText(config.repos[r], RepoHeaders[r])'
                                                   /\ config'.repos[r].level \in LevelRecords
                /\ \A h : InSection("SigLevel", h)' \in Seq(Seq(GoodWords))
<1>1. PICK c, d, rs, ds, v : /\ c = config /\ d = config' /\ rs = config.repos
                             /\ ds = config'.repos /\ v = l.value
  OBVIOUS
<1>2. PICK q : q = NewRepo(v)
  OBVIOUS
<1>3. n \in Nat /\ Len(taken) = n /\ Len(taken') = n + 1
  BY DEF Grows
<1>4. /\ SectionOf(n + 1)' = v /\ HeaderOf(n + 1)' = n + 1
      /\ (\A k, h : InSection(k, h)' = InSection(k, h)) /\ \A k : InOptions(k)' = InOptions(k)
  <2>1. ~KnowsNext(n, l)
    BY DEF KnowsNext
  <2>2. ASSUME NEW k, NEW h PROVE InSection(k, h)' = InSection(k, h)
    BY <2>1, SectionGrows
  <2>3. ASSUME NEW k PROVE InOptions(k)' = InOptions(k)
    BY <2>1, OptionsGrow
  <2> QED BY <1>1, <2>2, <2>3, SectionOfGrows, HeaderOfGrows
<1>5. PICK hs, gs : hs = RepoHeaders /\ gs = RepoHeaders'
  OBVIOUS
<1>6. hs \in Seq(1..n) /\ gs = IF v # "options" THEN Append(hs, n + 1) ELSE hs
  BY <1>1, <1>5, RepoHeadersGrow
<1>7. /\ Len(rs) = Len(hs) /\ \A i, j \in 1..Len(hs) : i # j => hs[i] # hs[j]
  BY <1>1, <1>5 DEF SectionInv
<1>8. IsConfig(c) /\ IsList(rs) /\ \A r \in DOMAIN rs : IsRepo(rs[r])
  BY <1>1 DEF ReposTyped
<1>9. PICK T : rs \in Seq(T) /\ q \in T
  <2>1. PICK U : U = ToSet(rs) \cup {q}
    OBVIOUS
  <2>2. rs \in Seq(U)
    BY <1>8, <2>1, ListOfMembers
  <2> QED BY <2>1, <2>2
<1>10. PICK N \in Nat : N = Len(rs) /\ N = Len(hs)
  BY <1>7, <1>9
<1>15. DOMAIN rs = 1..N /\ \A r \in 1..N : rs[r] \in T
  BY <1>9, <1>10, ListShape, Zenon
<1>16. DOMAIN hs = 1..N /\ \A r \in 1..N : hs[r] \in 1..n
  BY <1>6, <1>10, ListShape, Zenon
<1>11. /\ IsRepo(q) /\ q.name = v /\ (\A k \in ServerLists : q.server[k] = << >>)
       /\ q.level \in LevelRecords /\ LevelIs(q.level, << >>)
  BY <1>2, NewIsRepo, NewLevelIs
<1>12. ASSUME ReposMeanText, LevelsTyped
       PROVE  /\ \A r \in 1..N : /\ RepoMeansText(rs[r], hs[r])' /\ rs[r].level \in LevelRecords
              /\ \A h : InSection("SigLevel", h)' \in Seq(Seq(GoodWords))
  <2>1. ASSUME NEW r \in 1..N PROVE RepoMeansText(rs[r], hs[r])' /\ rs[r].level \in LevelRecords
    <3>1. PICK h, a : h = hs[r] /\ a = rs[r]
      OBVIOUS
    <3>2. h \in 1..n /\ r \in DOMAIN rs
      BY <1>15, <1>16, <3>1
    <3>3. TakenLine(h)' = TakenLine(h)
      BY <3>2 DEF Grows
    <3>4. RepoMeansText(rs[r], RepoHeaders[r]) /\ rs[r].level \in LevelRecords
      BY <1>1, <1>12, <3>2 DEF ReposMeanText, LevelsTyped
    <3>5. RepoMeansText(a, h) /\ a.level \in LevelRecords
      BY <1>5, <3>1, <3>4
    <3>6. RepoMeansText(a, h)'
      BY <1>4, <3>3, <3>5 DEF RepoMeansText, LevelIs
    <3> QED BY <3>1, <3>5, <3>6
  <2>2. ASSUME NEW h PROVE InSection("SigLevel", h)' \in Seq(Seq(GoodWords))
    BY <1>4, <1>12 DEF LevelsTyped
  <2> QED BY <2>1, <2>2
<1>13. CASE v = "options"
  <2>1. d = c /\ ds = rs /\ repo' = 0 /\ section' = v /\ gs = hs
    BY <1>1, <1>6, <1>13
  <2>2. ReposTyped' /\ SameOptions
    BY <1>1, <1>4, <2>1 DEF ReposTyped, SameOptions
  <2>3. SectionInv'
    <3>1. section' = SectionOf(Len(taken))'
      BY <1>3, <1>4, <2>1
    <3> QED BY <1>1, <1>5, <1>7, <1>13, <2>1, <3>1 DEF SectionInv
  <2>4. DOMAIN ds = 1..N
    BY <1>15, <2>1
  <2> QED BY <1>1, <1>5, <1>12, <2>1, <2>2, <2>3, <2>4
<1>14. CASE v # "options"
  <2>1. d = [c EXCEPT !.repos = Append(rs, q)] /\ repo' = Len(ds) /\ gs = Append(hs, n + 1)
    BY <1>1, <1>2, <1>6, <1>14
  <2>2. /\ ds = Append(rs, q) /\ d.str = c.str /\ d.list = c.list /\ d.flag = c.flag
        /\ d.level = c.level /\ IsConfig(d)
    BY <1>1, <1>8, <2>1 DEF IsConfig
  <2>3. /\ ds \in Seq(T) /\ Len(ds) = N + 1 /\ DOMAIN ds = 1..N + 1 /\ ds[N + 1] = q
        /\ \A r \in 1..N : ds[r] = rs[r]
    <3>1. Append(rs, q) \in Seq(T)
      BY <1>9
    <3>2. rs \in Seq(T) /\ N = Len(rs)
      BY <1>9, <1>10
    <3>3. /\ Len(Append(rs, q)) = N + 1 /\ DOMAIN Append(rs, q) = 1..N + 1
          /\ Append(rs, q)[N + 1] = q /\ \A r \in 1..N : Append(rs, q)[r] = rs[r]
      BY <3>2, LongerShape
    <3> QED BY <2>2, <3>1, <3>3
  <2>4. /\ Len(gs) = N + 1 /\ gs[N + 1] = n + 1
        /\ \A r \in 1..N : gs[r] = hs[r] /\ hs[r] \in 1..n
    <3>1. Len(Append(hs, n + 1)) = N + 1 /\ Append(hs, n + 1)[N + 1] = n + 1
          /\ \A r \in 1..N : Append(hs, n + 1)[r] = hs[r]
      <4>1. hs \in Seq(1..n) /\ N = Len(hs)
        BY <1>6, <1>10
      <4>2. PICK S, e : S = 1..n /\ e = n + 1
        OBVIOUS
      <4> QED BY <4>1, <4>2, LongerShape
    <3> QED BY <1>16, <2>1, <3>1
  <2>5. \A r \in 1..N + 1 : r \in 1..N \/ r = N + 1
    OBVIOUS
  <2>6. ReposTyped'
    <3>1. IsList(ds)
      BY <2>3, MembersOfList
    <3>2. \A r \in DOMAIN ds : IsRepo(ds[r])
      <4>1. \A r \in 1..N : IsRepo(rs[r])
        BY <1>8, <1>15
      <4> QED BY <1>11, <2>3, <2>5, <4>1
    <3> QED BY <1>1, <2>2, <3>1, <3>2 DEF ReposTyped
  <2>7. SameOptions
    BY <1>1, <1>4, <2>2 DEF SameOptions
  <2>8. SectionInv'
    <3>1. section' = SectionOf(Len(taken))' /\ HeaderOf(Len(taken))' = n + 1 /\ section' = v
      BY <1>1, <1>3, <1>4
    <3>2. ASSUME NEW i \in 1..N + 1, NEW j \in 1..N + 1, i # j PROVE gs[i] # gs[j]
      <4>1. CASE i \in 1..N /\ j \in 1..N
        BY <1>7, <1>10, <2>4, <3>2, <4>1
      <4>2. CASE i \in 1..N /\ j = N + 1
        BY <1>3, <2>4, <4>2
      <4>3. CASE i = N + 1 /\ j \in 1..N
        BY <1>3, <2>4, <4>3
      <4> QED BY <2>5, <3>2, <4>1, <4>2, <4>3
    <3>3. repo' = N + 1 /\ ds[N + 1].name = v /\ gs[N + 1] = n + 1 /\ N + 1 # 0
      BY <1>11, <2>1, <2>3, <2>4
    <3>4. v # None
      BY <1>1
    <3>5. Len(gs) = N + 1 /\ Len(ds) = N + 1
      BY <2>3, <2>4
    <3> QED BY <1>1, <1>5, <1>14, <3>1, <3>2, <3>3, <3>4, <3>5 DEF SectionInv
  <2>9. ASSUME ReposMeanText, LevelsTyped, NEW r \in DOMAIN ds
        PROVE  RepoMeansText(ds[r], gs[r])' /\ ds[r].level \in LevelRecords
    <3>1. CASE r \in 1..N
      BY <1>12, <2>3, <2>4, <2>9, <3>1
    <3>2. CASE r = N + 1
      <4>1. \A k : InSection(k, n + 1)' = << >>
        BY NewSectionEmpty
      <4>2. PICK h : h = n + 1
        OBVIOUS
      <4>3. TakenLine(h)' = l
        BY <4>2 DEF Grows
      <4>4. RepoMeansText(q, h)'
        BY <1>1, <1>11, <4>1, <4>2, <4>3 DEF RepoMeansText
      <4>5. ds[r] = q /\ gs[r] = h
        BY <2>3, <2>4, <3>2, <4>2
      <4> QED BY <1>11, <4>4, <4>5
    <3> QED BY <2>3, <2>5, <3>1, <3>2
  <2> QED BY <1>1, <1>5, <1>12, <2>6, <2>7, <2>8, <2>9
<1> QED BY <1>13, <1>14

LEMMA RepoHeaderPlaces ==
    ASSUME NEW n, NEW l, Grows(n, l), NEW r \in 1..Len(RepoHeaders)
    PROVE  RepoHeaders[r] \in 1..n /\ RepoHeaders[r] \in RepoPlaces
<1>1. PICK q : q = RepoHeaders
  OBVIOUS
<1>2. q \in Seq(1..n)
  BY <1>1, RepoHeadersGrow
<1>3. PICK s, S : s = Indices(n) /\ S = RepoPlaces
  OBVIOUS
<1>4. n \in Nat /\ s \in Seq(Nat)
  BY <1>3, IndicesGrow DEF Grows
<1>5. q = Select(s, S)
  BY <1>1, <1>3 DEF RepoHeaders, RepoPlaces, InOrder, Indices, Grows
<1>6. ToSet(q) \subseteq S
  BY <1>4, <1>5, SelectMembers
<1>7. q[r] \in 1..n /\ q[r] \in ToSet(q)
  <2>1. DOMAIN q = 1..Len(q) /\ \A i \in 1..Len(q) : q[i] \in 1..n
    BY <1>2, ListShape
  <2> QED BY <1>1, <2>1 DEF ToSet
<1> QED BY <1>1, <1>3, <1>6, <1>7

\* A line that begins no section.
LEMMA SectionStays ==
    ASSUME NEW n, NEW l, Grows(n, l), l.key # "Header", SectionInv, section' = section,
           repo' = repo, Len(config'.repos) = Len(config.repos),
           repo # 0 => config'.repos[repo].name = config.repos[repo].name
    PROVE  SectionInv'
<1>1. n \in Nat /\ Len(taken) = n /\ Len(taken') = n + 1
  BY DEF Grows
<1>2. SectionOf(n + 1)' = SectionOf(n) /\ HeaderOf(n + 1)' = HeaderOf(n)
  BY SectionOfGrows, HeaderOfGrows
<1>3. PICK hs : hs = RepoHeaders
  OBVIOUS
<1>4. RepoHeaders' = hs
  BY <1>3, RepoHeadersGrow
<1>5. section' = SectionOf(Len(taken))' /\ HeaderOf(Len(taken))' = HeaderOf(Len(taken))
  BY <1>1, <1>2 DEF SectionInv
<1> QED BY <1>3, <1>4, <1>5 DEF SectionInv

MeaningInv ==
    /\ ReposTyped /\ OptionsTyped /\ SectionInv
    /\ pc # "failed" => LevelsTyped /\ OptionsMeanText /\ ReposMeanText

\* What the repositories mean when nothing is said about them.
LEMMA ReposStay ==
    ASSUME NEW n, NEW l, Grows(n, l), l.key # "Header", config'.repos = config.repos,
           \A r \in 1..Len(RepoHeaders) : \A k, h :
             h = RepoHeaders[r] => InSection(k, h)' = InSection(k, h),
           SectionInv, ReposTyped, ReposMeanText
    PROVE  ReposMeanText'
<1>1. PICK hs, rs : hs = RepoHeaders /\ rs = config.repos
  OBVIOUS
<1>2. RepoHeaders' = hs /\ config'.repos = rs
  BY <1>1, RepoHeadersGrow
<1>3. Len(rs) = Len(hs) /\ DOMAIN rs = 1..Len(hs)
  BY <1>1, MembersOfList DEF SectionInv, ReposTyped, IsList
<1>4. ASSUME NEW r \in DOMAIN rs PROVE RepoMeansText(rs[r], hs[r])'
  <2>1. PICK h, a : h = hs[r] /\ a = rs[r]
    OBVIOUS
  <2>2. h \in 1..n /\ r \in 1..Len(hs)
    BY <1>1, <1>3, <2>1, RepoHeaderPlaces
  <2>3. TakenLine(h)' = TakenLine(h)
    BY <2>2 DEF Grows
  <2>4. RepoMeansText(a, h)
    BY <1>1, <2>1 DEF ReposMeanText
  <2>5. \A k : InSection(k, h)' = InSection(k, h)
    BY <1>1, <2>1, <2>2
  <2>6. RepoMeansText(a, h)'
    BY <2>3, <2>4, <2>5 DEF RepoMeansText, LevelIs
  <2> QED BY <2>1, <2>6
<1> QED BY <1>1, <1>2, <1>3, <1>4 DEF ReposMeanText

LEMMA NextLine ==
    ASSUME ReaderInv, Reads, Takes, text' = text
    PROVE  \E n, l : /\ Grows(n, l) /\ l = Line /\ n = Len(taken) /\ l \in AllLines /\ IsLine(l)
<1>1. PICK n : Grows(n, Line)
  BY TakenGrow
<1>2. PICK l : l = Line
  OBVIOUS
<1>3. Grows(n, l)
  BY <1>1, <1>2
<1>4. l \in ToSet(text[reader.file]) /\ reader.file \in DOMAIN text
  BY <1>2, NumberIsNext DEF Reads, ReaderInv, InFile
<1>5. l \in AllLines /\ IsLine(l)
  BY <1>4 DEF AllLines, ReaderInv, AreFiles, IsFile
<1> QED BY <1>2, <1>3, <1>5 DEF Grows

LEMMA SectionMeans == ReaderInv /\ MeaningInv /\ Section => MeaningInv'
<1> SUFFICES ASSUME ReaderInv, MeaningInv, Section PROVE MeaningInv'
  OBVIOUS
<1>1. /\ Reads /\ Takes /\ text' = text /\ Line.key = "Header" /\ section' = Line.value
      /\ pc' = "reading"
      /\ IF Line.value = "options" THEN repo' = 0 /\ config' = config
         ELSE /\ config' = [config EXCEPT !.repos = Append(@, NewRepo(Line.value))]
              /\ repo' = Len(config'.repos)
  BY DEF Section, Returns, env
<1>2. PICK n, l : Grows(n, l) /\ l = Line /\ n = Len(taken) /\ l \in AllLines /\ IsLine(l)
  BY <1>1, NextLine
<1>3. /\ ReposTyped' /\ SectionInv' /\ SameOptions
      /\ ReposMeanText /\ LevelsTyped =>
           /\ \A r \in DOMAIN config'.repos : /\ RepoMeansText(config.repos[r], RepoHeaders[r])'
                                              /\ config'.repos[r].level \in LevelRecords
           /\ \A h : InSection("SigLevel", h)' \in Seq(Seq(GoodWords))
  <2>1. l.key = "Header" /\ l.value # None
    BY <1>1, <1>2 DEF IsLine
  <2>2. /\ section' = l.value
        /\ IF l.value = "options" THEN repo' = 0 /\ config' = config
           ELSE /\ config' = [config EXCEPT !.repos = Append(@, NewRepo(l.value))]
                /\ repo' = Len(config'.repos)
    BY <1>1, <1>2
  <2>3. ReposTyped /\ SectionInv
    BY DEF MeaningInv
  <2> QED BY <1>1, <1>2, <2>1, <2>2, <2>3, HeaderMeans
<1>4. pc # "failed" => LevelsTyped /\ OptionsMeanText /\ ReposMeanText
  BY DEF MeaningInv
<1>5. LevelsTyped /\ OptionsMeanText /\ ReposMeanText
  BY <1>1, <1>4 DEF Reads
<1>6. OptionsTyped' /\ OptionsMeanText' /\ GoodWords' = GoodWords
  BY <1>1, <1>3, <1>5, OptionsStay DEF MeaningInv
<1>7. LevelsTyped'
  BY <1>3, <1>5, <1>6 DEF LevelsTyped, SameOptions
<1>8. ReposMeanText'
  BY <1>3, <1>5 DEF ReposMeanText, SectionInv
<1> QED BY <1>3, <1>6, <1>7, <1>8 DEF MeaningInv

\* A setting that is known in [options].
LEMMA OptionSet ==
    ASSUME ReaderInv, MeaningInv, Setting, KnownIn(section, Line), section = "options"
    PROVE  MeaningInv'
<1>1. /\ Reads /\ Takes /\ text' = text /\ Line.key # "Header" /\ section' = section
      /\ repo' = repo /\ config' = Assigned
      /\ Returns(IF Valid(Line.key, Line.value) THEN "ok" ELSE "invalid_value")
  BY DEF Setting, Target, env
<1>2. PICK n, l : Grows(n, l) /\ l = Line /\ n = Len(taken) /\ l \in AllLines /\ IsLine(l)
  BY <1>1, NextLine
<1>3. repo = 0 /\ SectionOf(n) = "options" /\ ReposTyped /\ SectionInv /\ OptionsTyped
  BY <1>2 DEF MeaningInv, SectionInv
<1>4. config' = SetInOptions(config, l) /\ KnownIn("options", l) /\ l.key # "Header"
  BY <1>1, <1>2, <1>3 DEF Assigned
<1>5. IsConfig(config)' /\ config'.repos = config.repos
  <2>1. PICK c, d : c = config /\ d = config'
    OBVIOUS
  <2>2. IsConfig(c) /\ d = SetInOptions(c, l)
    BY <1>3, <1>4, <2>1 DEF ReposTyped
  <2>3. IsConfig(d) /\ d.repos = c.repos
    BY <1>4, <2>2, SetsOption
  <2> QED BY <2>1, <2>3
<1>6. ReposTyped'
  BY <1>3, <1>5 DEF ReposTyped
<1>7. SectionInv'
  BY <1>1, <1>2, <1>3, <1>4, <1>5, SectionStays
<1>8. /\ OptionsTyped'
      /\ OptionsMeanText => \A k \in FirstWins : config'.str[k] =
           IF InOptions(k)' = << >> THEN None ELSE Head(InOptions(k)')
      /\ OptionsMeanText => \A k \in LastWins : config'.str[k] =
           IF InOptions(k)' = << >> THEN None ELSE Last(InOptions(k)')
      /\ OptionsMeanText => \A k \in Lists : config'.list[k] = FlattenSeq(InOptions(k)')
      /\ OptionsMeanText => \A k \in Flags : config'.flag[k] =
           IF InOptions(k)' = << >> THEN Unset ELSE 1
      /\ OptionsMeanText /\ LevelsTyped /\ Valid(l.key, l.value) =>
           \A k \in Levels : /\ LevelIs(config'.level[k], InOptions(k)')
                             /\ InOptions(k)' \in Seq(Seq(GoodWords))
                             /\ config'.level[k] \in LevelRecords
  <2>1. IsConfig(config)
    BY <1>3 DEF ReposTyped
  <2> QED BY <1>1, <1>2, <1>3, <1>4, <2>1, OptionMeans
<1>9. ASSUME pc' # "failed" PROVE LevelsTyped' /\ OptionsMeanText' /\ ReposMeanText'
  <2>1. Valid(l.key, l.value)
    BY <1>1, <1>2, <1>9 DEF Returns
  <2>2. LevelsTyped /\ OptionsMeanText /\ ReposMeanText
    BY <1>1 DEF MeaningInv, Reads
  <2>3. OptionsMeanText'
    BY <1>8, <2>1, <2>2 DEF OptionsMeanText
  <2>4. GoodWords' = GoodWords
    BY <1>1 DEF GoodWords, Items, AllLines
  <2>5. ASSUME NEW h PROVE InSection("SigLevel", h)' \in Seq(Seq(GoodWords))
    <3>1. PICK T, s, v : T = GoodWords /\ s = InSection("SigLevel", h) /\ v = l.value
      OBVIOUS
    <3>2. s \in Seq(Seq(T))
      BY <2>2, <3>1 DEF LevelsTyped
    <3>3. l.key = "SigLevel" => v \in Seq(T)
      <4>1. l.key = "SigLevel" => l.value # None /\ l.key \in Levels
        BY <1>2, KeysDiffer DEF IsLine, KindsOfKeys
      <4> QED BY <1>2, <2>1, <3>1, <4>1, ValidWords
    <3>4. v \in Seq(T) => Append(s, v) \in Seq(Seq(T))
      BY <3>2
    <3>5. \/ InSection("SigLevel", h)' = Append(s, v) /\ l.key = "SigLevel"
          \/ InSection("SigLevel", h)' = s
      BY <1>2, <3>1, SectionGrows
    <3> QED BY <3>1, <3>2, <3>3, <3>4, <3>5
  <2>6. LevelsTyped'
    BY <1>5, <1>8, <2>1, <2>2, <2>4, <2>5 DEF LevelsTyped
  <2>7. ASSUME NEW r \in 1..Len(RepoHeaders), NEW k, NEW h, h = RepoHeaders[r]
        PROVE  InSection(k, h)' = InSection(k, h)
    <3>1. h \in 1..n /\ TakenLine(h).value # "options"
      BY <1>2, <2>7, RepoHeaderPlaces DEF RepoPlaces
    <3>2. h # 0
      BY <1>2, <3>1 DEF Grows
    <3>3. HeaderOf(n) # h
      BY <1>3, <3>1, <3>2 DEF SectionOf
    <3> QED BY <1>2, <3>3, SectionGrows
  <2>8. ReposMeanText'
    BY <1>2, <1>3, <1>4, <1>5, <2>2, <2>7, ReposStay
  <2> QED BY <2>3, <2>6, <2>8
<1> QED BY <1>6, <1>7, <1>8, <1>9 DEF MeaningInv

\* A setting that is known in the section of a repository.
LEMMA RepoSet ==
    ASSUME ReaderInv, MeaningInv, Setting, KnownIn(section, Line), section # "options"
    PROVE  MeaningInv'
<1>1. /\ Reads /\ Takes /\ text' = text /\ Line.key # "Header" /\ section' = section
      /\ repo' = repo /\ config' = Assigned
      /\ Returns(IF Valid(Line.key, Line.value) THEN "ok" ELSE "invalid_value")
  BY DEF Setting, Target, env
<1>2. PICK n, l : Grows(n, l) /\ l = Line /\ n = Len(taken) /\ l \in AllLines /\ IsLine(l)
  BY <1>1, NextLine
<1>3. section \notin {None, "options"}
  BY DEF KnownIn
<1>4. ReposTyped /\ SectionInv /\ OptionsTyped /\ repo # 0
  BY <1>3 DEF MeaningInv, SectionInv
<1>5. config' = [config EXCEPT !.repos[repo] = SetInRepo(@, l)] /\ KnownIn(section, l)
      /\ l.key # "Header"
  BY <1>1, <1>2, <1>4 DEF Assigned
<1>6. /\ ReposTyped' /\ SameOptions
      /\ Len(config'.repos) = Len(config.repos)
      /\ config'.repos[repo].name = config.repos[repo].name
      /\ ReposMeanText /\ LevelsTyped /\ Valid(l.key, l.value) =>
           /\ \A r \in DOMAIN config'.repos : /\ RepoMeansText(config.repos[r], RepoHeaders[r])'
                                              /\ config'.repos[r].level \in LevelRecords
           /\ \A h : InSection("SigLevel", h)' \in Seq(Seq(GoodWords))
  BY <1>1, <1>2, <1>3, <1>4, <1>5, RepoMeans
<1>7. SectionInv'
  BY <1>1, <1>2, <1>4, <1>5, <1>6, SectionStays
<1>8. OptionsTyped' /\ GoodWords' = GoodWords /\ (OptionsMeanText => OptionsMeanText')
  BY <1>1, <1>4, <1>6, OptionsStay
<1>9. ASSUME pc' # "failed" PROVE LevelsTyped' /\ OptionsMeanText' /\ ReposMeanText'
  <2>1. Valid(l.key, l.value)
    BY <1>1, <1>2, <1>9 DEF Returns
  <2>2. LevelsTyped /\ OptionsMeanText /\ ReposMeanText
    BY <1>1 DEF MeaningInv, Reads
  <2>3. LevelsTyped'
    BY <1>6, <1>8, <2>1, <2>2 DEF LevelsTyped, SameOptions
  <2>4. ReposMeanText'
    BY <1>6, <1>7, <2>1, <2>2 DEF ReposMeanText, SectionInv
  <2> QED BY <1>8, <2>2, <2>3, <2>4
<1> QED BY <1>6, <1>7, <1>8, <1>9 DEF MeaningInv

\* A setting that is not known.
LEMMA UnknownSet ==
    ASSUME ReaderInv, MeaningInv, Setting, ~KnownIn(section, Line)
    PROVE  MeaningInv'
<1>1. /\ Reads /\ Takes /\ text' = text /\ Line.key # "Header" /\ section' = section
      /\ repo' = repo /\ config' = config /\ pc' = "reading"
  BY DEF Setting, Target, Returns, env
<1>2. PICK n, l : Grows(n, l) /\ l = Line /\ n = Len(taken) /\ l \in AllLines /\ IsLine(l)
  BY <1>1, NextLine
<1>3. /\ ReposTyped /\ SectionInv /\ OptionsTyped /\ LevelsTyped /\ OptionsMeanText
      /\ ReposMeanText
  BY <1>1 DEF MeaningInv, Reads
<1>4. ~KnowsNext(n, l) /\ l.key # "Header"
  BY <1>1, <1>2, <1>3 DEF KnowsNext, SectionInv
<1>5. ASSUME NEW k, NEW h PROVE InSection(k, h)' = InSection(k, h)
  BY <1>2, <1>4, SectionGrows
<1>6. ASSUME NEW k PROVE InOptions(k)' = InOptions(k)
  BY <1>2, <1>4, OptionsGrow
<1>7. SameOptions
  BY <1>1, <1>6 DEF SameOptions
<1>8. OptionsTyped' /\ GoodWords' = GoodWords /\ OptionsMeanText'
  BY <1>1, <1>3, <1>7, OptionsStay
<1>9. SectionInv'
  BY <1>1, <1>2, <1>3, <1>4, SectionStays
<1>10. LevelsTyped'
  BY <1>1, <1>3, <1>5, <1>6, <1>8 DEF LevelsTyped
<1>11. ReposMeanText'
  BY <1>1, <1>2, <1>3, <1>4, <1>5, ReposStay
<1>12. ReposTyped'
  BY <1>1, <1>3 DEF ReposTyped
<1> QED BY <1>8, <1>9, <1>10, <1>11, <1>12 DEF MeaningInv

LEMMA SettingMeans == ReaderInv /\ MeaningInv /\ Setting => MeaningInv'
BY OptionSet, RepoSet, UnknownSet

\* Before a line is taken nothing is said.
LEMMA NothingTaken ==
    ASSUME taken = << >>
    PROVE  /\ \A S : InOrder(S) = << >> /\ ValuesAt(S) = << >>
           /\ Headers = {} /\ SectionOf(Len(taken)) = None
<1>1. DOMAIN taken = {} /\ DOMAIN taken = 1..0 /\ Len(taken) = 0
  OBVIOUS
<1>2. ASSUME NEW S PROVE InOrder(S) = << >>
  <2>1. PICK s : s = Indices(0)
    OBVIOUS
  <2>2. s \in Seq(Nat) /\ Len(s) = 0
    BY <2>1, IndicesGrow, 0 \in Nat, Zenon
  <2>3. InOrder(S) = Select(s, S)
    BY <1>1, <2>1 DEF InOrder, Indices
  <2>4. s = << >>
    BY <2>2, EmptySeq
  <2> QED BY <2>3, <2>4, SelectEmpty
<1>3. ASSUME NEW S PROVE ValuesAt(S) = << >>
  BY <1>2 DEF ValuesAt
<1>4. Headers = {}
  BY <1>1 DEF Headers
<1>5. SectionOf(Len(taken)) = None
  BY <1>4 DEF SectionOf, HeaderOf
<1> QED BY <1>2, <1>3, <1>4, <1>5

LEMMA MeaningInit == Init => MeaningInv
<1> SUFFICES ASSUME Init PROVE MeaningInv
  OBVIOUS
<1>1. taken = << >> /\ config = NewConfig /\ section = None /\ repo = 0
  BY DEF Init
<1>2. \A k, h : InOptions(k) = << >> /\ InSection(k, h) = << >>
  BY <1>1, NothingTaken DEF InOptions, InSection
<1>3. RepoHeaders = << >>
  BY <1>1, NothingTaken DEF RepoHeaders
<1>4. PICK c : c = config
  OBVIOUS
<1>5. /\ IsConfig(c) /\ c.repos = << >>
      /\ (\A k \in Strings : c.str[k] = None) /\ (\A k \in Lists : c.list[k] = << >>)
      /\ (\A k \in Flags : c.flag[k] = Unset)
      /\ \A k \in Levels : c.level[k] \in LevelRecords /\ LevelIs(c.level[k], << >>)
  BY <1>1, <1>4, NewIsConfig, NewLevelIs
<1>6. ReposTyped
  <2>1. IsList(c.repos) /\ DOMAIN c.repos = {}
    BY <1>5 DEF IsList, ToSet
  <2> QED BY <1>4, <1>5, <2>1 DEF ReposTyped
<1>7. OptionsTyped
  <2>1. \A T : << >> \in Seq(T)
    OBVIOUS
  <2> QED BY <1>2, <2>1, Zenon DEF OptionsTyped
<1>8. SectionInv
  BY <1>1, <1>3, <1>4, <1>5, NothingTaken DEF SectionInv
<1>9. LevelsTyped
  <2>1. \A T : << >> \in Seq(T)
    OBVIOUS
  <2>2. \A r \in DOMAIN c.repos : c.repos[r].level \in LevelRecords
    BY <1>5
  <2> QED BY <1>2, <1>4, <1>5, <2>1, <2>2, Zenon DEF LevelsTyped
<1>10. OptionsMeanText
  <2>1. \A k \in Lists : c.list[k] = FlattenSeq(InOptions(k))
    BY <1>2, <1>5, FlattenEmpty
  <2>2. FirstWins \subseteq Strings /\ LastWins \subseteq Strings
    BY DEF Strings
  <2> QED BY <1>2, <1>4, <1>5, <2>1, <2>2 DEF OptionsMeanText
<1>11. ReposMeanText
  BY <1>3, <1>4, <1>5 DEF ReposMeanText
<1> QED BY <1>6, <1>7, <1>8, <1>9, <1>10, <1>11 DEF MeaningInv

\* No other step takes a line or changes what was read.
LEMMA MeaningStays ==
    ASSUME MeaningInv, UNCHANGED <<text, taken, config, section, repo>>,
           pc' # "failed" => pc # "failed"
    PROVE  MeaningInv'
<1>1. \A i : TakenLine(i)' = TakenLine(i)
  BY DEF TakenLine
<1>2. Headers' = Headers
  BY <1>1 DEF Headers
<1>3. \A i : HeaderOf(i)' = HeaderOf(i) /\ SectionOf(i)' = SectionOf(i)
  BY <1>1, <1>2 DEF HeaderOf, SectionOf
<1>4. Known' = Known
  BY <1>1, <1>2, <1>3 DEF Known, KnownIn
<1>5. \A S : InOrder(S)' = InOrder(S) /\ ValuesAt(S)' = ValuesAt(S)
  BY <1>1 DEF InOrder, ValuesAt
<1>6. \A k, h : InOptions(k)' = InOptions(k) /\ InSection(k, h)' = InSection(k, h)
  BY <1>1, <1>3, <1>4, <1>5 DEF InOptions, InSection, ValuesAt, InOrder
<1>7. RepoHeaders' = RepoHeaders
  BY <1>1, <1>2 DEF RepoHeaders, InOrder
<1>8. /\ AllValues' = AllValues /\ Items' = Items /\ GoodWords' = GoodWords
  BY DEF AllValues, Items, GoodWords, AllLines
<1>9. ReposTyped' /\ OptionsTyped'
  BY <1>6, <1>8 DEF MeaningInv, ReposTyped, OptionsTyped
<1>10. SectionInv'
  BY <1>3, <1>7 DEF MeaningInv, SectionInv
<1>11. LevelsTyped => LevelsTyped'
  BY <1>6, <1>8 DEF LevelsTyped
<1>12. OptionsMeanText => OptionsMeanText'
  BY <1>6 DEF OptionsMeanText, LevelIs
<1>13. ReposMeanText => ReposMeanText'
  BY <1>1, <1>6, <1>7 DEF ReposMeanText, RepoMeansText, LevelIs
<1> QED BY <1>9, <1>10, <1>11, <1>12, <1>13 DEF MeaningInv

LEMMA OthersMean ==
    ASSUME MeaningInv, [Next]_vars
    PROVE  Section \/ Setting \/ MeaningInv'
<1>1. ASSUME ~Section, ~Setting
      PROVE  /\ UNCHANGED <<text, taken, config, section, repo>>
             /\ pc' # "failed" => pc # "failed"
  BY <1>1 DEF Next, Include, IncludeFails, ReadFails, NextInclude, BackToParent, Eof,
              MergeRead, ResolveRead, Finished, Reads, Returns, vars, env, readerVars
<1> QED BY <1>1, MeaningStays

LEMMA Meaning == Spec => [](ReaderInv /\ MeaningInv)
<1>1. Init => MeaningInv
  BY MeaningInit
<1>2. ReaderInv /\ MeaningInv /\ [Next]_vars => MeaningInv'
  BY SectionMeans, SettingMeans, OthersMean
<1> QED BY <1>1, <1>2, Reading, PTL DEF Spec

\* What was read is what the text means with the includes in place: setopt_*, the
\* settings of repositories and the headers of sections in pu_config_reader_next,
\* over any number of files.
THEOREM ReadingKeepsMeaning == Spec => []ConfigMeansText
<1>1. MeaningInv => ConfigMeansText
  BY DEF MeaningInv, ConfigMeansText
<1> QED BY <1>1, Meaning, PTL

-----------------------------------------------------------------------------
(***************************************************************************)
(* Where something is wrong.                                               *)
(***************************************************************************)
PlacesInv ==
    /\ warned = Mapped(InOrder(UnknownPlaces), taken)
    /\ pc = "reading" => status # "invalid_value"
    /\ status = "invalid_value" =>
         /\ <<reader.file, line>> = taken[Len(taken)]
         /\ ~Valid(TakenLine(Len(taken)).key, TakenLine(Len(taken)).value)

LEMMA NextPlace ==
    ASSUME ReaderInv, Reads, Takes, text' = text
    PROVE  \E n, l : /\ Grows(n, l) /\ l = Line /\ n = Len(taken)
                     /\ taken'[n + 1] = <<reader.file, Number>>
                     /\ \A i \in 1..n : taken'[i] = taken[i]
<1>1. PICK n, l : Grows(n, l) /\ l = Line /\ n = Len(taken)
  BY NextLine
<1>2. PICK e, s, T : e = <<reader.file, Number>> /\ s = taken /\ s \in Seq(T)
  BY DEF ReaderInv
<1>3. taken' = Append(s, e)
  BY <1>2 DEF Takes
<1>4. Append(s, e)[n + 1] = e /\ \A r \in 1..n : Append(s, e)[r] = s[r]
  BY <1>1, <1>2, LongerShape
<1> QED BY <1>1, <1>2, <1>3, <1>4

\* The lines that mean nothing where they are, when there is one more line.
LEMMA WarnedGrows ==
    ASSUME NEW n, NEW l, Grows(n, l), \A i \in 1..n : taken'[i] = taken[i], PlacesInv
    PROVE  Mapped(InOrder(UnknownPlaces), taken)' =
             IF l.key # "Header" /\ ~KnownIn(SectionOf(n), l)
               THEN Append(warned, taken'[n + 1]) ELSE warned
<1>1. PICK q, q2 : q = InOrder(UnknownPlaces) /\ q2 = InOrder(UnknownPlaces)'
  OBVIOUS
<1>2. n \in Nat /\ q \in Seq(1..n) /\ q2 = IF l.key # "Header" /\ ~KnownIn(SectionOf(n), l)
                                          THEN Append(q, n + 1) ELSE q
  BY <1>1, UnknownGrow DEF Grows
<1>3. PICK v, w : v = taken /\ w = taken'
  OBVIOUS
<1>4. \A i \in 1..n : w[i] = v[i]
  BY <1>3
<1>5. Mapped(q, w) = Mapped(q, v) /\ Mapped(Append(q, n + 1), w) = Append(Mapped(q, v), w[n + 1])
  <2>1. n \in Nat /\ q \in Seq(1..n)
    BY <1>2
  <2>2. PICK e : e = n + 1
    OBVIOUS
  <2>3. Mapped(q, w) = Mapped(q, v) /\ Mapped(Append(q, e), w) = Append(Mapped(q, v), w[e])
    <3>1. PICK m, p, x, y, z : m = n /\ p = q /\ x = v /\ y = w /\ z = e
      OBVIOUS
    <3>2. m \in Nat /\ p \in Seq(1..m) /\ \A i \in 1..m : y[i] = x[i]
      BY <1>4, <2>1, <3>1
    <3>3. Mapped(p, y) = Mapped(p, x) /\ Mapped(Append(p, z), y) = Append(Mapped(p, x), y[z])
      BY <3>2, MappedGrows
    <3> QED BY <3>1, <3>3
  <2> QED BY <2>2, <2>3
<1>6. Mapped(InOrder(UnknownPlaces), taken)' = Mapped(q2, w) /\ warned = Mapped(q, v)
  BY <1>1, <1>3 DEF PlacesInv
<1> QED BY <1>2, <1>3, <1>5, <1>6

LEMMA SectionPlacesTrue ==
    ReaderInv /\ MeaningInv /\ PlacesInv /\ Section => PlacesInv'
<1> SUFFICES ASSUME ReaderInv, MeaningInv, PlacesInv, Section PROVE PlacesInv'
  OBVIOUS
<1>1. /\ Reads /\ Takes /\ text' = text /\ Line.key = "Header" /\ status' = "ok"
      /\ warned' = warned
  BY DEF Section, Returns, env
<1>2. PICK n, l : /\ Grows(n, l) /\ l = Line /\ n = Len(taken)
                  /\ taken'[n + 1] = <<reader.file, Number>>
                  /\ \A i \in 1..n : taken'[i] = taken[i]
  BY <1>1, NextPlace
<1>3. warned' = Mapped(InOrder(UnknownPlaces), taken)'
  BY <1>1, <1>2, WarnedGrows
<1> QED BY <1>1, <1>3 DEF PlacesInv

LEMMA SettingPlacesTrue ==
    ReaderInv /\ MeaningInv /\ PlacesInv /\ Setting => PlacesInv'
<1> SUFFICES ASSUME ReaderInv, MeaningInv, PlacesInv, Setting PROVE PlacesInv'
  OBVIOUS
<1>1. /\ Reads /\ Takes /\ Advance /\ text' = text /\ Line.key # "Header"
  BY DEF Setting, env
<1>2. PICK n, l : /\ Grows(n, l) /\ l = Line /\ n = Len(taken)
                  /\ taken'[n + 1] = <<reader.file, Number>>
                  /\ \A i \in 1..n : taken'[i] = taken[i]
  BY <1>1, NextPlace
<1>3. line' = Number /\ reader'.file = reader.file
  <2>1. PICK m : m = Number
    OBVIOUS
  <2>2. line' = m /\ reader' = [reader EXCEPT !.lineno = m]
    BY <1>1, <2>1 DEF Advance, CurrentLine
  <2>3. reader = [file |-> reader.file, lineno |-> reader.lineno, includes |-> << >>]
    BY DEF ReaderInv
  <2> QED BY <2>1, <2>2, <2>3
<1>4. Mapped(InOrder(UnknownPlaces), taken)' =
        IF l.key # "Header" /\ ~KnownIn(SectionOf(n), l)
          THEN Append(warned, taken'[n + 1]) ELSE warned
  BY <1>2, WarnedGrows
<1>5. section = SectionOf(n)
  BY <1>2 DEF MeaningInv, SectionInv
<1>6. Len(taken') = n + 1 /\ TakenLine(n + 1)' = l
  BY <1>2 DEF Grows
<1>7. CASE KnownIn(section, Line)
  <2>1. /\ warned' = warned
        /\ Returns(IF Valid(Line.key, Line.value) THEN "ok" ELSE "invalid_value")
    BY <1>7 DEF Setting, Target
  <2>2. warned' = Mapped(InOrder(UnknownPlaces), taken)'
    BY <1>2, <1>4, <1>5, <1>7, <2>1
  <2>3. status' = "invalid_value" => ~Valid(l.key, l.value) /\ pc' # "reading"
    BY <1>2, <2>1 DEF Returns
  <2>4. PICK m : m = n + 1
    OBVIOUS
  <2>5. /\ <<reader.file, line>>' = taken'[m] /\ Len(taken') = m
        /\ TakenLine(m)' = l
    BY <1>2, <1>3, <1>6, <2>4
  <2> QED BY <2>2, <2>3, <2>5 DEF PlacesInv, TakenLine
<1>8. CASE ~KnownIn(section, Line)
  <2>1. warned' = Append(warned, <<reader.file, line'>>) /\ status' = "unknown_option"
    BY <1>8 DEF Setting, Target, Returns
  <2>2. warned' = Mapped(InOrder(UnknownPlaces), taken)'
    BY <1>1, <1>2, <1>3, <1>4, <1>5, <1>8, <2>1
  <2> QED BY <2>1, <2>2 DEF PlacesInv
<1> QED BY <1>7, <1>8

LEMMA OtherPlacesTrue ==
    ASSUME ReaderInv, PlacesInv, [Next]_vars
    PROVE  Section \/ Setting \/ PlacesInv'
<1> SUFFICES ASSUME ~Section, ~Setting PROVE PlacesInv'
  OBVIOUS
<1>1. /\ text' = text /\ taken' = taken /\ warned' = warned
      /\ \/ status' # "invalid_value"
         \/ /\ status' = status /\ reader' = reader /\ line' = line
            /\ pc' = "reading" => pc = "reading"
  BY DEF Next, Include, IncludeFails, ReadFails, NextInclude, BackToParent, Eof,
         MergeRead, ResolveRead, Finished, Reads, Returns, vars, env, readerVars
<1>2. \A i : TakenLine(i)' = TakenLine(i)
  BY <1>1 DEF TakenLine
<1>3. Headers' = Headers
  BY <1>1, <1>2 DEF Headers
<1>4. \A i : HeaderOf(i)' = HeaderOf(i) /\ SectionOf(i)' = SectionOf(i)
  BY <1>2, <1>3 DEF HeaderOf, SectionOf
<1>5. Known' = Known
  BY <1>1, <1>2, <1>3, <1>4 DEF Known, KnownIn
<1>6. InOrder(UnknownPlaces)' = InOrder(UnknownPlaces)
  BY <1>1, <1>3, <1>5 DEF InOrder, UnknownPlaces
<1>7. warned' = Mapped(InOrder(UnknownPlaces), taken)'
  BY <1>1, <1>6 DEF PlacesInv, Mapped
<1>8. TakenLine(Len(taken))' = TakenLine(Len(taken))
  BY <1>1, <1>2
<1> QED BY <1>1, <1>7, <1>8 DEF PlacesInv

LEMMA WhereWrong == Spec => [](ReaderInv /\ PlacesInv)
<1>1. Init => PlacesInv
  <2> SUFFICES ASSUME Init PROVE PlacesInv
    OBVIOUS
  <2>1. taken = << >> /\ warned = << >> /\ status = "ok"
    BY DEF Init
  <2>2. Mapped(InOrder(UnknownPlaces), taken) = << >>
    BY <2>1, NothingTaken DEF Mapped
  <2> QED BY <2>1, <2>2 DEF PlacesInv
<1>2. ReaderInv /\ MeaningInv /\ PlacesInv /\ [Next]_vars => PlacesInv'
  BY SectionPlacesTrue, SettingPlacesTrue, OtherPlacesTrue
<1> QED BY <1>1, <1>2, Meaning, PTL DEF Spec

\* What is reported is where it was found, also in an included file and after the reader
\* came back from one: the warning about an unknown setting in pu_ui_config_load_sysroot
\* and the error about an invalid value, by reader->file and reader->line.
THEOREM ReportedPlaces == Spec => []PlacesAreTrue
<1>1. ReaderInv /\ PlacesInv => PlacesAreTrue
  BY DEF PlacesInv, PlacesAreTrue, Mapped, UnknownPlaces, Last
<1> QED BY <1>1, WhereWrong, PTL

-----------------------------------------------------------------------------
(***************************************************************************)
(* Types.                                                                  *)
(***************************************************************************)
\* The current file is one that is open, with a place for one more, and the current
\* repository the last one whose section began: the reader's own record.
THEOREM ReaderTypes == Spec => []TypeOK
<1>1. ASSUME ReaderInv, MeaningInv PROVE TypeOK
  <2>1. PICK files : files = DOMAIN text \cup {reader.file}
                       \cup UNION {ToSet(parents[i].includes) : i \in DOMAIN parents}
    OBVIOUS
  <2>2. PICK ps, S : ps = parents /\ S = FrameSet(text)
    OBVIOUS
  <2>3. ps \in Seq(S)
    BY <1>1, <2>2 DEF ReaderInv
  <2>4. reader \in Frames(files)
    <3>1. /\ reader = [file |-> reader.file, lineno |-> reader.lineno, includes |-> << >>]
          /\ reader.lineno \in Nat
      BY <1>1 DEF ReaderInv
    <3>2. PICK f, m : f = reader.file /\ m = reader.lineno
      OBVIOUS
    <3>3. f \in files /\ m \in Nat /\ << >> \in Seq(files)
      BY <2>1, <3>1, <3>2
    <3>4. [file |-> f, lineno |-> m, includes |-> << >>] \in Frames(files)
      BY <3>3 DEF Frames
    <3> QED BY <3>1, <3>2, <3>4, Zenon
  <2>5. ASSUME NEW i \in 1..Len(ps) PROVE ps[i] \in Frames(files)
    <3>1. PICK p : p = ps[i]
      OBVIOUS
    <3>2. p \in S /\ i \in DOMAIN ps
      BY <2>3, <3>1
    <3>3. /\ p \in [file : DOMAIN text, lineno : Nat, includes : Seq(Named(text))]
      BY <2>2, <3>2 DEF FrameSet
    <3>4. p.includes \in Seq(ToSet(p.includes)) /\ ToSet(p.includes) \subseteq files
      <4>1. IsList(p.includes)
        BY <3>3, MembersOfList
      <4>2. ToSet(p.includes) \subseteq files
        BY <2>1, <2>2, <3>1, <3>2
      <4> QED BY <4>1, <4>2 DEF IsList
    <3>5. p.includes \in Seq(files)
      BY <3>4
    <3>6. p.file \in files
      BY <2>1, <3>3
    <3> QED BY <3>1, <3>3, <3>5, <3>6 DEF Frames
  <2>6. parents \in Seq(Frames(files))
    <3>1. PICK F : F = Frames(files)
      OBVIOUS
    <3>2. \A i \in 1..Len(ps) : ps[i] \in F
      BY <2>5, <3>1
    <3>3. ps \in Seq(F)
      BY <2>3, <3>2
    <3> QED BY <2>2, <3>1, <3>3
  <2>7. /\ repo \in 0..Len(config.repos) /\ (repo # 0 => config.repos[repo].name = section)
        /\ repo = 0 => section \in {None, "options"}
    <3>1. Len(config.repos) \in Nat
      BY <1>1, MembersOfList DEF MeaningInv, ReposTyped, IsList
    <3> QED BY <1>1, <3>1 DEF MeaningInv, SectionInv
  <2>8. /\ pc \in {"reading", "read", "merged", "loaded", "failed"}
        /\ status \in {"ok", "unknown_option", "invalid_value", "error"}
        /\ pc = "reading" => reader.file \in DOMAIN text /\ Len(parents) < MaxOpen
        /\ line \in Nat
    BY <1>1 DEF ReaderInv, InFile
  <2> QED BY <2>1, <2>4, <2>6, <2>7, <2>8 DEF TypeOK
<1> QED BY <1>1, Meaning, PTL

-----------------------------------------------------------------------------
(***************************************************************************)
(* What the programs are given.                                            *)
(***************************************************************************)
Resolved(p) == PrependSysroot(sysroot, Resolve(Merge(p, config)))

DestInv ==
    /\ sysroot \in Sysroots
    /\ pc \in {"reading", "read"} => dest \in Presets
    /\ pc = "merged" => \E p \in Presets : dest = Merge(p, config)
    /\ pc = "loaded" =>
         \E p \in Presets : dest = Resolved(p) /\ Resolvable(Merge(p, config))

LEMMA Given == Spec => []DestInv
<1>1. Init => DestInv
  BY DEF Init, DestInv
<1>2. DestInv /\ [Next]_vars => DestInv'
  <2> SUFFICES ASSUME DestInv, [Next]_vars PROVE DestInv'
    OBVIOUS
  <2>1. CASE \/ Section \/ Setting \/ Include \/ IncludeFails \/ ReadFails
             \/ NextInclude \/ BackToParent \/ Eof
    <3>1. /\ sysroot' = sysroot /\ dest' = dest /\ pc = "reading"
          /\ pc' \in {"reading", "read", "failed"}
      BY <2>1 DEF Section, Setting, Include, IncludeFails, ReadFails, NextInclude,
                  BackToParent, Eof, Reads, Returns, env
    <3> QED BY <3>1 DEF DestInv
  <2>2. CASE MergeRead
    BY <2>2 DEF MergeRead, DestInv, env, readerVars
  <2>3. CASE ResolveRead
    <3>1. PICK p \in Presets : dest = Merge(p, config)
      BY <2>3 DEF ResolveRead, DestInv
    <3>2. /\ sysroot' = sysroot /\ config' = config
          /\ \/ pc' = "failed"
             \/ /\ pc' = "loaded" /\ Resolvable(dest)
                /\ dest' = PrependSysroot(sysroot, Resolve(dest))
      BY <2>3 DEF ResolveRead, env, readerVars
    <3>3. CASE pc' = "failed"
      BY <3>2, <3>3 DEF DestInv
    <3>4. CASE pc' # "failed"
      <4>1. pc' = "loaded" /\ Resolvable(Merge(p, config)) /\ dest' = Resolved(p)
        BY <3>1, <3>2, <3>4 DEF Resolved
      <4>2. Resolved(p)' = Resolved(p) /\ Merge(p, config)' = Merge(p, config)
        BY <3>2 DEF Resolved
      <4> QED BY <3>2, <4>1, <4>2 DEF DestInv
    <3> QED BY <3>3, <3>4
  <2>4. CASE UNCHANGED vars
    BY <2>4 DEF vars, env, readerVars, DestInv, Resolved
  <2> QED BY <2>1, <2>2, <2>3, <2>4 DEF Next, Finished
<1> QED BY <1>1, <1>2, PTL DEF Spec

ConfigFields ==
    {"str", "list", "flag", "level", "cleanmethod", "paralleldownloads", "repos"}

\* Merging keeps the repositories and the signature level of the file.
LEMMA MergedIs ==
    ASSUME NEW p \in Presets, NEW c, IsList(c.repos)
    PROVE  /\ Merge(p, c).repos = c.repos
           /\ Merge(p, c).level["SigLevel"] = c.level["SigLevel"]
           /\ \A k \in Lists : Merge(p, c).list[k] = p.list[k] \o c.list[k]
           /\ DOMAIN Merge(p, c) = ConfigFields
<1>1. p.repos = << >> /\ p.level["SigLevel"].mask = {}
  BY PresetsAssumption DEF IsPreset
<1>2. PICK rs, T : rs = c.repos /\ rs \in Seq(T)
  BY DEF IsList
<1>3. Merge(p, c).repos = c.repos
  <2>1. Merge(p, c).repos = p.repos \o c.repos
    BY DEF Merge
  <2>2. << >> \o rs = rs
    BY <1>2
  <2> QED BY <1>1, <1>2, <2>1, <2>2
<1>4. Merge(p, c).level["SigLevel"] = c.level["SigLevel"]
  BY <1>1, KeysDiffer DEF Merge, KindsOfKeys
<1> QED BY <1>3, <1>4 DEF Merge, ConfigFields

ArchOf(m) == IF m.list["Architecture"] = << >> THEN None ELSE Head(Architectures(m))

\* What becomes of a repository.
LEMMA ResolvedRepoIs ==
    ASSUME NEW m, NEW r, IsRepo(r), NEW q, q = ResolvedRepo(m, r)
    PROVE  /\ q.name = r.name /\ q.level = Inherit(r.level, Global(m.level["SigLevel"]))
           /\ q.server = [k \in ServerLists |->
                [j \in DOMAIN r.server[k] |-> Substitute(r.server[k][j], ArchOf(m), r.name)]]
           /\ DOMAIN q = {"name", "server", "usage", "level"}
<1>1. PICK u, v, f : /\ u = (IF r.usage = {} THEN Usages ELSE r.usage)
                     /\ v = Inherit(r.level, Global(m.level["SigLevel"]))
                     /\ f = [k \in ServerLists |-> [j \in DOMAIN r.server[k] |->
                              Substitute(r.server[k][j], ArchOf(m), r.name)]]
  OBVIOUS
<1>2. q = [r EXCEPT !.usage = u, !.level = v, !.server = f]
  BY <1>1 DEF ResolvedRepo, ArchOf
<1>3. r = [name |-> r.name, server |-> r.server, usage |-> r.usage, level |-> r.level]
  BY DEF IsRepo
<1>4. DOMAIN r = {"name", "server", "usage", "level"}
  BY <1>3
<1>5. q.name = r.name /\ q.level = v /\ q.server = f /\ DOMAIN q = DOMAIN r
  BY <1>2, <1>4
<1> QED BY <1>1, <1>4, <1>5

\* The repositories d has when m is resolved and the sysroot prepended.
HasRepos(d, m, N) ==
    /\ DOMAIN d.repos = 1..N /\ d.list["Architecture"] = Architectures(m)
    /\ \A r \in 1..N :
         \/ d.repos[r] = ResolvedRepo(m, m.repos[r])
         \/ d.repos[r] = RootedRepo(sysroot, ResolvedRepo(m, m.repos[r]))

LEMMA ResolvedIs ==
    ASSUME NEW m, DOMAIN m = ConfigFields, NEW N \in Nat, DOMAIN m.repos = 1..N,
           NEW d, d = PrependSysroot(sysroot, Resolve(m))
    PROVE  HasRepos(d, m, N)
<1>1. PICK s : s = Resolve(m)
  OBVIOUS
<1>2. /\ DOMAIN s = ConfigFields
      /\ s.repos = [i \in DOMAIN m.repos |-> ResolvedRepo(m, m.repos[i])]
      /\ s.list["Architecture"] = Architectures(m)
  <2>1. "repos" \in DOMAIN m /\ "list" \in DOMAIN m
    BY DEF ConfigFields
  <2>2. "Architecture" \in Lists
    BY DEF Lists
  <2>3. s.repos = [i \in DOMAIN m.repos |-> ResolvedRepo(m, m.repos[i])]
    BY <1>1, <2>1 DEF Resolve
  <2>4. s.list["Architecture"] = Architectures(m)
    BY <1>1, <2>1, <2>2 DEF Resolve
  <2>5. DOMAIN s = DOMAIN m
    BY <1>1 DEF Resolve
  <2> QED BY <2>3, <2>4, <2>5
<1>3. CASE sysroot = << >>
  <2>1. d = s
    BY <1>1, <1>3 DEF PrependSysroot
  <2> QED BY <1>2, <2>1 DEF HasRepos
<1>4. CASE sysroot # << >>
  <2>1. d = PrependSysroot(sysroot, s)
    BY <1>1
  <2>2. "repos" \in DOMAIN s /\ "list" \in DOMAIN s
    BY <1>2 DEF ConfigFields
  <2>3. d.repos = [i \in DOMAIN s.repos |-> RootedRepo(sysroot, s.repos[i])]
    BY <1>4, <2>1, <2>2 DEF PrependSysroot
  <2>4. d.list = [k \in Lists |->
          IF k \in RootedLists THEN [i \in DOMAIN s.list[k] |-> sysroot \o s.list[k][i]]
          ELSE s.list[k]]
    BY <1>4, <2>1, <2>2 DEF PrependSysroot
  <2>5. d.list["Architecture"] = Architectures(m)
    BY <1>2, <2>4 DEF Lists, RootedLists
  <2> QED BY <1>2, <2>3, <2>5 DEF HasRepos
<1> QED BY <1>3, <1>4

\* The configuration that is given to a program, and the lines.
LEMMA GivenIs ==
    ASSUME ReaderInv, MeaningInv, DestInv, pc = "loaded"
    PROVE  \E m, N :
             /\ N \in Nat /\ N = Len(RepoHeaders) /\ HasRepos(dest, m, N)
             /\ Resolvable(m) /\ m.repos = config.repos
             /\ m.level["SigLevel"] = config.level["SigLevel"]
             /\ \E p \in Presets : \A k \in Lists : m.list[k] = p.list[k] \o config.list[k]
             /\ DOMAIN m.repos = 1..N /\ \A r \in 1..N : IsRepo(m.repos[r])
<1>1. PICK p \in Presets : dest = Resolved(p) /\ Resolvable(Merge(p, config))
  BY DEF DestInv
<1>2. PICK c, d : c = config /\ d = dest
  OBVIOUS
<1>3. PICK m : m = Merge(p, c)
  OBVIOUS
<1>4. IsList(c.repos) /\ \A r \in DOMAIN c.repos : IsRepo(c.repos[r])
  BY <1>2 DEF MeaningInv, ReposTyped
<1>5. /\ m.repos = c.repos /\ m.level["SigLevel"] = c.level["SigLevel"]
      /\ \A k \in Lists : m.list[k] = p.list[k] \o c.list[k]
      /\ DOMAIN m = ConfigFields
  <2>1. IsList(c.repos) /\ p \in Presets
    BY <1>1, <1>4
  <2> QED BY <1>3, <2>1, MergedIs
<1>6. PICK rs, T : rs = c.repos /\ rs \in Seq(T)
  BY <1>4 DEF IsList
<1>7. PICK N \in Nat : N = Len(rs) /\ N = Len(RepoHeaders)
  BY <1>2, <1>6 DEF MeaningInv, SectionInv
<1>8. DOMAIN rs = 1..N
  <2>1. rs \in Seq(T) /\ N = Len(rs)
    BY <1>6, <1>7
  <2> QED BY <2>1, ListShape
<1>9. DOMAIN m.repos = 1..N /\ \A r \in 1..N : IsRepo(m.repos[r])
  BY <1>4, <1>5, <1>6, <1>8
<1>10. d = PrependSysroot(sysroot, Resolve(m))
  BY <1>1, <1>2, <1>3 DEF Resolved
<1>11. HasRepos(d, m, N)
  BY <1>5, <1>9, <1>10, ResolvedIs
<1>12. Resolvable(m)
  BY <1>1, <1>2, <1>3
<1> QED BY <1>2, <1>5, <1>7, <1>9, <1>11, <1>12

\* The level a repository is given, from its own words and those of [options].
Inherited(own, global) ==
    IF Said(own) = {} THEN {UseDefault}
    ELSE {b \in SigBits :
            \/ b \in Said(own) /\ Says(own, b)
            \/ b \notin Said(own) /\ Said(global) = {} /\ b[2] \in {"check", "optional"}
            \/ b \notin Said(own) /\ b \in Said(global) /\ Says(global, b)}

LEMMA InheritIs ==
    ASSUME NEW level, NEW values, LevelIs(level, values),
           NEW top, NEW tops, LevelIs(top, tops)
    PROVE  Inherit(level, Global(top)).bits = Inherited(FlattenSeq(values), FlattenSeq(tops))
<1>1. PICK G, own, global : /\ G = Global(top)
                            /\ own = FlattenSeq(values) /\ global = FlattenSeq(tops)
  OBVIOUS
<1>2. level.mask = Said(own) /\ Said(own) \subseteq SigBits /\ Said(global) \subseteq SigBits
  BY <1>1 DEF LevelIs, Said
<1>3. Inherit(level, G).bits = IF level.mask = {} THEN {UseDefault}
                               ELSE (level.bits \cap level.mask) \cup (G \ level.mask)
  BY DEF Inherit
<1>4. CASE Said(own) = {}
  BY <1>1, <1>2, <1>3, <1>4 DEF Inherited
<1>5. CASE Said(own) # {}
  <2>1. values # << >>
    BY <1>1, <1>5, FlattenEmpty, SaidEmpty
  <2>2. level.bits = {b \in Said(own) : Says(own, b)}
    BY <1>1, <2>1 DEF LevelIs
  <2>3. CASE Said(global) = {}
    <3>1. G = {"Package", "Database"} \X {"check", "optional"}
      BY <1>1, <2>3 DEF Global, LevelIs, DefaultLevel
    <3>2. G = {b \in SigBits : b[2] \in {"check", "optional"}}
      BY <3>1 DEF SigBits
    <3> QED BY <1>1, <1>2, <1>3, <1>5, <2>2, <2>3, <3>2 DEF Inherited
  <2>4. CASE Said(global) # {}
    <3>1. tops # << >>
      BY <1>1, <2>4, FlattenEmpty, SaidEmpty
    <3>2. G = {b \in Said(global) : Says(global, b)}
      BY <1>1, <2>4, <3>1 DEF Global, LevelIs
    <3> QED BY <1>1, <1>2, <1>3, <1>5, <2>2, <2>4, <3>2 DEF Inherited
  <2> QED BY <2>3, <2>4
<1> QED BY <1>4, <1>5

\* What a repository checks is what its own SigLevel says and, about the rest, what that
\* of [options] says: inherit_siglevel in pu_config_resolve, for every text.
THEOREM LevelsAreInherited == Spec => []SigLevelsInherit
<1>1. ASSUME ReaderInv, MeaningInv, DestInv PROVE SigLevelsInherit
  <2> SUFFICES ASSUME pc = "loaded", NEW r \in DOMAIN dest.repos
               PROVE  LET own == FlattenSeq(InSection("SigLevel", RepoHeaders[r]))
                          global == FlattenSeq(InOptions("SigLevel"))
                          Checks(b) ==
                            CASE b \in Said(own) -> Says(own, b)
                              [] b \notin Said(own) /\ Said(global) = {} ->
                                   b[2] \in {"check", "optional"}
                              [] OTHER -> b \in Said(global) /\ Says(global, b)
                      IN  dest.repos[r].level.bits =
                            IF Said(own) = {} THEN {UseDefault} ELSE {b \in SigBits : Checks(b)}
    BY DEF SigLevelsInherit
  <2>1. PICK m, N :
          /\ HasRepos(dest, m, N) /\ N \in Nat
          /\ m.repos = config.repos /\ m.level["SigLevel"] = config.level["SigLevel"]
          /\ DOMAIN m.repos = 1..N /\ \A i \in 1..N : IsRepo(m.repos[i])
    BY <1>1, GivenIs
  <2>2. PICK h, a, b : h = RepoHeaders[r] /\ a = config.repos[r] /\ b = config.level["SigLevel"]
    OBVIOUS
  <2>3. dest.repos[r].level = Inherit(a.level, Global(b)) /\ r \in DOMAIN config.repos
    <3>1. r \in 1..N /\ a = m.repos[r] /\ IsRepo(a)
      BY <2>1, <2>2 DEF HasRepos
    <3>2. PICK q, x : q = ResolvedRepo(m, a) /\ x = dest.repos[r]
      OBVIOUS
    <3>3. q.level = Inherit(a.level, Global(b)) /\ DOMAIN q = {"name", "server", "usage", "level"}
      <4>1. /\ q.level = Inherit(a.level, Global(m.level["SigLevel"]))
            /\ DOMAIN q = {"name", "server", "usage", "level"}
        BY <3>1, <3>2, ResolvedRepoIs, ZenonT(30)
      <4> QED BY <2>1, <2>2, <4>1
    <3>4. x = q \/ x = RootedRepo(sysroot, q)
      BY <2>1, <3>1, <3>2 DEF HasRepos
    <3>5. x.level = q.level
      BY <3>3, <3>4 DEF RootedRepo
    <3> QED BY <2>1, <3>1, <3>2, <3>3, <3>5
  <2>4. OptionsMeanText /\ ReposMeanText
    BY <1>1 DEF MeaningInv
  <2>5. LevelIs(a.level, InSection("SigLevel", h))
    BY <2>2, <2>3, <2>4 DEF ReposMeanText, RepoMeansText
  <2>6. LevelIs(b, InOptions("SigLevel"))
    BY <2>2, <2>4, KeysDiffer DEF OptionsMeanText, KindsOfKeys
  <2>7. PICK own, global : /\ own = FlattenSeq(InSection("SigLevel", h))
                           /\ global = FlattenSeq(InOptions("SigLevel"))
    OBVIOUS
  <2>8. dest.repos[r].level.bits =
          IF Said(own) = {} THEN {UseDefault}
          ELSE {x \in SigBits :
                  \/ x \in Said(own) /\ Says(own, x)
                  \/ x \notin Said(own) /\ Said(global) = {} /\ x[2] \in {"check", "optional"}
                  \/ x \notin Said(own) /\ x \in Said(global) /\ Says(global, x)}
    <3>1. PICK vs, ts : vs = InSection("SigLevel", h) /\ ts = InOptions("SigLevel")
      OBVIOUS
    <3>2. PICK v : v = a.level
      OBVIOUS
    <3>3. /\ LevelIs(v, vs) /\ own = FlattenSeq(vs) /\ LevelIs(b, ts) /\ global = FlattenSeq(ts)
      BY <2>5, <2>6, <2>7, <3>1, <3>2
    <3>4. Inherit(v, Global(b)).bits = Inherited(own, global)
      BY <3>3, InheritIs
    <3> QED BY <2>3, <3>2, <3>4 DEF Inherited
  <2>9. ASSUME NEW x \in SigBits
        PROVE  (CASE x \in Said(own) -> Says(own, x)
                  [] x \notin Said(own) /\ Said(global) = {} -> x[2] \in {"check", "optional"}
                  [] OTHER -> x \in Said(global) /\ Says(global, x))
               <=> \/ x \in Said(own) /\ Says(own, x)
                   \/ x \notin Said(own) /\ Said(global) = {} /\ x[2] \in {"check", "optional"}
                   \/ x \notin Said(own) /\ x \in Said(global) /\ Says(global, x)
    BY DEF Says
  <2> QED BY <2>2, <2>7, <2>8, <2>9
<1> QED BY <1>1, Reading, Meaning, Given, PTL

-----------------------------------------------------------------------------
(***************************************************************************)
(* Where the values come from.                                             *)
(***************************************************************************)
LinesInv == text \in Texts /\ \A i \in DOMAIN taken : TakenLine(i) \in AllLines

LEMMA Lined == Spec => []LinesInv
<1>1. Init => LinesInv
  BY DEF Init, LinesInv
<1>2. ReaderInv /\ LinesInv /\ [Next]_vars => LinesInv'
  <2> SUFFICES ASSUME ReaderInv, LinesInv, [Next]_vars PROVE LinesInv'
    OBVIOUS
  <2>1. text' = text /\ AllLines' = AllLines
    BY DEF Next, Section, Setting, Include, IncludeFails, ReadFails, NextInclude, BackToParent,
           Eof, MergeRead, ResolveRead, Finished, vars, env, AllLines
  <2>2. CASE taken' = taken
    BY <2>1, <2>2 DEF LinesInv, TakenLine
  <2>3. CASE taken' # taken
    <3>1. Reads /\ Takes
      BY <2>3 DEF Next, Section, Setting, Include, IncludeFails, ReadFails, NextInclude,
                  BackToParent, Eof, MergeRead, ResolveRead, Finished, vars, Reads
    <3>2. PICK n, l : Grows(n, l) /\ l \in AllLines
      BY <2>1, <3>1, NextLine
    <3>3. ASSUME NEW i \in DOMAIN taken' PROVE TakenLine(i)' \in AllLines
      <4>1. n \in Nat /\ i \in 1..n + 1 /\ DOMAIN taken = 1..n
        BY <3>2, <3>3 DEF Grows
      <4>2. CASE i \in 1..n
        BY <3>2, <4>1, <4>2 DEF Grows, LinesInv
      <4>3. CASE i = n + 1
        BY <3>2, <4>3 DEF Grows
      <4> QED BY <4>1, <4>2, <4>3
    <3> QED BY <2>1, <3>3 DEF LinesInv
  <2> QED BY <2>2, <2>3
<1> QED BY <1>1, <1>2, Reading, PTL DEF Spec

\* The places that are gone through are those that were asked for.
LEMMA InOrderIs ==
    ASSUME ReaderInv, NEW S \in SUBSET DOMAIN taken
    PROVE  InOrder(S) \in Seq(Nat) /\ ToSet(InOrder(S)) \subseteq S
<1>1. PICK n \in Nat : n = Len(taken) /\ DOMAIN taken = 1..n
  <2>1. PICK s, T : s = taken /\ s \in Seq(T)
    BY DEF ReaderInv
  <2> QED BY <2>1
<1>2. PICK s : s = Indices(n)
  OBVIOUS
<1>3. s \in Seq(Nat)
  BY <1>2, IndicesGrow
<1>4. InOrder(S) = Select(s, S)
  BY <1>1, <1>2 DEF InOrder, Indices
<1> QED BY <1>3, <1>4, SelectList, SelectMembers

\* The values of some lines, and what is true of them.
LEMMA ValuesFrom ==
    ASSUME ReaderInv, LinesInv, NEW S \in SUBSET DOMAIN taken, NEW T,
           \A i \in S : TakenLine(i) \in AllLines => TakenLine(i).value \in T
    PROVE  ValuesAt(S) \in Seq(T)
<1>1. PICK q : q = InOrder(S)
  OBVIOUS
<1>2. q \in Seq(Nat) /\ ToSet(q) \subseteq S
  BY <1>1, InOrderIs
<1>3. PICK N \in Nat : DOMAIN q = 1..N
  BY <1>2
<1>4. ASSUME NEW j \in 1..N PROVE TakenLine(q[j]).value \in T
  <2>1. q[j] \in S
    BY <1>2, <1>3 DEF ToSet
  <2> QED BY <2>1 DEF LinesInv
<1>5. ValuesAt(S) = [j \in 1..N |-> TakenLine(q[j]).value]
  BY <1>1, <1>3 DEF ValuesAt
<1> QED BY <1>4, <1>5

LEMMA RepoHeaderIs ==
    ASSUME ReaderInv, LinesInv, NEW r \in 1..Len(RepoHeaders)
    PROVE  \E l \in AllLines : l.key = "Header" /\ TakenLine(RepoHeaders[r]) = l
<1>1. PICK q, S : q = RepoHeaders /\ S = RepoPlaces
  OBVIOUS
<1>2. S \in SUBSET DOMAIN taken /\ S \subseteq Headers
  BY <1>1 DEF RepoPlaces, Headers
<1>3. q = InOrder(S)
  BY <1>1 DEF RepoHeaders, RepoPlaces, InOrder
<1>4. q \in Seq(Nat) /\ ToSet(q) \subseteq S
  BY <1>2, <1>3, InOrderIs
<1>5. q[r] \in S
  <2>1. DOMAIN q = 1..Len(q)
    BY <1>4
  <2> QED BY <1>1, <1>4, <2>1 DEF ToSet
<1> QED BY <1>1, <1>2, <1>5 DEF LinesInv, Headers

\* A server with its variables put in.
LEMMA SubstituteIs ==
    ASSUME NEW s, IsList(s), NEW a, NEW name, name \notin Variables,
           "$arch" \in ToSet(s) => a \notin Variables, NEW u, u = Substitute(s, a, name)
    PROVE  /\ IsList(u) /\ ToSet(u) \cap Variables = {}
           /\ "$repo" \in ToSet(s) => name \in ToSet(u)
           /\ "$arch" \in ToSet(s) => a \in ToSet(u)
<1>1. PICK N \in Nat : N = Len(s) /\ DOMAIN s = 1..N
  BY DEF IsList
<1>2. PICK v : v = ReplaceAll(s, "$arch", a)
  OBVIOUS
<1>3. v = [i \in 1..N |-> IF s[i] = "$arch" THEN a ELSE s[i]]
  BY <1>1, <1>2 DEF ReplaceAll
<1>4. Len(v) = N
  BY <1>3
<1>5. u = [i \in 1..N |-> IF v[i] = "$repo" THEN name ELSE v[i]]
  BY <1>2, <1>4 DEF Substitute, ReplaceAll
<1>6. DOMAIN u = 1..N /\ \A i \in 1..N : u[i] \in ToSet(u)
  BY <1>5 DEF ToSet
<1>7. IsList(u)
  <2>1. PICK T : T = ToSet(u)
    OBVIOUS
  <2>2. u = [i \in 1..N |-> u[i]] /\ \A i \in 1..N : u[i] \in T
    BY <1>5, <1>6, <2>1
  <2>3. u \in Seq(T)
    BY <2>2
  <2> QED BY <2>1, <2>3 DEF IsList
<1>8. ASSUME NEW i \in 1..N PROVE u[i] \notin Variables
  <2>1. s[i] \in ToSet(s)
    BY <1>1 DEF ToSet
  <2> QED BY <1>3, <1>5, <2>1 DEF Variables
<1>9. ASSUME "$repo" \in ToSet(s) PROVE name \in ToSet(u)
  <2>1. PICK i \in 1..N : s[i] = "$repo"
    BY <1>1, <1>9 DEF ToSet
  <2>2. u[i] = name
    BY <1>3, <1>5, <2>1
  <2> QED BY <1>6, <2>2
<1>10. ASSUME "$arch" \in ToSet(s) PROVE a \in ToSet(u)
  <2>1. PICK i \in 1..N : s[i] = "$arch"
    BY <1>1, <1>10 DEF ToSet
  <2>2. u[i] = a
    BY <1>3, <1>5, <1>10, <2>1 DEF Variables
  <2> QED BY <1>6, <2>2
<1>11. ToSet(u) \cap Variables = {}
  BY <1>6, <1>8 DEF ToSet
<1> QED BY <1>7, <1>9, <1>10, <1>11

\* A server that is a directory below the sysroot.
LEMMA PrependIs ==
    ASSUME NEW s, IsList(s), NEW root, IsList(root), NEW u, u = PrependServer(root, s)
    PROVE  ToSet(s) \subseteq ToSet(u) /\ ToSet(u) \subseteq ToSet(s) \cup ToSet(root)
<1>1. CASE ~(s # << >> /\ Head(s) = "file://")
  <2>1. u = s
    BY <1>1, Zenon DEF PrependServer
  <2> QED BY <2>1
<1>2. CASE s # << >> /\ Head(s) = "file://"
  <2>1. u = <<"file://">> \o root \o Tail(s)
    BY <1>2 DEF PrependServer
  <2>2. PICK T : T = ToSet(s) \cup ToSet(root)
    OBVIOUS
  <2>3. s \in Seq(T) /\ root \in Seq(T)
    BY <2>2, ListOfMembers
  <2>4. PICK N \in Nat, M \in Nat : N = Len(s) /\ M = Len(root)
    BY <2>3
  <2>5. N > 0 /\ DOMAIN s = 1..N /\ DOMAIN root = 1..M /\ s[1] = "file://"
    BY <1>2, <2>3, <2>4
  <2>6. PICK t : t = Tail(s)
    OBVIOUS
  <2>7. t \in Seq(T) /\ Len(t) = N - 1 /\ \A i \in 1..N - 1 : t[i] = s[i + 1]
    BY <2>3, <2>4, <2>5, <2>6, HeadTailMembers
  <2>8. PICK e \in Seq(T) : e = <<"file://">>
    <3>1. 1 \in DOMAIN s
      BY <2>4, <2>5
    <3>2. "file://" \in T
      BY <2>2, <2>5, <3>1 DEF ToSet
    <3>3. PICK x \in T : x = "file://"
      BY <3>2
    <3>4. <<x>> \in Seq(T)
      OBVIOUS
    <3> QED BY <3>3, <3>4
  <2>9. PICK w \in Seq(T) : w = e \o root
    <3>1. e \o root \in Seq(T)
      BY <2>3
    <3> QED BY <3>1
  <2>10. Len(w) = M + 1 /\ w[1] = "file://" /\ \A i \in 1..M : w[i + 1] = root[i]
    BY <2>3, <2>4, <2>8, <2>9
  <2>11. u = w \o t /\ u \in Seq(T) /\ Len(u) = M + N
    BY <2>1, <2>6, <2>7, <2>8, <2>9, <2>10
  <2>12. (\A i \in 1..M + 1 : u[i] = w[i]) /\ \A i \in 1..N - 1 : u[M + 1 + i] = t[i]
    <3>1. w \in Seq(T) /\ t \in Seq(T) /\ Len(w) = M + 1 /\ Len(t) = N - 1
      BY <2>7, <2>9, <2>10
    <3>2. /\ \A i \in 1..M + 1 : (w \o t)[i] = w[i]
          /\ \A i \in 1..N - 1 : (w \o t)[M + 1 + i] = t[i]
      BY <3>1
    <3> QED BY <2>11, <3>2
  <2>13. DOMAIN u = 1..M + N /\ ToSet(u) \subseteq T
    <3>1. ToSet(u) \subseteq T
      BY <2>11, MembersOfList
    <3> QED BY <2>11, <3>1
  <2>14. ASSUME NEW i \in 1..N PROVE s[i] \in ToSet(u)
    <3>1. CASE i = 1
      <4>1. u[1] = "file://" /\ 1 \in DOMAIN u
        BY <2>5, <2>10, <2>12, <2>13
      <4> QED BY <2>5, <3>1, <4>1 DEF ToSet
    <3>2. CASE i # 1
      <4>1. PICK j \in 1..N - 1 : i = j + 1
        BY <3>2
      <4>2. u[M + 1 + j] = s[i]
        BY <2>7, <2>12, <4>1, Zenon
      <4>3. M + 1 + j \in DOMAIN u
        BY <2>4, <2>13, <4>1
      <4> QED BY <4>2, <4>3 DEF ToSet
    <3> QED BY <3>1, <3>2
  <2>15. ToSet(s) \subseteq ToSet(u)
    BY <2>5, <2>14 DEF ToSet
  <2> QED BY <2>2, <2>13, <2>15
<1> QED BY <1>1, <1>2

\* The architectures that are put into servers.
LEMMA ArchitectureIs ==
    ASSUME NoVariables, LinesInv, ReaderInv, MeaningInv, pc # "failed",
           NEW p \in Presets, NEW m,
           m.list["Architecture"] = p.list["Architecture"] \o config.list["Architecture"],
           m.list["Architecture"] # << >>
    PROVE  ArchOf(m) \notin Variables /\ ArchOf(m) = Head(Architectures(m))
<1>1. ArchOf(m) = Head(Architectures(m))
  BY DEF ArchOf
<1>2. PICK T : T = {x \in Items \cup ToSet(p.list["Architecture"]) : x \notin Variables}
  OBVIOUS
<1>3. "Architecture" \in Lists
  BY DEF Lists
<1>4. p.list["Architecture"] \in Seq(T)
  <2>1. PICK s : s = p.list["Architecture"]
    OBVIOUS
  <2>2. IsList(s) /\ ToSet(s) \cap Variables = {}
    BY <1>3, <2>1, PresetsAssumption DEF IsPreset, NoVariables
  <2>3. ToSet(s) \subseteq T
    BY <1>2, <2>1, <2>2
  <2> QED BY <2>1, <2>2, <2>3, ListOfMembers
<1>5. config.list["Architecture"] \in Seq(T)
  <2>1. PICK S : S = OptionPlaces("Architecture")
    OBVIOUS
  <2>2. S \in SUBSET DOMAIN taken
    BY <2>1 DEF OptionPlaces, Known
  <2>3. ASSUME NEW i \in S, TakenLine(i) \in AllLines PROVE TakenLine(i).value \in Seq(T)
    <3>1. PICK l : l = TakenLine(i)
      OBVIOUS
    <3>2. l \in AllLines /\ l.key = "Architecture" /\ KnownIn("options", l)
      <4>1. i \in Known /\ l.key = "Architecture" /\ SectionOf(i) = "options"
        BY <2>1, <3>1 DEF OptionPlaces
      <4> QED BY <2>3, <3>1, <4>1 DEF Known
    <3>3. l.value # None
      <4>1. "Architecture" \notin Flags
        BY DEF Flags
      <4> QED BY <3>2, <4>1 DEF KnownIn
    <3>4. PICK f \in DOMAIN text : l \in ToSet(text[f])
      BY <3>2 DEF AllLines
    <3>5. IsLine(l)
      BY <3>4 DEF ReaderInv, AreFiles, IsFile
    <3>6. ToSet(l.value) \cap Variables = {}
      BY <3>2, <3>3, <3>4 DEF NoVariables, LinesInv
    <3>7. l.value \in Seq(Items)
      BY <1>3, <3>2, <3>3, <3>5, ListValue
    <3>8. PICK v : v = l.value
      OBVIOUS
    <3>9. IsList(v) /\ ToSet(v) \subseteq Items
      BY <3>7, <3>8, MembersOfList
    <3>10. ToSet(v) \subseteq T
      BY <1>2, <3>6, <3>8, <3>9
    <3> QED BY <3>1, <3>8, <3>9, <3>10, ListOfMembers
  <2>4. ValuesAt(S) \in Seq(Seq(T))
    BY <2>2, <2>3, ValuesFrom
  <2>5. config.list["Architecture"] = FlattenSeq(ValuesAt(S))
    BY <1>3, <2>1 DEF MeaningInv, OptionsMeanText, InOptions, OptionPlaces, ValuesAt, InOrder
  <2> QED BY <2>4, <2>5, FlattenList
<1>6. PICK s \in Seq(T) : s = m.list["Architecture"]
  <2>1. PICK a \in Seq(T), b \in Seq(T) :
          a = p.list["Architecture"] /\ b = config.list["Architecture"]
    BY <1>4, <1>5
  <2>2. a \o b \in Seq(T)
    OBVIOUS
  <2> QED BY <2>1, <2>2
<1>7. PICK N \in Nat : N = Len(s) /\ DOMAIN s = 1..N
  OBVIOUS
<1>8. N > 0 /\ \A i \in 1..N : s[i] \in T
  <2>1. s # << >>
    BY <1>6
  <2>2. N # 0
    BY <1>6, <1>7, <2>1, EmptySeq
  <2>3. \A i \in 1..N : s[i] \in T
    BY <1>6, <1>7, ListShape
  <2> QED BY <1>7, <2>2, <2>3
<1>9. PICK u : u = Architectures(m)
  OBVIOUS
<1>10. u = [i \in 1..N |-> IF s[i] = "auto" THEN Machine ELSE s[i]]
  BY <1>6, <1>7, <1>9 DEF Architectures
<1>11. \A i \in 1..N : u[i] \in T \cup {Machine}
  BY <1>8, <1>10
<1>12. u \in Seq(T \cup {Machine}) /\ Len(u) = N
  BY <1>10, <1>11
<1>13. Head(u) = u[1] /\ u[1] \in T \cup {Machine}
  BY <1>8, <1>11, <1>12
<1> QED BY <1>1, <1>2, <1>9, <1>13 DEF NoVariables

\* The servers of a repository, as they were written and as they are used.
LEMMA ServersAre ==
    ASSUME NoVariables, LinesInv, ReaderInv, MeaningInv, DestInv, pc = "loaded",
           NEW r \in DOMAIN dest.repos, NEW k \in ServerLists
    PROVE  LET written == InSection(k, RepoHeaders[r])
               used == dest.repos[r].server[k]
           IN  /\ Len(used) = Len(written)
               /\ \A j \in DOMAIN used :
                    /\ ToSet(used[j]) \cap Variables = {}
                    /\ "$repo" \in ToSet(written[j]) => dest.repos[r].name \in ToSet(used[j])
                    /\ "$arch" \in ToSet(written[j]) =>
                         Head(dest.list["Architecture"]) \in ToSet(used[j])
<1>1. PICK m, N, p :
        /\ N \in Nat /\ N = Len(RepoHeaders) /\ HasRepos(dest, m, N)
        /\ Resolvable(m) /\ m.repos = config.repos /\ p \in Presets
        /\ \A l \in Lists : m.list[l] = p.list[l] \o config.list[l]
        /\ DOMAIN m.repos = 1..N /\ \A i \in 1..N : IsRepo(m.repos[i])
  BY GivenIs
<1>2. PICK h, a, x, q, A : /\ h = RepoHeaders[r] /\ a = m.repos[r] /\ x = dest.repos[r]
                           /\ q = ResolvedRepo(m, a) /\ A = ArchOf(m)
  OBVIOUS
<1>3. r \in 1..N /\ IsRepo(a) /\ (x = q \/ x = RootedRepo(sysroot, q))
  BY <1>1, <1>2 DEF HasRepos
<1>4. PICK W, U, name : W = InSection(k, h) /\ U = x.server[k] /\ name = a.name
  OBVIOUS
<1>5. a.server[k] = W /\ name \notin Variables
  <2>1. ReposMeanText /\ r \in DOMAIN config.repos
    BY <1>1, <1>3 DEF MeaningInv
  <2>2. a = config.repos[r]
    BY <1>1, <1>2
  <2>3. a.server[k] = W /\ name = TakenLine(h).value
    BY <1>2, <1>4, <2>1, <2>2 DEF ReposMeanText, RepoMeansText
  <2>4. PICK l \in AllLines : l.key = "Header" /\ TakenLine(h) = l
    BY <1>1, <1>2, <1>3, RepoHeaderIs
  <2>5. PICK f \in DOMAIN text : l \in ToSet(text[f])
    BY DEF AllLines
  <2>6. l.value \notin Variables
    BY <2>4, <2>5 DEF NoVariables, LinesInv
  <2> QED BY <2>3, <2>4, <2>6
<1>6. PICK T, L : L \in Nat /\ W \in Seq(T) /\ L = Len(W) /\ \A w \in T : IsList(w)
  <2>1. PICK S : S = SectionPlaces(k, h)
    OBVIOUS
  <2>2. S \in SUBSET DOMAIN taken
    BY <2>1 DEF SectionPlaces, Known
  <2>3. PICK T : T = {l.value : l \in {l \in AllLines : IsList(l.value)}}
    OBVIOUS
  <2>4. ASSUME NEW i \in S, TakenLine(i) \in AllLines PROVE TakenLine(i).value \in T
    <3>1. PICK l : l = TakenLine(i)
      OBVIOUS
    <3>2. l \in AllLines /\ l.key = k
      BY <2>1, <2>4, <3>1 DEF SectionPlaces
    <3>3. IsLine(l)
      BY <3>2 DEF AllLines, ReaderInv, AreFiles, IsFile
    <3>4. IsList(l.value)
      BY <3>2, <3>3 DEF IsLine
    <3> QED BY <2>3, <3>1, <3>2, <3>4
  <2>5. ValuesAt(S) \in Seq(T)
    BY <2>2, <2>4, ValuesFrom
  <2>6. W = ValuesAt(S)
    BY <1>4, <2>1 DEF InSection, SectionPlaces, ValuesAt, InOrder
  <2>7. PICK L \in Nat : L = Len(W)
    BY <2>5, <2>6
  <2>8. \A w \in T : IsList(w)
    BY <2>3
  <2> QED BY <2>5, <2>6, <2>7, <2>8
<1>7. DOMAIN W = 1..L /\ \A j \in 1..L : IsList(W[j])
  BY <1>6
<1>8. q.server[k] = [j \in 1..L |-> Substitute(W[j], A, name)] /\ q.name = name
      /\ DOMAIN q = {"name", "server", "usage", "level"} /\ DOMAIN q.server = ServerLists
  <2>1. /\ q.name = a.name
        /\ q.server = [i \in ServerLists |->
             [j \in DOMAIN a.server[i] |-> Substitute(a.server[i][j], ArchOf(m), a.name)]]
        /\ DOMAIN q = {"name", "server", "usage", "level"}
    BY <1>2, <1>3, ResolvedRepoIs
  <2> QED BY <1>2, <1>4, <1>5, <1>7, <2>1
<1>9. x.name = name
      /\ \/ U = [j \in 1..L |-> Substitute(W[j], A, name)]
         \/ U = [j \in 1..L |-> PrependServer(sysroot, Substitute(W[j], A, name))]
  <2>1. CASE x = q
    BY <1>4, <1>8, <2>1
  <2>2. CASE x = RootedRepo(sysroot, q)
    <3>1. PICK f : f = [i \in ServerLists |->
                         [j \in DOMAIN q.server[i] |-> PrependServer(sysroot, q.server[i][j])]]
      OBVIOUS
    <3>2. x = [q EXCEPT !.server = f]
      BY <2>2, <3>1 DEF RootedRepo
    <3>3. x.name = name /\ x.server = f
      BY <1>8, <3>2
    <3>4. U = [j \in 1..L |-> PrependServer(sysroot, Substitute(W[j], A, name))]
      <4>1. PICK g : g = q.server[k]
        OBVIOUS
      <4>2. U = [j \in DOMAIN g |-> PrependServer(sysroot, g[j])]
        BY <1>4, <3>1, <3>3, <4>1
      <4>3. DOMAIN g = 1..L /\ \A j \in 1..L : g[j] = Substitute(W[j], A, name)
        BY <1>8, <4>1
      <4> QED BY <4>2, <4>3
    <3> QED BY <3>3, <3>4
  <2> QED BY <1>3, <2>1, <2>2
<1>10. DOMAIN U = 1..L /\ Len(U) = L
  <2>1. DOMAIN U = 1..L /\ U = [j \in 1..L |-> U[j]] /\ L \in Nat
    BY <1>6, <1>9
  <2>2. \A j \in 1..L : U[j] \in {U[i] : i \in 1..L}
    OBVIOUS
  <2>3. U \in Seq({U[i] : i \in 1..L}) /\ Len(U) = L
    BY <2>1, <2>2
  <2> QED BY <2>1, <2>3
<1>11. ASSUME NEW j \in 1..L
       PROVE  /\ ToSet(U[j]) \cap Variables = {}
              /\ "$repo" \in ToSet(W[j]) => name \in ToSet(U[j])
              /\ "$arch" \in ToSet(W[j]) => Head(Architectures(m)) \in ToSet(U[j])
  <2>1. PICK w, s : w = W[j] /\ s = Substitute(w, A, name)
    OBVIOUS
  <2>2. "$arch" \in ToSet(w) => A \notin Variables /\ A = Head(Architectures(m))
    <3> SUFFICES ASSUME "$arch" \in ToSet(w)
                 PROVE  A \notin Variables /\ A = Head(Architectures(m))
      OBVIOUS
    <3>1. m.list["Architecture"] # << >>
      <4>1. r \in DOMAIN m.repos /\ m.repos[r].server[k] = W /\ j \in DOMAIN W
        BY <1>1, <1>2, <1>3, <1>5, <1>7
      <4>2. "$arch" \in ToSet(m.repos[r].server[k][j])
        BY <2>1, <4>1
      <4> QED BY <1>1, <4>1, <4>2 DEF Resolvable
    <3>2. m.list["Architecture"] = p.list["Architecture"] \o config.list["Architecture"]
      BY <1>1 DEF Lists
    <3>3. p \in Presets /\ pc # "failed"
      BY <1>1
    <3> QED BY <1>2, <3>1, <3>2, <3>3, ArchitectureIs
  <2>3. IsList(w) /\ name \notin Variables
    BY <1>5, <1>7, <2>1
  <2>4. /\ IsList(s) /\ ToSet(s) \cap Variables = {}
        /\ "$repo" \in ToSet(w) => name \in ToSet(s)
        /\ "$arch" \in ToSet(w) => A \in ToSet(s)
    BY <2>1, <2>2, <2>3, SubstituteIs
  <2>5. U[j] = s \/ U[j] = PrependServer(sysroot, s)
    BY <1>9, <2>1
  <2>6. ToSet(s) \subseteq ToSet(U[j]) /\ ToSet(U[j]) \cap Variables = {}
    <3>1. CASE U[j] = s
      BY <2>4, <3>1
    <3>2. CASE U[j] = PrependServer(sysroot, s)
      <4>1. PICK root : root = sysroot
        OBVIOUS
      <4>2. IsList(root) /\ ToSet(root) \cap Variables = {}
        BY <4>1, SysrootsAssumption DEF DestInv, NoVariables
      <4>3. PICK u : u = PrependServer(root, s) /\ u = U[j]
        BY <3>2, <4>1
      <4>4. ToSet(s) \subseteq ToSet(u) /\ ToSet(u) \subseteq ToSet(s) \cup ToSet(root)
        BY <2>4, <4>2, <4>3, PrependIs
      <4> QED BY <2>4, <4>2, <4>3, <4>4
    <3> QED BY <2>5, <3>1, <3>2
  <2> QED BY <2>1, <2>2, <2>4, <2>6
<1>12. dest.list["Architecture"] = Architectures(m)
  BY <1>1 DEF HasRepos
<1> QED BY <1>2, <1>4, <1>6, <1>9, <1>10, <1>11, <1>12

\* Every server is complete: $repo and $arch are replaced in all that were written, by the
\* name of the section and the first architecture, and none is lost or added; pu_config_resolve
\* and pu_config_sysroot, as long as no name is that of a variable.
THEOREM ServersAreResolved ==
    ASSUME NoVariables
    PROVE  Spec => []ServersResolved
<1>1. ReaderInv /\ MeaningInv /\ DestInv /\ LinesInv => ServersResolved
  BY ServersAre DEF ServersResolved
<1> QED BY <1>1, Reading, Meaning, Given, Lined, PTL

-----------------------------------------------------------------------------
(***************************************************************************)
(* The sysroot.                                                            *)
(***************************************************************************)
Outside(path) == IsList(path) /\ Head(sysroot) \notin ToSet(path)

\* What is put below a root that it does not mention is below it once.
LEMMA RootedIs ==
    ASSUME NEW root, IsList(root), root # << >>, NEW s, IsList(s), Head(root) \notin ToSet(s),
           NEW y, y = root \o s
    PROVE  IsPrefix(root, y) /\ ~IsPrefix(root, SubSeq(y, Len(root) + 1, Len(y)))
<1>1. PICK T : T = ToSet(s) \cup ToSet(root)
  OBVIOUS
<1>2. s \in Seq(T) /\ root \in Seq(T)
  BY <1>1, ListOfMembers
<1>3. PICK N \in Nat, M \in Nat : N = Len(s) /\ M = Len(root)
  BY <1>2
<1>4. M > 0 /\ Head(root) = root[1] /\ DOMAIN s = 1..N
  BY <1>2, <1>3, EmptySeq
<1>5. /\ y \in Seq(T) /\ Len(y) = M + N /\ (\A i \in 1..M : y[i] = root[i])
      /\ \A i \in 1..N : y[M + i] = s[i]
  <2>1. /\ root \o s \in Seq(T) /\ Len(root \o s) = M + N
        /\ \A i \in 1..M : (root \o s)[i] = root[i]
        /\ \A i \in 1..N : (root \o s)[M + i] = s[i]
    BY <1>2, <1>3
  <2> QED BY <2>1
<1>6. IsPrefix(root, y)
  <2>1. SubSeq(y, 1, M) = SubSeq(root, 1, M)
    BY <1>2, <1>3, <1>5, SubSeqSame, 1 \in Nat \ {0}
  <2> QED BY <1>3, <1>5, <2>1 DEF IsPrefix
<1>7. PICK z : z = SubSeq(y, M + 1, M + N)
  OBVIOUS
<1>8. /\ z \in Seq(T) /\ Len(z) = IF M + 1 <= M + N THEN M + N - (M + 1) + 1 ELSE 0
      /\ \A i \in 1..(M + N - (M + 1) + 1) : z[i] = y[M + 1 + i - 1]
  <2>1. \A i \in M + 1..M + N : y[i] \in T
    BY <1>3, <1>5
  <2> QED BY <1>3, <1>5, <1>7, <2>1, SubSeqProperties
<1>9. z \in Seq(T) /\ Len(z) = N /\ \A i \in 1..N : z[i] = s[i]
  <2>1. Len(z) = N
    BY <1>3, <1>8
  <2>2. ASSUME NEW i \in 1..N PROVE z[i] = s[i]
    <3>1. M + 1 + i - 1 = M + i /\ i \in 1..(M + N - (M + 1) + 1)
      BY <1>3
    <3> QED BY <1>5, <1>8, <3>1
  <2> QED BY <1>8, <2>1, <2>2
<1>10. ASSUME IsPrefix(root, z) PROVE FALSE
  <2>1. M <= N /\ SubSeq(root, 1, M) = SubSeq(z, 1, M)
    BY <1>3, <1>9, <1>10 DEF IsPrefix
  <2>2. SubSeq(root, 1, M)[1] = root[1] /\ SubSeq(z, 1, M)[1] = z[1]
    BY <1>2, <1>3, <1>4, <1>9, <2>1
  <2>3. 1 \in 1..N
    BY <1>3, <1>4, <2>1
  <2>4. root[1] = s[1] /\ 1 \in DOMAIN s
    BY <1>4, <1>9, <2>1, <2>2, <2>3
  <2> QED BY <1>4, <2>4 DEF ToSet
<1> QED BY <1>3, <1>5, <1>6, <1>7, <1>10

Apart == SysrootApart /\ sysroot # << >>

\* The values of a setting in [options] that takes one.
LEMMA OptionValues ==
    ASSUME ReaderInv, LinesInv, NEW k, k \notin Flags, NEW T,
           \A l \in AllLines : l.key = k /\ l.value # None /\ IsLine(l) => l.value \in T
    PROVE  ValuesAt(OptionPlaces(k)) \in Seq(T)
<1>1. PICK S : S = OptionPlaces(k)
  OBVIOUS
<1>2. S \in SUBSET DOMAIN taken
  BY <1>1 DEF OptionPlaces, Known
<1>3. ASSUME NEW i \in S, TakenLine(i) \in AllLines PROVE TakenLine(i).value \in T
  <2>1. PICK l : l = TakenLine(i)
    OBVIOUS
  <2>2. l \in AllLines /\ l.key = k /\ KnownIn("options", l)
    <3>1. i \in Known /\ l.key = k /\ SectionOf(i) = "options"
      BY <1>1, <2>1, <1>3 DEF OptionPlaces
    <3> QED BY <1>3, <2>1, <3>1 DEF Known
  <2>3. l.value # None
    BY <2>2 DEF KnownIn
  <2>4. IsLine(l)
    BY <2>2 DEF AllLines, ReaderInv, AreFiles, IsFile
  <2> QED BY <2>1, <2>2, <2>3, <2>4
<1> QED BY <1>1, <1>2, <1>3, ValuesFrom

LEMMA StringOutside ==
    ASSUME ReaderInv, LinesInv, MeaningInv, DestInv, Apart, pc # "failed", NEW k \in FirstWins
    PROVE  config.str[k] = None \/ Outside(config.str[k])
<1>1. PICK T, S : T = {v \in AllValues : Outside(v)} /\ S = OptionPlaces(k)
  OBVIOUS
<1>2. ASSUME NEW l \in AllLines, l.key = k, l.value # None, IsLine(l) PROVE l.value \in T
  <2>1. IsList(l.value)
    BY <1>2 DEF IsLine
  <2>2. PICK f \in DOMAIN text : l \in ToSet(text[f])
    BY DEF AllLines
  <2>3. text \in Texts /\ sysroot \in Sysroots \ {<< >>}
    BY DEF LinesInv, DestInv, Apart
  <2>4. Head(sysroot) \notin ToSet(l.value)
    BY <1>2, <2>2, <2>3 DEF Apart, SysrootApart
  <2> QED BY <1>1, <2>1, <2>4 DEF AllValues, Outside
<1>3. k \notin Flags
  BY DEF FirstWins, Flags
<1>4. ValuesAt(S) \in Seq(T)
  BY <1>1, <1>2, <1>3, OptionValues
<1>5. PICK s \in Seq(T) : s = InOptions(k)
  BY <1>1, <1>4 DEF InOptions, OptionPlaces, ValuesAt, InOrder
<1>6. config.str[k] = IF s = << >> THEN None ELSE Head(s)
  BY <1>5 DEF MeaningInv, OptionsMeanText
<1>7. s # << >> => Head(s) \in T
  BY HeadTailMembers
<1> QED BY <1>1, <1>6, <1>7

\* The paths of a list, as they were read.
LEMMA ListOutside ==
    ASSUME ReaderInv, LinesInv, MeaningInv, DestInv, Apart, pc # "failed", NEW k \in RootedLists
    PROVE  IsList(config.list[k]) /\ \A p \in ToSet(config.list[k]) : Outside(p)
<1>1. PICK T, S : T = {v \in Items : Outside(v)} /\ S = OptionPlaces(k)
  OBVIOUS
<1>2. k \in Lists /\ k \notin Flags
  BY DEF RootedLists, Lists, Flags
<1>3. ASSUME NEW l \in AllLines, l.key = k, l.value # None, IsLine(l) PROVE l.value \in Seq(T)
  <2>1. PICK v : v = l.value
    OBVIOUS
  <2>2. IsList(v) /\ \A p \in ToSet(v) : IsList(p)
    BY <1>2, <1>3, <2>1 DEF IsLine
  <2>3. PICK f \in DOMAIN text : l \in ToSet(text[f])
    BY DEF AllLines
  <2>4. text \in Texts /\ sysroot \in Sysroots \ {<< >>}
    BY DEF LinesInv, DestInv, Apart
  <2>5. \A p \in ToSet(v) : Head(sysroot) \notin ToSet(p)
    BY <1>3, <2>1, <2>3, <2>4 DEF Apart, SysrootApart
  <2>6. ToSet(v) \subseteq Items
    BY <1>2, <1>3, <2>1 DEF Items
  <2>7. ToSet(v) \subseteq T
    BY <1>1, <2>2, <2>5, <2>6 DEF Outside
  <2> QED BY <2>1, <2>2, <2>7, ListOfMembers
<1>4. PICK ss \in Seq(Seq(T)) : ss = InOptions(k)
  <2>1. ValuesAt(S) \in Seq(Seq(T))
    BY <1>1, <1>2, <1>3, OptionValues
  <2> QED BY <1>1, <2>1 DEF InOptions, OptionPlaces, ValuesAt, InOrder
<1>5. config.list[k] = FlattenSeq(ss)
  BY <1>2, <1>4 DEF MeaningInv, OptionsMeanText
<1>6. FlattenSeq(ss) \in Seq(T)
  BY FlattenList
<1>7. PICK s \in Seq(T) : s = config.list[k]
  BY <1>5, <1>6
<1>8. IsList(s) /\ ToSet(s) \subseteq T
  BY MembersOfList
<1> QED BY <1>1, <1>7, <1>8

LEMMA ArchitectureApart ==
    ASSUME ReaderInv, LinesInv, MeaningInv, DestInv, Apart, pc # "failed",
           NEW p \in Presets, NEW m,
           m.list["Architecture"] = p.list["Architecture"] \o config.list["Architecture"]
    PROVE  ArchOf(m) # Head(sysroot)
<1>1. sysroot \in Sysroots \ {<< >>} /\ Head(sysroot) \notin {None, Machine}
  BY DEF DestInv, Apart, SysrootApart
<1>2. PICK k : k = "Architecture"
  OBVIOUS
<1>3. k \in Lists /\ k \notin Flags
  BY <1>2 DEF Lists, Flags
<1>4. PICK T : T = {x \in Items \cup ToSet(p.list[k]) : x # Head(sysroot)}
  OBVIOUS
<1>5. p.list[k] \in Seq(T)
  <2>1. PICK s : s = p.list[k]
    OBVIOUS
  <2>2. IsList(s) /\ Head(sysroot) \notin ToSet(s)
    BY <1>1, <1>2, <1>3, <2>1, PresetsAssumption DEF IsPreset, Apart, SysrootApart
  <2>3. ToSet(s) \subseteq T
    BY <1>4, <2>1, <2>2
  <2> QED BY <2>1, <2>2, <2>3, ListOfMembers
<1>6. config.list[k] \in Seq(T)
  <2>1. ASSUME NEW l \in AllLines, l.key = k, l.value # None, IsLine(l) PROVE l.value \in Seq(T)
    <3>1. PICK v : v = l.value
      OBVIOUS
    <3>2. PICK f \in DOMAIN text : l \in ToSet(text[f])
      BY DEF AllLines
    <3>3. Head(sysroot) \notin ToSet(v)
      BY <1>1, <1>2, <2>1, <3>1, <3>2 DEF LinesInv, Apart, SysrootApart
    <3>4. IsList(v)
      BY <1>3, <2>1, <3>1 DEF IsLine
    <3>5. ToSet(v) \subseteq Items
      BY <1>3, <2>1, <3>1 DEF Items
    <3>6. ToSet(v) \subseteq T
      BY <1>4, <3>3, <3>5
    <3> QED BY <3>1, <3>4, <3>6, ListOfMembers
  <2>2. PICK S : S = OptionPlaces(k)
    OBVIOUS
  <2>3. ValuesAt(S) \in Seq(Seq(T))
    BY <1>3, <2>1, <2>2, OptionValues
  <2>4. config.list[k] = FlattenSeq(ValuesAt(S))
    BY <1>3, <2>2 DEF MeaningInv, OptionsMeanText, InOptions, OptionPlaces, ValuesAt, InOrder
  <2> QED BY <2>3, <2>4, FlattenList
<1>7. PICK s \in Seq(T) : s = m.list[k]
  <2>1. PICK a \in Seq(T), b \in Seq(T) : a = p.list[k] /\ b = config.list[k]
    BY <1>5, <1>6
  <2>2. a \o b \in Seq(T)
    OBVIOUS
  <2> QED BY <1>2, <2>1, <2>2
<1>8. CASE s = << >>
  BY <1>1, <1>2, <1>7, <1>8 DEF ArchOf
<1>9. CASE s # << >>
  <2>1. PICK N \in Nat : N = Len(s) /\ DOMAIN s = 1..N
    OBVIOUS
  <2>2. N > 0 /\ \A i \in 1..N : s[i] \in T
    <3>1. N # 0
      BY <1>9, <2>1, EmptySeq
    <3>2. \A i \in 1..N : s[i] \in T
      BY <2>1, ListShape
    <3> QED BY <2>1, <3>1, <3>2
  <2>3. PICK u : u = Architectures(m)
    OBVIOUS
  <2>4. u = [i \in 1..N |-> IF s[i] = "auto" THEN Machine ELSE s[i]]
    BY <1>2, <1>7, <2>1, <2>3 DEF Architectures
  <2>5. \A i \in 1..N : u[i] \in T \cup {Machine}
    BY <2>2, <2>4
  <2>6. u \in Seq(T \cup {Machine}) /\ Len(u) = N
    BY <2>4, <2>5
  <2>7. Head(u) \in T \cup {Machine}
    BY <2>2, <2>5, <2>6
  <2>8. ArchOf(m) = Head(u)
    BY <1>2, <1>7, <1>9, <2>3 DEF ArchOf
  <2> QED BY <1>1, <1>4, <2>7, <2>8
<1> QED BY <1>8, <1>9

\* The servers of a repository, as they were read.
LEMMA ServersOutside ==
    ASSUME ReaderInv, LinesInv, MeaningInv, DestInv, Apart, pc # "failed",
           NEW r \in DOMAIN config.repos, NEW k \in ServerLists
    PROVE  /\ IsList(config.repos[r].server[k]) /\ config.repos[r].name # Head(sysroot)
           /\ \A s \in ToSet(config.repos[r].server[k]) : Outside(s)
<1>1. PICK h, a, W : h = RepoHeaders[r] /\ a = config.repos[r] /\ W = a.server[k]
  OBVIOUS
<1>2. W = InSection(k, h) /\ a.name = TakenLine(h).value
  BY <1>1 DEF MeaningInv, ReposMeanText, RepoMeansText
<1>3. text \in Texts /\ sysroot \in Sysroots \ {<< >>}
  BY DEF LinesInv, DestInv, Apart
<1>4. a.name # Head(sysroot)
  <2>1. r \in 1..Len(RepoHeaders)
    <3>1. PICK q, Q : q = config.repos /\ q \in Seq(Q)
      BY DEF MeaningInv, ReposTyped, IsList
    <3>2. Len(q) = Len(RepoHeaders) /\ DOMAIN q = 1..Len(q)
      BY <3>1 DEF MeaningInv, SectionInv
    <3> QED BY <3>1, <3>2
  <2>2. PICK l \in AllLines : l.key = "Header" /\ TakenLine(h) = l
    BY <1>1, <2>1, RepoHeaderIs
  <2>3. PICK f \in DOMAIN text : l \in ToSet(text[f])
    BY DEF AllLines
  <2>4. l.value # Head(sysroot)
    BY <1>3, <2>2, <2>3 DEF Apart, SysrootApart
  <2> QED BY <1>2, <2>2, <2>4
<1>5. PICK T, S : T = {v \in AllValues : Outside(v)} /\ S = SectionPlaces(k, h)
  OBVIOUS
<1>6. S \in SUBSET DOMAIN taken
  BY <1>5 DEF SectionPlaces, Known
<1>7. ASSUME NEW i \in S, TakenLine(i) \in AllLines PROVE TakenLine(i).value \in T
  <2>1. PICK l : l = TakenLine(i)
    OBVIOUS
  <2>2. l \in AllLines /\ l.key = k
    BY <1>5, <1>7, <2>1 DEF SectionPlaces
  <2>3. IsLine(l)
    BY <2>2 DEF AllLines, ReaderInv, AreFiles, IsFile
  <2>4. l.value # None /\ IsList(l.value)
    BY <2>2, <2>3 DEF IsLine
  <2>5. PICK f \in DOMAIN text : l \in ToSet(text[f])
    BY <2>2 DEF AllLines
  <2>6. Head(sysroot) \notin ToSet(l.value)
    BY <1>3, <2>2, <2>4, <2>5 DEF Apart, SysrootApart
  <2> QED BY <1>5, <2>1, <2>2, <2>4, <2>6 DEF AllValues, Outside
<1>8. ValuesAt(S) \in Seq(T)
  BY <1>6, <1>7, ValuesFrom
<1>9. PICK w \in Seq(T) : w = W
  BY <1>2, <1>5, <1>8 DEF InSection, SectionPlaces, ValuesAt, InOrder
<1>10. IsList(w) /\ ToSet(w) \subseteq T
  BY MembersOfList
<1> QED BY <1>1, <1>4, <1>5, <1>9, <1>10

LEMMA SubstituteOutside ==
    ASSUME NEW s, Outside(s), NEW a, NEW name, a # Head(sysroot), name # Head(sysroot),
           NEW u, u = Substitute(s, a, name)
    PROVE  Outside(u)
<1>1. PICK N \in Nat : N = Len(s) /\ DOMAIN s = 1..N
  BY DEF IsList, Outside
<1>2. PICK v : v = ReplaceAll(s, "$arch", a)
  OBVIOUS
<1>3. v = [i \in 1..N |-> IF s[i] = "$arch" THEN a ELSE s[i]]
  BY <1>1, <1>2 DEF ReplaceAll
<1>4. Len(v) = N
  BY <1>3
<1>5. u = [i \in 1..N |-> IF v[i] = "$repo" THEN name ELSE v[i]]
  BY <1>2, <1>4 DEF Substitute, ReplaceAll
<1>6. ASSUME NEW i \in 1..N PROVE u[i] # Head(sysroot)
  <2>1. s[i] \in ToSet(s)
    BY <1>1 DEF ToSet
  <2> QED BY <1>3, <1>5, <2>1 DEF Outside
<1>7. PICK T : T = ToSet(u)
  OBVIOUS
<1>8. DOMAIN u = 1..N /\ u = [i \in 1..N |-> u[i]] /\ \A i \in 1..N : u[i] \in T
  BY <1>5, <1>7 DEF ToSet
<1>9. u \in Seq(T)
  BY <1>8
<1> QED BY <1>6, <1>7, <1>8, <1>9 DEF Outside, IsList, ToSet

LEMMA PrependOutside ==
    ASSUME NEW s, Outside(s), IsList(sysroot), sysroot # << >>, NEW u,
           u = PrependServer(sysroot, s), u # << >>, Head(u) = "file://"
    PROVE  Below1(Tail(u))
<1>1. s # << >> /\ Head(s) = "file://"
  BY Zenon DEF PrependServer
<1>2. PICK T : T = ToSet(s) \cup ToSet(sysroot)
  OBVIOUS
<1>3. s \in Seq(T) /\ sysroot \in Seq(T)
  BY <1>2, ListOfMembers DEF Outside
<1>4. PICK t \in Seq(T) : t = Tail(s) /\ ToSet(t) \subseteq ToSet(s) /\ "file://" \in T
  BY <1>1, <1>3, HeadTailMembers
<1>5. IsList(t) /\ Head(sysroot) \notin ToSet(t)
  BY <1>4, MembersOfList DEF Outside
<1>6. PICK root \in Seq(T), y \in Seq(T) : root = sysroot /\ y = root \o t
  <2>1. PICK root \in Seq(T) : root = sysroot
    BY <1>3
  <2>2. root \o t \in Seq(T)
    OBVIOUS
  <2> QED BY <2>1, <2>2
<1>7. PICK x \in T : x = "file://"
  BY <1>4
<1>8. u = <<x>> \o root \o t
  BY <1>1, <1>4, <1>6, <1>7 DEF PrependServer
<1>9. <<x>> \o root \o t = <<x>> \o y
  <2>1. <<x>> \in Seq(T)
    OBVIOUS
  <2>2. (<<x>> \o root) \o t = <<x>> \o (root \o t)
    BY <2>1, ConcatAssociative
  <2> QED BY <1>6, <2>2
<1>10. Tail(<<x>> \o y) = y
  OBVIOUS
<1>11. Tail(u) = y
  BY <1>8, <1>9, <1>10
<1>12. IsPrefix(root, y) /\ ~IsPrefix(root, SubSeq(y, Len(root) + 1, Len(y)))
  BY <1>5, <1>6, RootedIs
<1> QED BY <1>6, <1>11, <1>12 DEF Below1

\* What resolving and prepending do to the paths, the lists of paths and the repositories.
LEMMA RootedFields ==
    ASSUME NEW m, DOMAIN m = ConfigFields, sysroot # << >>,
           NEW d, d = PrependSysroot(sysroot, Resolve(m))
    PROVE  /\ \A k \in FirstWins : d.str[k] = sysroot \o Paths(m.str)[k]
           /\ \A k \in RootedLists : \E s :
                /\ s = IF m.list[k] = << >> THEN <<Default[k]>> ELSE m.list[k]
                /\ d.list[k] = [i \in DOMAIN s |-> sysroot \o s[i]]
           /\ d.repos = [i \in DOMAIN m.repos |->
                           RootedRepo(sysroot, ResolvedRepo(m, m.repos[i]))]
<1>1. PICK e : e = Resolve(m)
  OBVIOUS
<1>2. "repos" \in DOMAIN m /\ "list" \in DOMAIN m /\ "str" \in DOMAIN m
  BY DEF ConfigFields
<1>3. e.repos = [i \in DOMAIN m.repos |-> ResolvedRepo(m, m.repos[i])] /\ DOMAIN e = DOMAIN m
  BY <1>1, <1>2 DEF Resolve
<1>4. e.str = Paths(m.str)
  BY <1>1, <1>2 DEF Resolve
<1>5. e.list = [k \in Lists |->
        CASE k = "Architecture" -> Architectures(m)
          [] k \in {"CacheDir", "HookDir"} /\ m.list[k] = << >> -> <<Default[k]>>
          [] OTHER -> m.list[k]]
  BY <1>1, <1>2 DEF Resolve
<1>6. d.repos = [i \in DOMAIN e.repos |-> RootedRepo(sysroot, e.repos[i])]
  BY <1>1, <1>2, <1>3 DEF PrependSysroot
<1>7. d.str = [k \in Strings |-> IF k \in FirstWins THEN sysroot \o e.str[k] ELSE e.str[k]]
  BY <1>1, <1>2, <1>3 DEF PrependSysroot
<1>8. d.list = [k \in Lists |->
        IF k \in RootedLists THEN [i \in DOMAIN e.list[k] |-> sysroot \o e.list[k][i]]
        ELSE e.list[k]]
  BY <1>1, <1>2, <1>3 DEF PrependSysroot
<1>9. \A k \in FirstWins : d.str[k] = sysroot \o Paths(m.str)[k]
  BY <1>4, <1>7 DEF Strings
<1>10. ASSUME NEW k \in RootedLists
       PROVE  \E s : /\ s = IF m.list[k] = << >> THEN <<Default[k]>> ELSE m.list[k]
                     /\ d.list[k] = [i \in DOMAIN s |-> sysroot \o s[i]]
  <2>1. k \in Lists /\ k # "Architecture" /\ k \in {"CacheDir", "HookDir"}
    BY DEF RootedLists, Lists
  <2>2. PICK s : s = e.list[k]
    OBVIOUS
  <2>3. s = IF m.list[k] = << >> THEN <<Default[k]>> ELSE m.list[k]
    BY <1>5, <2>1, <2>2
  <2>4. d.list[k] = [i \in DOMAIN s |-> sysroot \o s[i]]
    BY <1>8, <2>1, <2>2
  <2> QED BY <2>3, <2>4
<1>11. d.repos = [i \in DOMAIN m.repos |-> RootedRepo(sysroot, ResolvedRepo(m, m.repos[i]))]
  BY <1>3, <1>6
<1> QED BY <1>9, <1>10, <1>11

LEMMA ShortLists ==
    ASSUME NEW T, NEW a \in T, NEW b \in T, NEW c \in T
    PROVE  IsList(<<a>>) /\ IsList(<<a, b>>) /\ IsList(<<a, b, c>>)
<1>1. <<a>> \in Seq(T) /\ <<a, b>> \in Seq(T) /\ <<a, b, c>> \in Seq(T)
  OBVIOUS
<1>2. PICK x, y, z : x = <<a>> /\ y = <<a, b>> /\ z = <<a, b, c>>
  OBVIOUS
<1> QED BY <1>1, <1>2, MembersOfList

\* A default is a path that is apart from the sysroot.
LEMMA DefaultsOutside ==
    ASSUME Apart, DestInv
    PROVE  Outside(RootDefault) /\ \A k \in DOMAIN Default : Outside(Default[k])
<1>1. sysroot \in Sysroots \ {<< >>}
  BY DEF DestInv, Apart
<1>2. Head(sysroot) \notin ToSet(RootDefault)
      /\ \A k \in DOMAIN Default : Head(sysroot) \notin ToSet(Default[k])
  BY <1>1 DEF Apart, SysrootApart
<1>3. PICK T : \A x : x \in T <=> x \in {"/", "var", "lib", "pacman", "log", "pacman.log", "etc",
                                         "gnupg", "cache", "hooks"}
  OBVIOUS
<1>4. IsList(RootDefault)
  BY <1>3, ShortLists DEF RootDefault
<1>5. ASSUME NEW k \in DOMAIN Default PROVE IsList(Default[k])
  <2>1. k \in {"DBPath", "LogFile", "GPGDir", "CacheDir", "HookDir"}
    BY DEF Default
  <2>2. CASE k = "DBPath"
    <3>1. Default[k] = <<"var", "lib", "pacman">>
      BY <2>2 DEF Default
    <3> QED BY <1>3, <3>1, ShortLists
  <2>3. CASE k = "LogFile"
    <3>1. Default[k] = <<"var", "log", "pacman.log">>
      BY <2>3 DEF Default
    <3> QED BY <1>3, <3>1, ShortLists
  <2>4. CASE k = "GPGDir"
    <3>1. Default[k] = <<"etc", "gnupg">>
      BY <2>4 DEF Default
    <3> QED BY <1>3, <3>1, ShortLists
  <2>5. CASE k = "CacheDir"
    <3>1. Default[k] = <<"var", "cache">>
      BY <2>5 DEF Default
    <3> QED BY <1>3, <3>1, ShortLists
  <2>6. CASE k = "HookDir"
    <3>1. Default[k] = <<"etc", "hooks">>
      BY <2>6 DEF Default
    <3> QED BY <1>3, <3>1, ShortLists
  <2> QED BY <2>1, <2>2, <2>3, <2>4, <2>5, <2>6
<1> QED BY <1>2, <1>4, <1>5 DEF Outside

LEMMA JoinOutside ==
    ASSUME NEW a, Outside(a), NEW b, Outside(b)
    PROVE  Outside(a \o b)
<1>1. PICK T : T = (ToSet(a) \cup ToSet(b)) \ {Head(sysroot)}
  OBVIOUS
<1>2. a \in Seq(T) /\ b \in Seq(T)
  BY <1>1, ListOfMembers DEF Outside
<1>3. PICK c \in Seq(T) : c = a \o b
  <2>1. PICK x \in Seq(T), y \in Seq(T) : x = a /\ y = b
    BY <1>2
  <2>2. x \o y \in Seq(T)
    OBVIOUS
  <2> QED BY <2>1, <2>2
<1>4. IsList(c) /\ ToSet(c) \subseteq T
  BY MembersOfList
<1> QED BY <1>1, <1>3, <1>4 DEF Outside

LEMMA PathsOutside ==
    ASSUME Apart, DestInv, NEW str, \A k \in FirstWins : str[k] = None \/ Outside(str[k]),
           NEW k \in FirstWins
    PROVE  Outside(Paths(str)[k])
<1>1. PICK x : x = Paths(str)[k]
  OBVIOUS
<1>2. x = IF str[k] # None THEN str[k]
          ELSE CASE k = "RootDir" -> RootDefault
                 [] k \in {"DBPath", "LogFile"} -> Below(str["RootDir"], Default[k])
                 [] k = "GPGDir" -> Default[k]
                 [] OTHER -> None
  BY <1>1 DEF Paths, Strings
<1>3. CASE str[k] # None
  BY <1>1, <1>2, <1>3
<1>4. CASE str[k] = None /\ k = "RootDir"
  <2>1. x = RootDefault
    BY <1>2, <1>4
  <2> QED BY <1>1, <2>1, DefaultsOutside
<1>5. CASE str[k] = None /\ k \in {"DBPath", "LogFile"}
  <2>1. x = Below(str["RootDir"], Default[k])
    BY <1>2, <1>5
  <2>2. Outside(Default[k])
    BY <1>5, DefaultsOutside DEF Default
  <2>3. str["RootDir"] = None \/ Outside(str["RootDir"])
    BY DEF FirstWins
  <2>4. CASE str["RootDir"] = None
    BY <1>1, <2>1, <2>2, <2>4 DEF Below
  <2>5. CASE str["RootDir"] # None
    <3>1. x = str["RootDir"] \o Default[k]
      BY <2>1, <2>5 DEF Below
    <3> QED BY <1>1, <2>2, <2>3, <2>5, <3>1, JoinOutside
  <2> QED BY <2>4, <2>5
<1>6. CASE str[k] = None /\ k = "GPGDir"
  <2>1. x = Default[k]
    BY <1>2, <1>6
  <2>2. Outside(Default[k])
    BY <1>6, DefaultsOutside DEF Default
  <2> QED BY <1>1, <2>1, <2>2
<1> QED BY <1>3, <1>4, <1>5, <1>6 DEF FirstWins

LEMMA BelowSysroot ==
    ASSUME Apart, DestInv, NEW path, Outside(path)
    PROVE  Below1(sysroot \o path)
<1>1. PICK root : root = sysroot
  OBVIOUS
<1>2. IsList(root) /\ root # << >>
  BY <1>1, SysrootsAssumption DEF DestInv, Apart
<1>3. PICK y : y = root \o path
  OBVIOUS
<1>4. IsPrefix(root, y) /\ ~IsPrefix(root, SubSeq(y, Len(root) + 1, Len(y)))
  BY <1>1, <1>2, <1>3, RootedIs DEF Outside
<1> QED BY <1>1, <1>3, <1>4 DEF Below1

LEMMA ListsJoin ==
    ASSUME NEW T, NEW u \in Seq(T), NEW v \in Seq(T)
    PROVE  u \o v \in Seq(T) /\ \A i \in DOMAIN u : u[i] \in T
OBVIOUS

LEMMA ShortList ==
    ASSUME NEW T, NEW e \in T
    PROVE  <<e>> \in Seq(T)
OBVIOUS

\* The lists of paths that are given to a program.
LEMMA ListBelow ==
    ASSUME Apart, DestInv, ReaderInv, LinesInv, MeaningInv, pc = "loaded",
           NEW p \in Presets, NEW k \in RootedLists, NEW l, l = p.list[k] \o config.list[k],
           NEW s, s = IF l = << >> THEN <<Default[k]>> ELSE l,
           NEW d, d = [i \in DOMAIN s |-> sysroot \o s[i]], NEW x \in ToSet(d)
    PROVE  Below1(x)
<1>1. k \in Lists /\ k \in DOMAIN Default
  BY DEF RootedLists, Lists, Default
<1>2. PICK a, b : a = p.list[k] /\ b = config.list[k]
  OBVIOUS
<1>3. PICK T : T = {y \in ToSet(a) \cup ToSet(b) \cup {Default[k]} : Outside(y)}
  OBVIOUS
<1>4. a \in Seq(T)
  <2>1. IsList(a) /\ \A y \in ToSet(a) : IsList(y)
    BY <1>1, <1>2, PresetsAssumption DEF IsPreset
  <2>2. \A y \in ToSet(a) : Head(sysroot) \notin ToSet(y)
    BY <1>2 DEF Apart, SysrootApart, DestInv
  <2>3. ToSet(a) \subseteq T
    BY <1>3, <2>1, <2>2 DEF Outside
  <2> QED BY <2>1, <2>3, ListOfMembers
<1>5. b \in Seq(T)
  <2>1. IsList(b) /\ \A y \in ToSet(b) : Outside(y)
    BY <1>2, ListOutside
  <2>2. ToSet(b) \subseteq T
    BY <1>3, <2>1
  <2> QED BY <2>1, <2>2, ListOfMembers
<1>6. s \in Seq(T)
  <2>1. PICK u \in Seq(T), v \in Seq(T) : u = a /\ v = b
    BY <1>4, <1>5
  <2>2. u \o v \in Seq(T)
    BY ListsJoin
  <2>3. l \in Seq(T)
    BY <1>2, <2>1, <2>2
  <2>4. PICK e \in T : e = Default[k]
    BY <1>1, <1>3, DefaultsOutside
  <2>5. <<e>> \in Seq(T)
    BY ShortList
  <2> QED BY <2>3, <2>4, <2>5
<1>7. PICK i \in DOMAIN s : x = sysroot \o s[i]
  BY DEF ToSet
<1>8. s[i] \in T
  BY <1>6, ListsJoin
<1> QED BY <1>3, <1>7, <1>8, BelowSysroot

\* The servers of a repository that are directories.
LEMMA ServerBelow ==
    ASSUME Apart, DestInv, ReaderInv, LinesInv, MeaningInv, pc = "loaded",
           NEW p \in Presets, NEW m,
           m.list["Architecture"] = p.list["Architecture"] \o config.list["Architecture"],
           NEW r \in DOMAIN config.repos, NEW k \in ServerLists,
           NEW d, d = RootedRepo(sysroot, ResolvedRepo(m, config.repos[r])),
           NEW u \in ToSet(d.server[k]), u # << >>, Head(u) = "file://"
    PROVE  Below1(Tail(u))
<1>1. PICK a, q, A : a = config.repos[r] /\ q = ResolvedRepo(m, a) /\ A = ArchOf(m)
  OBVIOUS
<1>2. IsRepo(a)
  BY <1>1 DEF MeaningInv, ReposTyped
<1>3. /\ q.name = a.name
      /\ q.server = [i \in ServerLists |->
           [j \in DOMAIN a.server[i] |-> Substitute(a.server[i][j], ArchOf(m), a.name)]]
      /\ DOMAIN q = {"name", "server", "usage", "level"}
  BY <1>1, <1>2, ResolvedRepoIs
<1>4. PICK f : f = [i \in ServerLists |->
                     [j \in DOMAIN q.server[i] |-> PrependServer(sysroot, q.server[i][j])]]
  OBVIOUS
<1>5. d = [q EXCEPT !.server = f]
  BY <1>1, <1>4 DEF RootedRepo
<1>6. d.server = f
  BY <1>3, <1>5
<1>7. PICK w, g : w = a.server[k] /\ g = q.server[k]
  OBVIOUS
<1>8. g = [j \in DOMAIN w |-> Substitute(w[j], A, a.name)]
  <2>1. q.server[k] = [j \in DOMAIN a.server[k] |-> Substitute(a.server[k][j], ArchOf(m), a.name)]
    BY <1>3
  <2> QED BY <1>1, <1>7, <2>1
<1>9. d.server[k] = [j \in DOMAIN g |-> PrependServer(sysroot, g[j])]
  BY <1>4, <1>6, <1>7
<1>10. PICK j \in DOMAIN w : u = PrependServer(sysroot, g[j])
  BY <1>8, <1>9 DEF ToSet
<1>11. Outside(w[j]) /\ a.name # Head(sysroot)
  <2>1. a.name # Head(sysroot) /\ \A s \in ToSet(w) : Outside(s)
    BY <1>1, <1>7, ServersOutside
  <2> QED BY <2>1 DEF ToSet
<1>12. A # Head(sysroot)
  BY <1>1, ArchitectureApart
<1>13. PICK s, o : s = w[j] /\ o = Substitute(s, A, a.name) /\ o = g[j]
  BY <1>8
<1>14. Outside(o)
  BY <1>11, <1>12, <1>13, SubstituteOutside
<1>15. IsList(sysroot) /\ sysroot # << >>
  BY SysrootsAssumption DEF DestInv, Apart
<1> QED BY <1>10, <1>13, <1>14, <1>15, PrependOutside

LEMMA LoadedBelow ==
    ASSUME SysrootApart, DestInv, ReaderInv, LinesInv, MeaningInv
    PROVE  AllUnderSysroot
<1> SUFFICES ASSUME pc = "loaded", sysroot # << >>
             PROVE  /\ \A k \in FirstWins : Below1(dest.str[k])
                    /\ \A k \in RootedLists : \A p \in ToSet(dest.list[k]) : Below1(p)
                    /\ \A r \in DOMAIN dest.repos, k \in ServerLists :
                         \A s \in ToSet(dest.repos[r].server[k]) :
                           s # << >> /\ Head(s) = "file://" => Below1(Tail(s))
  BY DEF AllUnderSysroot
<1>1. Apart /\ pc # "failed"
  BY DEF Apart
<1>2. PICK p, c, m : /\ p \in Presets /\ c = config /\ m = Merge(p, c)
                     /\ dest = PrependSysroot(sysroot, Resolve(m))
  BY DEF DestInv, Resolved
<1>3. m.repos = c.repos /\ (\A k \in Lists : m.list[k] = p.list[k] \o c.list[k])
      /\ DOMAIN m = ConfigFields
  <2>1. IsList(c.repos)
    BY <1>2 DEF MeaningInv, ReposTyped
  <2> QED BY <1>2, <2>1, MergedIs
<1>4. PICK d : d = dest /\ d = PrependSysroot(sysroot, Resolve(m))
  BY <1>2
<1>5. /\ \A k \in FirstWins : d.str[k] = sysroot \o Paths(m.str)[k]
      /\ \A k \in RootedLists : \E s :
           /\ s = IF m.list[k] = << >> THEN <<Default[k]>> ELSE m.list[k]
           /\ d.list[k] = [i \in DOMAIN s |-> sysroot \o s[i]]
      /\ d.repos = [i \in DOMAIN m.repos |-> RootedRepo(sysroot, ResolvedRepo(m, m.repos[i]))]
  BY <1>3, <1>4, RootedFields
<1>6. ASSUME NEW k \in FirstWins PROVE Below1(dest.str[k])
  <2>1. ASSUME NEW i \in FirstWins PROVE m.str[i] = None \/ Outside(m.str[i])
    <3>1. m.str[i] = FirstOf(p.str[i], c.str[i], None)
      BY <1>2 DEF Merge, Strings
    <3>2. c.str[i] = None \/ Outside(c.str[i])
      BY <1>1, <1>2, StringOutside
    <3>3. p.str[i] # None => Outside(p.str[i])
      BY <1>1, <1>2, PresetsAssumption DEF IsPreset, Outside, SysrootApart, DestInv
    <3> QED BY <3>1, <3>2, <3>3 DEF FirstOf
  <2>2. PICK str : str = m.str
    OBVIOUS
  <2>3. \A i \in FirstWins : str[i] = None \/ Outside(str[i])
    BY <2>1, <2>2
  <2>4. Outside(Paths(str)[k])
    BY <1>1, <1>6, <2>3, PathsOutside
  <2>5. PICK path : path = Paths(str)[k]
    OBVIOUS
  <2>6. dest.str[k] = sysroot \o path
    BY <1>4, <1>5, <1>6, <2>2, <2>5
  <2> QED BY <1>1, <2>4, <2>5, <2>6, BelowSysroot
<1>7. ASSUME NEW k \in RootedLists, NEW x \in ToSet(dest.list[k]) PROVE Below1(x)
  <2>1. PICK s : /\ s = IF m.list[k] = << >> THEN <<Default[k]>> ELSE m.list[k]
                 /\ d.list[k] = [i \in DOMAIN s |-> sysroot \o s[i]]
    BY <1>5
  <2>2. PICK l, e : l = m.list[k] /\ e = d.list[k]
    OBVIOUS
  <2>3. k \in Lists
    BY DEF RootedLists, Lists
  <2>4. l = p.list[k] \o config.list[k]
    BY <1>2, <1>3, <2>2, <2>3
  <2>5. x \in ToSet(e)
    BY <1>4, <1>7, <2>2
  <2>6. s = (IF l = << >> THEN <<Default[k]>> ELSE l) /\ e = [i \in DOMAIN s |-> sysroot \o s[i]]
    BY <2>1, <2>2
  <2> QED BY <1>1, <1>2, <2>4, <2>5, <2>6, ListBelow
<1>8. ASSUME NEW r \in DOMAIN dest.repos, NEW k \in ServerLists,
             NEW u \in ToSet(dest.repos[r].server[k]), u # << >>, Head(u) = "file://"
      PROVE  Below1(Tail(u))
  <2>1. PICK e : e = RootedRepo(sysroot, ResolvedRepo(m, config.repos[r]))
    OBVIOUS
  <2>2. dest.repos[r] = e /\ r \in DOMAIN config.repos
    BY <1>2, <1>3, <1>4, <1>5, <1>8, <2>1
  <2>3. m.list["Architecture"] = p.list["Architecture"] \o config.list["Architecture"]
    BY <1>2, <1>3 DEF Lists
  <2>4. u \in ToSet(e.server[k])
    BY <1>8, <2>2
  <2> QED BY <1>1, <1>2, <1>8, <2>1, <2>2, <2>3, <2>4, ServerBelow
<1> QED BY <1>6, <1>7, <1>8

\* Every path a program is given is below the sysroot, and once: those of the file, of the
\* command line and the defaults, and the servers that are directories; pu_config_sysroot,
\* as long as the sysroot is not mentioned in them already.
THEOREM AllAreRooted ==
    ASSUME SysrootApart
    PROVE  Spec => []AllUnderSysroot
<1>1. ReaderInv /\ MeaningInv /\ DestInv /\ LinesInv => AllUnderSysroot
  BY LoadedBelow
<1> QED BY <1>1, Reading, Meaning, Given, Lined, PTL
=============================================================================
