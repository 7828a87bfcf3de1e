----------------------------- MODULE ListProofs ------------------------------
(***************************************************************************)
(* Induction over natural numbers and recursion along a list, for sets and *)
(* functions instead of operators, which the provers cannot instantiate;   *)
(* and what the operators on lists do.                                     *)
(***************************************************************************)
EXTENDS Lists, SequencesExt, SequenceTheorems, WellFoundedInduction, TLAPS

\* Every set of natural numbers with a member has a least one.
LEMMA LeastNat ==
    ASSUME NEW T \in SUBSET Nat, T # {}
    PROVE  \E x \in T : \A y \in T : x <= y
<1> DEFINE R == {ss \in Nat \X Nat : ss[1] < ss[2]}
<1>1. IsWellFoundedOn(OpToRel(<, Nat), Nat)
  BY NatLessThanWellFounded
<1>2. OpToRel(<, Nat) = R
  BY DEF OpToRel
<1>3. IsWellFoundedOn(R, Nat)
  BY <1>1, <1>2
<1>4. \E x \in T : \A y \in T : ~(<<y, x>> \in R)
  <2> HIDE DEF R
  <2> QED BY <1>3, WFMin
<1>5. PICK x \in T : \A y \in T : ~(<<y, x>> \in R)
  BY <1>4
<1>6. ASSUME NEW y \in T PROVE x <= y
  <2>1. x \in Nat /\ y \in Nat
    OBVIOUS
  <2>2. ~(<<y, x>> \in R)
    BY <1>5
  <2>3. ~(y < x)
    BY <2>1, <2>2
  <2> QED BY <2>1, <2>3
<1> QED BY <1>6

\* A set with 0 and the successors of its members has every natural number.
LEMMA NatSetInduction ==
    ASSUME NEW T, 0 \in T, \A n \in Nat : n \in T => n + 1 \in T
    PROVE  Nat \subseteq T
<1> SUFFICES ASSUME Nat \ T # {} PROVE FALSE
  OBVIOUS
<1>1. PICK x \in Nat \ T : \A y \in Nat \ T : x <= y
  BY LeastNat
<1>2. x # 0 /\ x - 1 \in Nat
  BY <1>1
<1>3. x - 1 \in T
  BY <1>1, <1>2
<1> QED BY <1>1, <1>2, <1>3

\* Every bounded set of natural numbers with a member has a greatest one.
LEMMA GreatestNat ==
    ASSUME NEW T \in SUBSET Nat, T # {}, NEW b \in Nat, \A y \in T : y <= b
    PROVE  \E x \in T : \A y \in T : y <= x
<1> DEFINE D == {b - y : y \in T}
<1>1. D \in SUBSET Nat /\ D # {}
  OBVIOUS
<1>2. PICK d \in D : \A e \in D : d <= e
  BY <1>1, LeastNat
<1>3. PICK x \in T : d = b - x
  OBVIOUS
<1>4. ASSUME NEW y \in T PROVE y <= x
  <2>1. b - x <= b - y
    BY <1>2, <1>3
  <2> QED BY <2>1
<1> QED BY <1>4

-----------------------------------------------------------------------------
(***************************************************************************)
(* A function that is defined by recursion from 0 to N exists, and there   *)
(* is only one.                                                            *)
(***************************************************************************)

Recursive(f, N, b, step) == f[0] = b /\ \A n \in 1..N : f[n] = step[n][f[n - 1]]

LEMMA RecursionExists ==
    ASSUME NEW N \in Nat, NEW V, NEW b \in V, NEW step \in [1..N -> [V -> V]]
    PROVE  \E f \in [0..N -> V] : Recursive(f, N, b, step)
<1> DEFINE T == {k \in Nat : k <= N => \E f \in [0..k -> V] : Recursive(f, k, b, step)}
<1>1. 0 \in T
  <2> DEFINE f == [i \in 0..0 |-> b]
  <2>1. f \in [0..0 -> V] /\ Recursive(f, 0, b, step)
    BY DEF Recursive
  <2> QED BY <2>1
<1>2. ASSUME NEW k \in Nat, k \in T PROVE k + 1 \in T
  <2> SUFFICES ASSUME k + 1 <= N
               PROVE  \E f \in [0..(k + 1) -> V] : Recursive(f, k + 1, b, step)
    OBVIOUS
  <2>1. PICK f \in [0..k -> V] : Recursive(f, k, b, step)
    BY <1>2
  <2> DEFINE g == [i \in 0..(k + 1) |-> IF i = k + 1 THEN step[k + 1][f[k]] ELSE f[i]]
  <2>2. step[k + 1][f[k]] \in V
    BY <2>1
  <2>3. g \in [0..(k + 1) -> V]
    BY <2>1, <2>2
  <2>4. g[0] = b
    BY <2>1 DEF Recursive
  <2>5. ASSUME NEW n \in 1..(k + 1) PROVE g[n] = step[n][g[n - 1]]
    BY <2>1 DEF Recursive
  <2> QED BY <2>3, <2>4, <2>5 DEF Recursive
<1>3. Nat \subseteq T
  <2> HIDE DEF T
  <2> QED BY <1>1, <1>2, NatSetInduction
<1> QED BY <1>3

\* Two functions are the same when they begin alike and go on alike.
Alike(f, g, N) == f[0] = g[0] /\ \A n \in 1..N : f[n - 1] = g[n - 1] => f[n] = g[n]

LEMMA SameAlong ==
    ASSUME NEW N \in Nat, NEW f, NEW g, Alike(f, g, N)
    PROVE  \A n \in 0..N : f[n] = g[n]
<1> USE DEF Alike
<1> DEFINE T == {k \in Nat : k <= N => f[k] = g[k]}
<1>1. 0 \in T
  OBVIOUS
<1>2. ASSUME NEW k \in Nat, k \in T PROVE k + 1 \in T
  <2> SUFFICES ASSUME k + 1 <= N PROVE f[k + 1] = g[k + 1]
    OBVIOUS
  <2>1. f[k] = g[k] /\ k + 1 \in 1..N /\ (k + 1) - 1 = k
    BY <1>2
  <2> QED BY <2>1
<1>3. Nat \subseteq T
  <2> HIDE DEF T
  <2> QED BY <1>1, <1>2, NatSetInduction
<1> QED BY <1>3

-----------------------------------------------------------------------------
(***************************************************************************)
(* Select.                                                                 *)
(***************************************************************************)

\* q, and e when it is in S.
With(q, e, S) == IF e \in S THEN Append(q, e) ELSE q

Selects(f, s, S) ==
    /\ f[0] = << >> /\ Select(s, S) = f[Len(s)]
    /\ \A n \in 1..Len(s) : f[n] = With(f[n - 1], s[n], S)

\* Select goes through the list.
LEMMA SelectSteps ==
    ASSUME NEW T, NEW s \in Seq(T), NEW S
    PROVE  \E f \in [0..Len(s) -> Seq(T)] : Selects(f, s, S)
<1> DEFINE N == Len(s)
           step == [n \in 1..N |-> [q \in Seq(T) |-> With(q, s[n], S)]]
           F(g) == [n \in 0..N |-> IF n = 0 THEN << >>
                                   ELSE IF s[n] \in S THEN Append(g[n - 1], s[n]) ELSE g[n - 1]]
           g == CHOOSE g : g = F(g)
<1>1. N \in Nat /\ << >> \in Seq(T)
  OBVIOUS
<1>2. step \in [1..N -> [Seq(T) -> Seq(T)]]
  BY DEF With
<1>3. PICK f \in [0..N -> Seq(T)] : Recursive(f, N, << >>, step)
  <2> HIDE DEF step, N
  <2> QED BY <1>1, <1>2, RecursionExists
<1>4. ASSUME NEW n \in 1..N PROVE f[n] = With(f[n - 1], s[n], S)
  <2>1. n - 1 \in 0..N /\ f[n - 1] \in Seq(T)
    BY <1>1
  <2>2. f[n] = step[n][f[n - 1]]
    BY <1>3 DEF Recursive
  <2> QED BY <2>1, <2>2
<1>5. f = F(f)
  <2>1. f = [n \in 0..N |-> f[n]]
    BY <1>3
  <2>2. ASSUME NEW n \in 0..N
        PROVE  f[n] = IF n = 0 THEN << >>
                      ELSE IF s[n] \in S THEN Append(f[n - 1], s[n]) ELSE f[n - 1]
    <3>1. CASE n = 0
      BY <1>3, <3>1 DEF Recursive
    <3>2. CASE n # 0
      <4>1. n \in 1..N
        BY <1>1, <3>2
      <4> QED BY <1>4, <3>2, <4>1 DEF With
    <3> QED BY <3>1, <3>2
  <2> QED BY <2>1, <2>2
<1>6. g = F(g)
  <2> HIDE DEF F
  <2> QED BY <1>5
<1>7. Select(s, S) = g[N]
  BY DEF Select
<1>8. \A n \in 0..N : g[n] = f[n]
  <2>1. g[0] = f[0]
    <3>1. 0 \in 0..N
      BY <1>1
    <3>2. g[0] = << >> /\ f[0] = << >>
      BY <1>5, <1>6, <3>1
    <3> QED BY <3>2
  <2>2. ASSUME NEW n \in 1..N, g[n - 1] = f[n - 1] PROVE g[n] = f[n]
    <3>1. n \in 0..N /\ n # 0
      BY <1>1
    <3>2. g[n] = IF s[n] \in S THEN Append(g[n - 1], s[n]) ELSE g[n - 1]
      BY <1>6, <3>1
    <3> QED BY <1>4, <2>2, <3>2 DEF With
  <2> HIDE DEF g, N
  <2>3. N \in Nat
    BY <1>1
  <2>4. Alike(g, f, N)
    BY <2>1, <2>2 DEF Alike
  <2> QED BY <2>3, <2>4, SameAlong
<1>9. f[0] = << >>
  BY <1>3 DEF Recursive
<1>10. g[N] = f[N]
  <2> HIDE DEF g, N
  <2> QED BY <1>1, <1>8
<1> QED
  <2> HIDE DEF g
  <2> QED BY <1>4, <1>7, <1>9, <1>10 DEF Selects

\* A set with the empty list and the longer lists by one of its members has every list.
LEMMA SeqInduction ==
    ASSUME NEW T, NEW U, << >> \in U,
           \A s \in Seq(T), e \in T : s \in U => Append(s, e) \in U
    PROVE  Seq(T) \subseteq U
<1> DEFINE L == {n \in Nat : \A s \in Seq(T) : Len(s) = n => s \in U}
<1>1. 0 \in L
  <2>1. ASSUME NEW s \in Seq(T), Len(s) = 0 PROVE s = << >>
    BY <2>1, EmptySeq
  <2> QED BY <2>1
<1>2. ASSUME NEW n \in Nat, n \in L PROVE n + 1 \in L
  <2> SUFFICES ASSUME NEW s \in Seq(T), Len(s) = n + 1 PROVE s \in U
    OBVIOUS
  <2>1. s # << >>
    OBVIOUS
  <2>2. PICK t \in Seq(T), e \in T : s = Append(t, e)
    BY <2>1, SequenceEmptyOrAppend
  <2>3. Len(t) = n
    BY <2>2
  <2> QED BY <1>2, <2>2, <2>3
<1>3. Nat \subseteq L
  <2> HIDE DEF L
  <2> QED BY <1>1, <1>2, NatSetInduction
<1> QED BY <1>3, LenProperties


LEMMA AppendEqual ==
    ASSUME NEW T, NEW s \in Seq(T), NEW t \in Seq(T), NEW e \in T, NEW n \in Nat,
           Len(s) = n, Len(t) = n + 1, t[n + 1] = e, \A i \in 1..n : t[i] = s[i]
    PROVE  t = Append(s, e)
<1>1. /\ Append(s, e) \in Seq(T) /\ Len(Append(s, e)) = n + 1
      /\ Append(s, e)[n + 1] = e /\ \A i \in 1..n : Append(s, e)[i] = s[i]
  BY AppendProperties
<1>2. \A i \in 1..(n + 1) : t[i] = Append(s, e)[i]
  BY <1>1
<1> QED BY <1>1, <1>2, SeqEqual

LEMMA SelectEmpty ==
    ASSUME NEW S
    PROVE  Select(<< >>, S) = << >>
<1>1. << >> \in Seq({}) /\ Len(<< >>) = 0
  OBVIOUS
<1>2. PICK f \in [0..Len(<< >>) -> Seq({})] : Selects(f, << >>, S)
  BY <1>1, SelectSteps
<1> QED BY <1>1, <1>2 DEF Selects

LEMMA SelectAppend ==
    ASSUME NEW T, NEW s \in Seq(T), NEW e \in T, NEW S
    PROVE  /\ Select(s, S) \in Seq(T)
           /\ Select(Append(s, e), S) = With(Select(s, S), e, S)
<1> DEFINE N == Len(s)
           t == Append(s, e)
<1>1. /\ N \in Nat /\ t \in Seq(T) /\ Len(t) = N + 1 /\ t[N + 1] = e
      /\ \A n \in 1..N : t[n] = s[n]
  OBVIOUS
<1>2. PICK f \in [0..Len(s) -> Seq(T)] : Selects(f, s, S)
  BY SelectSteps
<1>3. PICK g \in [0..Len(t) -> Seq(T)] : Selects(g, t, S)
  <2> HIDE DEF t
  <2> QED BY <1>1, SelectSteps
<1> HIDE DEF t
<1>4. /\ f[0] = << >> /\ Select(s, S) = f[N] /\ f[N] \in Seq(T)
      /\ \A n \in 1..N : f[n] = With(f[n - 1], s[n], S)
  <2>1. Len(s) \in 0..Len(s)
    BY <1>1
  <2>2. f[Len(s)] \in Seq(T)
    BY <1>2, <2>1
  <2> QED BY <1>2, <2>2 DEF Selects
<1>5. /\ g[0] = << >> /\ Select(t, S) = g[N + 1]
      /\ \A n \in 1..(N + 1) : g[n] = With(g[n - 1], t[n], S)
  BY <1>1, <1>3 DEF Selects
<1> HIDE DEF N
<1>6. ASSUME NEW n \in 1..N, f[n - 1] = g[n - 1] PROVE f[n] = g[n]
  <2>1. n \in 1..(N + 1) /\ t[n] = s[n]
    BY <1>1
  <2> QED BY <1>4, <1>5, <1>6, <2>1 DEF With
<1>7. \A n \in 0..N : f[n] = g[n]
  <2>1. f[0] = g[0] /\ N \in Nat
    BY <1>1, <1>4, <1>5
  <2>2. Alike(f, g, N)
    BY <1>6, <2>1 DEF Alike
  <2> QED BY <2>1, <2>2, SameAlong
<1>8. g[N + 1] = With(f[N], t[N + 1], S)
  <2>1. N + 1 \in 1..(N + 1) /\ (N + 1) - 1 = N /\ N \in 0..N
    BY <1>1
  <2> QED BY <1>5, <1>7, <2>1
<1>9. Select(t, S) = With(Select(s, S), e, S)
  BY <1>1, <1>4, <1>5, <1>8 DEF With
<1> QED BY <1>4, <1>9 DEF t

LEMMA SelectList ==
    ASSUME NEW T, NEW s \in Seq(T), NEW S
    PROVE  Select(s, S) \in Seq(T)
<1>1. CASE s = << >>
  BY <1>1, SelectEmpty
<1>2. CASE s # << >>
  <2>1. s[1] \in T
    BY <1>2
  <2> QED BY <2>1, SelectAppend
<1> QED BY <1>1, <1>2

LEMMA AppendMembers ==
    ASSUME NEW T, NEW s \in Seq(T), NEW e \in T
    PROVE  ToSet(Append(s, e)) = ToSet(s) \cup {e}
<1>1. /\ DOMAIN Append(s, e) = 1..(Len(s) + 1) /\ DOMAIN s = 1..Len(s) /\ Len(s) \in Nat
      /\ Append(s, e)[Len(s) + 1] = e /\ \A i \in 1..Len(s) : Append(s, e)[i] = s[i]
  OBVIOUS
<1>2. ASSUME NEW x \in ToSet(Append(s, e)) PROVE x \in ToSet(s) \cup {e}
  BY <1>1 DEF ToSet
<1>3. ASSUME NEW x \in ToSet(s) \cup {e} PROVE x \in ToSet(Append(s, e))
  BY <1>1 DEF ToSet
<1> QED BY <1>2, <1>3

LEMMA ConcatMembers ==
    ASSUME NEW T, NEW s \in Seq(T), NEW t \in Seq(T)
    PROVE  s \o t \in Seq(T) /\ ToSet(s \o t) = ToSet(s) \cup ToSet(t)
<1>1. /\ s \o t \in Seq(T) /\ Len(s \o t) = Len(s) + Len(t) /\ Len(s) \in Nat /\ Len(t) \in Nat
      /\ \A i \in 1..(Len(s) + Len(t)) :
           (s \o t)[i] = IF i <= Len(s) THEN s[i] ELSE t[i - Len(s)]
  BY ConcatProperties
<1>2. PICK r \in Seq(T) : r = s \o t
  BY <1>1
<1>3. /\ Len(r) = Len(s) + Len(t)
      /\ \A i \in 1..Len(r) : r[i] = IF i <= Len(s) THEN s[i] ELSE t[i - Len(s)]
  BY <1>1, <1>2
<1>4. /\ ToSet(r) = {r[i] : i \in 1..Len(r)} /\ ToSet(s) = {s[i] : i \in 1..Len(s)}
      /\ ToSet(t) = {t[i] : i \in 1..Len(t)}
  BY DEF ToSet
<1>5. ASSUME NEW i \in 1..Len(r) PROVE r[i] \in ToSet(s) \cup ToSet(t)
  <2>1. i <= Len(s) => i \in 1..Len(s)
    BY <1>1, <1>3
  <2>2. ~(i <= Len(s)) => i - Len(s) \in 1..Len(t)
    BY <1>1, <1>3
  <2> QED BY <1>3, <1>4, <2>1, <2>2
<1>6. ASSUME NEW i \in 1..Len(s) PROVE s[i] \in ToSet(r)
  <2>1. i \in 1..Len(r) /\ i <= Len(s)
    BY <1>1, <1>3
  <2> QED BY <1>3, <1>4, <2>1
<1>7. ASSUME NEW i \in 1..Len(t) PROVE t[i] \in ToSet(r)
  <2>1. i + Len(s) \in 1..Len(r) /\ ~(i + Len(s) <= Len(s)) /\ (i + Len(s)) - Len(s) = i
    BY <1>1, <1>3
  <2>2. r[i + Len(s)] = t[(i + Len(s)) - Len(s)]
    BY <1>3, <2>1
  <2> QED BY <1>4, <2>1, <2>2
<1>8. ToSet(r) = ToSet(s) \cup ToSet(t)
  BY <1>4, <1>5, <1>6, <1>7
<1> QED BY <1>1, <1>2, <1>8

LEMMA HeadTailMembers ==
    ASSUME NEW T, NEW s \in Seq(T), s # << >>
    PROVE  /\ Head(s) \in T /\ Tail(s) \in Seq(T)
           /\ ToSet(s) = {Head(s)} \cup ToSet(Tail(s))
<1>1. /\ Head(s) = s[1] /\ Tail(s) \in Seq(T) /\ Len(s) \in Nat /\ Len(s) >= 1
      /\ Len(Tail(s)) = Len(s) - 1 /\ \A i \in 1..(Len(s) - 1) : Tail(s)[i] = s[i + 1]
  BY HeadTailProperties, EmptySeq
<1>2. PICK t \in Seq(T) : t = Tail(s)
  BY <1>1
<1>3. Len(t) = Len(s) - 1 /\ \A i \in 1..Len(t) : t[i] = s[i + 1]
  BY <1>1, <1>2
<1>4. ToSet(s) = {s[i] : i \in 1..Len(s)} /\ ToSet(t) = {t[i] : i \in 1..Len(t)}
  BY DEF ToSet
<1>5. ASSUME NEW i \in 1..Len(s), i # 1 PROVE s[i] \in ToSet(t)
  <2>1. i - 1 \in 1..Len(t) /\ (i - 1) + 1 = i
    BY <1>1, <1>3, <1>5
  <2> QED BY <1>3, <1>4, <2>1
<1>6. ASSUME NEW i \in 1..Len(t) PROVE t[i] \in ToSet(s)
  <2>1. i + 1 \in 1..Len(s)
    BY <1>1, <1>3
  <2> QED BY <1>3, <1>4, <2>1
<1>7. 1 \in 1..Len(s)
  BY <1>1
<1>8. s[1] \in T
  BY <1>7
<1> QED BY <1>1, <1>2, <1>4, <1>5, <1>6, <1>7, <1>8

\* A list is a sequence of any set that has its members.
LEMMA ListOfMembers ==
    ASSUME NEW T, NEW s, IsList(s), ToSet(s) \subseteq T
    PROVE  s \in Seq(T)
<1>1. s \in Seq(ToSet(s))
  BY DEF IsList
<1>2. Len(s) \in Nat /\ s = [i \in 1..Len(s) |-> s[i]] /\ \A i \in 1..Len(s) : s[i] \in ToSet(s)
  BY <1>1
<1> QED BY <1>2

LEMMA MembersOfList ==
    ASSUME NEW T, NEW s \in Seq(T)
    PROVE  IsList(s) /\ ToSet(s) \subseteq T
<1>1. Len(s) \in Nat /\ s = [i \in 1..Len(s) |-> s[i]] /\ ToSet(s) = {s[i] : i \in 1..Len(s)}
      /\ \A i \in 1..Len(s) : s[i] \in T
  BY DEF ToSet
<1> QED BY <1>1 DEF IsList

\* Select only depends on which members of the list are in the set.
LEMMA SelectSame ==
    ASSUME NEW T, NEW s \in Seq(T), NEW A, NEW B,
           \A i \in 1..Len(s) : s[i] \in A <=> s[i] \in B
    PROVE  Select(s, A) = Select(s, B)
<1> DEFINE U == {t \in Seq(T) : (\A i \in 1..Len(t) : t[i] \in A <=> t[i] \in B)
                                   => Select(t, A) = Select(t, B)}
<1>1. << >> \in U
  BY SelectEmpty
<1>2. ASSUME NEW t \in Seq(T), NEW e \in T, t \in U PROVE Append(t, e) \in U
  <2> SUFFICES ASSUME \A i \in 1..Len(Append(t, e)) : Append(t, e)[i] \in A <=> Append(t, e)[i] \in B
               PROVE  Select(Append(t, e), A) = Select(Append(t, e), B)
    BY AppendProperties
  <2>1. e \in A <=> e \in B
    <3>1. Len(t) + 1 \in 1..Len(Append(t, e)) /\ Append(t, e)[Len(t) + 1] = e
      OBVIOUS
    <3> QED BY <3>1
  <2>2. ASSUME NEW i \in 1..Len(t) PROVE t[i] \in A <=> t[i] \in B
    <3>1. i \in 1..Len(Append(t, e)) /\ Append(t, e)[i] = t[i]
      OBVIOUS
    <3> QED BY <3>1
  <2>3. Select(t, A) = Select(t, B)
    BY <1>2, <2>2
  <2>4. Select(Append(t, e), A) = With(Select(t, A), e, A)
    BY SelectAppend
  <2>5. Select(Append(t, e), B) = With(Select(t, B), e, B)
    BY SelectAppend
  <2> QED BY <2>1, <2>3, <2>4, <2>5 DEF With
<1>3. Seq(T) \subseteq U
  <2> HIDE DEF U
  <2> QED BY <1>1, <1>2, SeqInduction
<1> QED BY <1>3

LEMMA SelectConcat ==
    ASSUME NEW T, NEW s \in Seq(T), NEW t \in Seq(T), NEW S
    PROVE  Select(s \o t, S) = Select(s, S) \o Select(t, S)
<1> DEFINE U == {r \in Seq(T) : Select(s \o r, S) = Select(s, S) \o Select(r, S)}
<1>1. << >> \in U
  <2>1. Select(s, S) \in Seq(T) /\ s \o << >> = s /\ << >> \in Seq(T)
    BY SelectList
  <2> QED BY <2>1, SelectEmpty
<1>2. ASSUME NEW r \in Seq(T), NEW e \in T, r \in U PROVE Append(r, e) \in U
  <2>1. s \o Append(r, e) = Append(s \o r, e) /\ s \o r \in Seq(T) /\ Append(r, e) \in Seq(T)
    OBVIOUS
  <2>2. PICK q \in Seq(T) : q = s \o r
    BY <2>1
  <2>3. PICK u \in Seq(T), v \in Seq(T) : u = Select(s, S) /\ v = Select(r, S)
    BY SelectList
  <2>4. Select(Append(q, e), S) = With(Select(q, S), e, S)
    BY SelectAppend
  <2>5. Select(Append(r, e), S) = With(v, e, S)
    BY <2>3, SelectAppend
  <2>6. u \o With(v, e, S) = With(u \o v, e, S)
    <3>1. u \o Append(v, e) = Append(u \o v, e)
      OBVIOUS
    <3> QED BY <3>1 DEF With
  <2>7. Select(q, S) = u \o v
    BY <1>2, <2>2, <2>3
  <2>8. s \o Append(r, e) = Append(q, e)
    BY <2>1, <2>2
  <2>9. Append(r, e) \in Seq(T)
    BY <2>1
  <2> QED BY <2>3, <2>4, <2>5, <2>6, <2>7, <2>8, <2>9
<1>3. Seq(T) \subseteq U
  <2> HIDE DEF U
  <2> QED BY <1>1, <1>2, SeqInduction
<1> QED BY <1>3

\* Selecting from what was selected.
LEMMA SelectTwice ==
    ASSUME NEW T, NEW s \in Seq(T), NEW A, NEW B
    PROVE  Select(Select(s, A), B) = Select(s, A \cap B)
<1> DEFINE U == {t \in Seq(T) : Select(Select(t, A), B) = Select(t, A \cap B)}
<1>1. << >> \in U
  BY SelectEmpty
<1>2. ASSUME NEW t \in Seq(T), NEW e \in T, t \in U PROVE Append(t, e) \in U
  <2>1. Select(t, A) \in Seq(T) /\ Append(t, e) \in Seq(T)
    BY SelectList
  <2>2. Select(Append(t, e), A) = With(Select(t, A), e, A)
    BY SelectAppend
  <2>3. Select(Append(t, e), A \cap B) = With(Select(t, A \cap B), e, A \cap B)
    BY SelectAppend
  <2>4. Select(Append(Select(t, A), e), B) = With(Select(Select(t, A), B), e, B)
    BY <2>1, SelectAppend
  <2>5. Select(Select(t, A), B) = Select(t, A \cap B)
    BY <1>2
  <2>6. Select(With(Select(t, A), e, A), B) = With(Select(t, A \cap B), e, A \cap B)
    BY <2>4, <2>5 DEF With
  <2>7. Append(t, e) \in Seq(T)
    BY <2>1
  <2> QED BY <2>2, <2>3, <2>6, <2>7
<1>3. Seq(T) \subseteq U
  <2> HIDE DEF U
  <2> QED BY <1>1, <1>2, SeqInduction
<1> QED BY <1>3

\* The members of what is selected are those of the list that are in the set.
LEMMA SelectMembers ==
    ASSUME NEW T, NEW s \in Seq(T), NEW S
    PROVE  ToSet(Select(s, S)) = ToSet(s) \cap S
<1> DEFINE U == {t \in Seq(T) : ToSet(Select(t, S)) = ToSet(t) \cap S}
<1>1. << >> \in U
  BY SelectEmpty DEF ToSet
<1>2. ASSUME NEW t \in Seq(T), NEW e \in T, t \in U PROVE Append(t, e) \in U
  <2>1. Select(t, S) \in Seq(T) /\ Append(t, e) \in Seq(T)
    BY SelectList
  <2>2. Select(Append(t, e), S) = With(Select(t, S), e, S)
    BY SelectAppend
  <2>3. ToSet(Append(t, e)) = ToSet(t) \cup {e}
        /\ ToSet(Append(Select(t, S), e)) = ToSet(Select(t, S)) \cup {e}
    BY <2>1, AppendMembers
  <2>4. ToSet(Select(t, S)) = ToSet(t) \cap S
    BY <1>2
  <2> QED BY <2>1, <2>2, <2>3, <2>4 DEF With
<1>3. Seq(T) \subseteq U
  <2> HIDE DEF U
  <2> QED BY <1>1, <1>2, SeqInduction
<1> QED BY <1>3

\* What holds of every two members of a list in their order holds of those selected.
InOrderOf(s, R) == \A i, j \in 1..Len(s) : i < j => <<s[i], s[j]>> \in R

LEMMA SelectInOrder ==
    ASSUME NEW T, NEW s \in Seq(T), NEW S, NEW R, InOrderOf(s, R)
    PROVE  InOrderOf(Select(s, S), R)
<1> DEFINE U == {t \in Seq(T) : InOrderOf(t, R) => InOrderOf(Select(t, S), R)}
<1>1. << >> \in U
  <2>1. Len(<< >>) = 0 /\ << >> \in Seq(T) /\ 1..0 = {}
    OBVIOUS
  <2> QED BY <2>1, SelectEmpty DEF InOrderOf
<1>2. ASSUME NEW t \in Seq(T), NEW e \in T, t \in U PROVE Append(t, e) \in U
  <2> SUFFICES ASSUME InOrderOf(Append(t, e), R) PROVE InOrderOf(Select(Append(t, e), S), R)
    OBVIOUS
  <2> DEFINE q == Select(t, S)
  <2>1. q \in Seq(T) /\ ToSet(q) = ToSet(t) \cap S
    BY SelectList, SelectMembers
  <2>2. Select(Append(t, e), S) = With(q, e, S)
    BY SelectAppend
  <2>3. InOrderOf(t, R) /\ \A x \in ToSet(t) : <<x, e>> \in R
    <3>1. PICK u : u = Append(t, e)
      OBVIOUS
    <3>2. /\ Len(t) \in Nat /\ Len(u) = Len(t) + 1 /\ u[Len(t) + 1] = e
          /\ \A i \in 1..Len(t) : u[i] = t[i]
      BY <3>1, AppendProperties
    <3>3. /\ Len(t) + 1 \in 1..Len(u)
          /\ \A i \in 1..Len(t) : i \in 1..Len(u) /\ i < Len(t) + 1
      BY <3>2
    <3>4. \A i, j \in 1..Len(u) : i < j => <<u[i], u[j]>> \in R
      BY <3>1 DEF InOrderOf
    <3>5. InOrderOf(t, R)
      <4> SUFFICES ASSUME NEW i \in 1..Len(t), NEW j \in 1..Len(t), i < j
                   PROVE  <<t[i], t[j]>> \in R
        BY DEF InOrderOf
      <4>1. u[i] = t[i] /\ u[j] = t[j] /\ i \in 1..Len(u) /\ j \in 1..Len(u)
        BY <3>2, <3>3
      <4> QED BY <3>4, <4>1
    <3>6. \A i \in 1..Len(t) : <<t[i], e>> \in R
      <4> SUFFICES ASSUME NEW i \in 1..Len(t) PROVE <<t[i], e>> \in R
        OBVIOUS
      <4>1. u[i] = t[i] /\ i \in 1..Len(u) /\ i < Len(t) + 1
        BY <3>2, <3>3
      <4> QED BY <3>2, <3>3, <3>4, <4>1
    <3> QED BY <3>5, <3>6 DEF ToSet
  <2>4. InOrderOf(q, R) /\ \A x \in ToSet(q) : <<x, e>> \in R
    BY <1>2, <2>1, <2>3
  <2>5. InOrderOf(Append(q, e), R)
    <3> HIDE DEF q
    <3>4. Len(Append(q, e)) = Len(q) + 1
      BY <2>1
    <3> SUFFICES ASSUME NEW i \in 1..(Len(q) + 1), NEW j \in 1..(Len(q) + 1), i < j
                 PROVE  <<Append(q, e)[i], Append(q, e)[j]>> \in R
      BY <3>4 DEF InOrderOf
    <3>1. i \in 1..Len(q) /\ Append(q, e)[i] = q[i] /\ q[i] \in ToSet(q)
      BY <2>1 DEF ToSet
    <3>2. CASE j = Len(q) + 1
      <4>1. Append(q, e)[j] = e
        BY <2>1, <3>2
      <4> QED BY <2>4, <3>1, <4>1
    <3>3. CASE j # Len(q) + 1
      <4>1. j \in 1..Len(q) /\ Append(q, e)[j] = q[j]
        BY <2>1, <3>3
      <4> QED BY <2>4, <3>1, <4>1 DEF InOrderOf
    <3> QED BY <3>2, <3>3
  <2> QED BY <2>2, <2>4, <2>5 DEF With
<1>3. Seq(T) \subseteq U
  <2> HIDE DEF U
  <2> QED BY <1>1, <1>2, SeqInduction
<1> QED BY <1>3

-----------------------------------------------------------------------------
(***************************************************************************)
(* SubSeq.                                                                 *)
(***************************************************************************)

\* Parts of two lists that are the same from a to b.
LEMMA SubSeqSame ==
    ASSUME NEW T, NEW s \in Seq(T), NEW t \in Seq(T), NEW a \in Nat \ {0}, NEW b \in Nat,
           b <= Len(s), b <= Len(t), \A i \in 1..Len(s) : i <= b => t[i] = s[i]
    PROVE  SubSeq(t, a, b) = SubSeq(s, a, b)
<1>1. \A i \in a..b : s[i] \in T /\ t[i] \in T /\ s[i] = t[i]
  OBVIOUS
<1>2. /\ SubSeq(s, a, b) \in Seq(T) /\ Len(SubSeq(s, a, b)) = IF a <= b THEN b - a + 1 ELSE 0
      /\ \A i \in 1..(b - a + 1) : SubSeq(s, a, b)[i] = s[a + i - 1]
  BY <1>1, SubSeqProperties
<1>3. /\ SubSeq(t, a, b) \in Seq(T) /\ Len(SubSeq(t, a, b)) = IF a <= b THEN b - a + 1 ELSE 0
      /\ \A i \in 1..(b - a + 1) : SubSeq(t, a, b)[i] = t[a + i - 1]
  BY <1>1, SubSeqProperties
<1>4. PICK u \in Seq(T), v \in Seq(T) : u = SubSeq(s, a, b) /\ v = SubSeq(t, a, b)
  BY <1>2, <1>3
<1>5. Len(u) = Len(v)
  BY <1>2, <1>3, <1>4
<1>6. ASSUME NEW i \in 1..Len(u) PROVE v[i] = u[i]
  <2>1. i \in 1..(b - a + 1)
    BY <1>2, <1>4
  <2>2. a + i - 1 \in a..b
    BY <2>1
  <2> QED BY <1>1, <1>2, <1>3, <1>4, <2>1, <2>2
<1>7. u = v
  BY <1>5, <1>6, SeqEqual
<1> QED BY <1>4, <1>7

-----------------------------------------------------------------------------
(***************************************************************************)
(* FlattenSeq.                                                             *)
(***************************************************************************)

Flattens(f, ss) ==
    /\ f[0] = << >> /\ FlattenSeq(ss) = f[Len(ss)]
    /\ \A n \in 1..Len(ss) : f[n] = f[n - 1] \o ss[n]

LEMMA FlattenSteps ==
    ASSUME NEW T, NEW ss \in Seq(Seq(T))
    PROVE  \E f \in [0..Len(ss) -> Seq(T)] : Flattens(f, ss)
<1> DEFINE N == Len(ss)
           step == [n \in 1..N |-> [q \in Seq(T) |-> q \o ss[n]]]
           F(g) == [i \in 1..N |-> IF i = 1 THEN ss[i] ELSE g[i - 1] \o ss[i]]
           g == CHOOSE g : g = F(g)
<1>1. N \in Nat /\ << >> \in Seq(T)
  OBVIOUS
<1>2. step \in [1..N -> [Seq(T) -> Seq(T)]]
  <2>1. ASSUME NEW n \in 1..N, NEW q \in Seq(T) PROVE q \o ss[n] \in Seq(T)
    <3>1. ss[n] \in Seq(T)
      OBVIOUS
    <3> QED BY <3>1
  <2> QED BY <2>1
<1>3. PICK f \in [0..N -> Seq(T)] : Recursive(f, N, << >>, step)
  <2> HIDE DEF step, N
  <2> QED BY <1>1, <1>2, RecursionExists
<1>4. ASSUME NEW n \in 1..N PROVE f[n] = f[n - 1] \o ss[n]
  <2>0. n - 1 \in 0..N
    BY <1>1
  <2>1. f[n - 1] \in Seq(T)
    <3> HIDE DEF N
    <3> QED BY <1>3, <2>0
  <2>2. f[n] = step[n][f[n - 1]]
    BY <1>3 DEF Recursive
  <2> QED BY <2>1, <2>2
<1>5. f[0] = << >>
  BY <1>3 DEF Recursive
<1>6. \E h : h = F(h)
  <2> DEFINE h == [i \in 1..N |-> f[i]]
  <2>1. ASSUME NEW i \in 1..N
        PROVE  h[i] = IF i = 1 THEN ss[i] ELSE h[i - 1] \o ss[i]
    <3>1. h[i] = f[i] /\ f[i] = f[i - 1] \o ss[i]
      BY <1>4
    <3>2. CASE i = 1
      <4>1. ss[1] \in Seq(T)
        BY <3>2
      <4>2. << >> \o ss[1] = ss[1]
        BY <4>1, ConcatEmptySeq
      <4>3. f[i - 1] = << >>
        BY <1>5, <3>2
      <4> QED BY <3>1, <3>2, <4>2, <4>3
    <3>3. CASE i # 1
      <4>1. i - 1 \in 1..N /\ h[i - 1] = f[i - 1]
        BY <1>1, <3>3
      <4> QED BY <3>1, <3>3, <4>1
    <3> QED BY <3>2, <3>3
  <2>2. h = F(h)
    BY <2>1
  <2> QED BY <2>2
<1>7. g = F(g)
  <2> HIDE DEF F
  <2> QED BY <1>6
<1> HIDE DEF g, step
<1>8. \A n \in 1..N : g[n] = f[n]
  <2> DEFINE h == [n \in 0..N |-> IF n = 0 THEN << >> ELSE g[n]]
  <2>1. ASSUME NEW n \in 1..N, h[n - 1] = f[n - 1] PROVE h[n] = f[n]
    <3>1. n \in 0..N /\ n # 0 /\ n - 1 \in 0..N /\ h[n] = g[n]
      BY <1>1
    <3>2. g[n] = IF n = 1 THEN ss[n] ELSE g[n - 1] \o ss[n]
      BY <1>7
    <3>3. CASE n = 1
      <4>1. ss[1] \in Seq(T)
        BY <3>3
      <4>2. << >> \o ss[1] = ss[1]
        BY <4>1, ConcatEmptySeq
      <4>3. f[n - 1] = << >>
        BY <1>5, <3>3
      <4> QED BY <1>4, <3>1, <3>2, <3>3, <4>2, <4>3
    <3>4. CASE n # 1
      <4>1. n - 1 # 0
        BY <3>4
      <4>2. h[n - 1] = g[n - 1]
        BY <3>1, <4>1
      <4> QED BY <1>4, <2>1, <3>1, <3>2, <3>4, <4>2
    <3> QED BY <3>3, <3>4
  <2>2. h[0] = f[0]
    BY <1>1, <1>5
  <2>3. Alike(h, f, N)
    <3> HIDE DEF h
    <3> QED BY <2>1, <2>2 DEF Alike
  <2>4. \A n \in 0..N : h[n] = f[n]
    <3> HIDE DEF h, N
    <3> QED BY <1>1, <2>3, SameAlong
  <2>5. ASSUME NEW n \in 1..N PROVE g[n] = f[n]
    <3>1. n \in 0..N /\ n # 0
      BY <1>1
    <3> QED BY <2>4, <3>1
  <2> QED BY <2>5
<1>9. FlattenSeq(ss) = f[N]
  <2>1. CASE N = 0
    <3>1. FlattenSeq(ss) = ss
      BY <2>1 DEF FlattenSeq
    <3>2. ss = << >>
      BY <2>1, EmptySeq
    <3> QED BY <1>5, <2>1, <3>1, <3>2
  <2>2. CASE N # 0
    <3>1. FlattenSeq(ss) = g[N]
      BY <2>2 DEF FlattenSeq, g
    <3>2. N \in 1..N
      BY <1>1, <2>2
    <3> QED BY <1>8, <3>1, <3>2
  <2> QED BY <2>1, <2>2
<1> QED BY <1>4, <1>5, <1>9 DEF Flattens

LEMMA FlattenEmpty == FlattenSeq(<< >>) = << >>
BY DEF FlattenSeq

LEMMA FlattenAppend ==
    ASSUME NEW T, NEW ss \in Seq(Seq(T)), NEW s \in Seq(T)
    PROVE  /\ FlattenSeq(ss) \in Seq(T)
           /\ FlattenSeq(Append(ss, s)) = FlattenSeq(ss) \o s
<1> DEFINE N == Len(ss)
           tt == Append(ss, s)
<1>1. N \in Nat /\ tt \in Seq(Seq(T))
  BY AppendProperties, LenProperties
<1>2. Len(tt) = N + 1 /\ tt[N + 1] = s /\ \A n \in 1..N : tt[n] = ss[n]
  BY <1>1, AppendProperties
<1> HIDE DEF tt
<1>3. PICK f \in [0..Len(ss) -> Seq(T)] : Flattens(f, ss)
  BY FlattenSteps
<1> HIDE DEF N
<1>4. PICK g \in [0..Len(tt) -> Seq(T)] : Flattens(g, tt)
  BY <1>1, FlattenSteps
<1>5. f[0] = << >> /\ FlattenSeq(ss) = f[N] /\ \A n \in 1..N : f[n] = f[n - 1] \o ss[n]
  BY <1>1, <1>3 DEF Flattens, N
<1>6. g[0] = << >> /\ FlattenSeq(tt) = g[N + 1] /\ \A n \in 1..(N + 1) : g[n] = g[n - 1] \o tt[n]
  BY <1>2, <1>4 DEF Flattens
<1>7. \A n \in 0..N : f[n] = g[n]
  <2>1. ASSUME NEW n \in 1..N, f[n - 1] = g[n - 1] PROVE f[n] = g[n]
    <3>1. N \in Nat
      BY <1>1
    <3>2. n \in 1..(N + 1)
      BY <3>1
    <3>3. tt[n] = ss[n]
      BY <1>2
    <3> QED BY <1>5, <1>6, <2>1, <3>2, <3>3
  <2>2. Alike(f, g, N)
    BY <1>5, <1>6, <2>1 DEF Alike
  <2>3. N \in Nat
    BY <1>1
  <2> QED BY <2>2, <2>3, SameAlong
<1>8. g[N + 1] = f[N] \o s
  <2>1. N + 1 \in 1..(N + 1) /\ (N + 1) - 1 = N /\ N \in 0..N
    BY <1>1
  <2> QED BY <1>2, <1>6, <1>7, <2>1
<1>9. f[N] \in Seq(T)
  <2>1. N \in 0..N
    BY <1>1
  <2> QED BY <2>1 DEF N
<1> QED BY <1>1, <1>5, <1>6, <1>8, <1>9 DEF tt

LEMMA FlattenMembers ==
    ASSUME NEW T, NEW ss \in Seq(Seq(T))
    PROVE  ToSet(FlattenSeq(ss)) = UNION {ToSet(s) : s \in ToSet(ss)}
<1> DEFINE U == {tt \in Seq(Seq(T)) : ToSet(FlattenSeq(tt)) = UNION {ToSet(s) : s \in ToSet(tt)}}
<1>1. << >> \in U
  <2>1. ToSet(<< >>) = {}
    BY DEF ToSet
  <2> QED BY <2>1, FlattenEmpty
<1>2. ASSUME NEW tt \in Seq(Seq(T)), NEW s \in Seq(T), tt \in U PROVE Append(tt, s) \in U
  <2>1. FlattenSeq(tt) \in Seq(T) /\ FlattenSeq(Append(tt, s)) = FlattenSeq(tt) \o s
    BY FlattenAppend
  <2>2. ToSet(FlattenSeq(tt) \o s) = ToSet(FlattenSeq(tt)) \cup ToSet(s)
    BY <2>1, ConcatMembers
  <2>3. ToSet(Append(tt, s)) = ToSet(tt) \cup {s}
    BY AppendMembers
  <2>4. Append(tt, s) \in Seq(Seq(T))
    BY AppendProperties
  <2> DEFINE All(X) == UNION {ToSet(r) : r \in X}
  <2>5. All(ToSet(tt) \cup {s}) = All(ToSet(tt)) \cup ToSet(s)
    <3>1. \A x : x \in All(ToSet(tt) \cup {s}) <=> \E r \in ToSet(tt) \cup {s} : x \in ToSet(r)
      OBVIOUS
    <3>2. \A x : x \in All(ToSet(tt)) <=> \E r \in ToSet(tt) : x \in ToSet(r)
      OBVIOUS
    <3> HIDE DEF All
    <3> QED BY <3>1, <3>2
  <2> QED BY <1>2, <2>1, <2>2, <2>3, <2>4, <2>5
<1>3. Seq(Seq(T)) \subseteq U
  <2> HIDE DEF U
  <2> QED BY <1>1, <1>2, SeqInduction
<1> QED BY <1>3

LEMMA FlattenList ==
    ASSUME NEW T, NEW ss \in Seq(Seq(T))
    PROVE  FlattenSeq(ss) \in Seq(T)
<1>1. << >> \in Seq(T)
  OBVIOUS
<1> QED BY <1>1, FlattenAppend

-----------------------------------------------------------------------------
(***************************************************************************)
(* Firsts and Unique.                                                      *)
(***************************************************************************)

\* q, and e unless it is alike to a member of q.
Anew(q, e, R) == IF \E x \in ToSet(q) : <<x, e>> \in R THEN q ELSE Append(q, e)

KeepsFirst(f, s, R) ==
    /\ f[0] = << >> /\ Firsts(s, R) = f[Len(s)]
    /\ \A n \in 1..Len(s) : f[n] = Anew(f[n - 1], s[n], R)

LEMMA FirstsSteps ==
    ASSUME NEW T, NEW s \in Seq(T), NEW R
    PROVE  \E f \in [0..Len(s) -> Seq(T)] : KeepsFirst(f, s, R)
<1> DEFINE N == Len(s)
           step == [n \in 1..N |-> [q \in Seq(T) |-> Anew(q, s[n], R)]]
           F(g) == [n \in 0..N |->
                      IF n = 0 THEN << >>
                      ELSE IF \E e \in ToSet(g[n - 1]) : <<e, s[n]>> \in R THEN g[n - 1]
                      ELSE Append(g[n - 1], s[n])]
           g == CHOOSE g : g = F(g)
<1>1. N \in Nat /\ << >> \in Seq(T)
  OBVIOUS
<1>2. step \in [1..N -> [Seq(T) -> Seq(T)]]
  BY DEF Anew
<1>3. PICK f \in [0..N -> Seq(T)] : Recursive(f, N, << >>, step)
  <2> HIDE DEF step, N
  <2> QED BY <1>1, <1>2, RecursionExists
<1>4. ASSUME NEW n \in 1..N PROVE f[n] = Anew(f[n - 1], s[n], R)
  <2>1. n - 1 \in 0..N /\ f[n - 1] \in Seq(T)
    BY <1>1
  <2>2. f[n] = step[n][f[n - 1]]
    BY <1>3 DEF Recursive
  <2> QED BY <2>1, <2>2
<1>5. f[0] = << >>
  BY <1>3 DEF Recursive
<1>6. f = F(f)
  <2>1. f = [n \in 0..N |-> f[n]]
    BY <1>3
  <2>2. ASSUME NEW n \in 0..N
        PROVE  f[n] = IF n = 0 THEN << >>
                      ELSE IF \E e \in ToSet(f[n - 1]) : <<e, s[n]>> \in R THEN f[n - 1]
                      ELSE Append(f[n - 1], s[n])
    <3>1. CASE n = 0
      BY <1>5, <3>1
    <3>2. CASE n # 0
      <4>1. n \in 1..N
        BY <1>1, <3>2
      <4> QED BY <1>4, <3>2, <4>1 DEF Anew
    <3> QED BY <3>1, <3>2
  <2> QED BY <2>1, <2>2, Zenon
<1>7. g = F(g)
  <2> HIDE DEF F
  <2> QED BY <1>6
<1>8. Firsts(s, R) = g[N]
  BY DEF Firsts
<1> HIDE DEF g
<1>9. \A n \in 0..N : g[n] = f[n]
  <2>1. g[0] = f[0]
    <3>1. 0 \in 0..N
      BY <1>1
    <3>2. g[0] = << >>
      BY <1>7, <3>1
    <3> QED BY <1>5, <3>2
  <2>2. ASSUME NEW n \in 1..N, g[n - 1] = f[n - 1] PROVE g[n] = f[n]
    <3>1. n \in 0..N /\ n # 0
      BY <1>1
    <3>2. g[n] = IF \E e \in ToSet(g[n - 1]) : <<e, s[n]>> \in R THEN g[n - 1]
                 ELSE Append(g[n - 1], s[n])
      BY <1>7, <3>1
    <3> QED BY <1>4, <2>2, <3>2 DEF Anew
  <2>3. Alike(g, f, N)
    BY <2>1, <2>2 DEF Alike
  <2> HIDE DEF N
  <2> QED BY <1>1, <2>3, SameAlong
<1>10. g[N] = f[N]
  <2> HIDE DEF N
  <2> QED BY <1>1, <1>9
<1> QED BY <1>4, <1>5, <1>8, <1>10 DEF KeepsFirst

\* What is kept are members of the list, no two of them alike, and every member of the
\* list is kept or alike to one that is.
LEMMA FirstsKept ==
    ASSUME NEW T, NEW s \in Seq(T), NEW R
    PROVE  /\ Firsts(s, R) \in Seq(T) /\ ToSet(Firsts(s, R)) \subseteq ToSet(s)
           /\ \A j \in 1..Len(Firsts(s, R)) : \A i \in 1..(j - 1) :
                <<Firsts(s, R)[i], Firsts(s, R)[j]>> \notin R
           /\ \A x \in ToSet(s) : x \in ToSet(Firsts(s, R))
                                  \/ \E y \in ToSet(Firsts(s, R)) : <<y, x>> \in R
<1> DEFINE N == Len(s)
           Good(q, n) ==
             /\ \A x \in ToSet(q) : \E i \in 1..n : x = s[i]
             /\ \A j \in 1..Len(q) : \A i \in 1..(j - 1) : <<q[i], q[j]>> \notin R
             /\ \A i \in 1..n : s[i] \in ToSet(q) \/ \E y \in ToSet(q) : <<y, s[i]>> \in R
<1>1. PICK f \in [0..Len(s) -> Seq(T)] : KeepsFirst(f, s, R)
  BY FirstsSteps
<1>2. N \in Nat
  OBVIOUS
<1> DEFINE K == {n \in Nat : n <= N => Good(f[n], n)}
<1>3. 0 \in K
  <2>1. f[0] = << >>
    BY <1>1 DEF KeepsFirst
  <2>2. ToSet(<< >>) = {} /\ Len(<< >>) = 0 /\ 1..0 = {}
    BY DEF ToSet
  <2> QED BY <2>1, <2>2
<1>4. ASSUME NEW n \in Nat, n \in K PROVE n + 1 \in K
  <2> SUFFICES ASSUME n + 1 <= N PROVE Good(f[n + 1], n + 1)
    <3> HIDE DEF Good, N
    <3> QED OBVIOUS
  <2>1. n \in 0..N /\ n + 1 \in 1..N /\ (n + 1) - 1 = n
    BY <1>2
  <2> DEFINE e == s[n + 1]
  <2>2. f[n + 1] = Anew(f[n], e, R)
    BY <1>1, <2>1 DEF KeepsFirst
  <2>3. PICK q \in Seq(T) : q = f[n]
    BY <1>1, <2>1
  <2>4. Good(q, n) /\ e \in T
    <3>1. Good(f[n], n)
      <4> HIDE DEF Good
      <4> QED BY <1>4, <2>1
    <3>2. e \in T
      BY <2>1
    <3> HIDE DEF Good
    <3> QED BY <2>3, <3>1, <3>2
  <2>5. CASE \E x \in ToSet(q) : <<x, e>> \in R
    <3>1. f[n + 1] = q
      BY <2>2, <2>3, <2>5 DEF Anew
    <3>2. \A i \in 1..(n + 1) : i \in 1..n \/ i = n + 1
      OBVIOUS
    <3>3. \A i \in 1..n : i \in 1..(n + 1)
      OBVIOUS
    <3> QED BY <2>4, <2>5, <3>1, <3>2, <3>3
  <2>6. CASE ~\E x \in ToSet(q) : <<x, e>> \in R
    <3>1. f[n + 1] = Append(q, e)
      BY <2>2, <2>3, <2>6 DEF Anew
    <3> DEFINE r == Append(q, e)
    <3>2. ToSet(r) = ToSet(q) \cup {e}
      BY <2>4, AppendMembers
    <3>3. /\ Len(r) = Len(q) + 1 /\ r[Len(q) + 1] = e /\ Len(q) \in Nat
          /\ \A i \in 1..Len(q) : r[i] = q[i] /\ q[i] \in ToSet(q)
      BY <2>4 DEF ToSet
    <3> HIDE DEF r, e
    <3>4. ASSUME NEW j \in 1..Len(r), NEW i \in 1..(j - 1) PROVE <<r[i], r[j]>> \notin R
      <4>1. i \in 1..Len(q) /\ (j \in 1..Len(q) \/ j = Len(q) + 1)
        BY <3>3
      <4> QED BY <2>4, <2>6, <3>3, <4>1
    <3>5. \A i \in 1..(n + 1) : i \in 1..n \/ i = n + 1
      OBVIOUS
    <3>6. \A i \in 1..n : i \in 1..(n + 1)
      OBVIOUS
    <3>7. \A i \in 1..(n + 1) : s[i] \in ToSet(r) \/ \E y \in ToSet(r) : <<y, s[i]>> \in R
      BY <2>4, <3>2, <3>5 DEF e
    <3>8. \A x \in ToSet(r) : \E i \in 1..(n + 1) : x = s[i]
      BY <2>1, <2>4, <3>2, <3>6 DEF e
    <3> QED BY <3>1, <3>4, <3>7, <3>8 DEF r
  <2> QED BY <2>5, <2>6
<1>5. Nat \subseteq K
  <2> HIDE DEF K
  <2> QED BY <1>3, <1>4, NatSetInduction
<1>6. Good(f[N], N)
  <2> HIDE DEF Good, N
  <2> QED BY <1>2, <1>5
<1>7. Firsts(s, R) = f[N] /\ f[N] \in Seq(T)
  <2>1. N \in 0..N
    BY <1>2
  <2> QED BY <1>1, <2>1 DEF KeepsFirst
<1>8. ToSet(s) = {s[i] : i \in 1..N}
  BY DEF ToSet
<1> HIDE DEF N
<1>9. PICK q : q = f[N]
  OBVIOUS
<1>10. Good(q, N)
  <2> HIDE DEF Good
  <2> QED BY <1>6, <1>9
<1>11. Firsts(s, R) = q /\ q \in Seq(T)
  BY <1>7, <1>9
<1>12. /\ q \in Seq(T) /\ ToSet(q) \subseteq ToSet(s)
       /\ \A j \in 1..Len(q) : \A i \in 1..(j - 1) : <<q[i], q[j]>> \notin R
       /\ \A x \in ToSet(s) : x \in ToSet(q) \/ \E y \in ToSet(q) : <<y, x>> \in R
  BY <1>8, <1>10, <1>11
<1> QED
  <2> HIDE DEF Good
  <2> QED BY <1>11, <1>12

\* Unique has the members of the list, each once.
LEMMA UniqueMembers ==
    ASSUME NEW T, NEW s \in Seq(T)
    PROVE  /\ Unique(s) \in Seq(T) /\ ToSet(Unique(s)) = ToSet(s)
           /\ IsInjective(Unique(s))
<1> DEFINE R == {<<e, e>> : e \in ToSet(s)}
           u == Firsts(s, R)
<1>1. Unique(s) = u
  BY DEF Unique
<1>2. /\ u \in Seq(T) /\ ToSet(u) \subseteq ToSet(s)
      /\ \A j \in 1..Len(u) : \A i \in 1..(j - 1) : <<u[i], u[j]>> \notin R
      /\ \A x \in ToSet(s) : x \in ToSet(u) \/ \E y \in ToSet(u) : <<y, x>> \in R
  <2> HIDE DEF R
  <2> QED BY FirstsKept
<1> HIDE DEF u
<1>3. ToSet(u) = ToSet(s)
  BY <1>2
<1>4. DOMAIN u = 1..Len(u) /\ Len(u) \in Nat /\ \A i \in 1..Len(u) : u[i] \in ToSet(u)
  BY <1>2 DEF ToSet
<1>5. ASSUME NEW i \in 1..Len(u), NEW j \in 1..Len(u), u[i] = u[j] PROVE i = j
  <2>1. <<u[i], u[j]>> \in R
    BY <1>3, <1>4, <1>5
  <2>2. ~(i < j) /\ ~(j < i)
    <3>1. ~(i < j)
      <4> SUFFICES ASSUME i < j PROVE FALSE
        OBVIOUS
      <4>1. i \in 1..(j - 1)
        BY <1>4
      <4> QED BY <1>2, <2>1, <4>1
    <3>2. ~(j < i)
      <4> SUFFICES ASSUME j < i PROVE FALSE
        OBVIOUS
      <4>1. j \in 1..(i - 1)
        BY <1>4
      <4> QED BY <1>2, <1>5, <2>1, <4>1
    <3> QED BY <3>1, <3>2
  <2> QED BY <1>4, <2>2
<1> QED BY <1>1, <1>2, <1>3, <1>4, <1>5 DEF IsInjective

(***************************************************************************)
(* Lists that have no member twice.                                        *)
(***************************************************************************)

LEMMA AppendOnce ==
    ASSUME NEW T, NEW s \in Seq(T), NEW e \in T, IsInjective(s), e \notin ToSet(s)
    PROVE  IsInjective(Append(s, e))
<1> SUFFICES ASSUME NEW t, t = Append(s, e) PROVE IsInjective(t)
  OBVIOUS
<1>1. PICK n \in Nat : n = Len(s)
  OBVIOUS
<1>2. DOMAIN t = 1..(n + 1) /\ t[n + 1] = e /\ \A i \in 1..n : t[i] = s[i]
  BY <1>1
<1>3. ASSUME NEW i \in 1..n PROVE t[i] # e
  <2>1. s[i] \in ToSet(s)
    BY <1>1 DEF ToSet
  <2> QED BY <1>2, <2>1
<1>4. \A i \in 1..(n + 1) : i \in 1..n \/ i = n + 1
  BY <1>1
<1>5. \A i, j \in 1..n : s[i] = s[j] => i = j
  BY <1>1 DEF IsInjective
<1>6. ASSUME NEW i \in DOMAIN t, NEW j \in DOMAIN t, t[i] = t[j] PROVE i = j
  BY <1>2, <1>3, <1>4, <1>5, <1>6
<1> QED BY <1>6 DEF IsInjective

LEMMA ConcatOnce ==
    ASSUME NEW T, NEW s \in Seq(T), NEW t \in Seq(T), IsInjective(s), IsInjective(t),
           ToSet(s) \cap ToSet(t) = {}
    PROVE  IsInjective(s \o t)
<1>1. PICK m \in Nat, n \in Nat : m = Len(s) /\ n = Len(t)
  OBVIOUS
<1>2. PICK u : /\ u = s \o t /\ DOMAIN u = 1..(m + n)
               /\ \A i \in 1..(m + n) : u[i] = IF i <= m THEN s[i] ELSE t[i - m]
  <2>1. /\ DOMAIN (s \o t) = 1..(m + n)
        /\ \A i \in 1..(m + n) : (s \o t)[i] = IF i <= m THEN s[i] ELSE t[i - m]
    BY <1>1
  <2> QED BY <2>1
<1>3. \A i, j \in 1..m : s[i] = s[j] => i = j
  BY <1>1 DEF IsInjective
<1>4. \A i, j \in 1..n : t[i] = t[j] => i = j
  BY <1>1 DEF IsInjective
<1>5. \A i \in 1..m, j \in 1..n : s[i] # t[j]
  <2>1. ASSUME NEW i \in 1..m, NEW j \in 1..n PROVE s[i] \in ToSet(s) /\ t[j] \in ToSet(t)
    BY <1>1 DEF ToSet
  <2> QED BY <2>1
<1>6. ASSUME NEW i \in DOMAIN u, NEW j \in DOMAIN u, u[i] = u[j] PROVE i = j
  <2>1. i \in 1..(m + n) /\ j \in 1..(m + n)
    BY <1>2
  <2>2. CASE i <= m /\ j <= m
    <3>1. i \in 1..m /\ j \in 1..m /\ s[i] = s[j]
      BY <1>1, <1>2, <1>6, <2>1, <2>2
    <3> QED BY <1>3, <3>1
  <2>3. CASE i <= m /\ ~(j <= m)
    <3>1. i \in 1..m /\ j - m \in 1..n /\ s[i] = t[j - m]
      BY <1>1, <1>2, <1>6, <2>1, <2>3
    <3> QED BY <1>5, <3>1
  <2>4. CASE ~(i <= m) /\ j <= m
    <3>1. j \in 1..m /\ i - m \in 1..n /\ s[j] = t[i - m]
      BY <1>1, <1>2, <1>6, <2>1, <2>4
    <3> QED BY <1>5, <3>1
  <2>5. CASE ~(i <= m) /\ ~(j <= m)
    <3>1. i - m \in 1..n /\ j - m \in 1..n /\ t[i - m] = t[j - m]
      <4>1. u[i] = t[i - m] /\ u[j] = t[j - m]
        BY <1>2, <2>1, <2>5
      <4>2. i - m \in 1..n /\ j - m \in 1..n
        BY <1>1, <2>1, <2>5
      <4> QED BY <1>6, <4>1, <4>2
    <3>2. i - m = j - m
      BY <1>4, <3>1
    <3> QED BY <1>1, <2>1, <3>2
  <2> QED BY <2>2, <2>3, <2>4, <2>5
<1>7. IsInjective(u)
  BY <1>6 DEF IsInjective
<1> QED BY <1>2, <1>7

LEMMA TailOnce ==
    ASSUME NEW T, NEW s \in Seq(T), s # << >>, IsInjective(s)
    PROVE  IsInjective(Tail(s)) /\ ToSet(Tail(s)) = ToSet(s) \ {Head(s)}
<1>1. PICK n \in Nat \ {0} : n = Len(s)
  <2>1. Len(s) \in Nat /\ Len(s) # 0
    BY EmptySeq
  <2> QED BY <2>1
<1>2. PICK t : /\ t = Tail(s) /\ DOMAIN t = 1..(n - 1)
               /\ \A i \in 1..(n - 1) : t[i] = s[i + 1]
  <2>1. DOMAIN Tail(s) = 1..(n - 1) /\ \A i \in 1..(n - 1) : Tail(s)[i] = s[i + 1]
    BY <1>1
  <2> QED BY <2>1
<1>3. \A i, j \in 1..n : s[i] = s[j] => i = j
  BY <1>1 DEF IsInjective
<1>4. ASSUME NEW i \in DOMAIN t, NEW j \in DOMAIN t, t[i] = t[j] PROVE i = j
  <2>1. i + 1 \in 1..n /\ j + 1 \in 1..n /\ s[i + 1] = s[j + 1]
    BY <1>1, <1>2, <1>4
  <2>2. i + 1 = j + 1
    BY <1>3, <2>1
  <2> QED BY <1>1, <1>2, <2>2
<1>5. ToSet(s) = {Head(s)} \cup ToSet(t)
  BY <1>2, HeadTailMembers
<1>6. Head(s) \notin ToSet(t)
  <2> SUFFICES ASSUME NEW i \in 1..(n - 1), t[i] = Head(s) PROVE FALSE
    BY <1>2 DEF ToSet
  <2>1. i + 1 \in 1..n /\ 1 \in 1..n /\ s[i + 1] = s[1]
    BY <1>1, <1>2
  <2>2. i + 1 = 1
    BY <1>3, <2>1
  <2> QED BY <2>2
<1> QED BY <1>2, <1>4, <1>5, <1>6 DEF IsInjective

LEMMA SelectOnce ==
    ASSUME NEW T, NEW s \in Seq(T), NEW S, IsInjective(s)
    PROVE  IsInjective(Select(s, S))
<1>1. PICK R : R = {r \in T \X T : r[1] # r[2]}
  OBVIOUS
<1>2. \A a, b \in T : <<a, b>> \in R <=> a # b
  BY <1>1
<1>3. ASSUME NEW t \in Seq(T) PROVE InOrderOf(t, R) <=> IsInjective(t)
  <2>1. DOMAIN t = 1..Len(t) /\ Len(t) \in Nat /\ \A i \in 1..Len(t) : t[i] \in T
    OBVIOUS
  <2>2. InOrderOf(t, R) <=> \A i, j \in 1..Len(t) : i < j => t[i] # t[j]
    BY <1>2, <2>1 DEF InOrderOf
  <2>3. (\A i, j \in 1..Len(t) : i < j => t[i] # t[j])
          <=> \A i, j \in 1..Len(t) : t[i] = t[j] => i = j
    BY <2>1
  <2> QED BY <2>1, <2>2, <2>3 DEF IsInjective
<1>4. PICK t : t = Select(s, S) /\ t \in Seq(T) /\ InOrderOf(t, R)
  BY <1>3, SelectList, SelectInOrder
<1> QED BY <1>3, <1>4

\* Lists that have no member twice, and none with another one of them.
LEMMA FlattenOnce ==
    ASSUME NEW T, NEW ss \in Seq(Seq(T)), \A i \in 1..Len(ss) : IsInjective(ss[i]),
           \A i, j \in 1..Len(ss) : i # j => ToSet(ss[i]) \cap ToSet(ss[j]) = {}
    PROVE  IsInjective(FlattenSeq(ss))
<1> DEFINE Apart(r) == /\ \A i \in 1..Len(r) : IsInjective(r[i])
                       /\ \A i, j \in 1..Len(r) : i # j => ToSet(r[i]) \cap ToSet(r[j]) = {}
           U == {r \in Seq(Seq(T)) : Apart(r) => IsInjective(FlattenSeq(r))}
<1>1. << >> \in U
  <2>1. IsInjective(<< >>)
    BY DEF IsInjective
  <2> QED BY <2>1, FlattenEmpty
<1>2. ASSUME NEW r \in Seq(Seq(T)), NEW s \in Seq(T), r \in U PROVE Append(r, s) \in U
  <2>a. Append(r, s) \in Seq(Seq(T))
    OBVIOUS
  <2> SUFFICES ASSUME Apart(Append(r, s)) PROVE IsInjective(FlattenSeq(Append(r, s)))
    BY <2>a
  <2>1. PICK n \in Nat : n = Len(r)
    OBVIOUS
  <2>2. PICK q : /\ q = Append(r, s) /\ Len(q) = n + 1 /\ q[n + 1] = s
                 /\ \A i \in 1..n : q[i] = r[i]
    <3>1. /\ Len(Append(r, s)) = n + 1 /\ Append(r, s)[n + 1] = s
          /\ \A i \in 1..n : Append(r, s)[i] = r[i]
      BY <2>1
    <3> QED BY <3>1
  <2>3. /\ \A i \in 1..(n + 1) : IsInjective(q[i])
        /\ \A i, j \in 1..(n + 1) : i # j => ToSet(q[i]) \cap ToSet(q[j]) = {}
    BY <2>2
  <2>4. \A i \in 1..n : i \in 1..(n + 1) /\ i # n + 1
    BY <2>1
  <2>5. IsInjective(s) /\ \A i \in 1..n : ToSet(r[i]) \cap ToSet(s) = {}
    <3>1. n + 1 \in 1..(n + 1)
      BY <2>1
    <3> QED BY <2>2, <2>3, <2>4, <3>1
  <2>6. Apart(r)
    BY <2>1, <2>2, <2>3, <2>4
  <2>7. PICK f : f = FlattenSeq(r) /\ f \in Seq(T) /\ IsInjective(f)
                 /\ FlattenSeq(Append(r, s)) = f \o s
    BY <1>2, <2>6, FlattenAppend
  <2>8. ToSet(f) = UNION {ToSet(t) : t \in ToSet(r)}
    BY <2>7, FlattenMembers
  <2>9. ASSUME NEW t \in ToSet(r) PROVE ToSet(t) \cap ToSet(s) = {}
    <3>1. PICK i \in 1..n : t = r[i]
      BY <2>1 DEF ToSet
    <3> QED BY <2>5, <3>1
  <2>10. ToSet(f) \cap ToSet(s) = {}
    BY <2>8, <2>9
  <2> QED BY <2>5, <2>7, <2>10, ConcatOnce
<1>3. Seq(Seq(T)) \subseteq U
  <2> HIDE DEF U
  <2> QED BY <1>1, <1>2, SeqInduction
<1> QED BY <1>3
=============================================================================
