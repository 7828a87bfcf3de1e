------------------------------ MODULE LogProofs ------------------------------
(***************************************************************************)
(* What holds of the log reader and of paclog for every log.  Appending a  *)
(* piece to a log begins one more entry or makes the last one longer, so   *)
(* the invariant of the reader says which entries the pieces that were     *)
(* read so far have.  An entry that is printed and read again is the same  *)
(* entry, so the second paclog of a pipe has what the first one printed.   *)
(***************************************************************************)
EXTENDS PacLog, ListProofs, TLAPS

\* The pieces that were read.
Seen == SubSeq(input, 1, pos)

ReaderInv ==
    /\ input \in Seq(Piece) /\ OneFormat(input) /\ pos \in 0..Len(input)
    /\ next \in BOOLEAN /\ nextSec \in Nat /\ reading \in BOOLEAN
    /\ entry \in Entry \cup {None} /\ entries \in Seq(Entry)
    /\ nextSec # 0 => \E i \in 1..pos : input[i].kind \in {"iso", "broken"}
    /\ pos > 0 => Stamped(input[1])
    /\ entry # None => EntriesOf(Seen) = Append(entries, entry) /\ reading
    /\ entry = None /\ next =>
         /\ pos > 0 /\ reading
         /\ EntriesOf(Seen) = Append(entries, Begin(input[pos], nextSec))
    /\ entry = None /\ ~next =>
         /\ EntriesOf(Seen) = entries
         /\ pos \in {0, Len(input)}
         /\ ~reading /\ pos = 0 /\ input # << >> => ~Stamped(input[1])

-----------------------------------------------------------------------------
(***************************************************************************)
(* The entries of a log that has one piece more.                           *)
(***************************************************************************)

LEMMA StartsAppend ==
    ASSUME NEW s \in Seq(Piece), NEW p \in Piece
    PROVE  /\ Starts(s) \in Seq(1..Len(s))
           /\ Starts(Append(s, p)) = IF Stamped(p) THEN Append(Starts(s), Len(s) + 1) ELSE Starts(s)
<1> DEFINE N == Len(s)
           places(t) == [i \in DOMAIN t |-> i]
           S(t) == {i \in DOMAIN t : Stamped(t[i])}
<1>1. N \in Nat /\ DOMAIN s = 1..N
  OBVIOUS
<1>2. PICK t \in Seq(Piece) : t = Append(s, p)
  BY AppendProperties
<1>3. DOMAIN t = 1..(N + 1) /\ t[N + 1] = p /\ \A i \in 1..N : t[i] = s[i]
  BY <1>2
<1>4. places(s) \in Seq(1..N) /\ Len(places(s)) = N
  BY <1>1
<1>5. places(s) \in Seq(1..(N + 1)) /\ N + 1 \in 1..(N + 1)
  BY <1>1
<1>6. places(t) = Append(places(s), N + 1)
  <2>1. /\ Append(places(s), N + 1) \in Seq(1..(N + 1)) /\ Len(Append(places(s), N + 1)) = N + 1
        /\ Append(places(s), N + 1)[N + 1] = N + 1
        /\ \A i \in 1..N : Append(places(s), N + 1)[i] = i
    BY <1>1, <1>4, <1>5
  <2>2. places(t) \in Seq(1..(N + 1)) /\ Len(places(t)) = N + 1
    BY <1>1, <1>3
  <2>3. \A i \in 1..(N + 1) : places(t)[i] = Append(places(s), N + 1)[i]
    BY <1>1, <1>3, <2>1
  <2> QED BY <2>1, <2>2, <2>3, SeqEqual
<1>7. Select(places(s), S(s)) \in Seq(1..N)
  <2> HIDE DEF places, S
  <2> QED BY <1>4, SelectList
<1>8. Select(places(s), S(t)) = Select(places(s), S(s))
  <2>1. \A i \in 1..N : places(s)[i] \in S(t) <=> places(s)[i] \in S(s)
    BY <1>1, <1>3
  <2> HIDE DEF places, S
  <2> QED BY <1>4, <2>1, SelectSame
<1>9. Select(places(t), S(t)) = With(Select(places(s), S(t)), N + 1, S(t))
  <2> HIDE DEF places, S
  <2> QED BY <1>5, <1>6, SelectAppend
<1>10. N + 1 \in S(t) <=> Stamped(p)
  BY <1>1, <1>3
<1>11. Starts(s) = Select(places(s), S(s)) /\ Starts(t) = Select(places(t), S(t))
  BY DEF Starts
<1> HIDE DEF places, S
<1> QED BY <1>2, <1>7, <1>8, <1>9, <1>10, <1>11 DEF With

LEMMA StartsEmpty == Starts(<< >>) = << >>
<1>1. [i \in DOMAIN << >> |-> i] = << >>
  OBVIOUS
<1> QED BY <1>1, SelectEmpty DEF Starts

LEMMA StartsList ==
    ASSUME NEW s \in Seq(Piece)
    PROVE  Starts(s) \in Seq(1..Len(s))
<1>1. CASE s = << >>
  <2>1. << >> \in Seq(1..Len(s))
    OBVIOUS
  <2> QED BY <1>1, <2>1, StartsEmpty
<1>2. CASE s # << >>
  <2>1. s[1] \in Piece
    BY <1>2
  <2> QED BY <2>1, StartsAppend
<1> QED BY <1>1, <1>2

LEMMA BeginIsEntry ==
    ASSUME NEW p \in Piece, NEW n \in Nat
    PROVE  /\ Begin(p, n) \in Entry /\ Message(p) \in Piece
           /\ Begin(p, n).message = <<Message(p)>>
<1>1. Message(p) \in Piece
  BY NoneAssumption DEF Message, Piece
<1>2. <<Message(p)>> \in Seq(Piece)
  BY <1>1
<1>3. p.min \in Nat /\ p.caller \in Callers
  BY DEF Piece
<1> QED BY <1>1, <1>2, <1>3 DEF Begin, Entry

LEMMA EntriesByPlace ==
    ASSUME NEW s \in Seq(Piece), s = << >> \/ Stamped(s[1])
    PROVE  EntriesOf(s) = [j \in 1..Len(Starts(s)) |-> EntryAt(s, Starts(s), j)]
<1>1. PICK at \in Seq(1..Len(s)) : at = Starts(s)
  BY StartsList
<1>2. DOMAIN at = 1..Len(at)
  OBVIOUS
<1>3. CASE s = << >>
  <2>1. Len(at) = 0
    BY <1>1, <1>3, StartsEmpty
  <2>2. EntriesOf(s) = << >>
    BY <1>3 DEF EntriesOf
  <2>3. [j \in 1..0 |-> EntryAt(s, at, j)] = << >>
    OBVIOUS
  <2> QED BY <1>1, <2>1, <2>2, <2>3
<1>4. CASE s # << >>
  BY <1>1, <1>2, <1>4 DEF EntriesOf
<1> QED BY <1>3, <1>4

\* An entry and its message.
LEMMA EntryAtParts ==
    ASSUME NEW s \in Seq(Piece), NEW at \in Seq(1..Len(s)), NEW j \in 1..Len(at)
    PROVE  /\ Until(s, at, j) \in 0..Len(s) /\ at[j] \in 1..Len(s) /\ s[at[j]] \in Piece
           /\ SubSeq(s, at[j] + 1, Until(s, at, j)) \in Seq(Piece)
           /\ EntryAt(s, at, j) \in Entry
           /\ EntryAt(s, at, j) = [Begin(s[at[j]], s[at[j]].sec) EXCEPT !.message =
                <<Message(s[at[j]])>> \o SubSeq(s, at[j] + 1, Until(s, at, j))]
<1>1. at[j] \in 1..Len(s) /\ s[at[j]] \in Piece
  BY ElementOfSeq
<1>2. Until(s, at, j) \in 0..Len(s)
  <2>1. CASE j = Len(at)
    BY <2>1 DEF Until
  <2>2. CASE j # Len(at)
    <3>1. j + 1 \in 1..Len(at)
      BY <2>2
    <3>2. at[j + 1] \in 1..Len(s)
      BY <3>1, ElementOfSeq
    <3> QED BY <2>2, <3>2 DEF Until
  <2> QED BY <2>1, <2>2
<1>3. PICK b \in Entry : b = Begin(s[at[j]], s[at[j]].sec) /\ b.message = <<Message(s[at[j]])>>
  <2>1. s[at[j]].sec \in Nat
    BY <1>1 DEF Piece
  <2> QED BY <1>1, <2>1, BeginIsEntry
<1>4. PICK m \in Seq(Piece) : m = SubSeq(s, at[j] + 1, Until(s, at, j))
  <2>1. \A i \in (at[j] + 1)..Until(s, at, j) : s[i] \in Piece
    BY <1>1, <1>2
  <2>2. at[j] + 1 \in Int /\ Until(s, at, j) \in Int
    BY <1>1, <1>2
  <2> QED BY <2>1, <2>2, SubSeqProperties
<1>5. EntryAt(s, at, j) = [b EXCEPT !.message = b.message \o m]
  BY <1>3, <1>4 DEF EntryAt
<1>6. b.message \o m \in Seq(Piece)
  BY DEF Entry
<1>7. [b EXCEPT !.message = b.message \o m] \in Entry
  BY <1>6 DEF Entry
<1> QED BY <1>1, <1>2, <1>3, <1>4, <1>5, <1>7

LEMMA EntriesList ==
    ASSUME NEW s \in Seq(Piece)
    PROVE  EntriesOf(s) \in Seq(Entry)
<1>1. CASE s = << >> \/ Stamped(s[1])
  <2>1. PICK at \in Seq(1..Len(s)) : at = Starts(s)
    BY StartsList
  <2>2. EntriesOf(s) = [j \in 1..Len(at) |-> EntryAt(s, at, j)]
    BY <1>1, <2>1, EntriesByPlace
  <2>3. \A j \in 1..Len(at) : EntryAt(s, at, j) \in Entry
    BY EntryAtParts
  <2> QED BY <2>2, <2>3
<1>2. CASE ~(s = << >> \/ Stamped(s[1]))
  BY <1>2 DEF EntriesOf
<1> QED BY <1>1, <1>2

\* One more piece does not change the entries before the last one.
LEMMA EntryAtBefore ==
    ASSUME NEW s \in Seq(Piece), NEW p \in Piece, NEW t \in Seq(Piece), t = Append(s, p),
           NEW at \in Seq(1..Len(s)), NEW au \in Seq(1..Len(t)), NEW j \in 1..Len(at),
           \/ au = at /\ j # Len(at)
           \/ au = Append(at, Len(s) + 1)
    PROVE  EntryAt(t, au, j) = EntryAt(s, at, j)
<1>1. /\ Until(s, at, j) \in 0..Len(s) /\ at[j] \in 1..Len(s)
  BY EntryAtParts
<1>2. Len(t) = Len(s) + 1 /\ \A i \in 1..Len(s) : t[i] = s[i]
  OBVIOUS
<1>7. \A i \in 1..Len(at) : au[i] = at[i]
  <2>1. at \in Seq(1..Len(t)) /\ Len(s) + 1 \in 1..Len(t)
    BY <1>2, SeqMonotonic
  <2>2. CASE au = Append(at, Len(s) + 1)
    BY <2>1, <2>2, AppendProperties
  <2> QED BY <2>2
<1>3. au[j] = at[j]
  BY <1>7
<1>4. Until(t, au, j) = Until(s, at, j)
  <2>1. CASE j = Len(at)
    <3>1. j # Len(au) /\ au[j + 1] = Len(s) + 1
      BY <2>1
    <3> QED BY <2>1, <3>1 DEF Until
  <2>2. CASE j # Len(at)
    <3>1. j # Len(au) /\ j + 1 \in 1..Len(at)
      BY <2>2
    <3>2. au[j + 1] = at[j + 1]
      BY <1>7, <3>1
    <3> QED BY <2>2, <3>1, <3>2 DEF Until
  <2> QED BY <2>1, <2>2
<1>5. SubSeq(t, at[j] + 1, Until(s, at, j)) = SubSeq(s, at[j] + 1, Until(s, at, j))
  <2>1. PICK a \in Nat \ {0}, b \in Nat : a = at[j] + 1 /\ b = Until(s, at, j)
    BY <1>1
  <2>2. b <= Len(s) /\ b <= Len(t) /\ \A i \in 1..Len(s) : i <= b => t[i] = s[i]
    BY <1>1, <1>2, <2>1
  <2>3. SubSeq(t, a, b) = SubSeq(s, a, b)
    BY <2>2, SubSeqSame
  <2> QED BY <2>1, <2>3
<1>6. t[at[j]] = s[at[j]]
  BY <1>1, <1>2
<1> QED BY <1>3, <1>4, <1>5, <1>6 DEF EntryAt

Longer(e, p) == [e EXCEPT !.message = Append(@, p)]

\* A piece without a timestamp goes to the end of the last one.
LEMMA EntryAtLast ==
    ASSUME NEW s \in Seq(Piece), NEW p \in Piece, NEW t \in Seq(Piece), t = Append(s, p),
           NEW at \in Seq(1..Len(s)), Len(at) \in 1..Len(at)
    PROVE  EntryAt(t, at, Len(at)) = Longer(EntryAt(s, at, Len(at)), p)
<1>0. PICK j \in 1..Len(at) : j = Len(at)
  OBVIOUS
<1>1. /\ at[j] \in 1..Len(s) /\ s[at[j]] \in Piece /\ Until(s, at, j) = Len(s)
      /\ EntryAt(s, at, j) = [Begin(s[at[j]], s[at[j]].sec) EXCEPT !.message =
                                <<Message(s[at[j]])>> \o SubSeq(s, at[j] + 1, Until(s, at, j))]
  BY <1>0, EntryAtParts DEF Until
<1>2. Len(t) = Len(s) + 1 /\ t[Len(s) + 1] = p /\ \A i \in 1..Len(s) : t[i] = s[i]
  OBVIOUS
<1>3. Until(t, at, j) = Len(t)
  BY <1>0 DEF Until
<1>4. PICK a \in Nat \ {0}, b \in Nat : a = at[j] + 1 /\ b = Len(s) /\ a <= b + 1 /\ a - 1 \in 1..b
  <2>1. Len(s) \in Nat
    OBVIOUS
  <2>2. at[j] + 1 \in Nat \ {0} /\ at[j] + 1 <= Len(s) + 1 /\ (at[j] + 1) - 1 \in 1..Len(s)
    BY <1>1, <2>1
  <2> QED BY <2>1, <2>2
<1>5. SubSeq(s, a, b) \in Seq(Piece) /\ SubSeq(t, a, b + 1) = Append(SubSeq(s, a, b), p)
  <2>1. \A i \in a..b : s[i] \in Piece
    BY <1>4
  <2>2. SubSeq(s, a, b) \in Seq(Piece)
    BY <1>4, <2>1, SubSeqProperties
  <2>3. a \in 1..Len(t) /\ b + 1 \in a..Len(t)
    BY <1>2, <1>4
  <2>4. SubSeq(t, a, b + 1) = SubSeq(t, a, (b + 1) - 1) \o <<t[b + 1]>>
    BY <2>3, SubSeqRecursiveSecond
  <2>5. (b + 1) - 1 = b /\ t[b + 1] = p
    BY <1>2, <1>4
  <2>6. SubSeq(t, a, b) = SubSeq(s, a, b)
    <3>1. b <= Len(s) /\ b <= Len(t) /\ \A i \in 1..Len(s) : i <= b => t[i] = s[i]
      BY <1>2, <1>4
    <3> QED BY <3>1, SubSeqSame
  <2>7. Append(SubSeq(s, a, b), p) = SubSeq(s, a, b) \o <<p>>
    BY <2>2, AppendIsConcat
  <2> QED BY <2>2, <2>4, <2>5, <2>6, <2>7
<1>6. PICK m \in Seq(Piece) : m = SubSeq(s, a, b)
  BY <1>5
<1>7. PICK e \in Entry : e = Begin(s[at[j]], s[at[j]].sec)
  <2>1. s[at[j]].sec \in Nat
    BY <1>1 DEF Piece
  <2> QED BY <1>1, <2>1, BeginIsEntry
<1>8. PICK h \in Piece : h = Message(s[at[j]]) /\ e.message = <<h>>
  <2>1. s[at[j]].sec \in Nat
    BY <1>1 DEF Piece
  <2> QED BY <1>1, <1>7, <2>1, BeginIsEntry
<1>9. EntryAt(s, at, j) = [e EXCEPT !.message = <<h>> \o m]
  BY <1>1, <1>4, <1>6, <1>7, <1>8
<1>10. t[at[j]] = s[at[j]]
  BY <1>1, <1>2
<1>11. EntryAt(t, at, j) = [e EXCEPT !.message = <<h>> \o Append(m, p)]
  <2>1. SubSeq(t, at[j] + 1, Until(t, at, j)) = Append(m, p)
    BY <1>2, <1>3, <1>4, <1>5, <1>6
  <2> QED BY <1>7, <1>8, <1>10, <2>1 DEF EntryAt
<1>12. <<h>> \o Append(m, p) = Append(<<h>> \o m, p)
  <2>1. <<h>> \in Seq(Piece) /\ <<p>> \in Seq(Piece) /\ <<h>> \o m \in Seq(Piece)
    OBVIOUS
  <2>2. (<<h>> \o m) \o <<p>> = <<h>> \o (m \o <<p>>)
    BY <2>1, ConcatAssociative
  <2>3. Append(m, p) = m \o <<p>> /\ Append(<<h>> \o m, p) = (<<h>> \o m) \o <<p>>
    BY <2>1, AppendIsConcat
  <2> QED BY <2>2, <2>3
<1>13. \A x : [[e EXCEPT !.message = x] EXCEPT !.message = Append(@, p)]
               = [e EXCEPT !.message = Append(x, p)]
  BY DEF Entry
<1> QED BY <1>0, <1>9, <1>11, <1>12, <1>13 DEF Longer

\* A piece with a timestamp begins an entry.
LEMMA EntriesOfStamp ==
    ASSUME NEW s \in Seq(Piece), NEW p \in Piece, Stamped(p), s = << >> \/ Stamped(s[1])
    PROVE  EntriesOf(Append(s, p)) = Append(EntriesOf(s), Begin(p, p.sec))
<1>1. PICK t \in Seq(Piece) : t = Append(s, p)
  BY AppendProperties
<1>2. Len(t) = Len(s) + 1 /\ t[Len(s) + 1] = p /\ \A i \in 1..Len(s) : t[i] = s[i]
  BY <1>1
<1>3. PICK at \in Seq(1..Len(s)) : at = Starts(s)
  BY StartsList
<1>4. PICK au \in Seq(1..Len(t)) : au = Starts(t)
  BY StartsList
<1>5. au = Append(at, Len(s) + 1)
  BY <1>1, <1>3, <1>4, StartsAppend
<1>6. Stamped(t[1]) /\ t # << >>
  <2>1. CASE s = << >>
    <3>1. Len(s) + 1 = 1 /\ Len(t) # 0
      BY <1>2, <2>1
    <3>2. t[1] = p
      BY <1>2, <3>1
    <3> QED BY <3>1, <3>2
  <2>2. CASE s # << >>
    <3>1. 1 \in 1..Len(s)
      BY <2>2
    <3> QED BY <1>2, <2>2, <3>1
  <2> QED BY <2>1, <2>2
<1>7. EntriesOf(s) = [j \in 1..Len(at) |-> EntryAt(s, at, j)]
  BY <1>3, EntriesByPlace
<1>8. EntriesOf(t) = [j \in 1..Len(au) |-> EntryAt(t, au, j)]
  BY <1>4, <1>6, EntriesByPlace
<1>9. PICK n \in Nat : n = Len(at) /\ Len(au) = n + 1 /\ au[n + 1] = Len(s) + 1
  BY <1>5
<1>10. \A j \in 1..n : EntryAt(t, au, j) = EntryAt(s, at, j)
  <2> SUFFICES ASSUME NEW j \in 1..n PROVE EntryAt(t, au, j) = EntryAt(s, at, j)
    OBVIOUS
  <2> QED BY <1>1, <1>5, <1>9, EntryAtBefore
<1>11. PICK b \in Entry : b = Begin(p, p.sec)
  <2>1. p.sec \in Nat
    BY DEF Piece
  <2> QED BY <2>1, BeginIsEntry
<1>12. EntryAt(t, au, n + 1) = b
  <2>1. Until(t, au, n + 1) = Len(s) + 1
    BY <1>2, <1>9 DEF Until
  <2>2. SubSeq(t, (Len(s) + 1) + 1, Len(s) + 1) = << >>
    BY SubSeqEmpty
  <2>3. b.message \o << >> = b.message
    BY DEF Entry
  <2>4. [b EXCEPT !.message = b.message] = b
    BY DEF Entry
  <2>5. EntryAt(t, au, n + 1) = [b EXCEPT !.message = b.message \o << >>]
    BY <1>2, <1>9, <1>11, <2>1, <2>2 DEF EntryAt
  <2> QED BY <2>3, <2>4, <2>5
<1>13. PICK es \in Seq(Entry) : es = EntriesOf(s)
  BY EntriesList
<1>14. PICK fs \in Seq(Entry) : fs = EntriesOf(t)
  BY EntriesList
<1>15. Len(es) = n /\ Len(fs) = n + 1
  BY <1>7, <1>8, <1>9, <1>13, <1>14
<1>16. fs[n + 1] = b /\ \A j \in 1..n : fs[j] = es[j]
  <2>1. fs[n + 1] = b
    BY <1>8, <1>9, <1>12, <1>14
  <2>2. ASSUME NEW j \in 1..n PROVE fs[j] = es[j]
    <3>1. j \in 1..Len(at) /\ j \in 1..Len(au)
      BY <1>9
    <3>2. fs[j] = EntryAt(t, au, j) /\ es[j] = EntryAt(s, at, j)
      BY <1>7, <1>8, <1>13, <1>14, <3>1
    <3> QED BY <1>10, <3>2
  <2> QED BY <2>1, <2>2
<1>17. fs = Append(es, b)
  BY <1>15, <1>16, AppendEqual
<1> QED BY <1>1, <1>11, <1>13, <1>14, <1>17

\* A piece without a timestamp continues the last entry.
LEMMA EntriesOfRest ==
    ASSUME NEW s \in Seq(Piece), NEW p \in Piece, ~Stamped(p),
           NEW es \in Seq(Entry), NEW e \in Entry, EntriesOf(s) = Append(es, e)
    PROVE  Longer(e, p) \in Entry /\ EntriesOf(Append(s, p)) = Append(es, Longer(e, p))
<1>1. PICK t \in Seq(Piece) : t = Append(s, p)
  BY AppendProperties
<1>2. Len(t) = Len(s) + 1 /\ t[Len(s) + 1] = p /\ \A i \in 1..Len(s) : t[i] = s[i]
  BY <1>1
<1>3. s # << >> /\ Stamped(s[1])
  <2>1. Append(es, e) # << >>
    OBVIOUS
  <2> QED BY <2>1 DEF EntriesOf
<1>4. t # << >> /\ Stamped(t[1])
  <2>1. 1 \in 1..Len(s)
    BY <1>3
  <2> QED BY <1>2, <1>3, <2>1
<1>5. PICK at \in Seq(1..Len(s)) : at = Starts(s)
  BY StartsList
<1>6. at = Starts(t)
  BY <1>1, <1>5, StartsAppend
<1>7. EntriesOf(s) = [j \in 1..Len(at) |-> EntryAt(s, at, j)]
  BY <1>3, <1>5, EntriesByPlace
<1>8. EntriesOf(t) = [j \in 1..Len(at) |-> EntryAt(t, at, j)]
  BY <1>4, <1>6, EntriesByPlace
<1>9. PICK n \in Nat : n = Len(es)
  OBVIOUS
<1>10. PICK es1 \in Seq(Entry) : es1 = Append(es, e) /\ Len(es1) = n + 1 /\ es1[n + 1] = e
                                /\ \A j \in 1..n : es1[j] = es[j] /\ es1 = EntriesOf(s)
  <2>1. /\ Append(es, e) \in Seq(Entry) /\ Len(Append(es, e)) = n + 1
        /\ Append(es, e)[n + 1] = e /\ \A j \in 1..n : Append(es, e)[j] = es[j]
    BY <1>9, AppendProperties
  <2> QED BY <2>1
<1>11. Len(at) = n + 1
  <2>1. es1 = [j \in 1..Len(at) |-> EntryAt(s, at, j)]
    BY <1>7, <1>10
  <2> QED BY <1>10, <2>1
<1>12. PICK f \in Entry : f = Longer(e, p)
  <2>1. Append(e.message, p) \in Seq(Piece)
    BY DEF Entry
  <2> QED BY <2>1 DEF Entry, Longer
<1>13. EntryAt(s, at, n + 1) = e
  <2>1. n + 1 \in 1..Len(at)
    BY <1>11
  <2> QED BY <1>7, <1>10, <2>1
<1>14. EntryAt(t, at, n + 1) = f
  <2>1. n + 1 \in 1..Len(at) /\ n + 1 = Len(at)
    BY <1>11
  <2>2. EntryAt(t, at, Len(at)) = Longer(EntryAt(s, at, Len(at)), p)
    BY <1>1, <2>1, EntryAtLast
  <2> QED BY <1>12, <1>13, <2>1, <2>2
<1>15. ASSUME NEW j \in 1..n PROVE EntryAt(t, at, j) = es[j]
  <2>1. j \in 1..Len(at) /\ j # Len(at)
    BY <1>11
  <2>2. at \in Seq(1..Len(t))
    BY <1>2, SeqMonotonic
  <2>3. EntryAt(t, at, j) = EntryAt(s, at, j)
    BY <1>1, <2>1, <2>2, EntryAtBefore
  <2>4. es1[j] = EntryAt(s, at, j)
    BY <1>7, <1>10, <2>1
  <2> QED BY <1>10, <2>3, <2>4
<1>16. PICK fs \in Seq(Entry) : fs = EntriesOf(t)
  BY EntriesList
<1>17. Len(fs) = n + 1
  BY <1>8, <1>11, <1>16
<1>18. fs[n + 1] = f
  <2>1. n + 1 \in 1..Len(at)
    BY <1>11
  <2> QED BY <1>8, <1>14, <1>16, <2>1
<1>19. ASSUME NEW j \in 1..n PROVE fs[j] = es[j]
  <2>1. j \in 1..Len(at)
    BY <1>11
  <2> QED BY <1>8, <1>15, <1>16, <2>1
<1>20. fs = Append(es, f)
  BY <1>9, <1>17, <1>18, <1>19, AppendEqual
<1> QED BY <1>1, <1>12, <1>16, <1>20

-----------------------------------------------------------------------------
(***************************************************************************)
(* The reader.                                                             *)
(***************************************************************************)

LEMMA Prefix ==
    ASSUME NEW s \in Seq(Piece), NEW n \in 0..Len(s)
    PROVE  /\ SubSeq(s, 1, n) \in Seq(Piece) /\ Len(SubSeq(s, 1, n)) = n
           /\ n = 0 => SubSeq(s, 1, n) = << >>
           /\ n > 0 => SubSeq(s, 1, n)[1] = s[1]
           /\ n < Len(s) => s[n + 1] \in Piece /\ SubSeq(s, 1, n + 1) = Append(SubSeq(s, 1, n), s[n + 1])
<1>1. \A i \in 1..n : s[i] \in Piece
  OBVIOUS
<1>2. /\ SubSeq(s, 1, n) \in Seq(Piece) /\ Len(SubSeq(s, 1, n)) = IF 1 <= n THEN n - 1 + 1 ELSE 0
      /\ \A i \in 1..(n - 1 + 1) : SubSeq(s, 1, n)[i] = s[1 + i - 1]
  BY <1>1, SubSeqProperties
<1>3. Len(SubSeq(s, 1, n)) = n /\ (n = 0 => SubSeq(s, 1, n) = << >>)
  BY <1>2, SubSeqEmpty
<1>4. ASSUME n > 0 PROVE SubSeq(s, 1, n)[1] = s[1]
  <2>1. 1 \in 1..(n - 1 + 1) /\ 1 + 1 - 1 = 1
    BY <1>4
  <2>2. SubSeq(s, 1, n)[1] = s[1 + 1 - 1]
    BY <1>2, <2>1
  <2> QED BY <2>1, <2>2
<1>5. ASSUME n < Len(s) PROVE s[n + 1] \in Piece /\ SubSeq(s, 1, n + 1) = Append(SubSeq(s, 1, n), s[n + 1])
  <2>1. n + 1 \in 1..Len(s) /\ 1 \in 1..Len(s) /\ n + 1 \in 1..Len(s) /\ (n + 1) - 1 = n
    BY <1>5
  <2>2. SubSeq(s, 1, n + 1) = SubSeq(s, 1, (n + 1) - 1) \o <<s[n + 1]>>
    BY <2>1, SubSeqRecursiveSecond
  <2>3. s[n + 1] \in Piece
    BY <2>1
  <2>4. Append(SubSeq(s, 1, n), s[n + 1]) = SubSeq(s, 1, n) \o <<s[n + 1]>>
    BY <1>2, <2>3, AppendIsConcat
  <2> QED BY <2>1, <2>2, <2>3, <2>4
<1> QED BY <1>2, <1>3, <1>4, <1>5

\* What one more piece does to the entries.
MoreBy(es, p, fs) ==
    \/ es = << >> /\ fs = << >>
    \/ Stamped(p) /\ Begin(p, p.sec) \in Entry /\ fs = Append(es, Begin(p, p.sec))
    \/ ~Stamped(p) /\ \E hs \in Seq(Entry), e \in Entry :
         es = Append(hs, e) /\ Longer(e, p) \in Entry /\ fs = Append(hs, Longer(e, p))

LEMMA OnePieceMore ==
    ASSUME NEW s \in Seq(Piece), NEW p \in Piece
    PROVE  MoreBy(EntriesOf(s), p, EntriesOf(Append(s, p)))
<1>1. PICK gs \in Seq(Entry) : gs = EntriesOf(s)
  BY EntriesList
<1>2. CASE Stamped(p) /\ (s = << >> \/ Stamped(s[1]))
  <2>1. Begin(p, p.sec) \in Entry
    <3>1. p.sec \in Nat
      BY DEF Piece
    <3> QED BY <3>1, BeginIsEntry
  <2>2. EntriesOf(Append(s, p)) = Append(EntriesOf(s), Begin(p, p.sec))
    BY <1>2, EntriesOfStamp
  <2> QED BY <1>2, <2>1, <2>2 DEF MoreBy
<1>3. CASE ~Stamped(p) /\ gs # << >>
  <2>1. PICK es \in Seq(Entry), e \in Entry : gs = Append(es, e)
    BY <1>3, SequenceEmptyOrAppend
  <2>2. Longer(e, p) \in Entry /\ EntriesOf(Append(s, p)) = Append(es, Longer(e, p))
    <3>1. EntriesOf(s) = Append(es, e)
      BY <1>1, <2>1
    <3> QED BY <1>3, <3>1, EntriesOfRest
  <2> QED BY <1>1, <1>3, <2>1, <2>2 DEF MoreBy
<1>4. CASE \/ s # << >> /\ ~Stamped(s[1])
           \/ ~Stamped(p) /\ gs = << >>
  <2>1. PICK t \in Seq(Piece) : t = Append(s, p)
    BY AppendProperties
  <2>2. Len(t) = Len(s) + 1 /\ t[Len(s) + 1] = p /\ \A i \in 1..Len(s) : t[i] = s[i]
    BY <2>1
  <2>3. gs = << >>
    BY <1>1, <1>4 DEF EntriesOf
  <2>4. ~Stamped(t[1])
    <3>1. CASE s = << >>
      <4>1. Len(s) + 1 = 1 /\ ~Stamped(p)
        BY <1>4, <3>1
      <4> QED BY <2>2, <4>1
    <3>2. CASE s # << >> /\ ~Stamped(s[1])
      <4>1. 1 \in 1..Len(s)
        BY <3>2
      <4> QED BY <2>2, <3>2, <4>1
    <3>3. CASE s # << >> /\ Stamped(s[1])
      <4>1. EntriesOf(s) = [j \in 1..Len(Starts(s)) |-> EntryAt(s, Starts(s), j)]
        BY <3>3, EntriesByPlace
      <4>2. PICK at \in Seq(1..Len(s)) : at = Starts(s)
        BY StartsList
      <4>3. 1 \in {i \in DOMAIN s : Stamped(s[i])} /\ 1 \in ToSet([i \in DOMAIN s |-> i])
        BY <3>3 DEF ToSet
      <4>4. 1 \in ToSet(at)
        <5>1. [i \in DOMAIN s |-> i] \in Seq(1..Len(s))
          OBVIOUS
        <5> QED BY <4>2, <4>3, <5>1, SelectMembers DEF Starts
      <4>5. Len(at) # 0
        BY <4>4 DEF ToSet
      <4>6. gs = [j \in 1..Len(at) |-> EntryAt(s, at, j)] /\ Len(at) \in Nat
        BY <1>1, <4>1, <4>2
      <4> QED BY <2>3, <4>5, <4>6
    <3> QED BY <3>1, <3>2, <3>3
  <2>5. EntriesOf(t) = << >>
    BY <2>4 DEF EntriesOf
  <2> QED BY <1>1, <2>1, <2>3, <2>5 DEF MoreBy
<1> QED BY <1>2, <1>3, <1>4

\* fs are the entries es with the last one completed and others after it.
Grown(es, fs) == Len(es) <= Len(fs) /\ \A j \in 1..(Len(es) - 1) : fs[j] = es[j]

LEMMA EntriesGrow ==
    ASSUME NEW s \in Seq(Piece), NEW m \in 0..Len(s)
    PROVE  Grown(EntriesOf(SubSeq(s, 1, m)), EntriesOf(s))
<1> DEFINE P(n) == EntriesOf(SubSeq(s, 1, n))
           U == {n \in Nat : m + n <= Len(s) => Grown(P(m), P(m + n))}
<1>1. \A n \in 0..Len(s) : P(n) \in Seq(Entry)
  BY Prefix, EntriesList
<1>2. 0 \in U
  <2>1. P(m) \in Seq(Entry) /\ m + 0 = m
    BY <1>1
  <2> QED BY <2>1 DEF Grown
<1>3. ASSUME NEW n \in Nat, n \in U PROVE n + 1 \in U
  <2> SUFFICES ASSUME m + (n + 1) <= Len(s) PROVE Grown(P(m), P(m + (n + 1)))
    OBVIOUS
  <2>1. /\ m + n \in 0..Len(s) /\ (m + n) + 1 \in 0..Len(s) /\ m + n < Len(s)
        /\ m + (n + 1) = (m + n) + 1 /\ m + n <= Len(s)
    OBVIOUS
  <2>2. PICK es \in Seq(Entry), fs \in Seq(Entry), gs \in Seq(Entry) :
          es = P(m) /\ fs = P(m + n) /\ gs = P((m + n) + 1)
    BY <1>1, <2>1
  <2>3. Grown(es, fs)
    BY <1>3, <2>1, <2>2
  <2>4. PICK t \in Seq(Piece), p \in Piece :
          t = SubSeq(s, 1, m + n) /\ SubSeq(s, 1, (m + n) + 1) = Append(t, p)
    BY <2>1, Prefix
  <2>5. MoreBy(fs, p, gs)
    BY <2>2, <2>4, OnePieceMore
  <2>6. Grown(es, gs)
    <3>1. CASE gs = fs
      BY <2>3, <3>1
    <3>4. fs = << >> /\ gs = << >> => gs = fs
      OBVIOUS
    <3>2. ASSUME NEW e \in Entry, gs = Append(fs, e) PROVE Grown(es, gs)
      BY <2>3, <3>2 DEF Grown
    <3>3. ASSUME NEW hs \in Seq(Entry), NEW e \in Entry, NEW f \in Entry,
                 fs = Append(hs, e), gs = Append(hs, f)
          PROVE  Grown(es, gs)
      <4>1. Len(gs) = Len(fs) /\ \A j \in 1..(Len(fs) - 1) : gs[j] = fs[j]
        BY <3>3
      <4> QED BY <2>3, <4>1 DEF Grown
    <3> QED BY <2>5, <3>1, <3>2, <3>3, <3>4 DEF MoreBy
  <2> QED BY <2>1, <2>2, <2>6
<1>4. Nat \subseteq U
  <2> HIDE DEF U
  <2> QED BY <1>2, <1>3, NatSetInduction
<1>5. PICK n \in Nat : m + n = Len(s)
  <2>1. Len(s) - m \in Nat /\ m + (Len(s) - m) = Len(s)
    OBVIOUS
  <2> QED BY <2>1
<1>6. Grown(P(m), P(Len(s)))
  BY <1>4, <1>5
<1>7. SubSeq(s, 1, Len(s)) = s
  BY SubSeqFull
<1> QED BY <1>6, <1>7

\* One more piece, when it begins an entry or continues the last one.
LEMMA SeenBegins ==
    ASSUME ReaderInv, ~AtEnd, Stamped(Ahead), pos' = pos + 1, input' = input
    PROVE  /\ Ahead \in Piece /\ pos' \in 1..Len(input) /\ input[pos'] = Ahead
           /\ Stamped(input[1]) /\ EntriesOf(Seen)' = Append(EntriesOf(Seen), Begin(Ahead, Ahead.sec))
<1>1. pos \in 0..Len(input) /\ pos < Len(input) /\ input \in Seq(Piece) /\ Seen' = SubSeq(input, 1, pos + 1)
  BY DEF ReaderInv, AtEnd, Seen
<1>2. Seen \in Seq(Piece) /\ Ahead \in Piece /\ Seen' = Append(Seen, Ahead)
  BY <1>1, Prefix DEF Seen, Ahead
<1>3. Seen = << >> \/ Stamped(Seen[1])
  BY <1>1, Prefix DEF ReaderInv, Seen
<1>4. EntriesOf(Append(Seen, Ahead)) = Append(EntriesOf(Seen), Begin(Ahead, Ahead.sec))
  BY <1>2, <1>3, EntriesOfStamp
<1>5. Stamped(input[1])
  BY <1>1 DEF ReaderInv, Ahead
<1>6. EntriesOf(Seen)' = EntriesOf(Seen')
  BY DEF Seen
<1>7. pos' \in 1..Len(input) /\ input[pos'] = Ahead
  BY <1>1 DEF Ahead
<1>8. EntriesOf(Seen)' = Append(EntriesOf(Seen), Begin(Ahead, Ahead.sec))
  BY <1>2, <1>4, <1>6
<1> QED BY <1>2, <1>5, <1>7, <1>8

LEMMA SeenContinues ==
    ASSUME ReaderInv, ~AtEnd, ~Stamped(Ahead), pos' = pos + 1, input' = input, entry # None
    PROVE  /\ Ahead \in Piece /\ pos' \in 1..Len(input) /\ input[pos'] = Ahead /\ Longer(entry, Ahead) \in Entry
           /\ EntriesOf(Seen)' = Append(entries, Longer(entry, Ahead))
<1>1. pos \in 0..Len(input) /\ pos < Len(input) /\ input \in Seq(Piece) /\ Seen' = SubSeq(input, 1, pos + 1)
  BY DEF ReaderInv, AtEnd, Seen
<1>2. Seen \in Seq(Piece) /\ Ahead \in Piece /\ Seen' = Append(Seen, Ahead)
  BY <1>1, Prefix DEF Seen, Ahead
<1>3. EntriesOf(Seen) = Append(entries, entry) /\ entries \in Seq(Entry) /\ entry \in Entry
  BY DEF ReaderInv
<1>4. /\ Longer(entry, Ahead) \in Entry
      /\ EntriesOf(Append(Seen, Ahead)) = Append(entries, Longer(entry, Ahead))
  BY <1>2, <1>3, EntriesOfRest
<1>5. EntriesOf(Seen)' = EntriesOf(Seen')
  BY DEF Seen
<1>6. pos' \in 1..Len(input) /\ input[pos'] = Ahead
  BY <1>1 DEF Ahead
<1>7. EntriesOf(Seen)' = Append(entries, Longer(entry, Ahead))
  BY <1>2, <1>4, <1>5
<1> QED BY <1>2, <1>4, <1>6, <1>7

\* The seconds after a piece that was read ahead: nextSec has none as long as no piece
\* with seconds was read.
LEMMA SecondsSeen ==
    ASSUME ReaderInv, ~AtEnd, pos' = pos + 1, input' = input,
           nextSec' = SecondsAfter(Ahead, nextSec)
    PROVE  /\ nextSec' \in Nat
           /\ nextSec' # 0 => \E i \in 1..pos' : input'[i].kind \in {"iso", "broken"}
           /\ Stamped(Ahead) => nextSec' = Ahead.sec
<1>1. /\ pos \in 0..Len(input) /\ pos + 1 \in 1..Len(input) /\ Ahead \in Piece /\ nextSec \in Nat
      /\ Ahead = input[pos + 1]
  BY DEF ReaderInv, AtEnd, Ahead
<1>2. nextSec' \in Nat
  BY <1>1 DEF SecondsAfter, Piece
<1>3. ASSUME nextSec' # 0 PROVE \E i \in 1..pos' : input'[i].kind \in {"iso", "broken"}
  <2>1. CASE Ahead.kind \in {"iso", "broken"}
    BY <1>1, <2>1
  <2>2. CASE Ahead.kind \notin {"iso", "broken"}
    <3>1. nextSec # 0
      BY <1>3, <2>2 DEF SecondsAfter
    <3>2. PICK i \in 1..pos : input[i].kind \in {"iso", "broken"}
      BY <3>1 DEF ReaderInv
    <3>3. i \in 1..pos'
      BY <1>1
    <3> QED BY <3>2, <3>3
  <2> QED BY <2>1, <2>2
<1>4. ASSUME Stamped(Ahead) PROVE nextSec' = Ahead.sec
  <2>1. CASE Ahead.kind = "iso"
    BY <2>1 DEF SecondsAfter
  <2>2. CASE Ahead.kind = "old"
    <3>1. pos + 1 \in DOMAIN input /\ OneFormat(input)
      BY <1>1 DEF ReaderInv
    <3>2. Ahead.sec = 0 /\ \A j \in 1..((pos + 1) - 1) : input[j].kind \notin {"iso", "broken"}
      BY <1>1, <2>2, <3>1 DEF OneFormat
    <3>3. (pos + 1) - 1 = pos
      BY <1>1
    <3>4. nextSec = 0
      BY <3>2, <3>3 DEF ReaderInv
    <3> QED BY <2>2, <3>2, <3>4 DEF SecondsAfter
  <2> QED BY <1>4, <2>1, <2>2 DEF Stamped
<1> QED BY <1>2, <1>3, <1>4

\* A reader that was opened has read nothing.
LEMMA NothingRead == ASSUME NEW s PROVE EntriesOf(SubSeq(s, 1, 0)) = << >>
<1>1. SubSeq(s, 1, 0) = << >>
  BY SubSeqEmpty
<1> QED BY <1>1 DEF EntriesOf

LEMMA ReaderOpens ==
    ASSUME NEW s \in Seq(Piece), OneFormat(s), Open(s)
    PROVE  ReaderInv
<1>1. EntriesOf(Seen) = << >> /\ << >> \in Seq(Entry) /\ Len(s) \in Nat
  BY NothingRead DEF Open, Seen
<1>2. pos \in 0..Len(s) /\ ~(pos > 0) /\ nextSec \in Nat
  BY <1>1 DEF Open
<1>3. next \in BOOLEAN /\ reading \in BOOLEAN /\ entry \in Entry \cup {None} /\ ~next /\ reading
  BY Zenon DEF Open
<1> QED BY <1>1, <1>2, <1>3 DEF ReaderInv, Open

LEMMA ReaderReopens ==
    ASSUME NEW s \in Seq(Piece), OneFormat(s), Reopen(s)
    PROVE  ReaderInv'
<1>1. EntriesOf(Seen)' = << >> /\ << >> \in Seq(Entry) /\ Len(s) \in Nat
  BY NothingRead DEF Reopen, Seen
<1>2. pos' \in 0..Len(s) /\ ~(pos' > 0) /\ nextSec' \in Nat
  BY <1>1 DEF Reopen
<1>3. next' \in BOOLEAN /\ reading' \in BOOLEAN /\ entry' \in Entry \cup {None} /\ ~next' /\ reading'
  BY Zenon DEF Reopen
<1> QED BY <1>1, <1>2, <1>3 DEF ReaderInv, Reopen

LEMMA ReaderSteps ==
    ASSUME ReaderInv, ReadStep
    PROVE  ReaderInv'
<1>0. /\ input \in Seq(Piece) /\ OneFormat(input) /\ pos \in 0..Len(input) /\ input' = input
      /\ entry \in Entry \cup {None} /\ entries \in Seq(Entry) /\ nextSec \in Nat
      /\ OneFormat(input') /\ next \in BOOLEAN /\ reading \in BOOLEAN
      /\ nextSec # 0 => \E i \in 1..pos : input[i].kind \in {"iso", "broken"}
      /\ pos > 0 => Stamped(input[1])
  BY DEF ReaderInv, ReadStep, FirstEntry, Stop, NextEntry, Continue, Return
<1>1. CASE FirstEntry
  <2>1. /\ ~AtEnd /\ Stamped(Ahead) /\ pos' = pos + 1 /\ reading /\ entry = None /\ ~next
        /\ entry' = Begin(Ahead, SecondsAfter(Ahead, 0))
        /\ UNCHANGED <<next, nextSec, entries, reading>>
    BY <1>1 DEF FirstEntry
  <2>2. /\ Ahead \in Piece /\ pos' \in 1..Len(input) /\ Stamped(input[1])
        /\ EntriesOf(Seen)' = Append(EntriesOf(Seen), Begin(Ahead, Ahead.sec))
    BY <1>0, <2>1, SeenBegins
  <2>3. pos = 0 /\ EntriesOf(Seen) = entries
    BY <1>0, <2>1 DEF ReaderInv, AtEnd
  <2>4. SecondsAfter(Ahead, 0) = Ahead.sec
    <3>1. Ahead.kind = "old" => Ahead.sec = 0
      <4>1. pos + 1 \in DOMAIN input /\ Ahead = input[pos + 1]
        BY <1>0, <2>1 DEF AtEnd, Ahead
      <4> QED BY <1>0, <4>1 DEF OneFormat
    <3> QED BY <2>1, <3>1 DEF Stamped, SecondsAfter
  <2>5. Begin(Ahead, Ahead.sec) \in Entry
    <3>1. Ahead.sec \in Nat
      BY <2>2 DEF Piece
    <3> QED BY <2>2, <3>1, BeginIsEntry
  <2>6. nextSec' = 0
    BY <1>0, <2>1, <2>3
  <2>7. entry' \in Entry /\ EntriesOf(Seen)' = Append(entries', entry')
    BY <2>1, <2>2, <2>3, <2>4, <2>5
  <2>8. entry' # None
    BY <2>7, NoneAssumption
  <2> QED BY <1>0, <2>1, <2>2, <2>6, <2>7, <2>8 DEF ReaderInv
<1>2. CASE Stop
  <2>1. /\ entry = None /\ ~next /\ (~AtEnd => ~Stamped(Ahead)) /\ reading' = FALSE
        /\ UNCHANGED <<pos, next, nextSec, entry, entries>>
    BY <1>2 DEF Stop
  <2>2. EntriesOf(Seen) = entries /\ pos \in {0, Len(input)}
    BY <2>1 DEF ReaderInv
  <2>3. EntriesOf(Seen)' = EntriesOf(Seen)
    BY <1>0, <2>1 DEF Seen
  <2>4. ASSUME pos = 0, input # << >> PROVE ~Stamped(input[1])
    <3>1. ~AtEnd /\ Ahead = input[1]
      BY <1>0, <2>4 DEF AtEnd, Ahead
    <3> QED BY <2>1, <3>1
  <2> QED BY <1>0, <2>1, <2>2, <2>3, <2>4 DEF ReaderInv
<1>3. CASE NextEntry
  <2>1. /\ entry = None /\ next /\ entry' = Begin(input[pos], nextSec)
        /\ UNCHANGED <<pos, next, nextSec, entries, reading>>
    BY <1>3 DEF NextEntry
  <2>2. pos > 0 /\ reading /\ EntriesOf(Seen) = Append(entries, Begin(input[pos], nextSec))
    BY <2>1 DEF ReaderInv
  <2>3. EntriesOf(Seen)' = EntriesOf(Seen)
    BY <1>0, <2>1 DEF Seen
  <2>4. entry' \in Entry
    <3>1. input[pos] \in Piece
      BY <1>0, <2>2
    <3> QED BY <1>0, <2>1, <3>1, BeginIsEntry
  <2>5. entry' # None
    BY <2>4, NoneAssumption
  <2> QED BY <1>0, <2>1, <2>2, <2>3, <2>4, <2>5 DEF ReaderInv
<1>4. CASE Continue
  <2>1. /\ entry # None /\ ~AtEnd /\ ~Stamped(Ahead) /\ pos' = pos + 1 /\ reading
        /\ entry' = Longer(entry, Ahead) /\ nextSec' = SecondsAfter(Ahead, nextSec)
        /\ UNCHANGED <<next, entries, reading>>
    BY <1>4 DEF Continue, Continued, Longer
  <2>2. /\ pos' \in 1..Len(input) /\ Longer(entry, Ahead) \in Entry
        /\ EntriesOf(Seen)' = Append(entries, Longer(entry, Ahead))
    BY <1>0, <2>1, SeenContinues
  <2>3. nextSec' \in Nat /\ (nextSec' # 0 => \E i \in 1..pos' : input'[i].kind \in {"iso", "broken"})
    BY <1>0, <2>1, SecondsSeen
  <2>4. Stamped(input[1])
    <3>1. pos > 0
      <4>1. EntriesOf(Seen) = Append(entries, entry) /\ Append(entries, entry) # << >>
        BY <1>0, <2>1 DEF ReaderInv
      <4>2. EntriesOf(<< >>) = << >>
        BY DEF EntriesOf
      <4>3. ASSUME pos = 0 PROVE FALSE
        <5>1. Seen = << >>
          BY <4>3, SubSeqEmpty DEF Seen
        <5> QED BY <4>1, <4>2, <5>1
      <4> QED BY <1>0, <4>3
    <3> QED BY <1>0, <3>1
  <2>5. entry' # None
    BY <2>1, <2>2, NoneAssumption
  <2> QED BY <1>0, <2>1, <2>2, <2>3, <2>4, <2>5 DEF ReaderInv
<1>5. CASE Return /\ AtEnd
  <2>1. /\ entry # None /\ next' = FALSE /\ reading /\ entries' = Append(entries, entry) /\ entry' = None
        /\ UNCHANGED <<pos, nextSec, reading>> /\ pos = Len(input)
    BY <1>5 DEF Return, AtEnd, ReadAhead
  <2>2. EntriesOf(Seen) = Append(entries, entry)
    BY <2>1 DEF ReaderInv
  <2>3. EntriesOf(Seen)' = EntriesOf(Seen)
    BY <1>0, <2>1 DEF Seen
  <2>4. entries' \in Seq(Entry)
    BY <1>0, <2>1
  <2> QED BY <1>0, <2>1, <2>2, <2>3, <2>4 DEF ReaderInv
<1>6. CASE Return /\ ~AtEnd
  <2>1. /\ entry # None /\ next' = TRUE /\ reading /\ entries' = Append(entries, entry) /\ entry' = None
        /\ pos' = pos + 1 /\ nextSec' = SecondsAfter(Ahead, nextSec) /\ Stamped(Ahead)
        /\ UNCHANGED reading
    BY <1>6 DEF Return, ReadAhead
  <2>2. EntriesOf(Seen) = Append(entries, entry)
    BY <2>1 DEF ReaderInv
  <2>3. /\ pos' \in 1..Len(input) /\ Stamped(input[1]) /\ input[pos'] = Ahead
        /\ EntriesOf(Seen)' = Append(EntriesOf(Seen), Begin(Ahead, Ahead.sec))
    BY <1>0, <1>6, <2>1, SeenBegins
  <2>4. /\ nextSec' \in Nat /\ nextSec' = Ahead.sec
        /\ nextSec' # 0 => \E i \in 1..pos' : input'[i].kind \in {"iso", "broken"}
    BY <1>0, <1>6, <2>1, SecondsSeen
  <2>5. entries' \in Seq(Entry)
    BY <1>0, <2>1
  <2>6. EntriesOf(Seen)' = Append(entries', Begin(input'[pos'], nextSec'))
    BY <1>0, <2>1, <2>2, <2>3, <2>4
  <2>7. pos' > 0 /\ pos' \in 0..Len(input)
    BY <1>0, <2>3
  <2> QED BY <1>0, <2>1, <2>3, <2>4, <2>5, <2>6, <2>7 DEF ReaderInv
<1> QED BY <1>1, <1>2, <1>3, <1>4, <1>5, <1>6 DEF ReadStep

\* What the invariant says of the entries that were returned.
LEMMA ReaderComplete ==
    ASSUME ReaderInv
    PROVE  EntriesAreComplete
<1>1. /\ input \in Seq(Piece) /\ pos \in 0..Len(input) /\ entries \in Seq(Entry)
  BY DEF ReaderInv
<1>2. PICK es \in Seq(Entry), fs \in Seq(Entry) : es = EntriesOf(Seen) /\ fs = EntriesOf(input)
  BY <1>1, Prefix, EntriesList DEF Seen
<1>3. Grown(es, fs)
  BY <1>1, <1>2, EntriesGrow DEF Seen
<1>4. ~reading => entries = fs
  <2> SUFFICES ASSUME ~reading PROVE entries = fs
    OBVIOUS
  <2>1. /\ EntriesOf(Seen) = entries /\ pos \in {0, Len(input)}
        /\ pos = 0 /\ input # << >> => ~Stamped(input[1])
    BY DEF ReaderInv
  <2>2. CASE pos = Len(input)
    <3>1. Seen = input
      BY <1>1, <2>2, SubSeqFull DEF Seen
    <3> QED BY <1>2, <2>1, <3>1
  <2>3. CASE pos = 0 /\ pos # Len(input)
    <3>1. input # << >>
      BY <2>3
    <3>2. fs = << >>
      BY <1>2, <2>1, <2>3, <3>1 DEF EntriesOf
    <3>3. es = << >>
      <4>1. Seen = << >>
        BY <2>3, SubSeqEmpty DEF Seen
      <4> QED BY <1>2, <4>1 DEF EntriesOf
    <3> QED BY <1>2, <2>1, <3>2, <3>3
  <2> QED BY <2>1, <2>2, <2>3
<1>5. IsPrefix(entries, fs)
  <2>1. Len(entries) <= Len(fs) /\ \A j \in 1..Len(entries) : fs[j] = entries[j]
    <3>1. CASE es = entries
      <4>1. pos \in {0, Len(input)}
        <5>1. entry = None /\ ~next
          <6>1. \A e : Append(entries, e) # entries
            BY <1>1
          <6> QED BY <1>2, <3>1, <6>1 DEF ReaderInv
        <5> QED BY <5>1 DEF ReaderInv
      <4>2. CASE pos = 0
        <5>1. Seen = << >>
          BY <4>2, SubSeqEmpty DEF Seen
        <5>2. entries = << >>
          BY <1>2, <3>1, <5>1 DEF EntriesOf
        <5> QED BY <1>2, <5>2
      <4>3. CASE pos = Len(input)
        <5>1. Seen = input
          BY <1>1, <4>3, SubSeqFull DEF Seen
        <5>2. fs = entries
          BY <1>2, <3>1, <5>1
        <5> QED BY <1>1, <5>2
      <4> QED BY <4>1, <4>2, <4>3
    <3>2. CASE es # entries
      <4>1. PICK e : es = Append(entries, e)
        BY <1>2, <3>2 DEF ReaderInv
      <4>2. Len(es) = Len(entries) + 1 /\ \A j \in 1..Len(entries) : es[j] = entries[j]
        BY <1>1, <4>1
      <4> QED BY <1>1, <1>2, <1>3, <4>2 DEF Grown
    <3> QED BY <3>1, <3>2
  <2>2. SubSeq(entries, 1, Len(entries)) = SubSeq(fs, 1, Len(entries))
    <3>1. Len(entries) \in Nat /\ \A i \in 1..Len(entries) : i <= Len(entries) => fs[i] = entries[i]
      BY <1>1, <2>1
    <3> QED BY <1>1, <2>1, <3>1, SubSeqSame
  <2> QED BY <2>1, <2>2 DEF IsPrefix
<1> QED BY <1>2, <1>4, <1>5 DEF EntriesAreComplete

-----------------------------------------------------------------------------
(***************************************************************************)
(* Entries that are printed and read again.                                *)
(***************************************************************************)

FineEntry ==
    {e \in Entry :
      /\ e.message # << >> /\ Message(e.message[1]) = e.message[1]
      /\ \A i \in 2..Len(e.message) : ~Stamped(e.message[i])
      /\ ~e.iso => e.sec = 0}

\* No seconds are read before or in an entry of the old format that comes later.
NoSeconds(e) == ~e.iso /\ \A i \in 2..Len(e.message) : e.message[i].kind # "broken"
OldFirst == {ef \in Entry \X Entry : ~ef[2].iso => NoSeconds(ef[1])}

LEMMA BeginIsFine ==
    ASSUME NEW p \in Piece, Stamped(p), p.kind = "old" => p.sec = 0
    PROVE  /\ Begin(p, p.sec) \in FineEntry
           /\ p.kind = "old" => NoSeconds(Begin(p, p.sec)) /\ ~Begin(p, p.sec).iso
           /\ ~Begin(p, p.sec).iso => p.kind = "old"
<1>1. PICK b \in Entry : b = Begin(p, p.sec) /\ b.message = <<Message(p)>> /\ Message(p) \in Piece
  <2>1. p.sec \in Nat
    BY DEF Piece
  <2> QED BY <2>1, BeginIsEntry
<1>2. b.iso = (p.kind = "iso") /\ b.sec = p.sec
  BY <1>1 DEF Begin
<1>3. Message(Message(p)) = Message(p)
  BY DEF Message, Piece
<1>4. b.message # << >> /\ b.message[1] = Message(p) /\ Len(b.message) = 1
  BY <1>1
<1>5. 2..Len(b.message) = {}
  BY <1>4
<1>6. b.iso <=> p.kind = "iso"
  BY <1>2
<1>7. p.kind = "iso" \/ p.kind = "old"
  BY DEF Stamped
<1> QED BY <1>1, <1>2, <1>3, <1>4, <1>5, <1>6, <1>7 DEF FineEntry, NoSeconds

LEMMA LongerIsFine ==
    ASSUME NEW e \in FineEntry, NEW p \in Piece, ~Stamped(p)
    PROVE  /\ Longer(e, p) \in FineEntry /\ Longer(e, p).iso = e.iso
           /\ Longer(e, p).message = Append(e.message, p)
           /\ NoSeconds(Longer(e, p)) <=> NoSeconds(e) /\ p.kind # "broken"
<1>1. e \in Entry /\ e.message \in Seq(Piece) /\ e.message # << >>
  BY DEF FineEntry, Entry
<1>2. PICK m \in Seq(Piece) : m = Append(e.message, p)
  BY <1>1, AppendProperties
<1>3. /\ Len(m) = Len(e.message) + 1 /\ m[Len(e.message) + 1] = p /\ Len(e.message) \in Nat \ {0}
      /\ \A i \in 1..Len(e.message) : m[i] = e.message[i]
  BY <1>1, <1>2
<1>4. Longer(e, p) = [e EXCEPT !.message = m]
  BY <1>2 DEF Longer
<1>5. /\ Longer(e, p) \in Entry /\ Longer(e, p).message = m /\ Longer(e, p).iso = e.iso
      /\ Longer(e, p).sec = e.sec
  BY <1>1, <1>4 DEF Entry
<1>6. m # << >> /\ m[1] = e.message[1]
  <2>1. 1 \in 1..Len(e.message) /\ Len(m) # 0
    BY <1>3
  <2> QED BY <1>3, <2>1
<1>7. ASSUME NEW i \in 2..Len(m) PROVE ~Stamped(m[i])
  <2>1. CASE i = Len(e.message) + 1
    BY <1>3, <2>1
  <2>2. CASE i # Len(e.message) + 1
    <3>1. i \in 2..Len(e.message) /\ i \in 1..Len(e.message)
      BY <1>3, <2>2
    <3> QED BY <1>3, <3>1 DEF FineEntry
  <2> QED BY <2>1, <2>2
<1>8. Longer(e, p) \in FineEntry
  BY <1>5, <1>6, <1>7 DEF FineEntry
<1>9. (\A i \in 2..Len(m) : m[i].kind # "broken")
        <=> (\A i \in 2..Len(e.message) : e.message[i].kind # "broken") /\ p.kind # "broken"
  <2>1. ASSUME \A i \in 2..Len(m) : m[i].kind # "broken"
        PROVE  (\A i \in 2..Len(e.message) : e.message[i].kind # "broken") /\ p.kind # "broken"
    <3>1. Len(e.message) + 1 \in 2..Len(m)
      BY <1>3
    <3>2. ASSUME NEW i \in 2..Len(e.message) PROVE e.message[i].kind # "broken"
      <4>1. i \in 2..Len(m) /\ i \in 1..Len(e.message)
        BY <1>3
      <4> QED BY <1>3, <2>1, <4>1
    <3> QED BY <1>3, <2>1, <3>1, <3>2
  <2>2. ASSUME \A i \in 2..Len(e.message) : e.message[i].kind # "broken", p.kind # "broken",
               NEW i \in 2..Len(m)
        PROVE  m[i].kind # "broken"
    <3>1. CASE i = Len(e.message) + 1
      BY <1>3, <2>2, <3>1
    <3>2. CASE i # Len(e.message) + 1
      <4>1. i \in 2..Len(e.message) /\ i \in 1..Len(e.message)
        BY <1>3, <3>2
      <4> QED BY <1>3, <2>2, <4>1
    <3> QED BY <3>1, <3>2
  <2> QED BY <2>1, <2>2
<1> QED BY <1>2, <1>5, <1>8, <1>9 DEF NoSeconds

Clean(s) == \A i \in 1..Len(s) : s[i].kind \notin {"iso", "broken"}
Fine(es) == es \in Seq(FineEntry) /\ InOrderOf(es, OldFirst)

LEMMA FineAppend ==
    ASSUME NEW es, Fine(es), NEW e \in FineEntry,
           ~e.iso => \A i \in 1..Len(es) : NoSeconds(es[i])
    PROVE  Fine(Append(es, e))
<1>1. /\ es \in Seq(FineEntry) /\ Append(es, e) \in Seq(FineEntry) /\ Len(Append(es, e)) = Len(es) + 1
      /\ Len(es) \in Nat /\ Append(es, e)[Len(es) + 1] = e
      /\ \A i \in 1..Len(es) : Append(es, e)[i] = es[i] /\ es[i] \in FineEntry
  BY AppendProperties DEF Fine
<1>2. ASSUME NEW i \in 1..(Len(es) + 1), NEW j \in 1..(Len(es) + 1), i < j
      PROVE  <<Append(es, e)[i], Append(es, e)[j]>> \in OldFirst
  <2>1. i \in 1..Len(es) /\ Append(es, e)[i] = es[i]
    BY <1>1, <1>2
  <2>2. CASE j = Len(es) + 1
    <3>1. Append(es, e)[j] = e /\ es[i] \in Entry /\ e \in Entry
      BY <1>1, <2>1, <2>2 DEF FineEntry
    <3> QED BY <2>1, <3>1 DEF OldFirst
  <2>3. CASE j # Len(es) + 1
    <3>1. j \in 1..Len(es) /\ Append(es, e)[j] = es[j]
      BY <1>1, <2>3
    <3> QED BY <1>2, <2>1, <3>1 DEF Fine, InOrderOf
  <2> QED BY <2>2, <2>3
<1> QED BY <1>1, <1>2 DEF Fine, InOrderOf

LEMMA FineFront ==
    ASSUME NEW es \in Seq(Entry), NEW e \in Entry, Fine(Append(es, e))
    PROVE  Fine(es) /\ e \in FineEntry /\ (~e.iso => \A i \in 1..Len(es) : NoSeconds(es[i]))
<1>1. PICK fs \in Seq(FineEntry) : fs = Append(es, e)
  BY DEF Fine
<1>2. /\ Len(fs) = Len(es) + 1 /\ Len(es) \in Nat /\ fs[Len(es) + 1] = e
      /\ \A i \in 1..Len(es) : fs[i] = es[i]
  BY <1>1, AppendProperties
<1>3. InOrderOf(fs, OldFirst)
  BY <1>1 DEF Fine
<1>4. e \in FineEntry
  <2>1. Len(es) + 1 \in 1..Len(fs)
    BY <1>2
  <2> QED BY <1>1, <1>2, <2>1
<1>5. ASSUME NEW i \in 1..Len(es) PROVE es[i] \in FineEntry /\ (~e.iso => NoSeconds(es[i]))
  <2>1. i \in 1..Len(fs) /\ Len(es) + 1 \in 1..Len(fs) /\ i < Len(es) + 1
    BY <1>2
  <2>2. <<es[i], e>> \in OldFirst
    BY <1>2, <1>3, <2>1 DEF InOrderOf
  <2> QED BY <1>1, <1>2, <2>1, <2>2 DEF OldFirst
<1>6. es \in Seq(FineEntry)
  BY <1>5
<1>7. InOrderOf(es, OldFirst)
  <2> SUFFICES ASSUME NEW i \in 1..Len(es), NEW j \in 1..Len(es), i < j
               PROVE  <<es[i], es[j]>> \in OldFirst
    BY DEF InOrderOf
  <2>1. i \in 1..Len(fs) /\ j \in 1..Len(fs) /\ fs[i] = es[i] /\ fs[j] = es[j]
    BY <1>2
  <2> QED BY <1>3, <2>1 DEF InOrderOf
<1> QED BY <1>4, <1>5, <1>6, <1>7 DEF Fine

\* The entries of a log in one format.
LEMMA EntriesAreFine ==
    ASSUME NEW s \in Seq(Piece), OneFormat(s)
    PROVE  Fine(EntriesOf(s))
<1> DEFINE Ok(t) == /\ Fine(EntriesOf(t))
                    /\ Clean(t) => \A i \in 1..Len(EntriesOf(t)) : NoSeconds(EntriesOf(t)[i])
           U == {t \in Seq(Piece) : OneFormat(t) => Ok(t)}
<1>1. << >> \in U
  <2>1. EntriesOf(<< >>) = << >>
    BY DEF EntriesOf
  <2>2. Fine(<< >>) /\ \A i \in 1..Len(<< >>) : NoSeconds(<< >>[i])
    BY EmptySeq DEF Fine, InOrderOf
  <2> QED BY <2>1, <2>2
<1>2. ASSUME NEW t \in Seq(Piece), NEW p \in Piece, t \in U PROVE Append(t, p) \in U
  <2>1. PICK u \in Seq(Piece) : u = Append(t, p)
    BY AppendProperties
  <2>2. Len(u) = Len(t) + 1 /\ u[Len(t) + 1] = p /\ \A i \in 1..Len(t) : u[i] = t[i]
    BY <2>1
  <2> SUFFICES ASSUME OneFormat(u) PROVE Ok(u)
    BY <2>1
  <2>3. OneFormat(t)
    <3>1. \A i \in 1..Len(t) : i \in 1..Len(u) /\ u[i] = t[i]
      BY <2>2
    <3> SUFFICES ASSUME NEW i \in 1..Len(t), t[i].kind = "old"
                 PROVE  t[i].sec = 0 /\ \A j \in 1..(i - 1) : t[j].kind \notin {"iso", "broken"}
      BY DEF OneFormat
    <3>2. i \in DOMAIN u /\ u[i].kind = "old"
      BY <3>1
    <3>3. u[i].sec = 0 /\ \A j \in 1..(i - 1) : u[j].kind \notin {"iso", "broken"}
      BY <3>2 DEF OneFormat
    <3>4. \A j \in 1..(i - 1) : j \in 1..Len(t)
      OBVIOUS
    <3> QED BY <3>1, <3>3, <3>4
  <2>4. PICK es \in Seq(Entry), fs \in Seq(Entry) : es = EntriesOf(t) /\ fs = EntriesOf(u)
    BY EntriesList
  <2>5. Fine(es) /\ (Clean(t) => \A i \in 1..Len(es) : NoSeconds(es[i]))
    BY <1>2, <2>3, <2>4
  <2>6. MoreBy(es, p, fs)
    BY <2>1, <2>4, OnePieceMore
  <2>7. Clean(u) => Clean(t) /\ p.kind \notin {"iso", "broken"}
    <3>1. Len(t) \in Nat /\ Len(t) + 1 \in 1..Len(u)
      BY <2>2
    <3> QED BY <2>2, <3>1 DEF Clean
  <2>8. p.kind = "old" => p.sec = 0 /\ Clean(t)
    <3>1. Len(t) + 1 \in DOMAIN u /\ (Len(t) + 1) - 1 = Len(t)
      BY <2>2
    <3> QED BY <2>2, <3>1 DEF OneFormat, Clean
  <2>9. CASE es = << >> /\ fs = << >>
    <3>1. \A i \in 1..Len(fs) : NoSeconds(fs[i])
      BY <2>9
    <3> QED BY <2>4, <2>5, <2>9, <3>1
  <2>10. CASE Stamped(p) /\ fs = Append(es, Begin(p, p.sec))
    <3>1. PICK b \in FineEntry :
            /\ b = Begin(p, p.sec) /\ (p.kind = "old" => NoSeconds(b)) /\ (~b.iso => p.kind = "old")
      BY <2>8, <2>10, BeginIsFine
    <3>2. Fine(fs)
      BY <2>5, <2>8, <2>10, <3>1, FineAppend
    <3>3. ASSUME Clean(u), NEW i \in 1..Len(fs) PROVE NoSeconds(fs[i])
      <4>1. p.kind = "old" /\ Clean(t)
        BY <2>7, <2>10, <3>3 DEF Stamped
      <4>2. CASE i = Len(es) + 1
        BY <2>10, <3>1, <4>1, <4>2
      <4>3. CASE i # Len(es) + 1
        <5>1. i \in 1..Len(es) /\ fs[i] = es[i]
          BY <2>10, <3>1, <4>3
        <5> QED BY <2>5, <4>1, <5>1
      <4> QED BY <4>2, <4>3
    <3> QED BY <2>4, <3>2, <3>3
  <2>11. ASSUME ~Stamped(p), NEW hs \in Seq(Entry), NEW e \in Entry,
                es = Append(hs, e), fs = Append(hs, Longer(e, p))
         PROVE  Ok(u)
    <3>1. Fine(hs) /\ e \in FineEntry /\ (~e.iso => \A i \in 1..Len(hs) : NoSeconds(hs[i]))
      BY <2>5, <2>11, FineFront
    <3>2. PICK f \in FineEntry :
            f = Longer(e, p) /\ f.iso = e.iso /\ (NoSeconds(f) <=> NoSeconds(e) /\ p.kind # "broken")
      BY <2>11, <3>1, LongerIsFine
    <3>3. Fine(fs)
      BY <2>11, <3>1, <3>2, FineAppend
    <3>4. ASSUME Clean(u), NEW i \in 1..Len(fs) PROVE NoSeconds(fs[i])
      <4>1. \A k \in 1..Len(es) : NoSeconds(es[k])
        BY <2>5, <2>7, <3>4
      <4>2. Len(es) = Len(hs) + 1 /\ es[Len(hs) + 1] = e /\ \A k \in 1..Len(hs) : es[k] = hs[k]
        BY <2>11
      <4>3. Len(fs) = Len(hs) + 1 /\ fs[Len(hs) + 1] = f /\ \A k \in 1..Len(hs) : fs[k] = hs[k]
        BY <2>11, <3>2
      <4>4. CASE i = Len(hs) + 1
        <5>1. Len(hs) + 1 \in 1..Len(es)
          BY <4>2
        <5>2. NoSeconds(e) /\ p.kind # "broken"
          BY <2>7, <3>4, <4>1, <4>2, <5>1
        <5> QED BY <3>2, <4>3, <4>4, <5>2
      <4>5. CASE i # Len(hs) + 1
        <5>1. i \in 1..Len(hs) /\ i \in 1..Len(es)
          BY <4>2, <4>3, <4>5
        <5> QED BY <4>1, <4>2, <4>3, <5>1
      <4> QED BY <4>4, <4>5
    <3> QED BY <2>4, <3>3, <3>4
  <2> QED BY <2>6, <2>9, <2>10, <2>11 DEF MoreBy
<1>3. Seq(Piece) \subseteq U
  <2> HIDE DEF U
  <2> QED BY <1>1, <1>2, SeqInduction
<1> QED BY <1>3

Continues(e, t) == [e EXCEPT !.message = e.message \o t]

LEMMA PiecesAppend ==
    ASSUME NEW s \in Seq(Piece), NEW t \in Seq(Piece), NEW p \in Piece
    PROVE  s \o Append(t, p) = Append(s \o t, p)
OBVIOUS

LEMMA ContinuesLonger ==
    ASSUME NEW e \in Entry, NEW r \in Seq(Piece), NEW p \in Piece
    PROVE  Longer(Continues(e, r), p) = Continues(e, Append(r, p))
<1>1. PICK m \in Seq(Piece) : m = e.message
  BY DEF Entry
<1>2. m \o Append(r, p) = Append(m \o r, p)
  BY PiecesAppend
<1>3. Continues(e, r) = [e EXCEPT !.message = m \o r] /\ Continues(e, r).message = m \o r
  BY <1>1 DEF Continues, Entry
<1>4. Longer(Continues(e, r), p) = [e EXCEPT !.message = Append(m \o r, p)]
  BY <1>3 DEF Longer, Entry
<1> QED BY <1>1, <1>2, <1>4 DEF Continues

\* Pieces without a timestamp that follow an entry.
LEMMA ReadsOn ==
    ASSUME NEW s \in Seq(Piece), NEW es \in Seq(Entry), NEW e \in Entry, EntriesOf(s) = Append(es, e),
           NEW t \in Seq(Piece), \A i \in 1..Len(t) : ~Stamped(t[i])
    PROVE  Continues(e, t) \in Entry /\ EntriesOf(s \o t) = Append(es, Continues(e, t))
<1> DEFINE Ok(r) == Continues(e, r) \in Entry /\ EntriesOf(s \o r) = Append(es, Continues(e, r))
           Bare(r) == \A i \in 1..Len(r) : ~Stamped(r[i])
           U == {r \in Seq(Piece) : Bare(r) => Ok(r)}
<1>1. << >> \in U
  <2>1. s \o << >> = s
    BY ConcatEmptySeq
  <2>2. Continues(e, << >>) = e
    <3>1. e.message \o << >> = e.message
      BY ConcatEmptySeq DEF Entry
    <3> QED BY <3>1 DEF Continues, Entry
  <2> QED BY <2>1, <2>2
<1>2. \A r \in Seq(Piece), p \in Piece : r \in U => Append(r, p) \in U
  <2> HIDE DEF Bare, Ok
  <2> SUFFICES ASSUME NEW r \in Seq(Piece), NEW p \in Piece, r \in U, Bare(Append(r, p))
               PROVE  Ok(Append(r, p))
    BY AppendProperties
  <2>1. PICK u \in Seq(Piece) : u = Append(r, p)
    BY AppendProperties
  <2>2. Len(u) = Len(r) + 1 /\ u[Len(r) + 1] = p /\ \A i \in 1..Len(r) : u[i] = r[i]
    BY <2>1
  <2>3. ~Stamped(p) /\ Bare(r)
    <3>1. Len(r) + 1 \in 1..Len(u) /\ \A i \in 1..Len(r) : i \in 1..Len(u)
      BY <2>2
    <3> QED BY <2>1, <2>2, <3>1 DEF Bare
  <2>4. Continues(e, r) \in Entry /\ EntriesOf(s \o r) = Append(es, Continues(e, r))
    BY <2>3 DEF Ok
  <2>5. PICK q \in Seq(Piece), f \in Entry : q = s \o r /\ f = Continues(e, r)
    <3>1. s \o r \in Seq(Piece)
      BY ConcatProperties
    <3> QED BY <2>4, <3>1
  <2>6. Longer(f, p) \in Entry /\ EntriesOf(Append(q, p)) = Append(es, Longer(f, p))
    <3>1. EntriesOf(q) = Append(es, f)
      BY <2>4, <2>5
    <3> QED BY <2>3, <2>5, <3>1, EntriesOfRest, ZenonT(30)
  <2>7. Longer(f, p) = Continues(e, u)
    BY <2>1, <2>5, ContinuesLonger
  <2>8. Append(q, p) = s \o u
    BY <2>1, <2>5, PiecesAppend, Zenon
  <2> QED BY <2>1, <2>6, <2>7, <2>8 DEF Ok
<1>3. Seq(Piece) \subseteq U
  <2> HIDE DEF U
  <2> QED BY <1>1, <1>2, SeqInduction
<1> QED BY <1>3

LEMMA PrintedParts ==
    ASSUME NEW e \in FineEntry
    PROVE  \E h \in Piece, t \in Seq(Piece) :
             /\ Printed(e) = <<h>> \o t /\ Stamped(h) /\ t = Tail(e.message)
             /\ \A i \in 1..Len(t) : t[i] = e.message[i + 1] /\ ~Stamped(t[i])
             /\ Len(t) + 1 = Len(e.message)
             /\ Continues(Begin(h, h.sec), t) = e
             /\ (e.iso <=> h.kind = "iso") /\ (h.kind = "old" => h.sec = 0)
<1> DEFINE m == e.message
           a == m[1]
           h == [a EXCEPT !.kind = IF e.iso THEN "iso" ELSE "old", !.min = e.min,
                          !.sec = IF e.iso THEN e.sec ELSE 0, !.caller = e.caller]
           t == Tail(m)
<1>1. /\ m \in Seq(Piece) /\ m # << >> /\ e.iso \in BOOLEAN /\ e.min \in Nat /\ e.sec \in Nat
      /\ e.caller \in Callers /\ Message(a) = a /\ (~e.iso => e.sec = 0)
  BY DEF FineEntry, Entry
<1>2. Head(m) = a /\ a \in Piece
  <2>1. 1 \in 1..Len(m)
    BY <1>1
  <2> QED BY <1>1, <2>1
<1>3. /\ t \in Seq(Piece) /\ Len(t) = Len(m) - 1 /\ \A i \in 1..Len(t) : t[i] = m[i + 1]
  BY <1>1, HeadTailProperties
<1>4. ASSUME NEW i \in 1..Len(t) PROVE ~Stamped(t[i])
  <2>1. i + 1 \in 2..Len(m)
    BY <1>1, <1>3
  <2> QED BY <1>3, <2>1 DEF FineEntry
<1>5. h \in Piece /\ h.kind = (IF e.iso THEN "iso" ELSE "old") /\ h.sec = e.sec /\ h.min = e.min
      /\ h.caller = e.caller
  BY <1>1, <1>2 DEF Piece
<1>6. Message(h) = a
  <2>1. Message(h) = Message(a)
    BY <1>2, <1>5 DEF Message, Piece
  <2> QED BY <1>1, <2>1
<1>7. Printed(e) = <<h>> \o t
  BY <1>2 DEF Printed
<1>8. <<a>> \o t = m
  <2>1. <<a>> \o t \in Seq(Piece) /\ Len(<<a>> \o t) = Len(m)
    BY <1>1, <1>2, <1>3
  <2>2. \A i \in 1..Len(m) : (<<a>> \o t)[i] = m[i]
    <3> SUFFICES ASSUME NEW i \in 1..Len(m) PROVE (<<a>> \o t)[i] = m[i]
      OBVIOUS
    <3>1. CASE i = 1
      BY <1>1, <1>2, <1>3, <3>1
    <3>2. CASE i # 1
      <4>1. i - 1 \in 1..Len(t) /\ (i - 1) + 1 = i
        BY <1>1, <1>3, <3>2
      <4>2. (<<a>> \o t)[i] = t[i - 1]
        BY <1>1, <1>2, <1>3, <3>2
      <4> QED BY <1>3, <4>1, <4>2
    <3> QED BY <3>1, <3>2
  <2> HIDE DEF m, a, t
  <2> QED BY <1>1, <2>1, <2>2, SeqEqual
<1>9. Continues(Begin(h, h.sec), t) = e
  <2>1. Begin(h, h.sec) = [min |-> e.min, sec |-> e.sec, iso |-> h.kind = "iso", caller |-> e.caller,
                           message |-> <<a>>]
    BY <1>5, <1>6 DEF Begin
  <2>2. (h.kind = "iso") = e.iso
    BY <1>1, <1>5
  <2>3. [Begin(h, h.sec) EXCEPT !.message = Begin(h, h.sec).message \o t]
          = [min |-> e.min, sec |-> e.sec, iso |-> h.kind = "iso", caller |-> e.caller, message |-> <<a>> \o t]
    <3>1. PICK b : b = Begin(h, h.sec)
      OBVIOUS
    <3> DEFINE k == h.kind = "iso"
    <3>2. b = [min |-> e.min, sec |-> e.sec, iso |-> k, caller |-> e.caller, message |-> <<a>>]
      BY <2>1, <3>1
    <3> HIDE DEF h, a, t, k
    <3>4. \A x : [b EXCEPT !.message = x]
            = [min |-> e.min, sec |-> e.sec, iso |-> k, caller |-> e.caller, message |-> x]
      BY <3>2
    <3>5. b.message = <<a>>
      BY <3>2
    <3>3. [b EXCEPT !.message = b.message \o t]
            = [min |-> e.min, sec |-> e.sec, iso |-> k, caller |-> e.caller, message |-> <<a>> \o t]
      BY <3>4, <3>5
    <3> QED BY <3>1, <3>3 DEF k
  <2>4. e = [min |-> e.min, sec |-> e.sec, iso |-> e.iso, caller |-> e.caller, message |-> m]
    BY DEF FineEntry, Entry
  <2> HIDE DEF h, a, t, m
  <2> QED BY <1>8, <2>2, <2>3, <2>4 DEF Continues
<1>10. Stamped(h) /\ (e.iso <=> h.kind = "iso") /\ (h.kind = "old" => h.sec = 0)
  BY <1>1, <1>5 DEF Stamped
<1>11. Len(t) + 1 = Len(m)
  BY <1>1, <1>3
<1> HIDE DEF h, t
<1>12. t = Tail(e.message)
  BY DEF t
<1> QED BY <1>3, <1>4, <1>5, <1>7, <1>9, <1>10, <1>11, <1>12

LEMMA StreamAppend ==
    ASSUME NEW es \in Seq(FineEntry), NEW e \in FineEntry
    PROVE  /\ Stream(es) \in Seq(Piece) /\ Printed(e) \in Seq(Piece)
           /\ Stream(Append(es, e)) = Stream(es) \o Printed(e)
<1>1. \A x \in FineEntry : Printed(x) \in Seq(Piece)
  <2> SUFFICES ASSUME NEW x \in FineEntry PROVE Printed(x) \in Seq(Piece)
    OBVIOUS
  <2>1. PICK h \in Piece, t \in Seq(Piece) : Printed(x) = <<h>> \o t
    BY PrintedParts
  <2> QED BY <2>1
<1>2. PICK fs \in Seq(FineEntry), n \in Nat :
        fs = Append(es, e) /\ n = Len(es) /\ Len(fs) = n + 1 /\ fs[n + 1] = e /\ \A i \in 1..n : fs[i] = es[i]
  <2>1. /\ Append(es, e) \in Seq(FineEntry) /\ Len(es) \in Nat /\ Len(Append(es, e)) = Len(es) + 1
        /\ Append(es, e)[Len(es) + 1] = e /\ \A i \in 1..Len(es) : Append(es, e)[i] = es[i]
    BY AppendProperties
  <2> QED BY <2>1
<1>3. PICK ss \in Seq(Seq(Piece)) : ss = [i \in DOMAIN es |-> Printed(es[i])]
  <2>1. \A i \in 1..n : es[i] \in FineEntry
    BY <1>2
  <2>2. DOMAIN es = 1..n
    BY <1>2
  <2>3. [i \in 1..n |-> Printed(es[i])] \in Seq(Seq(Piece))
    BY <1>1, <2>1
  <2>4. [i \in DOMAIN es |-> Printed(es[i])] = [i \in 1..n |-> Printed(es[i])]
    BY <2>2, Zenon
  <2> QED BY <2>3, <2>4, Zenon
<1>4. PICK tt \in Seq(Seq(Piece)) : tt = [i \in DOMAIN fs |-> Printed(fs[i])]
  <2>1. \A i \in 1..(n + 1) : fs[i] \in FineEntry
    BY <1>2
  <2>2. DOMAIN fs = 1..(n + 1)
    BY <1>2
  <2>3. [i \in 1..(n + 1) |-> Printed(fs[i])] \in Seq(Seq(Piece))
    BY <1>1, <1>2, <2>1
  <2>4. [i \in DOMAIN fs |-> Printed(fs[i])] = [i \in 1..(n + 1) |-> Printed(fs[i])]
    BY <2>2, Zenon
  <2> QED BY <2>3, <2>4, Zenon
<1>5. Len(ss) = n /\ Len(tt) = n + 1
  <2>1. DOMAIN ss = 1..n /\ DOMAIN tt = 1..(n + 1)
    BY <1>2, <1>3, <1>4
  <2> QED BY <2>1
<1>6. tt[n + 1] = Printed(e) /\ \A i \in 1..n : tt[i] = ss[i]
  <2>1. n + 1 \in DOMAIN fs /\ \A i \in 1..n : i \in DOMAIN fs /\ i \in DOMAIN es
    BY <1>2
  <2> QED BY <1>2, <1>3, <1>4, <2>1
<1>7. tt = Append(ss, Printed(e))
  <2>1. Printed(e) \in Seq(Piece)
    BY <1>1
  <2> QED BY <1>5, <1>6, <2>1, AppendEqual
<1>8. FlattenSeq(ss) \in Seq(Piece) /\ FlattenSeq(Append(ss, Printed(e))) = FlattenSeq(ss) \o Printed(e)
  <2>1. Printed(e) \in Seq(Piece)
    BY <1>1
  <2> QED BY <2>1, FlattenAppend
<1>9. Stream(es) = FlattenSeq(ss) /\ Stream(fs) = FlattenSeq(tt)
  BY <1>3, <1>4 DEF Stream
<1> QED BY <1>1, <1>2, <1>7, <1>8, <1>9

LEMMA StreamEmpty == Stream(<< >>) = << >>
<1>1. [i \in DOMAIN << >> |-> Printed(<< >>[i])] = << >>
  OBVIOUS
<1> QED BY <1>1, FlattenEmpty DEF Stream

LEMMA ReadPrinted ==
    ASSUME NEW s \in Seq(Piece), s = << >> \/ Stamped(s[1]), NEW e \in FineEntry
    PROVE  EntriesOf(s \o Printed(e)) = Append(EntriesOf(s), e)
<1>1. PICK h \in Piece, t \in Seq(Piece) :
        /\ Printed(e) = <<h>> \o t /\ Stamped(h) /\ Continues(Begin(h, h.sec), t) = e
        /\ \A i \in 1..Len(t) : t[i] = e.message[i + 1] /\ ~Stamped(t[i])
  BY PrintedParts
<1>2. PICK es \in Seq(Entry) : es = EntriesOf(s)
  BY EntriesList
<1>3. PICK b \in Entry : b = Begin(h, h.sec)
  <2>1. h.sec \in Nat
    BY DEF Piece
  <2> QED BY <2>1, BeginIsEntry
<1>4. PICK u \in Seq(Piece) : u = Append(s, h)
  BY AppendProperties
<1>5. EntriesOf(u) = Append(es, b)
  BY <1>1, <1>2, <1>3, <1>4, EntriesOfStamp
<1>6. EntriesOf(u \o t) = Append(es, Continues(b, t))
  <2>1. \A i \in 1..Len(t) : ~Stamped(t[i])
    BY <1>1
  <2> QED BY <1>5, <2>1, ReadsOn
<1>7. u \o t = s \o (<<h>> \o t)
  <2>1. u = s \o <<h>> /\ <<h>> \in Seq(Piece)
    BY <1>4, AppendIsConcat
  <2>2. (s \o <<h>>) \o t = s \o (<<h>> \o t)
    BY <2>1, ConcatAssociative
  <2> QED BY <2>1, <2>2
<1> QED BY <1>1, <1>2, <1>3, <1>6, <1>7

\* What was printed is read as the entries it was, and is a log in one format again.
LEMMA StreamReads ==
    ASSUME NEW es, Fine(es)
    PROVE  Stream(es) \in Seq(Piece) /\ OneFormat(Stream(es)) /\ EntriesOf(Stream(es)) = es
<1> DEFINE Ok(fs) == LET s == Stream(fs)
                     IN  /\ s \in Seq(Piece) /\ OneFormat(s) /\ EntriesOf(s) = fs
                         /\ s = << >> \/ Stamped(s[1])
                         /\ (\A i \in 1..Len(fs) : NoSeconds(fs[i])) => Clean(s)
           U == {fs \in Seq(FineEntry) : Fine(fs) => Ok(fs)}
<1>1. << >> \in U
  <2>1. EntriesOf(<< >>) = << >>
    BY DEF EntriesOf
  <2>2. << >> \in Seq(Piece) /\ OneFormat(<< >>) /\ Clean(<< >>) /\ << >> \in Seq(FineEntry)
    BY EmptySeq DEF OneFormat, Clean
  <2> QED BY <2>1, <2>2, StreamEmpty
<1>2. \A fs \in Seq(FineEntry), e \in FineEntry : fs \in U => Append(fs, e) \in U
  <2> HIDE DEF Ok
  <2> SUFFICES ASSUME NEW fs \in Seq(FineEntry), NEW e \in FineEntry, fs \in U, Fine(Append(fs, e))
               PROVE  Ok(Append(fs, e))
    BY AppendProperties
  <2>1. fs \in Seq(Entry) /\ e \in Entry
    BY SeqMonotonic DEF FineEntry
  <2>2. Fine(fs) /\ (~e.iso => \A i \in 1..Len(fs) : NoSeconds(fs[i]))
    BY <2>1, FineFront
  <2>3. PICK s \in Seq(Piece) :
          /\ s = Stream(fs) /\ OneFormat(s) /\ EntriesOf(s) = fs /\ (s = << >> \/ Stamped(s[1]))
          /\ (\A i \in 1..Len(fs) : NoSeconds(fs[i])) => Clean(s)
    BY <2>2 DEF Ok
  <2>4. PICK h \in Piece, t \in Seq(Piece) :
          /\ Printed(e) = <<h>> \o t /\ Stamped(h) /\ Len(t) + 1 = Len(e.message)
          /\ \A i \in 1..Len(t) : t[i] = e.message[i + 1] /\ ~Stamped(t[i])
          /\ (e.iso <=> h.kind = "iso") /\ (h.kind = "old" => h.sec = 0)
    BY PrintedParts
  <2>5. PICK q \in Seq(Piece) : q = Printed(e)
    BY StreamAppend
  <2>6. /\ Len(q) = Len(t) + 1 /\ q[1] = h /\ Len(t) \in Nat
        /\ \A i \in 2..Len(q) : q[i] = t[i - 1] /\ i - 1 \in 1..Len(t)
    BY <2>4, <2>5
  <2>7. PICK u \in Seq(Piece) : u = s \o q
    BY ConcatProperties
  <2>8. /\ Len(u) = Len(s) + Len(q) /\ Len(s) \in Nat
        /\ \A i \in 1..Len(s) : u[i] = s[i]
        /\ \A i \in 1..Len(q) : u[Len(s) + i] = q[i]
    BY <2>7
  <2>9. Stream(Append(fs, e)) = u
    BY <2>3, <2>5, <2>7, StreamAppend
  <2>10. EntriesOf(u) = Append(fs, e)
    BY <2>3, <2>5, <2>7, ReadPrinted
  <2>11. \A i \in 1..Len(u) : \/ i \in 1..Len(s) /\ u[i] = s[i]
                              \/ i = Len(s) + 1 /\ u[i] = h
                              \/ i > Len(s) + 1 /\ i - Len(s) \in 2..Len(q) /\ u[i] = q[i - Len(s)]
    <3> SUFFICES ASSUME NEW i \in 1..Len(u), ~(i \in 1..Len(s))
                 PROVE  \/ i = Len(s) + 1 /\ u[i] = h
                        \/ i > Len(s) + 1 /\ i - Len(s) \in 2..Len(q) /\ u[i] = q[i - Len(s)]
      BY <2>8
    <3>1. i - Len(s) \in 1..Len(q) /\ Len(s) + (i - Len(s)) = i
      BY <2>6, <2>8
    <3>2. u[i] = q[i - Len(s)]
      BY <2>8, <3>1
    <3>3. CASE i - Len(s) = 1
      BY <2>6, <2>8, <3>2, <3>3
    <3>4. CASE i - Len(s) # 1
      <4>1. i > Len(s) + 1 /\ i - Len(s) \in 2..Len(q)
        <5>1. Len(q) \in Nat /\ Len(s) \in Nat
          OBVIOUS
        <5> QED BY <3>1, <3>4, <5>1
      <4> QED BY <3>2, <4>1
    <3> QED BY <3>3, <3>4
  <2>12. \A i \in 2..Len(q) : ~Stamped(q[i])
    BY <2>4, <2>6
  <2>13. OneFormat(u)
    <3> SUFFICES ASSUME NEW i \in 1..Len(u), u[i].kind = "old"
                 PROVE  u[i].sec = 0 /\ \A j \in 1..(i - 1) : u[j].kind \notin {"iso", "broken"}
      BY DEF OneFormat
    <3>1. CASE i \in 1..Len(s)
      <4>1. s[i].sec = 0 /\ \A j \in 1..(i - 1) : s[j].kind \notin {"iso", "broken"}
        BY <2>3, <2>8, <3>1 DEF OneFormat
      <4>2. \A j \in 1..(i - 1) : j \in 1..Len(s)
        BY <2>8, <3>1
      <4> QED BY <2>8, <3>1, <4>1, <4>2
    <3>2. CASE i = Len(s) + 1 /\ u[i] = h
      <4>1. ~e.iso /\ u[i].sec = 0
        BY <2>4, <3>2
      <4>2. Clean(s)
        BY <2>2, <2>3, <4>1
      <4>3. i - 1 = Len(s)
        BY <2>8, <3>2
      <4> QED BY <2>8, <4>1, <4>2, <4>3 DEF Clean
    <3>3. CASE i - Len(s) \in 2..Len(q) /\ u[i] = q[i - Len(s)]
      <4>1. ~Stamped(u[i])
        BY <2>12, <3>3
      <4> QED BY <4>1 DEF Stamped
    <3> QED BY <2>11, <3>1, <3>2, <3>3
  <2>14. u = << >> \/ Stamped(u[1])
    <3>1. 1 \in 1..Len(u)
      BY <2>6, <2>8
    <3>2. CASE s = << >>
      <4>1. Len(s) + 1 = 1
        BY <3>2
      <4> QED BY <2>4, <2>6, <2>8, <4>1
    <3>3. CASE s # << >>
      <4>1. 1 \in 1..Len(s)
        BY <3>3
      <4> QED BY <2>3, <2>8, <3>3, <4>1
    <3> QED BY <3>2, <3>3
  <2>15. ASSUME \A i \in 1..Len(Append(fs, e)) : NoSeconds(Append(fs, e)[i])
         PROVE  Clean(u)
    <3>1. /\ Len(Append(fs, e)) = Len(fs) + 1 /\ Append(fs, e)[Len(fs) + 1] = e /\ Len(fs) \in Nat
          /\ \A i \in 1..Len(fs) : Append(fs, e)[i] = fs[i]
      BY AppendProperties
    <3>2. NoSeconds(e) /\ \A i \in 1..Len(fs) : NoSeconds(fs[i])
      <4>1. Len(fs) + 1 \in 1..(Len(fs) + 1) /\ \A i \in 1..Len(fs) : i \in 1..(Len(fs) + 1)
        BY <3>1
      <4> QED BY <2>15, <3>1, <4>1
    <3>3. Clean(s)
      BY <2>3, <3>2
    <3>4. h.kind = "old"
      BY <2>4, <3>2 DEF NoSeconds, Stamped
    <3>5. ASSUME NEW i \in 2..Len(q) PROVE q[i].kind \notin {"iso", "broken"}
      <4>1. q[i] = e.message[i] /\ i \in 2..Len(e.message)
        <5>1. q[i] = t[i - 1] /\ i - 1 \in 1..Len(t)
          BY <2>6
        <5>3. (i - 1) + 1 = i
          BY <2>6
        <5>2. t[i - 1] = e.message[(i - 1) + 1]
          BY <2>4, <5>1, Zenon
        <5> QED BY <2>4, <2>6, <5>1, <5>2, <5>3
      <4>2. q[i].kind # "broken"
        BY <3>2, <4>1 DEF NoSeconds
      <4> QED BY <2>12, <4>2 DEF Stamped
    <3>6. ASSUME NEW i \in 1..Len(u) PROVE u[i].kind \notin {"iso", "broken"}
      <4>1. CASE i \in 1..Len(s) /\ u[i] = s[i]
        BY <3>3, <4>1 DEF Clean
      <4>2. CASE u[i] = h
        BY <3>4, <4>2
      <4>3. CASE i - Len(s) \in 2..Len(q) /\ u[i] = q[i - Len(s)]
        BY <3>5, <4>3
      <4> QED BY <2>11, <4>1, <4>2, <4>3
    <3> QED BY <3>6 DEF Clean
  <2> QED BY <2>9, <2>10, <2>13, <2>14, <2>15 DEF Ok
<1>3. Seq(FineEntry) \subseteq U
  <2> HIDE DEF U
  <2> QED BY <1>1, <1>2, SeqInduction
<1>4. es \in Seq(FineEntry) /\ es \in U
  BY <1>3 DEF Fine
<1> QED BY <1>4

-----------------------------------------------------------------------------
(***************************************************************************)
(* paclog.                                                                 *)
(***************************************************************************)

\* The entries of the log that match the filter of the first or the second paclog.
Matching(es, n) == {e \in ToSet(es) : Matches(filters[n], e)}
MatchingBoth == {e \in ToSet(read) : \A n \in {1, 2} : Matches(filters[n], e)}

LogInv ==
    /\ ReaderInv /\ log \in Logs /\ stage \in {1, 2, 3}
    /\ stage = 1 \/ mode = "pkglist" => input = log
    /\ stage = 2 => /\ mode = "filter" /\ read \in Seq(Entry) /\ out = Select(read, Matching(read, 1))
                    /\ Fine(out) /\ input = Stream(out)
    /\ stage = 3 /\ mode = "filter" => out = Select(read, MatchingBoth)
    /\ stage = 3 /\ mode = "pkglist" => ~reading /\ out = Installed

\* When a log is read, its entries are printed; those of the second paclog are the
\* ones that the first one printed.
LEMMA EntriesRead ==
    ASSUME ReaderInv, ~reading
    PROVE  entries = EntriesOf(input) /\ Fine(entries)
<1>1. entries = EntriesOf(input)
  BY ReaderComplete DEF EntriesAreComplete
<1>2. Fine(EntriesOf(input))
  BY EntriesAreFine DEF ReaderInv
<1> QED BY <1>1, <1>2

LEMMA LogInit ==
    ASSUME Init, \A l \in Logs : OneFormat(l)
    PROVE  LogInv
<1>1. log \in Seq(Piece) /\ OneFormat(log) /\ Open(log)
  BY LogsAssumption DEF Init
<1>2. ReaderInv
  BY <1>1, ReaderOpens
<1>3. input = log /\ stage = 1 /\ log \in Logs
  BY DEF Init, Open
<1> QED BY <1>2, <1>3 DEF LogInv

LEMMA LogStep ==
    ASSUME LogInv, [Next]_vars
    PROVE  LogInv'
<1>1. CASE Read
  <2>1. ReaderInv'
    BY <1>1, ReaderSteps DEF LogInv, Read
  <2>2. reading /\ input' = input /\ UNCHANGED <<log, mode, filters, stage, read, out>>
    BY <1>1 DEF Read, ReadStep, FirstEntry, Stop, NextEntry, Continue, Return
  <2> QED BY <2>1, <2>2 DEF LogInv, Matching, MatchingBoth
<1>2. CASE PrintMatches /\ stage = 1
  <2>1. /\ ~reading /\ mode = "filter" /\ out' = Select(entries, Matching(entries, 1)) /\ stage' = 2
        /\ read' = entries /\ Reopen(Stream(out')) /\ UNCHANGED <<log, mode, filters>>
    BY <1>2 DEF PrintMatches, Matching
  <2>2. Fine(entries) /\ entries \in Seq(Entry)
    BY <2>1, EntriesRead DEF LogInv, ReaderInv
  <2>3. Fine(out')
    <3>1. entries \in Seq(FineEntry) /\ InOrderOf(entries, OldFirst)
      BY <2>2 DEF Fine
    <3>2. Select(entries, Matching(entries, 1)) \in Seq(FineEntry)
      BY <3>1, SelectList
    <3>3. InOrderOf(Select(entries, Matching(entries, 1)), OldFirst)
      BY <3>1, SelectInOrder
    <3> QED BY <2>1, <3>2, <3>3 DEF Fine
  <2>4. Stream(out') \in Seq(Piece) /\ OneFormat(Stream(out'))
    BY <2>3, StreamReads
  <2>5. ReaderInv'
    BY <2>1, <2>4, ReaderReopens
  <2>6. input' = Stream(out')
    BY <2>1 DEF Reopen
  <2>7. (Select(read, Matching(read, 1)))' = Select(entries, Matching(entries, 1))
    BY <2>1 DEF Matching
  <2>8. log' \in Logs /\ read' \in Seq(Entry) /\ mode' = "filter" /\ stage' = 2
    BY <2>1, <2>2 DEF LogInv
  <2>9. (out = Select(read, Matching(read, 1)))'
    BY <2>1, <2>7
  <2>10. Fine(out)' /\ (input = Stream(out))'
    BY <2>3, <2>6 DEF Fine
  <2> QED BY <2>5, <2>8, <2>9, <2>10 DEF LogInv
<1>3. CASE PrintMatches /\ stage = 2
  <2>1. /\ ~reading /\ mode = "filter" /\ out' = Select(entries, Matching(entries, 2)) /\ stage' = 3
        /\ UNCHANGED <<logVars, read, log, mode, filters>>
    BY <1>3 DEF PrintMatches, Matching
  <2>2. entries = EntriesOf(input) /\ input = Stream(out) /\ Fine(out) /\ read \in Seq(Entry)
        /\ out = Select(read, Matching(read, 1))
    BY <1>3, <2>1, EntriesRead DEF LogInv
  <2>3. entries = out
    BY <2>2, StreamReads
  <2>4. ToSet(out) = ToSet(read) \cap Matching(read, 1)
    BY <2>2, SelectMembers
  <2>5. out' = Select(read, Matching(read, 1) \cap Matching(out, 2))
    BY <2>1, <2>2, <2>3, SelectTwice
  <2>6. Matching(read, 1) \cap Matching(out, 2) = MatchingBoth
    BY <2>4 DEF Matching, MatchingBoth
  <2>7. out' = Select(read', MatchingBoth')
    BY <2>1, <2>5, <2>6 DEF MatchingBoth
  <2>8. ReaderInv'
    BY <2>1 DEF LogInv, ReaderInv, logVars, Seen
  <2> QED BY <1>3, <2>1, <2>7, <2>8 DEF LogInv
<1>4. CASE PrintInstalled
  <2>1. /\ ~reading /\ mode = "pkglist" /\ stage = 1 /\ out' = Installed /\ stage' = 3
        /\ UNCHANGED <<logVars, log, mode, filters, read>>
    BY <1>4 DEF PrintInstalled
  <2>2. ReaderInv'
    BY <2>1 DEF LogInv, ReaderInv, logVars, Seen
  <2>3. Installed' = Installed
    BY <2>1 DEF Installed, logVars
  <2> QED BY <2>1, <2>2, <2>3 DEF LogInv, logVars
<1>5. CASE UNCHANGED vars
  <2>1. ReaderInv'
    BY <1>5 DEF LogInv, ReaderInv, vars, logVars, Seen
  <2>2. Installed' = Installed /\ MatchingBoth' = MatchingBoth /\ Matching(read, 1)' = Matching(read, 1)
    BY <1>5 DEF Installed, vars, logVars, MatchingBoth, Matching
  <2> QED BY <1>5, <2>1, <2>2 DEF LogInv, vars, logVars
<1>6. PrintMatches => stage = 1 \/ stage = 2
  BY DEF PrintMatches
<1> QED BY <1>1, <1>2, <1>3, <1>4, <1>5, <1>6 DEF Next, Finished

-----------------------------------------------------------------------------
(***************************************************************************)
(* The packages that are installed: the newest entries are looked at       *)
(* first, and those about packages that were seen are passed over.         *)
(***************************************************************************)

\* What the k newest entries leave: the packages they are about, and of those that
\* were not removed the one entry that is the newest.
NewestAt(i) ==
    /\ IsAction(entries[i])
    /\ \A j \in (i + 1)..Len(entries) :
         IsAction(entries[j]) => Action(entries[j]).pkg # Action(entries[i]).pkg
Kept(i) == NewestAt(i) /\ Action(entries[i]).op # "remove"
Line(i) == <<Action(entries[i]).pkg, Action(entries[i]).new>>
NewestK(k) == {i \in 1..Len(entries) : i + k > Len(entries)}

SeenOf(k) == {Action(entries[i]).pkg : i \in {j \in NewestK(k) : IsAction(entries[j])}}
KeptOf(k) == {Line(i) : i \in {j \in NewestK(k) : Kept(j)}}

Lines == {Line(i) : i \in 1..Len(entries)}
Acc == [seen : SUBSET {Action(entries[i]).pkg : i \in 1..Len(entries)}, list : Seq(Lines)]
NoneSeen == [seen |-> {}, list |-> << >>]

Looks(f) ==
    /\ f[0] = NoneSeen /\ Installed = f[Len(entries)].list
    /\ \A k \in 1..Len(entries) : f[k] = Look(f[k - 1], entries[Len(entries) + 1 - k])

LEMMA LookIsAcc ==
    ASSUME entries \in Seq(Entry), NEW i \in 1..Len(entries), NEW acc \in Acc
    PROVE  Look(acc, entries[i]) \in Acc
<1>1. Line(i) \in Lines /\ acc.list \in Seq(Lines)
  BY DEF Lines, Acc
<1>2. Append(acc.list, Line(i)) \in Seq(Lines)
  BY <1>1
<1> QED BY <1>2 DEF Acc, Look, Sees, Line

LEMMA InstalledLooks ==
    ASSUME entries \in Seq(Entry)
    PROVE  \E f \in [0..Len(entries) -> Acc] : Looks(f)
<1> DEFINE N == Len(entries)
           step == [n \in 1..N |-> [a \in Acc |-> Look(a, entries[N + 1 - n])]]
           F(g) == [k \in 0..N |-> IF k = 0 THEN NoneSeen ELSE Look(g[k - 1], entries[N + 1 - k])]
           g == CHOOSE g : g = F(g)
<1>1. N \in Nat /\ \A n \in 1..N : N + 1 - n \in 1..N
  OBVIOUS
<1>2. NoneSeen \in Acc
  BY DEF NoneSeen, Acc
<1>3. step \in [1..N -> [Acc -> Acc]]
  <2>1. ASSUME NEW n \in 1..N, NEW a \in Acc PROVE Look(a, entries[N + 1 - n]) \in Acc
    BY <1>1, LookIsAcc
  <2> QED BY <2>1
<1>4. PICK f \in [0..N -> Acc] : Recursive(f, N, NoneSeen, step)
  <2> HIDE DEF step, N
  <2> QED BY <1>1, <1>2, <1>3, RecursionExists
<1>5. ASSUME NEW n \in 1..N PROVE f[n] = Look(f[n - 1], entries[N + 1 - n])
  <2>1. n - 1 \in 0..N
    BY <1>1
  <2>2. f[n - 1] \in Acc
    <3> HIDE DEF N
    <3> QED BY <1>4, <2>1
  <2>3. f[n] = step[n][f[n - 1]]
    BY <1>4 DEF Recursive
  <2> QED BY <2>2, <2>3
<1>6. f[0] = NoneSeen
  BY <1>4 DEF Recursive
<1>7. f = F(f)
  <2>1. f = [n \in 0..N |-> f[n]]
    <3> HIDE DEF N
    <3> QED BY <1>4
  <2>2. ASSUME NEW n \in 0..N
        PROVE  f[n] = IF n = 0 THEN NoneSeen ELSE Look(f[n - 1], entries[N + 1 - n])
    <3>1. n = 0 \/ n \in 1..N
      BY <1>1
    <3> QED BY <1>5, <1>6, <3>1
  <2> QED BY <2>1, <2>2, Zenon
<1>8. g = F(g)
  <2> HIDE DEF F
  <2> QED BY <1>7
<1>9. Installed = g[N].list
  BY DEF Installed, NoneSeen
<1> HIDE DEF g, step
<1>10. \A n \in 0..N : g[n] = f[n]
  <2>1. g[0] = f[0]
    <3>1. 0 \in 0..N
      BY <1>1
    <3> QED BY <1>6, <1>8, <3>1
  <2>2. ASSUME NEW n \in 1..N, g[n - 1] = f[n - 1] PROVE g[n] = f[n]
    <3>1. n \in 0..N /\ n # 0
      BY <1>1
    <3>2. g[n] = Look(g[n - 1], entries[N + 1 - n])
      BY <1>8, <3>1
    <3> QED BY <1>5, <2>2, <3>2
  <2>3. Alike(g, f, N)
    BY <2>1, <2>2 DEF Alike
  <2> HIDE DEF N
  <2> QED BY <1>1, <2>3, SameAlong
<1>11. g[N] = f[N]
  BY <1>1, <1>10
<1> QED BY <1>4, <1>5, <1>6, <1>9, <1>11 DEF Looks

\* What has been looked at after k entries.
Replayed(acc, k) ==
    /\ acc.seen = SeenOf(k) /\ ToSet(acc.list) = KeptOf(k)
    /\ \A a, b \in 1..Len(acc.list) : acc.list[a] = acc.list[b] => a = b

LEMMA LookReplays ==
    ASSUME entries \in Seq(Entry), NEW k \in Nat, k < Len(entries), NEW acc \in Acc,
           Replayed(acc, k)
    PROVE  Replayed(Look(acc, entries[Len(entries) - k]), k + 1)
<1> DEFINE N == Len(entries)
           m == N - k
<1>1. N \in Nat /\ m \in 1..N /\ m + k = N
  OBVIOUS
<1>2. NewestK(k + 1) = NewestK(k) \cup {m}
  BY <1>1 DEF NewestK
<1>3. NewestK(k) = (m + 1)..N
  BY <1>1 DEF NewestK
<1> HIDE DEF m, N
<1>4. NewestAt(m) <=> IsAction(entries[m]) /\ Action(entries[m]).pkg \notin SeenOf(k)
  BY <1>3 DEF NewestAt, SeenOf, N
<1>5. CASE ~IsAction(entries[m]) \/ Action(entries[m]).pkg \in acc.seen
  <2>1. Look(acc, entries[m]) = acc
    BY <1>5 DEF Look
  <2>2. ~Kept(m)
    BY <1>4, <1>5 DEF Kept, Replayed
  <2>3. KeptOf(k + 1) = KeptOf(k)
    BY <1>2, <2>2 DEF KeptOf
  <2>4. SeenOf(k + 1) = SeenOf(k)
    BY <1>2, <1>5 DEF SeenOf, Replayed
  <2> QED BY <2>1, <2>3, <2>4 DEF Replayed, m, N
<1>6. CASE IsAction(entries[m]) /\ Action(entries[m]).pkg \notin acc.seen
  <2>1. NewestAt(m)
    BY <1>4, <1>6 DEF Replayed
  <2>2. SeenOf(k + 1) = SeenOf(k) \cup {Action(entries[m]).pkg}
    BY <1>2, <1>6 DEF SeenOf
  <2> DEFINE new == Look(acc, entries[m])
  <2>3. new.seen = SeenOf(k + 1)
    BY <1>6, <2>2 DEF Look, Sees, Replayed
  <2>4. acc.list \in Seq(Lines) /\ Line(m) \in Lines
    BY <1>1 DEF Acc, Lines, N
  <2>5. CASE Action(entries[m]).op = "remove"
    <3>1. new.list = acc.list
      BY <1>6, <2>5 DEF Look
    <3>2. KeptOf(k + 1) = KeptOf(k)
      BY <1>2, <2>5 DEF KeptOf, Kept
    <3> QED BY <2>3, <3>1, <3>2 DEF Replayed, m, N
  <2>6. CASE Action(entries[m]).op # "remove"
    <3>1. new.list = Append(acc.list, Line(m))
      BY <1>6, <2>6 DEF Look, Line
    <3>2. KeptOf(k + 1) = KeptOf(k) \cup {Line(m)}
      BY <1>2, <2>1, <2>6 DEF KeptOf, Kept
    <3>3. ToSet(new.list) = KeptOf(k + 1)
      <4>1. ToSet(Append(acc.list, Line(m))) = ToSet(acc.list) \cup {Line(m)}
        BY <2>4, AppendMembers
      <4>2. ToSet(acc.list) = KeptOf(k)
        BY DEF Replayed
      <4> HIDE DEF new
      <4> QED BY <3>1, <3>2, <4>1, <4>2
    <3>4. Line(m) \notin ToSet(acc.list)
      <4> SUFFICES ASSUME NEW i \in NewestK(k), Kept(i), Line(i) = Line(m) PROVE FALSE
        BY DEF Replayed, KeptOf
      <4>1. Action(entries[i]).pkg = Action(entries[m]).pkg
        BY DEF Line
      <4>2. IsAction(entries[i])
        BY DEF Kept, NewestAt
      <4>3. Action(entries[i]).pkg \in SeenOf(k)
        BY <4>2 DEF SeenOf
      <4> QED BY <1>6, <4>1, <4>3 DEF Replayed
    <3>5. ASSUME NEW a \in 1..Len(new.list), NEW b \in 1..Len(new.list), new.list[a] = new.list[b]
          PROVE  a = b
      <4> DEFINE l == acc.list
      <4>1. Len(new.list) = Len(l) + 1 /\ new.list[Len(l) + 1] = Line(m) /\ Len(l) \in Nat
            /\ \A i \in 1..Len(l) : new.list[i] = l[i] /\ l[i] # Line(m)
        <5>1. \A i \in 1..Len(l) : l[i] # Line(m)
          BY <2>4, <3>4 DEF ToSet
        <5> HIDE DEF new
        <5> QED BY <2>4, <3>1, <5>1
      <4>2. \A i, j \in 1..Len(l) : l[i] = l[j] => i = j
        BY DEF Replayed
      <4> HIDE DEF new, l
      <4>3. a \in 1..Len(l) \/ a = Len(l) + 1
        BY <4>1
      <4>4. b \in 1..Len(l) \/ b = Len(l) + 1
        BY <4>1
      <4> QED BY <3>5, <4>1, <4>2, <4>3, <4>4
    <3> QED BY <2>3, <3>3, <3>5 DEF Replayed, m, N
  <2> QED BY <2>5, <2>6
<1> QED BY <1>5, <1>6

LEMMA InstalledReplays ==
    ASSUME entries \in Seq(Entry)
    PROVE  ToSet(Installed) = KeptOf(Len(entries)) /\ IsInjective(Installed)
<1> DEFINE N == Len(entries)
<1>1. PICK f \in [0..Len(entries) -> Acc] : Looks(f)
  BY InstalledLooks
<1>2. N \in Nat
  OBVIOUS
<1> DEFINE T == {k \in Nat : k <= N => Replayed(f[k], k)}
<1>3. 0 \in T
  <2>1. NewestK(0) = {}
    BY DEF NewestK
  <2>2. SeenOf(0) = {} /\ KeptOf(0) = {}
    BY <2>1 DEF SeenOf, KeptOf
  <2>3. ToSet(<< >>) = {} /\ Len(<< >>) = 0
    BY DEF ToSet
  <2>4. f[0].seen = {} /\ f[0].list = << >>
    BY <1>1 DEF Looks, NoneSeen
  <2>5. 1..0 = {}
    OBVIOUS
  <2> QED BY <2>2, <2>3, <2>4, <2>5 DEF Replayed
<1>4. ASSUME NEW k \in Nat, k \in T PROVE k + 1 \in T
  <2> SUFFICES ASSUME k + 1 <= N PROVE Replayed(f[k + 1], k + 1)
    OBVIOUS
  <2>1. k < N /\ k \in 0..N /\ k + 1 \in 1..N /\ (k + 1) - 1 = k /\ N + 1 - (k + 1) = N - k
    BY <1>2
  <2>2. f[k] \in Acc /\ Replayed(f[k], k)
    BY <1>4, <2>1
  <2>3. f[k + 1] = Look(f[k], entries[N - k])
    BY <1>1, <2>1 DEF Looks
  <2> QED BY <2>1, <2>2, <2>3, LookReplays
<1>5. Nat \subseteq T
  <2> HIDE DEF T
  <2> QED BY <1>3, <1>4, NatSetInduction
<1>6. Replayed(f[N], N)
  BY <1>2, <1>5
<1>7. Installed = f[N].list /\ f[N].list \in Seq(Lines)
  <2>1. N \in 0..N
    BY <1>2
  <2>2. f[N] \in Acc
    BY <1>1, <2>1
  <2> QED BY <1>1, <2>2 DEF Looks, Acc
<1>8. DOMAIN Installed = 1..Len(Installed)
  BY <1>7
<1> QED BY <1>6, <1>7, <1>8 DEF Replayed, IsInjective

\* The newest entry about a package is the one with the greatest place.
LEMMA NewestIsMax ==
    ASSUME entries \in Seq(Entry), NEW i \in 1..Len(entries), IsAction(entries[i])
    PROVE  LET M == {j \in DOMAIN entries :
                       IsAction(entries[j]) /\ Action(entries[j]).pkg = Action(entries[i]).pkg}
           IN  /\ Max(M) \in M /\ NewestAt(Max(M))
               /\ NewestAt(i) => Max(M) = i
<1> DEFINE M == {j \in DOMAIN entries :
                   IsAction(entries[j]) /\ Action(entries[j]).pkg = Action(entries[i]).pkg}
<1>1. DOMAIN entries = 1..Len(entries) /\ Len(entries) \in Nat
  OBVIOUS
<1>2. M \in SUBSET Nat /\ i \in M /\ \A y \in M : y <= Len(entries)
  BY <1>1
<1>3. \E x \in M : \A y \in M : y <= x
  <2> HIDE DEF M
  <2> QED BY <1>1, <1>2, GreatestNat
<1>4. Max(M) \in M /\ \A y \in M : Max(M) >= y
  <2>1. \E x \in M : \A y \in M : x >= y
    <3> HIDE DEF M
    <3> QED BY <1>2, <1>3
  <2> HIDE DEF M
  <2> QED BY <2>1 DEF Max
<1> DEFINE x == Max(M)
<1>5. x \in 1..Len(entries) /\ IsAction(entries[x]) /\ Action(entries[x]).pkg = Action(entries[i]).pkg
  BY <1>1, <1>4
<1>6. \A y \in M : y <= x
  <2> HIDE DEF M
  <2> QED BY <1>2, <1>4
<1> HIDE DEF x
<1>7. NewestAt(x)
  BY <1>1, <1>5, <1>6 DEF NewestAt
<1>8. ASSUME NewestAt(i) PROVE x = i
  <2>1. i <= x
    BY <1>2, <1>6
  <2>2. ~(x \in (i + 1)..Len(entries))
    BY <1>5, <1>8 DEF NewestAt
  <2> QED BY <1>1, <1>5, <2>1, <2>2
<1> QED BY <1>4, <1>7, <1>8 DEF x

LEMMA InstalledIsReplay ==
    ASSUME ReaderInv, ~reading, input = log, out = Installed
    PROVE  PkgListIsReplay
<1>1. entries = EntriesOf(log) /\ entries \in Seq(Entry)
  BY ReaderComplete DEF EntriesAreComplete, ReaderInv
<1> DEFINE N == Len(entries)
           Of(pkg) == {i \in DOMAIN entries : IsAction(entries[i]) /\ Action(entries[i]).pkg = pkg}
           pkgs == {Action(entries[i]).pkg : i \in {j \in DOMAIN entries : IsAction(entries[j])}}
           Newest(pkg) == Action(entries[Max(Of(pkg))])
           Left == {<<p, Newest(p).new>> : p \in {q \in pkgs : Newest(q).op # "remove"}}
<1>2. DOMAIN entries = 1..N /\ N \in Nat
  BY <1>1
<1>3. ToSet(out) = KeptOf(N) /\ IsInjective(out)
  BY <1>1, InstalledReplays
<1>4. NewestK(N) = 1..N
  BY <1>2 DEF NewestK
<1>5. ASSUME NEW i \in 1..N, IsAction(entries[i])
      PROVE  LET x == Max(Of(Action(entries[i]).pkg))
             IN  /\ x \in 1..N /\ NewestAt(x) /\ Action(entries[x]).pkg = Action(entries[i]).pkg
                 /\ NewestAt(i) => x = i
  <2>1. LET M == Of(Action(entries[i]).pkg)
        IN  Max(M) \in M /\ NewestAt(Max(M)) /\ (NewestAt(i) => Max(M) = i)
    BY <1>1, <1>5, NewestIsMax
  <2> QED BY <1>2, <2>1
<1>6. KeptOf(N) \subseteq Left
  <2> SUFFICES ASSUME NEW i \in 1..N, Kept(i) PROVE Line(i) \in Left
    BY <1>4 DEF KeptOf
  <2>1. IsAction(entries[i]) /\ NewestAt(i) /\ Action(entries[i]).op # "remove"
    BY DEF Kept, NewestAt
  <2> DEFINE p == Action(entries[i]).pkg
  <2>2. Newest(p) = Action(entries[i])
    <3>1. Max(Of(p)) = i
      BY <1>5, <2>1
    <3> HIDE DEF Of, p
    <3> QED BY <3>1
  <2>3. p \in pkgs
    BY <1>2, <2>1
  <2>4. Line(i) = <<p, Newest(p).new>>
    <3> HIDE DEF Newest
    <3> QED BY <2>2 DEF Line
  <2>5. Newest(p).op # "remove"
    <3> HIDE DEF Newest
    <3> QED BY <2>1, <2>2
  <2> HIDE DEF Newest, pkgs, p
  <2> QED BY <2>3, <2>4, <2>5
<1>7. Left \subseteq KeptOf(N)
  <2> SUFFICES ASSUME NEW p \in pkgs, Newest(p).op # "remove" PROVE <<p, Newest(p).new>> \in KeptOf(N)
    BY DEF Left
  <2>1. PICK i \in 1..N : IsAction(entries[i]) /\ Action(entries[i]).pkg = p
    BY <1>2
  <2> DEFINE x == Max(Of(p))
  <2>2. x \in 1..N /\ NewestAt(x) /\ Action(entries[x]).pkg = p
    <3> HIDE DEF Of
    <3> QED BY <1>5, <2>1
  <2>3. Newest(p) = Action(entries[x])
    OBVIOUS
  <2> HIDE DEF x, Newest
  <2>4. Kept(x)
    BY <2>2, <2>3 DEF Kept
  <2>5. <<p, Newest(p).new>> = Line(x)
    BY <2>2, <2>3 DEF Line
  <2> QED BY <1>4, <2>2, <2>4, <2>5 DEF KeptOf
<1>8. ToSet(out) = Left
  <2> HIDE DEF Left
  <2> QED BY <1>3, <1>6, <1>7
<1> QED BY <1>1, <1>3, <1>8 DEF PkgListIsReplay

-----------------------------------------------------------------------------
(***************************************************************************)
(* The theorems.                                                           *)
(***************************************************************************)

LEMMA LogInductive ==
    ASSUME \A l \in Logs : OneFormat(l)
    PROVE  Spec => []LogInv
<1>1. Init => LogInv
  BY LogInit
<1>2. LogInv /\ [Next]_vars => LogInv'
  BY LogStep
<1> QED BY <1>1, <1>2, PTL DEF Spec

\* However long the lines and the messages of a log are, the reader with its one line
\* of look-ahead returns the entries that the log has, in their order, and all of them
\* by the time it stops.
THEOREM EntriesComplete ==
    ASSUME \A l \in Logs : OneFormat(l)
    PROVE  Spec => []EntriesAreComplete
<1>1. LogInv => EntriesAreComplete
  BY ReaderComplete DEF LogInv
<1> QED BY <1>1, LogInductive, PTL

\* The entries that two paclogs in a pipe print are those that match the filters of
\* both: what the first one prints is read as the entries it was printed from.
THEOREM PipeIntersects ==
    ASSUME \A l \in Logs : OneFormat(l)
    PROVE  Spec => []PipeIsIntersection
<1>1. LogInv => PipeIsIntersection
  BY DEF LogInv, PipeIsIntersection, MatchingBoth
<1> QED BY <1>1, LogInductive, PTL

\* The list of --pkglist, which is put together from the newest entry backwards, is
\* what replaying the log forwards leaves installed.
THEOREM PkgListReplays ==
    ASSUME \A l \in Logs : OneFormat(l)
    PROVE  Spec => []PkgListIsReplay
<1>1. LogInv => PkgListIsReplay
  <2>1. ASSUME LogInv, stage = 3, mode = "pkglist" PROVE PkgListIsReplay
    BY <2>1, InstalledIsReplay DEF LogInv
  <2>2. ~(stage = 3 /\ mode = "pkglist") => PkgListIsReplay
    BY DEF PkgListIsReplay
  <2> QED BY <2>1, <2>2
<1> QED BY <1>1, LogInductive, PTL
=============================================================================
