-------------------------------- MODULE Lists --------------------------------
(***************************************************************************)
(* A list with some of its members left out, in the order of the list:     *)
(* what the loops of the programs do to an alpm_list_t.                    *)
(***************************************************************************)
EXTENDS Integers, SequencesExt

IsList(s) == s \in Seq(ToSet(s))

\* Those of s that are in S.
Select(s, S) ==
    LET taken[n \in 0..Len(s)] ==
          IF n = 0 THEN << >>
          ELSE IF s[n] \in S THEN Append(taken[n - 1], s[n]) ELSE taken[n - 1]
    IN  taken[Len(s)]

\* Those of s that are alike to none that was kept before.
Firsts(s, alike) ==
    LET kept[n \in 0..Len(s)] ==
          IF n = 0 THEN << >>
          ELSE IF \E e \in ToSet(kept[n - 1]) : <<e, s[n]>> \in alike THEN kept[n - 1]
          ELSE Append(kept[n - 1], s[n])
    IN  kept[Len(s)]

\* Each member once.
Unique(s) == Firsts(s, {<<e, e>> : e \in ToSet(s)})
=============================================================================
