-------------------------------- MODULE Paths --------------------------------
(***************************************************************************)
(* Comparison of paths (lib/pacutils.c).  A path is a sequence of character*)
(* codes.  A file list is sorted by the codes, and the paths of its        *)
(* directories end with a slash.                                           *)
(***************************************************************************)
EXTENDS Integers, Sequences

Slash == 47

\* The code at an index, 0 at the end.
CodeAt(path, i) == IF i > Len(path) THEN 0 ELSE path[i]

\* The first index from i on that has no slash.
PastSlashes(path, i) ==
    CHOOSE k \in i..(Len(path) + 1) :
      CodeAt(path, k) # Slash /\ \A j \in i..(k - 1) : CodeAt(path, j) = Slash

\* One round of the loop of pu_pathcmp, from the places in the two paths to the next.
Along(p1, p2) ==
    [at \in (1..(Len(p1) + 1)) \X (1..(Len(p2) + 1)) |->
       LET c == CodeAt(p1, at[1]) IN
       CASE c = 0 \/ c # CodeAt(p2, at[2]) -> at
         [] c = Slash /\ c = CodeAt(p2, at[2]) -> <<PastSlashes(p1, at[1]), PastSlashes(p2, at[2])>>
         [] OTHER -> <<at[1] + 1, at[2] + 1>>]

\* pu_pathcmp: repeated and trailing slashes do not count.  The loop is over when p1 is.
PathCmp(p1, p2) ==
    LET after[n \in 0..Len(p1)] == IF n = 0 THEN <<1, 1>> ELSE Along(p1, p2)[after[n - 1]]
        i == after[Len(p1)][1]
        j == after[Len(p1)][2]
    IN  CASE CodeAt(p1, i) = 0 -> 0 - CodeAt(p2, PastSlashes(p2, j))
          [] CodeAt(p1, i) # 0 /\ CodeAt(p2, j) = 0 -> CodeAt(p1, PastSlashes(p1, i))
          [] OTHER -> CodeAt(p1, i) - CodeAt(p2, j)

\* One round of bsearch of the C library, which looks at the middle of what is between
\* the bounds, the lower included and the upper excluded.
Middle(bounds) == (bounds[1] + bounds[2]) \div 2

Narrowed(needle, files) ==
    [bounds \in (0..Len(files)) \X (0..Len(files)) |->
       LET c == PathCmp(needle, files[Middle(bounds) + 1])
       IN  CASE bounds[1] >= bounds[2] \/ c = 0 -> bounds
             [] bounds[1] < bounds[2] /\ c < 0 -> <<bounds[1], Middle(bounds)>>
             [] OTHER -> <<Middle(bounds) + 1, bounds[2]>>]

\* The index of a file that the search ends at, 0 if there is none.
BSearch(needle, files) ==
    LET after[n \in 0..Len(files)] ==
          IF n = 0 THEN <<0, Len(files)>> ELSE Narrowed(needle, files)[after[n - 1]]
        found == after[Len(files)]
    IN  IF found[1] < found[2] THEN Middle(found) + 1 ELSE 0

\* pu_filelist_contains_path
FilelistContains(files, path) == BSearch(path, files) # 0

\* A path as libalpm and realpath have it, and one without the slash at its end.
Tidy(path) ==
    /\ path \in Seq(Int \ {0})
    /\ \A i \in 1..(Len(path) - 1) : ~(path[i] = Slash /\ path[i + 1] = Slash)

Bare(path) ==
    IF path # << >> /\ path[Len(path)] = Slash THEN SubSeq(path, 1, Len(path) - 1) ELSE path

\* The search finds what is there if the list is in the order in which the files, looked
\* up without the slashes at the ends of the directories, compare with those of the list.
InOrder(files) ==
    \A i, j \in DOMAIN files : i < j =>
      PathCmp(Bare(files[i]), files[j]) < 0 /\ PathCmp(Bare(files[j]), files[i]) > 0
=============================================================================
