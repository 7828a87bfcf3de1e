-------------------------------- MODULE Mtree --------------------------------
(***************************************************************************)
(* lib/pacutils/mtree.c.  The mtree of a package is a record of            *)
(* its lines and whether they can be read to the end.  A line is a comment,*)
(* "set" with defaults, or an entry; what it says is a function from the   *)
(* names of fields to their values.                                        *)
(***************************************************************************)
EXTENDS Integers, Sequences, SequencesExt, FiniteSetsExt, Lists
MtreeFields ==
    {"path", "type", "uid", "gid", "mode", "mtime", "size", "target", "md5", "sha256"}

\* pu_mtree_reader_next: what the line of an entry says, or else the last /set line before
\* it that says something of the field; unknown fields are ignored.
EntryField(lines, i, field, unset) ==
    LET told == {j \in 1..i : (j = i \/ lines[j].kind = "set") /\ field \in DOMAIN lines[j].says}
    IN  IF told = {} THEN unset ELSE lines[Max(told)].says[field]

\* All entries before the end of the file or before the error.  The defaults of a new
\* reader are unset.
MtreeEntries(mtree, unset) ==
    LET at == Select([i \in DOMAIN mtree.lines |-> i],
                     {i \in DOMAIN mtree.lines : mtree.lines[i].kind = "entry"})
    IN  [n \in DOMAIN at |->
           [field \in MtreeFields |-> EntryField(mtree.lines, at[n], field, unset)]]
=============================================================================
