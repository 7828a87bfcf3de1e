---------------------------- MODULE PacRepairFile ----------------------------
(***************************************************************************)
(* pacrepairfile: gives files the owner, group, permissions and time of    *)
(* modification that the mtree of their package has.                       *)
(*                                                                         *)
(* Paths are relative to the installation root, as Paths has them.         *)
(* sys.real says what lrealpath and access make of an argument.            *)
(***************************************************************************)
EXTENDS ToolState, Mtree, Paths

\* Mutant: the owner is set after the permissions.
KindsModeFirst == <<"mode", "uid", "gid", "mtime">>

\* In the order of fix_file.
Kinds == <<"uid", "gid", "mode", "mtime">>

RepairFileOptions ==
    [set |-> [uid |-> <<"uid", TRUE>>, gid |-> <<"gid", TRUE>>, mode |-> <<"mode", TRUE>>,
              mtime |-> <<"mtime", TRUE>>, quiet |-> <<"verbose", FALSE>>],
     count |-> NoOptions, assign |-> NoOptions,
     add |-> [package |-> "packages", target |-> "targets"]]

RepairFileDefaults ==
    [uid |-> FALSE, gid |-> FALSE, mode |-> FALSE, mtime |-> FALSE, verbose |-> TRUE,
     packages |-> << >>, targets |-> << >>]

RepairFileSetup ==
    Setup("pacrepairfile", Parse(RepairFileOptions, RepairFileDefaults), "load", {1})

-----------------------------------------------------------------------------
\* The packages named, those that are not installed left out, or all.
RepairPackages ==
    IF o.packages = << >> THEN sys.local
    ELSE FlattenSeq([i \in DOMAIN o.packages |->
           Select(sys.local, {p \in ToSet(sys.local) : p.name = o.packages[i]})])

RepairFileLoad ==
    /\ At("pacrepairfile", "load")
    /\ IF RepairPackages = << >> THEN Exit(1) /\ UNCHANGED <<todo, acc>>
       ELSE /\ todo' = o.targets \o sys.stdin
            /\ acc' = [packages |-> RepairPackages, path |-> << >>, entry |-> None,
                       kinds |-> << >>]
            /\ Goto("file") /\ UNCHANGED ret
    /\ Stays /\ UNCHANGED out

\* The entries for a path, of the packages whose list of files contains it.
EntriesIn(p, path) ==
    IF FilelistContains(p.files, path) /\ p.mtree # None
    THEN Select(MtreeEntries(p.mtree, None),
                {e \in ToSet(MtreeEntries(p.mtree, None)) : PathCmp(path, e.path) = 0})
    ELSE << >>

EntriesFor(pkgs, path) == FlattenSeq([i \in DOMAIN pkgs |-> EntriesIn(pkgs[i], path)])

\* fix_file up to the first entry for the path.
FixFile ==
    /\ At("pacrepairfile", "file") /\ todo # << >>
    /\ LET real == sys.real[Head(todo)]
           found == IF real.resolves /\ real.inside /\ real.writable
                    THEN EntriesFor(acc.packages, real.path) ELSE << >>
       IN  IF found = << >>
           THEN ret' = 1 /\ todo' = Tail(todo) /\ UNCHANGED <<pc, acc>>
           ELSE /\ acc' = [acc EXCEPT !.path = real.path, !.entry = Head(found),
                                      !.kinds = Select(Kinds, {k \in ToSet(Kinds) : o[k]})]
                /\ Goto("fix") /\ UNCHANGED <<ret, todo>>
    /\ Stays /\ UNCHANGED out

\* fchownat takes the bits with which others run a file as its owner or group from it.
Chowned(f, kind, value) ==
    [f EXCEPT ![kind] = value,
              !.mode = IF f.type = "file" THEN [@ EXCEPT !.setid = FALSE] ELSE @]

\* fchmodat does not change links, nor does what _fchmodat falls back to.
Changed(f, kind, value) ==
    IF kind \in {"uid", "gid"} THEN Chowned(f, kind, value) ELSE [f EXCEPT ![kind] = value]

\* Mutant: the status counts what the system refuses.
FixKindCounts ==
    /\ At("pacrepairfile", "fix") /\ acc.kinds # << >>
    /\ LET kind == Head(acc.kinds) IN
       \/ /\ ~(kind = "mode" /\ sys.fs[acc.path].type = "link")
          /\ sys' = [sys EXCEPT !.fs[acc.path] = Changed(@, kind, acc.entry[kind])]
          /\ out' = IF o.verbose THEN Append(out, <<acc.path, kind>>) ELSE out
          /\ UNCHANGED ret
       \/ ret' = ret + 1 /\ UNCHANGED <<sys, out>>
    /\ acc' = [acc EXCEPT !.kinds = Tail(@)]
    /\ UNCHANGED <<tool, argv, o, pc, todo>>

\* fix_uid, fix_gid, fix_mode, fix_mtime; the system may refuse.
FixKind ==
    /\ At("pacrepairfile", "fix") /\ acc.kinds # << >>
    /\ LET kind == Head(acc.kinds) IN
       \/ /\ ~(kind = "mode" /\ sys.fs[acc.path].type = "link")
          /\ sys' = [sys EXCEPT !.fs[acc.path] = Changed(@, kind, acc.entry[kind])]
          /\ out' = IF o.verbose THEN Append(out, <<acc.path, kind>>) ELSE out
          /\ UNCHANGED ret
       \/ ret' = 1 /\ UNCHANGED <<sys, out>>
    /\ acc' = [acc EXCEPT !.kinds = Tail(@)]
    /\ UNCHANGED <<tool, argv, o, pc, todo>>

FixedFile ==
    /\ At("pacrepairfile", "fix") /\ acc.kinds = << >>
    /\ todo' = Tail(todo) /\ Goto("file")
    /\ Stays /\ UNCHANGED <<acc, out, ret>>

\* After the last file; stdin may fail before its end.
RepairFileEnd ==
    /\ At("pacrepairfile", "file") /\ todo = << >>
    /\ pc' = "exited" /\ ret' = IF sys.eof THEN ret ELSE 1
    /\ Stays /\ UNCHANGED <<todo, acc, out>>

RepairFileStep ==
    \/ RepairFileSetup \/ RepairFileLoad \/ FixFile \/ FixKind \/ FixedFile \/ RepairFileEnd

-----------------------------------------------------------------------------
\* When pacrepairfile succeeds, each of its files has, in every respect asked for, what
\* an mtree of a package that owns it says: a later step of fix_file does not undo what an
\* earlier one did.  And fix_file finds the owner of a path if the file list of the package
\* is in the order that the binary search of pu_filelist_contains_path compares in.
RecordedFor(path) ==
    LET owners == {p \in ToSet(acc.packages) :
                     p.mtree # None /\ \E i \in DOMAIN p.files : PathCmp(path, p.files[i]) = 0}
    IN  {e \in UNION {ToSet(MtreeEntries(p.mtree, None)) : p \in owners} :
           PathCmp(path, e.path) = 0}

AsRecorded(path) ==
    \E e \in RecordedFor(path) : \A kind \in ToSet(Kinds) : o[kind] => sys.fs[path][kind] = e[kind]

OwnerIsFound(path) ==
    \A p \in ToSet(acc.packages) :
      InOrder(p.files) =>
        (FilelistContains(p.files, path) <=> \E i \in DOMAIN p.files : PathCmp(path, p.files[i]) = 0)

RepairedAsRecorded ==
    /\ At("pacrepairfile", "exited") /\ acc # None /\ ret = 0 =>
         \A f \in ToSet(o.targets \o sys.stdin) :
           sys.real[f].resolves /\ sys.real[f].inside /\ AsRecorded(sys.real[f].path)
    /\ At("pacrepairfile", "file") =>
         \A f \in ToSet(todo) :
           sys.real[f].resolves /\ sys.real[f].inside => OwnerIsFound(sys.real[f].path)
=============================================================================
