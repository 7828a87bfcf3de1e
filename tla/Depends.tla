------------------------------- MODULE Depends -------------------------------
(***************************************************************************)
(* lib/pacutils/depends.c and what libalpm says of the same: which package *)
(* satisfies which dependency.  A package has a name, a version and        *)
(* provisions; a dependency has a name and a comparison with a version.    *)
(* Versions are numbers, 0 is the missing version of a provision, which    *)
(* alpm_pkg_vercmp takes to be smaller than any other.                     *)
(***************************************************************************)
EXTENDS Integers, Sequences, SequencesExt, Lists

VersionSatisfies(ver, dep) ==
    CASE dep.mod = "any" -> TRUE
      [] dep.mod = "=" -> ver = dep.version
      [] dep.mod = "<=" -> ver <= dep.version
      [] dep.mod = ">=" -> ver >= dep.version
      [] dep.mod = "<" -> ver < dep.version
      [] dep.mod = ">" -> ver > dep.version

Literally(pkg, dep) == pkg.name = dep.name /\ VersionSatisfies(pkg.version, dep)

\* pu_pkg_satisfies_dep
Satisfies(pkg, dep) ==
    \/ Literally(pkg, dep)
    \/ \E p \in pkg.provides : p.name = dep.name /\ VersionSatisfies(p.version, dep)

\* libalpm compares a provision with a versioned dependency only if it has a version.
AlpmSatisfies(pkg, dep) ==
    \/ Literally(pkg, dep)
    \/ \E p \in pkg.provides : /\ p.name = dep.name /\ VersionSatisfies(p.version, dep)
                               /\ dep.mod = "any" \/ p.version # 0

\* pu_pkg_depends_on, pu_pkg_optdepends_on
DependsOn(pkg, on) == \E d \in ToSet(pkg.depends) : Satisfies(on, d)
OptdependsOn(pkg, on) == \E d \in ToSet(pkg.optdepends) : Satisfies(on, d)

\* pu_pkg_find_optionalfor, in the order of the list
FindOptionalFor(pkg, pkgs) == Select(pkgs, {p \in ToSet(pkgs) : OptdependsOn(p, pkg)})

\* alpm_pkg_compute_requiredby, alpm_pkg_compute_optionalfor
RequiredBy(pkg, pkgs) ==
    {p \in ToSet(pkgs) : \E d \in ToSet(p.depends) : AlpmSatisfies(pkg, d)}
OptionalFor(pkg, pkgs) ==
    {p \in ToSet(pkgs) : \E d \in ToSet(p.optdepends) : AlpmSatisfies(pkg, d)}

\* alpm_find_satisfier: the first of the list.
Satisfiers(pkgs, dep) == Select(pkgs, {p \in ToSet(pkgs) : AlpmSatisfies(p, dep)})
HasSatisfier(pkgs, dep) == Satisfiers(pkgs, dep) # << >>
FindSatisfier(pkgs, dep) == Head(Satisfiers(pkgs, dep))
=============================================================================
