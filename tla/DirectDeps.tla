------------------------------ MODULE DirectDeps ------------------------------
(***************************************************************************)
(* The package resolver and the analysis of direct dependencies.           *)
(*                                                                         *)
(* A resolver is [disk, board, details], where details is the function     *)
(* from the paths of its ebuilds that can be loaded to their packages; the *)
(* results name packages by their paths.  An ebuild has, for each kind of  *)
(* dependency, an optional sequence of expressions: none if it does not    *)
(* parse.                                                                  *)
(***************************************************************************)
EXTENDS PackageLoading

Kinds == {"build", "run", "post", "buildHost", "installHost"}

\* Mutant: packages that did not load are left out
SelectBestLoaded(packages) ==
    LET open == SelectSeq(packages, LAMBDA p : PackageRef(p).ready = {TRUE})
        worse(best, p) == \A b \in best : CompareVersions(b.version, p.version) <= 0
    IN  FoldLeft(LAMBDA best, p : IF worse(best, p) THEN {p} ELSE best, {}, open)

(* select_best_version: of tied packages the last, and maybe one that did  *)
(* not load; none is {}                                                    *)
SelectBest(packages) ==
    LET open == SelectSeq(packages, LAMBDA p : PackageRef(p).ready # {FALSE})
        worse(best, p) == \A b \in best : CompareVersions(b.version, p.version) <= 0
    IN  FoldLeft(LAMBDA best, p : IF worse(best, p) THEN {p} ELSE best, {}, open)

DetailsOf(r, paths) == [i \in DOMAIN paths |-> r.details[paths[i]]]
LoadError(r, paths) == \E i \in DOMAIN paths : LoadFails(r.disk, paths[i])

\* find_packages, for an atom of the command line or of a configuration
FindPackages(r, atom) ==
    LET paths == FindEbuilds(r.disk, r.board.repos, atom.name)
    IN  IF LoadError(r, paths) THEN Failure
        ELSE Success(SelectSeq(DetailsOf(r, paths), LAMBDA p : ConfigMatches(atom, PackageRef(p))))

\* What the best of some packages is, if it can be told
Reliable(best) == IF \E b \in best : ~b.ok THEN Failure ELSE Success(best)

\* find_best_package
FindBestPackage(r, atom) ==
    LET found == FindPackages(r, atom)
    IN  IF found.ok THEN Reliable(SelectBest(found.value)) ELSE Failure

\* find_best_package_dependency: any error of a load or of a match counts
BestOfJudged(judged) ==
    LET matching == SelectSeq(judged, LAMBDA j : j.verdict = "yes")
    IN  IF \E i \in DOMAIN judged : judged[i].verdict = "error" THEN Failure
        ELSE Reliable(SelectBest([i \in DOMAIN matching |-> matching[i].package]))
FindBestDependency(r, uses, atom) ==
    LET paths == FindEbuilds(r.disk, r.board.repos, atom.name)
        judged(p) == [package |-> p, verdict |-> Matches(atom, uses, PackageRef(p))]
    IN  IF LoadError(r, paths) THEN Failure
        ELSE BestOfJudged([i \in DOMAIN paths |-> judged(r.details[paths[i]])])

Provided(r, atom) == \E p \in r.board.config.provided : MatchesProvided(atom, p)
----------------------------------------------------------------------------
RECURSIVE MapLeaves(_, _)
MapLeaves(d, to) ==
    CASE d.t = "leaf" -> to[d.leaf]
      [] d.t = "const" -> d
      [] OTHER -> [d EXCEPT !.kids = [i \in DOMAIN d.kids |-> MapLeaves(d.kids[i], to)]]

\* Atoms that hold whatever packages there are; allow is optional
Ignored(r, atom, allow) ==
    atom.block \/ (\E list \in allow : atom.name \notin list) \/ Provided(r, atom)

(* flatten_dependencies: an atom is ignored, or becomes the best package   *)
(* it can be satisfied by; a failure to find one is as good as none        *)
Judged(best) ==
    IF best.ok /\ best.value # {} THEN Leaf((CHOOSE b \in best.value : TRUE).path)
    ELSE Const(FALSE)
JudgedAtom(r, uses, allow, atom) ==
    IF Ignored(r, atom, allow) THEN Const(TRUE) ELSE Judged(FindBestDependency(r, uses, atom))

FlattenElided(r, tree, uses, allow) ==
    MapLeaves(tree, [a \in LeavesOf(tree) |-> JudgedAtom(r, uses, allow, a)])
Flatten(r, deps, uses, allow) ==
    ParseSimplified(Simplify(PickFirst(Simplify(FlattenElided(r, Elide(deps, uses), uses, allow)))))

(* rewrite_subslot_deps: atoms with := get the slot of their best package; *)
(* atoms that nothing matches stay, and an error fails the whole           *)
Rebuilds(r, atom) == (\E d \in atom.slot : d.rebuild) /\ ~Provided(r, atom)
Bound(atom, best) ==
    LET to(p) == [slot |-> {[main |-> p.slot.main, sub |-> {p.slot.sub}]}, rebuild |-> TRUE]
    IN  CASE ~best.ok -> Failure
          [] best.ok /\ best.value = {} -> Success(atom)
          [] OTHER -> Success([atom EXCEPT !.slot = {to(p) : p \in best.value}])
BoundAtom(r, uses, atom) ==
    IF Rebuilds(r, atom) THEN Bound(atom, FindBestDependency(r, uses, atom)) ELSE Success(atom)

Written(tree) == IF tree.t \in {"leaf", "all", "any"} THEN Success(tree) ELSE Failure
Rewritten(tree, atoms) ==
    IF \E a \in DOMAIN atoms : ~atoms[a].ok THEN Failure
    ELSE Written(Simplify(MapLeaves(tree, [a \in DOMAIN atoms |-> Leaf(atoms[a].value)])))
RewriteElided(r, tree, uses) ==
    Rewritten(tree, [a \in LeavesOf(tree) |-> BoundAtom(r, uses, a)])
RewriteSubslots(r, deps, uses) == RewriteElided(r, Simplify(Elide(deps, uses)), uses)
----------------------------------------------------------------------------
(* get_extra_dependencies: a table of packages at one version, written the *)
(* same but for the revision, one of packages at any version, and what     *)
(* packages with file capabilities need                                    *)
Concerns(x, e) == x.name = e.name /\ \A v \in x.version : v = WithoutRevision(e.version)
Extras(table, e, kind, cross, libcap) ==
    LET applies(x) == Concerns(x, e) /\ x.kind = kind /\ (x.crossOnly => cross)
    IN  Collect(table, applies, LAMBDA x : x.deps)
        \o IF "fcaps" \in ToSet(e.inherits) /\ kind = "installHost" THEN <<Leaf(libcap)>> ELSE << >>

\* IDEPEND is read from EAPI 8 on
Declared(e, kind) == IF kind = "installHost" /\ e.eapi < 8 THEN {<< >>} ELSE e.deps[kind]
Expressions(hacks, e, kind, cross) ==
    {Node("all", kids \o Extras(hacks.extras, e, kind, cross, hacks.libcap)) :
        kids \in Declared(e, kind)}

Extraction(as, kind, uses, side, allow) ==
    [as |-> as, kind |-> kind, uses |-> uses, side |-> side, allow |-> allow]

\* Mutant: the host's tools are looked up among the packages of the board
ExtractionsOnBoard(hacks, e, uses) ==
    <<Extraction("build", "build", uses, "target", {})>>
    \o (IF "test" \in DOMAIN uses
        THEN <<Extraction("test", "build", [uses EXCEPT !["test"] = TRUE], "target", {})>>
        ELSE << >>)
    \o <<Extraction("run", "run", uses, "target", {}),
         Extraction("buildHost", "buildHost", uses, "target", {})>>
    \o (IF e.eapi < 7
        THEN <<Extraction("oldBuildHost", "build", uses, "host", {hacks.allowList})>>
        ELSE << >>)
    \o <<Extraction("installHost", "installHost", uses, "host", {}),
         Extraction("post", "post", uses, "target", {})>>

(* The extractions of analyze_direct_dependencies, in its order: for the   *)
(* tests the flag test is on, and before EAPI 7 some build dependencies    *)
(* are those of the host                                                   *)
Extractions(hacks, e, uses) ==
    <<Extraction("build", "build", uses, "target", {})>>
    \o (IF "test" \in DOMAIN uses
        THEN <<Extraction("test", "build", [uses EXCEPT !["test"] = TRUE], "target", {})>>
        ELSE << >>)
    \o <<Extraction("run", "run", uses, "target", {}),
         Extraction("buildHost", "buildHost", uses, "host", {})>>
    \o (IF e.eapi < 7
        THEN <<Extraction("oldBuildHost", "build", uses, "host", {hacks.allowList})>>
        ELSE << >>)
    \o <<Extraction("installHost", "installHost", uses, "host", {}),
         Extraction("post", "post", uses, "target", {})>>

\* extract_dependencies_use: both halves have to succeed
Extracted(attempts) ==
    LET good == {a \in attempts : a.flat.ok /\ a.rewritten.ok}
    IN  IF good = {} THEN Failure
        ELSE Success([deps |-> (CHOOSE a \in good : TRUE).flat.value,
                      expression |-> (CHOOSE a \in good : TRUE).rewritten.value])
Extract(resolvers, hacks, e, x, cross) ==
    LET r == resolvers[x.side]
    IN  Extracted({[flat |-> Flatten(r, deps, x.uses, x.allow),
                    rewritten |-> RewriteSubslots(r, deps, x.uses)] :
                       deps \in Expressions(hacks, e, x.kind, cross)})

RustSource(e) ==
    "cros-rust" \in ToSet(e.inherits) /\ "cros-workon" \notin ToSet(e.inherits) /\ ~e.hasCompile

\* The packages of two sets, of those that look the same the first set's
Joined(disk, a, b) ==
    LET alike(p, q) == /\ EbuildAt(disk, p).name = EbuildAt(disk, q).name
                       /\ Same(EbuildAt(disk, p).version, EbuildAt(disk, q).version)
    IN  a \union {p \in b : \A q \in a : ~alike(p, q)}

(* analyze_direct_dependencies: only the tests may fail, and have the      *)
(* dependencies of the build then.  Of installHost the order matters later *)
Assembled(disk, e, steps, results) ==
    LET list(as) == FlattenSeq([i \in DOMAIN steps |->
                        IF steps[i].as = as /\ results[i].ok THEN results[i].value.deps ELSE << >>])
        got(as) == ToSet(list(as))
        tested == \E i \in DOMAIN steps : steps[i].as = "test" /\ results[i].ok
    IN  IF \E i \in DOMAIN steps : steps[i].as # "test" /\ ~results[i].ok THEN Failure
        ELSE Success([build |-> got("build"),
                      test |-> got(IF tested THEN "test" ELSE "build"),
                      run |-> Joined(disk, got("run"), IF RustSource(e) THEN got("build") ELSE {}),
                      post |-> got("post"),
                      buildHost |-> got("buildHost") \union got("oldBuildHost"),
                      installHost |-> list("installHost")])
AnalyzeSteps(resolvers, hacks, e, steps, cross) ==
    Assembled(resolvers["target"].disk, e, steps,
              [i \in DOMAIN steps |-> Extract(resolvers, hacks, e, steps[i], cross)])
AnalyzeDirect(resolvers, hacks, details, cross) ==
    AnalyzeSteps(resolvers, hacks, details.ebuild,
                 Extractions(hacks, details.ebuild, details.uses), cross)
===============================================================================
