--------------------------- MODULE PackageAnalysis ----------------------------
(***************************************************************************)
(* The analysis of all packages of a board: what each needs on its own,    *)
(* then what the packages it depends on add.  The maps of the code are     *)
(* functions from the paths of ebuilds to results.                         *)
(***************************************************************************)
EXTENDS Boards

\* A look-up in a map that does not have the package ends alchemist
Panic == [ok |-> FALSE, panic |-> TRUE]

(* analyze_local, of a package as the resolver of the board loads it       *)
LocalAnalysis(bashrcs, direct, sources, supports, generates) ==
    IF ~direct.ok \/ ~sources.ok \/ "error" \in {supports, generates} THEN Failure
    ELSE Success([direct |-> direct.value, sources |-> sources.value, bashrcs |-> bashrcs,
                  supports |-> supports = "yes", generates |-> generates = "yes"])
AnalyzeReady(world, resolvers, cross, bazel, details) ==
    LET config == resolvers["target"].board.config
    IN  LocalAnalysis(Bashrcs(config, PackageRef(details)),
                      AnalyzeDirect(resolvers, world.hacks, details, cross),
                      AnalyzeSources(config, world.checkout, details.ebuild, details.uses),
                      EvalAll(bazel.supports, details.uses), EvalAll(bazel.generates, details.uses))
AnalyzeLocal(world, resolvers, cross, details) ==
    IF ~details.ok \/ ~details.ready THEN Failure
    ELSE AnalyzeReady(world, resolvers, cross,
                      BazelMetadata(Parts(world.disk, details.path)), details)
----------------------------------------------------------------------------
(* indirect.rs, which IndirectDeps models step by step: a search follows   *)
(* the direct dependencies of packages whose local analysis succeeded      *)

RECURSIVE Closure(_, _, _)
Closure(reached, next, nodes) ==
    LET new == UNION {next[n] : n \in nodes} \ reached
    IN  IF new = {} THEN reached ELSE Closure(reached \union new, next, new)

Known(locals) == [path : {p \in DOMAIN locals : locals[p].ok}, side : {"host", "target"}]

(* What a search finds from its seeds, or how it ends: next is where it    *)
(* goes on from the nodes that are known.  If it meets a package that      *)
(* failed and one that is not there at all, which comes first depends on   *)
(* the order of the code's lists; the failure is taken to                  *)
Search(locals, seeds, next) ==
    LET nodes == seeds \union UNION {next[n] : n \in DOMAIN next}
        found == Closure(seeds, [n \in nodes |-> IF n \in DOMAIN next THEN next[n] ELSE {}], seeds)
    IN  IF \E n \in found : n.path \in DOMAIN locals /\ ~locals[n.path].ok THEN Failure
        ELSE IF \E n \in found : n.path \notin DOMAIN locals THEN Panic
        ELSE Success(found)

Nodes(paths, side) == [path : paths, side : {side}]
PathsOf(nodes) == {n.path : n \in nodes}

\* collect_transitive_dependencies, along some kinds of dependencies
Transitive(locals, seeds, kinds) ==
    Search(locals, Nodes(seeds, "target"),
           [n \in Known(locals) |->
               Nodes(UNION {locals[n.path].value.direct[k] : k \in kinds}, "target")])

\* collect_direct_host_install_dependencies keeps the last one of a package
HostInstalled(locals, paths) ==
    {Last(locals[p].value.direct.installHost) :
        p \in {q \in paths : locals[q].value.direct.installHost # << >>}}

\* collect_reusable_dependencies
Reusable(locals, direct) ==
    Search(locals, Nodes(direct.build \intersect direct.run, "target"),
           [n \in Known(locals) |->
               LET d == locals[n.path].value.direct
               IN  Nodes(d.run, n.side) \union Nodes(ToSet(d.installHost), "host")])

(* analyze_indirect_dependencies: the first search that fails decides      *)
Indirect(locals, direct, install, built, reusable) ==
    LET failures == SelectSeq(<<install, built, reusable>>, LAMBDA s : ~s.ok)
        sideOf(side) == PathsOf({n \in reusable.value : n.side = side})
    IN  IF failures # << >> THEN Head(failures)
        ELSE Success([install |-> PathsOf(install.value),
                      buildHost |-> direct.buildHost
                                    \union HostInstalled(locals, PathsOf(built.value)),
                      reusableHost |-> sideOf("host"),
                      reusableTarget |-> sideOf("target")])
IndirectOf(locals, path, direct) ==
    Indirect(locals, direct, Transitive(locals, {path}, {"run", "post"}),
             Transitive(locals, direct.build, {"run"}), Reusable(locals, direct))
AnalyzeIndirect(locals, path) ==
    IF ~locals[path].ok THEN Failure ELSE IndirectOf(locals, path, locals[path].value.direct)

\* The last part of analyze_packages: local and global results joined
JoinAnalyses(locals, globals) ==
    [path \in DOMAIN locals |->
        IF globals[path].ok
        THEN Success([local |-> locals[path].value, indirect |-> globals[path].value])
        ELSE Failure]
----------------------------------------------------------------------------
(* What the SDK holds: get_sdk_implicit_system_package                     *)
ImplicitSystemName == "virtual/target-sdk-implicit-system"
ImplicitSystem(details, packages) ==
    LET best == SelectBest(SelectSeq(details, LAMBDA p : p.name = ImplicitSystemName))
    IN  {b.path : b \in {p \in best : packages[p.path].ok}}

\* compute_provided_packages: names and versions
NamesOf(disk, found) ==
    IF found.ok
    THEN Success({[name |-> EbuildAt(disk, p).name, version |-> EbuildAt(disk, p).version] :
                     p \in PathsOf(found.value)})
    ELSE Failure
ProvidedBy(disk, locals, root) == NamesOf(disk, Transitive(locals, {root}, {"run"}))

\* compute_bootstrap_packages
ToolsOf(locals, paths) ==
    UNION {locals[p].value.direct.buildHost \union ToSet(locals[p].value.direct.installHost) :
              p \in paths}
Analyzable(locals, needed) == IF \A p \in needed : locals[p].ok THEN Success(needed) ELSE Failure
Bootstrap(locals, root) ==
    LET found == Transitive(locals, {root}, {"build", "run"})
    IN  IF found.ok THEN Analyzable(locals, ToolsOf(locals, PathsOf(found.value))) ELSE Failure
===============================================================================
