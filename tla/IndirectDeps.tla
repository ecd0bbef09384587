---------------------------- MODULE IndirectDeps ----------------------------
(***************************************************************************)
(* analyze_indirect_dependencies of alchemist (indirect.rs): from the      *)
(* direct dependencies of all packages, the sets of packages Bazel has to  *)
(* install to build or to run one package.  Each set is the result of a    *)
(* depth-first search with an explicit stack, or of one loop.              *)
(*                                                                         *)
(* A package stands for its ebuild path, which the code keys its maps by.  *)
(* The sorting of the results for output is left out: results are sets.    *)
(***************************************************************************)
EXTENDS Naturals, FiniteSets, Sequences, SequencesExt

CONSTANTS
    Packages,   \* all packages local_map has an entry for
    Inputs      \* package graphs, each with the package to analyze

\* The direct dependencies of a package, by kind, in the order of its lists
Deps == [build_target : Seq(Packages), build_host : Seq(Packages),
         run_target : Seq(Packages), post_target : Seq(Packages),
         install_host : Seq(Packages)]

\* start is the package to analyze, broken those whose own analysis failed
ASSUME InputsAssumption == \A i \in Inputs :
    /\ i.start \in Packages
    /\ i.broken \subseteq Packages
    /\ \A p \in Packages : i.deps[p] \in Deps

VARIABLES
    input,
    phase,      \* the search under way, or how the analysis ended
    stack,      \* what the search has yet to look at, the top last
    visited,
    installSet,         \* IndirectDependencies.install_set
    buildTargetSet,     \* transitive_build_target_deps
    idepends,           \* the map of collect_direct_host_install_dependencies
    buildHostSet,       \* IndirectDependencies.build_host_set
    reusableHostSet,    \* IndirectDependencies.reusable_host_set
    reusableTargetSet   \* IndirectDependencies.reusable_target_set

search == <<phase, stack, visited>>
results == <<installSet, buildTargetSet, idepends, buildHostSet,
             reusableHostSet, reusableTargetSet>>
vars == <<input, search, results>>

Start == input.start
Direct(p) == input.deps[p]
Broken(p) == p \in input.broken

Init ==
    /\ input \in Inputs
    /\ phase = "begin"
    /\ stack = << >>
    /\ visited = {}
    /\ installSet = {}
    /\ buildTargetSet = {}
    /\ idepends = << >>
    /\ buildHostSet = {}
    /\ reusableHostSet = {}
    /\ reusableTargetSet = {}

\* Any package whose local analysis failed fails the whole analysis
Abort ==
    /\ phase' = "failed"
    /\ stack' = << >>
    /\ visited' = {}
    /\ UNCHANGED <<input, results>>

BeginSearch(name, seeds) ==
    /\ phase' = name
    /\ stack' = seeds
    /\ visited' = {}

Begin ==
    /\ phase = "begin"
    /\ ~Broken(Start)
    /\ BeginSearch("install", <<Start>>)
    /\ UNCHANGED <<input, results>>

BeginFails ==
    /\ phase = "begin"
    /\ Broken(Start)
    /\ Abort
----------------------------------------------------------------------------
(* collect_transitive_dependencies, for the kinds the search follows       *)

Follows(p) ==
    IF phase = "install" THEN Direct(p).run_target \o Direct(p).post_target
    ELSE Direct(p).run_target

Searching == phase \in {"install", "target"}

\* Mutant: the search looks at the top of the stack and does not pop it
SkipVisitedUnpopped ==
    /\ Searching
    /\ stack # << >>
    /\ Last(stack) \in visited
    /\ UNCHANGED vars

SkipVisited ==
    /\ Searching
    /\ stack # << >>
    /\ Last(stack) \in visited
    /\ stack' = Front(stack)
    /\ UNCHANGED <<input, phase, visited, results>>

Visit ==
    /\ Searching
    /\ stack # << >>
    /\ Last(stack) \notin visited
    /\ ~Broken(Last(stack))
    /\ visited' = visited \union {Last(stack)}
    /\ stack' = Front(stack) \o Follows(Last(stack))
    /\ UNCHANGED <<input, phase, results>>

VisitFails ==
    /\ Searching
    /\ stack # << >>
    /\ Last(stack) \notin visited
    /\ Broken(Last(stack))
    /\ Abort

EndInstall ==
    /\ phase = "install"
    /\ stack = << >>
    /\ installSet' = visited
    /\ BeginSearch("target", Direct(Start).build_target)
    /\ UNCHANGED <<input, buildTargetSet, idepends, buildHostSet,
                   reusableHostSet, reusableTargetSet>>

EndTarget ==
    /\ phase = "target"
    /\ stack = << >>
    /\ buildTargetSet' = visited
    /\ BeginSearch("idepend", << >>)
    /\ UNCHANGED <<input, installSet, idepends, buildHostSet,
                   reusableHostSet, reusableTargetSet>>
----------------------------------------------------------------------------
(* collect_direct_host_install_dependencies over the target set            *)

\* The inner loop inserts each IDEPEND under the key of the package that has
\* it: the last one stays.  None of these packages is broken, or the search
\* for them would have failed
InsertAll(map, p) ==
    LET ideps == Direct(p).install_host
    IN  IF ideps = << >> THEN map
        ELSE [q \in DOMAIN map \union {p} |-> IF q = p THEN Last(ideps) ELSE map[q]]

CollectIdepend(p) ==
    /\ phase = "idepend"
    /\ p \in buildTargetSet \ visited
    /\ visited' = visited \union {p}
    /\ idepends' = InsertAll(idepends, p)
    /\ UNCHANGED <<input, phase, stack, installSet, buildTargetSet, buildHostSet,
                   reusableHostSet, reusableTargetSet>>

\* package_intersection: the DEPENDs that are RDEPENDs too.  The order of the
\* list is left open: it decides what is looked at first, and no set
ReusableSeeds ==
    SetToSeq(ToSet(Direct(Start).build_target) \intersect ToSet(Direct(Start).run_target))

EndIdepend ==
    /\ phase = "idepend"
    /\ visited = buildTargetSet
    /\ buildHostSet' = ToSet(Direct(Start).build_host) \union Range(idepends)
    /\ BeginSearch("reusable", [i \in DOMAIN ReusableSeeds |-> <<ReusableSeeds[i], "target">>])
    /\ UNCHANGED <<input, installSet, buildTargetSet, idepends,
                   reusableHostSet, reusableTargetSet>>
----------------------------------------------------------------------------
(* collect_reusable_dependencies: packages of the host and of the target   *)
(* are different nodes, and an IDEPEND leads to the host                   *)

Typed(list, type) == [i \in DOMAIN list |-> <<list[i], type>>]

\* Mutant: an IDEPEND of a target package counts for the target
FollowsReusableSameType(node) ==
    Typed(Direct(node[1]).run_target \o Direct(node[1]).install_host, node[2])

FollowsReusable(node) ==
    Typed(Direct(node[1]).run_target, node[2]) \o Typed(Direct(node[1]).install_host, "host")

SkipReusable ==
    /\ phase = "reusable"
    /\ stack # << >>
    /\ Last(stack) \in visited
    /\ stack' = Front(stack)
    /\ UNCHANGED <<input, phase, visited, results>>

VisitReusable ==
    /\ phase = "reusable"
    /\ stack # << >>
    /\ Last(stack) \notin visited
    /\ ~Broken(Last(stack)[1])
    /\ visited' = visited \union {Last(stack)}
    /\ stack' = Front(stack) \o FollowsReusable(Last(stack))
    /\ UNCHANGED <<input, phase, results>>

VisitReusableFails ==
    /\ phase = "reusable"
    /\ stack # << >>
    /\ Last(stack) \notin visited
    /\ Broken(Last(stack)[1])
    /\ Abort

OfType(type) == {p \in Packages : <<p, type>> \in visited}

EndReusable ==
    /\ phase = "reusable"
    /\ stack = << >>
    /\ reusableHostSet' = OfType("host")
    /\ reusableTargetSet' = OfType("target")
    /\ BeginSearch("done", << >>)
    /\ UNCHANGED <<input, installSet, buildTargetSet, idepends, buildHostSet>>
----------------------------------------------------------------------------
Next ==
    \/ Begin
    \/ BeginFails
    \/ SkipVisited
    \/ Visit
    \/ VisitFails
    \/ EndInstall
    \/ EndTarget
    \/ \E p \in Packages : CollectIdepend(p)
    \/ EndIdepend
    \/ SkipReusable
    \/ VisitReusable
    \/ VisitReusableFails
    \/ EndReusable

\* The thread that analyzes a package runs until it ends
Spec == Init /\ [][Next]_vars /\ WF_vars(Next)
----------------------------------------------------------------------------
(* What the sets are meant to be                                           *)

Run(p) == ToSet(Direct(p).run_target)
Post(p) == ToSet(Direct(p).post_target)
Install(p) == ToSet(Direct(p).install_host)

\* The least set of packages with the seeds that one follows no edge out of
Closure(seeds, Edges(_)) ==
    {p \in Packages :
        \A C \in SUBSET Packages :
            seeds \subseteq C /\ (\A q \in C : Edges(q) \subseteq C) => p \in C}

RunAndPost(p) == Run(p) \union Post(p)
RunAndInstall(p) == Run(p) \union Install(p)

WantedInstallSet == Closure({Start}, RunAndPost)
WantedBuildTargetSet == Closure(ToSet(Direct(Start).build_target), Run)
WantedReusableTargets == Closure(ToSet(ReusableSeeds), Run)
WantedReusableHosts ==
    Closure(UNION {Install(p) : p \in WantedReusableTargets}, RunAndInstall)

TypeOK ==
    /\ phase \in {"begin", "install", "target", "idepend", "reusable", "done", "failed"}
    /\ installSet \subseteq Packages
    /\ buildTargetSet \subseteq Packages
    /\ idepends \in [DOMAIN idepends -> Packages]
    /\ DOMAIN idepends \subseteq buildTargetSet
    /\ buildHostSet \subseteq Packages
    /\ reusableHostSet \union reusableTargetSet \subseteq Packages

(* The install set is closed under RDEPEND and PDEPEND although these have *)
(* circles, and holds nothing else (indirect.rs:25-29).  Reusable          *)
(* dependencies are those reached from what is both DEPEND and RDEPEND;    *)
(* what an IDEPEND reaches counts for the host and only there, even where  *)
(* the same package is reached for the target too (indirect.rs:50-58).  A  *)
(* reusable SDK is a candidate base when its packages are a subset of what *)
(* is to be installed (indirect.rs:71-73), which those of the target are.  *)
SetsAreClosures ==
    phase = "done" =>
        /\ installSet = WantedInstallSet
        /\ reusableTargetSet = WantedReusableTargets
        /\ reusableHostSet = WantedReusableHosts
        /\ reusableTargetSet \subseteq buildTargetSet

\* Circular dependencies never keep a search going (indirect.rs:27-28).
AnalysisEnds == <>(phase \in {"done", "failed"})

\* "it includes the BDEPENDs declared by this package and all the IDEPENDs
\* specified by the package's DEPENDs and their transitive RDEPENDs"
\* (indirect.rs:32-34).
BuildHostSetIsComplete ==
    phase = "done" =>
        ToSet(Direct(Start).build_host) \union UNION {Install(p) : p \in buildTargetSet}
            \subseteq buildHostSet
============================================================================
