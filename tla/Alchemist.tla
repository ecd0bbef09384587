------------------------------- MODULE Alchemist ------------------------------
(***************************************************************************)
(* One run of alchemist: it loads the boards, then either shows packages   *)
(* with their dependencies (dump-package) or analyzes all packages of the  *)
(* host and of the target and generates the Bazel repository               *)
(* (generate-repo).  Packages are loaded in parallel, through the caches   *)
(* of PackageCache; the rest is done by the main thread, or in parallel on *)
(* packages that are all loaded and do not affect each other.              *)
(***************************************************************************)
EXTENDS BuildFiles, PackageCache, Checkouts

VARIABLES
    world,
    outcome,    \* "setup", "running", or how the run ended
    boards,     \* the boards that have been loaded, or failed to
    todo,       \* what is left to do, the current task first
    begun,      \* whether the packages the current task needs were asked for
    locals,     \* results of analyze_locals, by board
    packages,   \* results of analyze_packages, by board
    sdk,        \* the packages that SDKs are made of
    dumped      \* direct dependencies shown, by package

mainVars == <<world, outcome, boards, todo, begun, locals, packages, sdk, dumped>>
vars == <<mainVars, cacheVars>>

World == Worlds[world]
Sides == DOMAIN World.boards
Target == IF "target" \in Sides THEN "target" ELSE "host"
Board(side) == boards[side].value
BoardPaths(side) == ToSet(Board(side).paths)

\* A resolver knows the packages that have been loaded
Resolver(side) ==
    [disk |-> World.disk, board |-> Board(side),
     details |-> [p \in {q \in Files : loaded[side][q] = "full"} |->
                     Board(side).details[p]]]

\* "host" and "target" for the analysis of the packages of a board
Resolvers(side) == ("host" :> Resolver("host")) @@ ("target" :> Resolver(side))
Cross(side) == Board("host").chost # Board(side).chost

Task(do, side) == [do |-> do, side |-> side]
Plan ==
    IF World.command.do = "dump"
    THEN [i \in DOMAIN World.command.atoms |-> [do |-> "find", atom |-> World.command.atoms[i]]]
    ELSE <<Task("overlays", "host"), Task("load", "host"), Task("analyze", "host"),
           Task("join", "host"), Task("sdk", "host")>>
         \o IF "target" \in Sides
            THEN <<Task("load", "target"), Task("analyze", "target"), Task("join", "target"),
                   Task("cross", "target")>>
            ELSE << >>

Init ==
    /\ world \in DOMAIN Worlds
    /\ outcome = "setup"
    /\ boards = << >>
    /\ todo = << >>
    /\ begun = FALSE
    /\ locals = << >>
    /\ packages = << >>
    /\ sdk = << >>
    /\ dumped = << >>
    /\ CacheInit

End(how) == outcome' = how /\ todo' = << >>
results == <<locals, packages, sdk, dumped>>

\* alchemist_main up to the command
LoadBoards ==
    /\ outcome = "setup"
    /\ boards = << >>
    /\ boards' = [side \in Sides |-> LoadBoard(World, side)]
    /\ UNCHANGED <<world, outcome, todo, begun, results, cacheVars>>

SetUp ==
    /\ outcome = "setup"
    /\ boards # << >> /\ \A side \in Sides : boards[side].ok
    /\ outcome' = "running"
    /\ todo' = Plan
    /\ UNCHANGED <<world, boards, begun, results, cacheVars>>

SetUpFails ==
    /\ outcome = "setup"
    /\ boards # << >> /\ \E side \in Sides : ~boards[side].ok
    /\ End("failed")
    /\ UNCHANGED <<world, boards, begun, results, cacheVars>>
----------------------------------------------------------------------------
(* The packages a task needs: all of a board, those of one name, or for an *)
(* extraction of dependencies those of the names of its atoms, each atom a *)
(* collection of its own                                                   *)
Current == Head(todo)
Doing(what) == outcome = "running" /\ todo # << >> /\ Current.do = what

Loads(side, paths, collection) ==
    {[loader |-> side, path |-> p, for |-> collection] : p \in paths}
Named(side, name) == ToSet(FindEbuilds(World.disk, Board(side).repos, name))

\* The extraction a task of dump-package is at, and its expression
DumpedEbuild == Board(Target).details[Current.path].ebuild
DumpedUses == Board(Target).details[Current.path].uses
DumpSteps == Extractions(World.hacks, DumpedEbuild, DumpedUses)
Step == DumpSteps[Current.step]
StepSide == IF Step.side = "host" THEN "host" ELSE Target
StepTrees == Expressions(World.hacks, DumpedEbuild, Step.kind, Cross(Target))

\* The atoms that are looked up in one half of an extraction
LookedUp(r, step, tree) ==
    IF Current.half = "flatten"
    THEN {a \in LeavesOf(Elide(tree, step.uses)) : ~Ignored(r, a, step.allow)}
    ELSE {a \in LeavesOf(Simplify(Elide(tree, step.uses))) : Rebuilds(r, a)}

AskedBy(atoms) ==
    LET order == SetToSeq(atoms)
    IN  UNION {Loads(StepSide, Named(StepSide, order[i].name), i) : i \in DOMAIN order}

Needs ==
    CASE Current.do = "load" -> Loads(Current.side, BoardPaths(Current.side), 1)
      [] Current.do = "find" -> Loads(Target, Named(Target, Current.atom.name), 1)
      [] Current.do = "dump" ->
             UNION {AskedBy(atoms) : atoms \in
                 {LookedUp(r, step, tree) : r \in {Resolver(StepSide)}, step \in {Step}, tree \in StepTrees}}
      [] OTHER -> {}

Begin ==
    /\ outcome = "running"
    /\ todo # << >>
    /\ ~begun
    /\ begun' = TRUE
    /\ \E needs \in {Needs} : Ask(needs)
    /\ UNCHANGED <<world, boards, outcome, todo, results>>

\* The main thread goes on when all that was asked for is there
Ready(what) == Doing(what) /\ begun /\ Quiet
NextTask == begun' = FALSE /\ todo' = Tail(todo)

\* A load that fails ends the command, whether its board needs the package or not
LoadsFail ==
    /\ Ready("load") \/ Ready("find")
    /\ failed # {}
    /\ End("failed")
    /\ UNCHANGED <<world, boards, begun, results, cacheVars>>

Loaded ==
    /\ Ready("load")
    /\ failed = {}
    /\ NextTask
    /\ UNCHANGED <<world, boards, outcome, results, cacheVars>>
----------------------------------------------------------------------------
(* dump-package                                                            *)

\* Packages that did not load are shown without dependencies
Found ==
    LET found == FindPackages(Resolver(Target), Current.atom).value
        shown == SelectSeq(found, LAMBDA p : p.ok)
    IN  /\ Ready("find")
        /\ failed = {}
        /\ begun' = FALSE
        /\ todo' = [i \in DOMAIN shown |->
                        [do |-> "dump", path |-> shown[i].path, step |-> 1, half |-> "flatten"]]
                   \o Tail(todo)
        /\ UNCHANGED <<world, boards, outcome, results, cacheVars>>

\* Does a half of an extraction succeed?
HalfHolds ==
    \E tree \in StepTrees, r \in {Resolver(StepSide)}, step \in {Step} :
        IF Current.half = "flatten"
        THEN Flatten(r, tree, step.uses, step.allow).ok
        ELSE RewriteSubslots(r, tree, step.uses).ok

Forward(task) == begun' = FALSE /\ todo' = <<task>> \o Tail(todo)
NextStep == [Current EXCEPT !.step = @ + 1, !.half = "flatten"]
Show(result) == dumped' = (Current.path :> result) @@ dumped

FirstHalf(holds) ==
    /\ Current.half = "flatten"
    /\ holds
    /\ Forward([Current EXCEPT !.half = "rewrite"])
    /\ UNCHANGED <<world, boards, outcome, results, cacheVars>>

\* An extraction is complete, or is that of the tests and failed
StepEnds(holds) ==
    /\ (Current.half = "rewrite" /\ holds) \/ (Step.as = "test" /\ ~holds)
    /\ Current.step < Len(DumpSteps)
    /\ Forward(NextStep)
    /\ UNCHANGED <<world, boards, outcome, results, cacheVars>>

\* The last extraction is complete, or one other than that of the tests failed
Shown(holds) ==
    /\ \/ Current.half = "rewrite" /\ holds /\ Current.step = Len(DumpSteps)
       \/ Step.as # "test" /\ ~holds
    /\ NextTask
    /\ Show(IF holds
            THEN AnalyzeDirect(Resolvers(Target), World.hacks,
                               Board(Target).details[Current.path], Cross(Target))
            ELSE Failure)
    /\ UNCHANGED <<world, boards, outcome, locals, packages, sdk, cacheVars>>

AfterHalf(holds) == FirstHalf(holds) \/ StepEnds(holds) \/ Shown(holds)
DumpStep == Ready("dump") /\ \E holds \in {HalfHolds} : AfterHalf(holds)
----------------------------------------------------------------------------
(* generate-repo                                                           *)

Fails ==
    /\ End("failed")
    /\ UNCHANGED <<world, boards, begun, results, cacheVars>>

\* The overlays and bashrcs of the boards are generated before all else
Overlays ==
    /\ Ready("overlays")
    /\ BashrcsHold(boards)
    /\ NextTask
    /\ UNCHANGED <<world, boards, outcome, results, cacheVars>>
OverlaysFail == Ready("overlays") /\ ~BashrcsHold(boards) /\ Fails

\* analyze_locals: each package on its own
AnalyzeLocals ==
    LET side == Current.side
        r == Resolvers(side)
    IN  /\ Ready("analyze")
        /\ locals' = (side :> [p \in BoardPaths(side) |->
               AnalyzeLocal(World, r, Cross(side), Board(side).details[p])]) @@ locals
        /\ NextTask
        /\ UNCHANGED <<world, boards, outcome, packages, sdk, dumped, cacheVars>>

\* analyze_globals, of all packages, and then the two joined
Join(globals) ==
    /\ \A p \in DOMAIN globals : globals[p] # Panic
    /\ packages' = (Current.side :> JoinAnalyses(locals[Current.side], globals)) @@ packages
    /\ NextTask
    /\ UNCHANGED <<world, boards, outcome, locals, sdk, dumped, cacheVars>>

JoinPanics(globals) ==
    /\ \E p \in DOMAIN globals : globals[p] = Panic
    /\ End("panicked")
    /\ UNCHANGED <<world, boards, begun, results, cacheVars>>

JoinOrPanic(globals) == Join(globals) \/ JoinPanics(globals)
AnalyzeGlobals ==
    /\ Ready("join")
    /\ JoinOrPanic([p \in BoardPaths(Current.side) |-> AnalyzeIndirect(locals[Current.side], p)])

\* Packages as compute_provided_packages and its twin look them up
Analyzed(side) ==
    [p \in DOMAIN packages[side] |->
        IF packages[side][p].ok THEN Success([direct |-> packages[side][p].value.local.direct])
        ELSE Failure]

\* A board has a primary toolchain, and the targets of its packages can be written
Primary(side) == LoadToolchains(World.disk, Board(side).repos).primary
HasPrimary(side) == IF Primary(side) = {} THEN Failure ELSE Success({})
Entries(side) == IF EntriesHold(Board(side).repos, packages[side]) THEN Success({}) ELSE Failure

(* The stages of the host: each needs the packages of its SDK, and the     *)
(* packages need labels                                                    *)
HostDetails == DetailsOf(Resolver("host"), Board("host").paths)
MakeSdk(parts) ==
    /\ \A part \in DOMAIN parts : parts[part].ok
    /\ sdk' = [part \in DOMAIN parts |-> parts[part].value] @@ sdk
    /\ NextTask
    /\ UNCHANGED <<world, boards, outcome, locals, packages, dumped, cacheVars>>

SdkOrNot(parts) == MakeSdk(parts) \/ ((\E part \in DOMAIN parts : ~parts[part].ok) /\ Fails)
WithRoot(roots) ==
    \/ roots = {} /\ Fails
    \/ \E root \in roots :
           SdkOrNot([root |-> Success(root),
                     provided |-> ProvidedBy(World.disk, Analyzed("host"), root),
                     bootstrap |-> Bootstrap(Analyzed("host"), root),
                     primordial |-> TargetSdk(Resolver("host")), toolchain |-> HasPrimary("host"),
                     entries |-> Entries("host")])
HostSdk == Ready("sdk") /\ WithRoot(ImplicitSystem(HostDetails, packages["host"]))

\* The board's SDK
CompilerFor(primary) ==
    IF primary = {} THEN Failure
    ELSE CrossCompiler(Resolver("host"), (CHOOSE t \in primary : TRUE).name)
CrossSdk ==
    /\ Ready("cross")
    /\ SdkOrNot([board |-> TargetSdk(Resolver("target")),
                 compiler |-> CompilerFor(Primary("target")), entries |-> Entries("target")])

Complete ==
    /\ outcome = "running"
    /\ todo = << >>
    /\ End("done")
    /\ UNCHANGED <<world, boards, begun, results, cacheVars>>
----------------------------------------------------------------------------
Main ==
    \/ LoadBoards \/ SetUp \/ SetUpFails \/ Begin \/ LoadsFail \/ Loaded
    \/ Found \/ DumpStep
    \/ Overlays \/ OverlaysFail \/ AnalyzeLocals \/ AnalyzeGlobals \/ HostSdk \/ CrossSdk \/ Complete

\* Of the threads of the pool a world has some
Pool(t) == t \in World.workers /\ Work(t) /\ UNCHANGED mainVars

\* The process is gone; in no other state is there nothing to do
Final == {"failed", "panicked", "done"}
Ended == outcome \in Final /\ UNCHANGED vars

Next == Main \/ (\E t \in Threads : Pool(t)) \/ Ended

(* The scheduler runs every thread that is not waiting.  The main thread   *)
(* waits for the pool only: this is WF_vars(Main), with what is in the way *)
(* of ENABLED Main written out                                             *)
MainWaits == outcome \in Final \/ (begun /\ ~Quiet)
MainRuns == []<>MainWaits \/ []<><<Main>>_vars
Fairness == MainRuns /\ \A t \in Threads : WF_vars(Pool(t))
Spec == Init /\ [][Next]_vars /\ Fairness
----------------------------------------------------------------------------
(* What the analyses of packages gave, those shown by dump-package as well *)
Succeeded(found) == {p \in DOMAIN found : found[p].ok}
Analyses ==
    UNION {{[side |-> side, path |-> p, direct |-> packages[side][p].value.local.direct] :
               p \in Succeeded(packages[side])} : side \in DOMAIN packages}
    \union {[side |-> Target, path |-> p, direct |-> dumped[p].value] : p \in Succeeded(dumped)}

Tasks == {"overlays", "load", "analyze", "join", "sdk", "cross", "find", "dump"}

\* Types; a dependency is a package of the board it was looked up on
TypeOK ==
    /\ CacheTypeOK
    /\ world \in DOMAIN Worlds
    /\ outcome \in {"setup", "running"} \union Final
    /\ \A i \in DOMAIN todo : todo[i].do \in Tasks
    /\ begun \in BOOLEAN
    /\ DOMAIN packages \subseteq DOMAIN locals
    /\ \A side \in DOMAIN packages : DOMAIN packages[side] = BoardPaths(side)
    /\ outcome \in Final => \A a \in Analyses :
           /\ UNION {a.direct[as] : as \in {"build", "test", "run", "post"}} \subseteq BoardPaths(a.side)
           /\ a.direct.buildHost \union ToSet(a.direct.installHost) \subseteq BoardPaths("host")

\* The resolver of a board all packages of which have been loaded
FullResolver(side) ==
    [disk |-> World.disk, board |-> Board(side), details |-> Board(side).details]

\* Does an expression hold when some packages are there, by the semantics of
\* expressions?  Blocks are not looked at
HoldsWith(r, tree, uses, chosen) ==
    Evaluate(tree, uses, [a \in LeavesOf(tree) |->
        Verdict(\/ a.block \/ Provided(r, a)
                \/ \E p \in chosen :
                       MatchesIgnoringBlock(a, uses, PackageRef(r.details[p])) = "yes")]) # "no"

(* What analyze_direct_dependencies picks for a package satisfies what the *)
(* ebuild asks for: with its flags, every *DEPEND holds of the packages    *)
(* chosen for it, through conditions, any-ofs and atoms that are provided  *)
DependenciesHold ==
    outcome \in Final => \A a \in Analyses :
        LET e == Board(a.side).details[a.path].ebuild
            uses == Board(a.side).details[a.path].uses
            chosen(kind) == IF kind = "installHost" THEN ToSet(a.direct[kind]) ELSE a.direct[kind]
        IN  \A kind \in Kinds : \A tree \in Expressions(World.hacks, e, kind, Cross(a.side)) :
                HoldsWith(FullResolver(IF kind \in {"buildHost", "installHost"} THEN "host" ELSE a.side),
                          tree, uses, chosen(kind))

\* What the packages of which only the name and the version are known could be
Slots == {[main |-> "0", sub |-> "0"], [main |-> "1", sub |-> "1"]}
Completions(r, atom) ==
    LET broken == {p \in DOMAIN r.details : r.details[p].name = atom.name /\ ~r.details[p].ok}
        flags == {d.flag : d \in ToSet(atom.uses)}
        could(p, slot, uses, ready) == [r.details[p] EXCEPT !.ok = TRUE]
                                       @@ [slot |-> slot, uses |-> uses, ready |-> ready]
    IN  {[r EXCEPT !.details = [p \in broken |-> could(p, c[p].slot, c[p].uses, c[p].ready)] @@ @] :
            c \in [broken -> [slot : Slots, uses : [flags -> BOOLEAN], ready : BOOLEAN]]}

(* find_best_package_dependency answers only when it can: the package it   *)
(* gives, or that there is none, does not depend on what the packages are  *)
(* that could not be loaded                                                *)
BestIsReliable ==
    (outcome \in Final /\ \A side \in Sides : boards[side].ok) =>
        \A p \in Succeeded(Board(Target).details) :
            LET r == FullResolver(Target)
                uses == r.details[p].uses
                e == r.details[p].ebuild
            IN  \A tree \in UNION {Expressions(World.hacks, e, kind, FALSE) : kind \in Kinds} :
                \A atom \in LeavesOf(tree) :
                    LET best == FindBestDependency(r, uses, atom)
                    IN  best.ok => \A full \in Completions(r, atom) :
                                       FindBestDependency(full, uses, atom) = best

\* The BUILD files of a run, with those of the Bazel packages of sources
HasTarget == "target" \in Sides
GeneratedStages == ToSet(Stages(sdk.provided, HasTarget))
FoundSources ==
    UNION {{packages[side][p].value.local.sources : p \in Succeeded(packages[side])} :
              side \in DOMAIN packages}
LocalSources == UNION {s.local : s \in FoundSources}
SourceChildren == Children(LocalSources, World.rank)

HostFiles ==
    HostSdkFiles(sdk.root, sdk.bootstrap, sdk.primordial)
    \union PublicFiles("host", Stage2, Board("host"), packages["host"])
BoardFiles ==
    {BoardSdkFile(sdk.board, sdk.compiler), ImagesFile}
    \union PublicFiles("target", StageBoard, Board("target"), packages["target"])
Generated ==
    OverlayFiles(World.disk, boards)
    \union {BashrcFile(boards), DepsFile(FoundSources)}
    \union ConfigFiles(HasTarget) \union SysrootFiles(HasTarget)
    \union SourceFiles(World, LocalSources, SourceChildren)
    \union UNION {PackageFiles(World.disk, s, packages[s.side]) : s \in GeneratedStages}
    \union HostFiles \union IF HasTarget THEN BoardFiles ELSE {}

(* Every label a generated target depends on is defined: the stages take   *)
(* packages from each other by prefix and path, of two boards that do not  *)
(* have the same repositories, leave out what an SDK provides, and share   *)
(* overlays, configuration, SDKs, sources and files to fetch.  Only public *)
(* aliases may name targets not all packages have, and stages of the host  *)
(* the sysroot of a board, which only a target has                         *)
Optional(label) ==
    \/ label = <<"sysroot", "host">>
    \/ /\ label[1] = "packages"
       /\ label[4] \in {"_debug", "_install", "_installed", "_install_list", "_test"}
NoDanglingLabels ==
    (outcome = "done" /\ World.command.do = "generate") =>
        \A label \in Dangling(Generated) : Optional(label)

(* A package that asks for a directory gets all of its files, each once,   *)
(* though Bazel packages of other packages' sources are cut out of it, and *)
(* files of some names have to be renamed.  Not what is in .git or in      *)
(* __pycache__, nor one hook                                               *)
SourcesAreWhole ==
    outcome = "done" =>
        LET contents == [p \in DOMAIN SourceChildren |-> Contents(World, SourceChildren, p)]
            within(at) == {f \in World.tree :
                /\ IsStrictPrefix(at, f)
                /\ Range(Below(at, f)) \intersect SkippedNames = {}
                /\ f # HooksPrefix \o UnstableHook}
        IN  \A s \in {x \in LocalSources : IsDirectory(x)} : \A f \in within(s.at) :
                Cardinality({q \in Tarballs(SourceChildren, s.at) : f \in contents[q]}) = 1

(* Every run ends, whatever fails and however the threads wait for each    *)
(* other: a failed load is not waited for                                  *)
AnalysisEnds == <>(outcome \in Final)
===============================================================================
