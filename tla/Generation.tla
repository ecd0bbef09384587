------------------------------ MODULE Generation ------------------------------
(***************************************************************************)
(* Packages in the Bazel repository generate-repo writes: the targets that *)
(* each has at every stage of the build, and the labels they refer to.     *)
(*                                                                         *)
(* A label is a sequence of which the first item says what it is the label *)
(* of; that of a package's target is <<"packages", prefix, path, suffix>>. *)
(* A prefix is the sequence of the names of a path.  A stage is [prefix,   *)
(* side, host, target]: which packages are built, the prefix of those      *)
(* their tools come from, if any, as [prefix, provided], and whether they  *)
(* have a sysroot of their own.  Labels of other Bazel repositories than   *)
(* @portage and @portage_deps are left out.                                *)
(***************************************************************************)
EXTENDS PackageAnalysis

Targets(prefix, paths, suffix) == {<<"packages", prefix, p, suffix>> : p \in paths}

Stage1 == <<"stage1", "target", "host">>
Stage2 == <<"stage2", "host">>
Stage3 == <<"stage3", "target", "host">>
StageBoard == <<"stage2", "target", "board">>

HostStage(provided) ==
    [prefix |-> Stage2, side |-> "host", target |-> FALSE,
     host |-> {[prefix |-> Stage2, provided |-> provided]}]
CrossStage(prefix) == [prefix |-> prefix, side |-> "host", target |-> TRUE, host |-> {}]
BoardStage(provided) ==
    [prefix |-> StageBoard, side |-> "target", target |-> TRUE,
     host |-> {[prefix |-> Stage2, provided |-> provided]}]

\* generate_stages, in its order; the last only if there is a target
Stages(provided, hasTarget) ==
    <<CrossStage(Stage1), HostStage(provided), CrossStage(Stage3)>>
    \o IF hasTarget THEN <<BoardStage(provided)>> ELSE << >>

\* partition_provided: the first of its lists
IsProvided(disk, path, provided) ==
    \E p \in provided : /\ p.name = EbuildAt(disk, path).name
                        /\ Same(p.version, EbuildAt(disk, path).version)
NotProvided(disk, paths, provided) == {p \in paths : ~IsProvided(disk, p, provided)}

\* Mutant: tools have the prefix of the package they are for
ToolLabelsOwn(disk, stage, package) ==
    UNION {Targets(stage.prefix, NotProvided(disk, package.indirect.buildHost, h.provided), "") :
               h \in stage.host}

\* EBuildEntry::try_new: tools come from the host's packages
ToolLabels(disk, stage, package) ==
    UNION {Targets(h.prefix, NotProvided(disk, package.indirect.buildHost, h.provided), "") :
               h \in stage.host}

(* A package of the host neither has its tools nor what the SDK has among  *)
(* its target's dependencies.  What is reused of the host only speeds up   *)
(* the build, and is left out                                              *)
Depends(stage, package, tools, build, run) ==
    LET direct == package.local.direct
        own(paths, suffix) == Targets(stage.prefix, paths, suffix)
        sysroot(paths, suffix) == IF stage.target THEN own(paths, suffix) ELSE {}
    IN  [tools |-> tools,
         target |-> own(build, "") \ IF stage.target THEN {} ELSE tools,
         test |-> sysroot(direct.test, ""),
         reusable |-> sysroot(package.indirect.reusableTarget, ""),
         runtime |-> own(run, ""),
         providedRuntime |-> own(direct.run \ run, "_including_provided"),
         installSet |-> own(package.indirect.install, ""),
         installs |-> sysroot(run \union package.indirect.install, "_installed_no_pdepends")]
PackageDepends(disk, stage, package) ==
    LET sdk == IF stage.target THEN {} ELSE UNION {h.provided : h \in stage.host}
        rest(paths) == NotProvided(disk, paths, sdk)
    IN  Depends(stage, package, ToolLabels(disk, stage, package),
                rest(package.local.direct.build), rest(package.local.direct.run))

\* Packages built by Bazel on its own are not given what they are built with
Used(disk, path, depends) ==
    {field \in DOMAIN depends :
        EbuildAt(disk, path).direct => field \notin {"tools", "target", "test", "reusable"}}
----------------------------------------------------------------------------
(* What else an ebuild is given to be built or tested                      *)

ChromeLabels(sources) ==
    {<<"chrome", s.repo>> :
        s \in {x \in sources.local : "repo" \in DOMAIN x /\ x.repo \in {"chrome", "chrome-internal"}}}
FetchedLabels(sources) ==
    {<<"tree", t.item.project, t.tree>> : t \in sources.trees}
    \union {<<"dist", d.file>> : d \in sources.dist} \union ChromeLabels(sources)
SourceLabels(sources) ==
    {<<"sources", s.at, "__tarballs__">> : s \in {x \in sources.local : "at" \in DOMAIN x /\ x.dir}}
    \union {<<"sources", Front(s.at), "__single_files_tarball__">> :
               s \in {x \in sources.local : "at" \in DOMAIN x /\ ~x.dir}}
    \union FetchedLabels(sources)

\* The file an inherited eclass is read from: ebuild_prelude.sh prefers the last
EclassLabels(disk, path) ==
    {<<"eclass", EclassDir(disk, path.repo, name), name>> :
        name \in ToSet(Inherits(disk, path.repo, EbuildAt(disk, path).inherits))}

\* Some of the packages common.rs names
Primordial == {"sys-libs/glibc", "virtual/os-headers"}

\* The SDK of a stage, without its primordial packages for these themselves
SdkLabel(disk, stage, path) ==
    <<"sdk", stage.prefix,
      IF stage.target /\ EbuildAt(disk, path).name \in Primordial THEN "base" ELSE Last(stage.prefix)>>

\* generate_package_build_file: overlays and configuration of a stage
SetLabels(stage) ==
    {<<"overlays", stage.side, full>> : full \in BOOLEAN}
    \union {<<"overlays", "host", FALSE>> : h \in stage.host}
ConfigLabels(stage) ==
    LET of(dir, names) == {<<"config", dir, name>> : name \in names}
    IN  IF ~stage.target THEN of(<<"host">>, {"host", "full"})
        ELSE of(<<"host">>, {"lite", "orig"} \union {"host" : h \in stage.host})
             \union of(Tail(stage.prefix), {Last(stage.prefix), "full"})

Given(disk, stage, path, package) ==
    SourceLabels(package.local.sources) \union EclassLabels(disk, path)
    \union SetLabels(stage) \union ConfigLabels(stage)
    \union {<<"overlay", path.repo>>, SdkLabel(disk, stage, path)}
    \union {<<"bashrc", b>> : b \in ToSet(package.local.bashrcs)}
    \union IF stage.target THEN {<<"sysroot", stage.side>>} ELSE {}
----------------------------------------------------------------------------
(* package.BUILD.bazel: all packages have targets, those that could not be *)
(* analyzed ones that fail                                                 *)
TargetSuffixes(disk, stage, path, package) ==
    {"", "_package_set"}
    \union (IF package.ok THEN {"_including_provided", "_test"} ELSE {})
    \union (IF stage.target \/ ~package.ok THEN {"_installed", "_installed_no_pdepends"} ELSE {})
    \union (IF package.ok /\ EbuildAt(disk, path).direct THEN {} ELSE {"_debug"})

(* A BUILD file is [defines, refers].  The checksums of the files to fetch *)
(* have to be of a kind Bazel knows, and bashrcs in the board's            *)
(* repositories, else nothing is generated                                 *)
PackageFile(disk, stage, path, package) ==
    [defines |-> UNION {Targets(stage.prefix, {path}, s) : s \in TargetSuffixes(disk, stage, path, package)},
     refers |-> IF ~package.ok THEN {}
                ELSE LET depends == PackageDepends(disk, stage, package.value)
                     IN  Given(disk, stage, path, package.value)
                         \union UNION {depends[f] : f \in Used(disk, path, depends)}]
PackageFiles(disk, stage, packages) ==
    {PackageFile(disk, stage, path, packages[path]) : path \in DOMAIN packages}
EntriesHold(repos, packages) ==
    \A p \in {q \in DOMAIN packages : packages[q].ok} :
        /\ \A d \in packages[p].value.local.sources.dist : d.hashes # 0
        /\ \A b \in ToSet(packages[p].value.local.bashrcs) : b.repo \in ToSet(repos)
----------------------------------------------------------------------------
(* Packages of SDKs: get_primordial_packages, and for another board        *)
(* get_cross_glibc and get_toolchain_packages, of which some are taken     *)
Toolchain(chost) == {"cross-" \o chost \o "/glibc", "sys-devel/crossdev"}

AnyVersion(name) == [name |-> name, version |-> {}, slot |-> {}]
BestOf(r, names) == [name \in names |-> FindBestPackage(r, AnyVersion(name))]
AllFound(best) == \A name \in DOMAIN best : best[name].ok /\ best[name].value # {}
PathsOfAll(best) ==
    IF AllFound(best)
    THEN Success(UNION {{b.path : b \in best[name].value} : name \in DOMAIN best})
    ELSE Failure

TargetSdk(r) == PathsOfAll(BestOf(r, {name \in Primordial : ~Provided(r, AnyVersion(name))}))
CrossCompiler(hostResolver, chost) == PathsOfAll(BestOf(hostResolver, Toolchain(chost)))
===============================================================================
