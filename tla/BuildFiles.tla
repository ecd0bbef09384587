------------------------------- MODULE BuildFiles ------------------------------
(***************************************************************************)
(* The rest of the Bazel repository generate-repo writes: overlays,        *)
(* bashrcs, Portage configuration, SDKs, the dependencies outside of it,   *)
(* and the public aliases.  A file is [defines, refers], sets of labels.   *)
(***************************************************************************)
EXTENDS Generation, SourcePackages

Defining(labels) == [defines |-> labels, refers |-> {}]
Referring(label, labels) == [defines |-> {label}, refers |-> labels]
Dangling(files) == UNION {f.refers : f \in files} \ UNION {f.defines : f \in files}
----------------------------------------------------------------------------
(* generate_internal_overlays: an overlay and its eclasses for each        *)
(* repository of the boards, and the set of those of each board            *)

OverlayFile(disk, repo) ==
    Defining({<<"overlay", repo>>, <<"overlay", repo, "full">>}
             \union {<<"eclass", repo, name>> : name \in DOMAIN disk[repo].eclasses})
OverlaySet(side, repos, full) ==
    Referring(<<"overlays", side, full>>,
              {<<"overlay", r>> : r \in repos}
              \union {<<"overlay", r, "full">> : r \in {q \in repos : full}})
AllRepos(boards) == UNION {ToSet(boards[side].value.repos) : side \in DOMAIN boards}
OverlayFiles(disk, boards) ==
    {OverlayFile(disk, repo) : repo \in AllRepos(boards)}
    \union {OverlaySet(side, ToSet(boards[side].value.repos), full) :
               side \in DOMAIN boards, full \in BOOLEAN}

(* generate_internal_bashrcs: all the bashrcs of the boards' profiles, in  *)
(* whichever of the repositories of both they are                          *)
AllBashrcs(config) ==
    LET kept(n) == n.kind \in {"profileBashrc", "bashrcs"}
        paths(n) == IF n.kind = "profileBashrc" THEN n.paths
                    ELSE FlattenSeq([i \in DOMAIN n.updates |-> n.updates[i].paths])
    IN  ToSet(Collect(config.nodes, kept, paths))
BashrcsOf(boards) == UNION {AllBashrcs(boards[side].value.config) : side \in DOMAIN boards}
BashrcsHold(boards) == \A b \in BashrcsOf(boards) : b.repo \in AllRepos(boards)
BashrcFile(boards) == Defining({<<"bashrc", b>> : b \in BashrcsOf(boards)})
----------------------------------------------------------------------------
\* generate_portage_config, and generate_sysroot_build_file of the target
ConfigFile(dir, names) == Defining({<<"config", dir, name>> : name \in names})
ConfigFiles(hasTarget) ==
    {ConfigFile(<<"host">>, {"orig", "lite", "host", "full"}),
     ConfigFile(<<"target", "host">>, {"full", "host"})}
    \union {ConfigFile(<<"target", "board">>, {"full", "board"}) : t \in {h \in {TRUE} : hasTarget}}
SysrootFiles(hasTarget) == {Defining({<<"sysroot", "target">>}) : t \in {h \in {TRUE} : hasTarget}}

\* generate_deps: what is fetched for the packages, each once by its name
DepsFile(sources) == Defining(UNION {FetchedLabels(s) : s \in sources})
----------------------------------------------------------------------------
(* SDKs, each in the directory of its prefix.  That of stage1 extends one  *)
(* that is downloaded                                                      *)

InSdk(prefix, name) == <<"sdk", prefix, name>>
LiteConfig(last) == {<<"config", <<"host">>, "lite">>, <<"config", <<"target", last>>, last>>}

\* generate_base_sdk: packages that are installed into an SDK
BaseSdk(dir, name, from, packages) ==
    Referring(InSdk(dir, name),
              packages \union {from, <<"overlays", "host", FALSE>>} \union LiteConfig("host"))

\* generate_target_sdk: primordial packages, and maybe a cross compiler
TargetSdkFile(prefix, base, side, primordial, compiler) ==
    [defines |-> {InSdk(prefix, "base"), InSdk(prefix, Last(prefix))},
     refers |-> base \union Targets(prefix, primordial, "") \union Targets(Stage2, compiler, "")
                \union LiteConfig(Last(prefix)) \union {<<"overlays", side, FALSE>>}
                \union {<<"config", <<"host">>, "full">> : c \in compiler}]

\* The SDKs of generate_stages, of the packages that were found for them
HostSdkFiles(root, bootstrap, primordial) ==
    {TargetSdkFile(Stage1, {}, "host", primordial, {}),
     BaseSdk(<<"stage2">>, "stage2", InSdk(Stage1, "host"), Targets(Stage1, {root}, "")),
     Referring(InSdk(Stage2, "host"), {InSdk(<<"stage2">>, "stage2")}),
     BaseSdk(<<"stage3">>, "bootstrap", InSdk(Stage1, "base"),
             Targets(Stage2, {root} \union bootstrap, "_including_provided")),
     TargetSdkFile(Stage3, {InSdk(<<"stage3">>, "bootstrap")}, "host", primordial, {}),
     BaseSdk(<<"stage4">>, "stage4", InSdk(Stage3, "host"), Targets(Stage3, {root}, ""))}
BoardSdkFile(primordial, compiler) ==
    TargetSdkFile(StageBoard, {InSdk(<<"stage2">>, "stage2")}, "target", primordial, compiler)
----------------------------------------------------------------------------
(* generate_public_packages: aliases of the packages of a name, for each   *)
(* version and for the best one.  Of equal versions the last package       *)
(* counts, with its spelling of the version                                *)

PublicSuffixes == {"", "_debug", "_package_set", "_install", "_installed", "_install_list", "_test"}

LastOfVersion(details) ==
    {details[i] : i \in {j \in DOMAIN details :
        \A k \in DOMAIN details : k > j => ~Same(details[k].version, details[j].version)}}
VersionAlias(dir, prefix, details, suffix) ==
    Referring(<<"public", dir, details.name, details.version, suffix>>,
              Targets(prefix, {details.path}, suffix))

\* No best version, or one that is not known to be usable
NoBest(best, packages) == best = {} \/ \E b \in best : ~packages[b.path].ok /\ PackageRef(b).ready # {TRUE}
BestAlias(dir, name, best, fails, suffix) ==
    Referring(<<"alias", dir, name, suffix>>,
              IF fails THEN {<<"public_failure", dir, name>>}
              ELSE {<<"public", dir, name, b.version, suffix>> : b \in best})
NamedFiles(dir, prefix, name, details, fails) ==
    {VersionAlias(dir, prefix, d, s) : d \in LastOfVersion(details), s \in PublicSuffixes}
    \union {BestAlias(dir, name, SelectBest(details), fails, s) : s \in PublicSuffixes}
    \union {Defining({<<"public_failure", dir, name>>}) : f \in {x \in {TRUE} : fails}}
PublicFiles(dir, prefix, board, packages) ==
    LET all == [i \in DOMAIN board.paths |-> board.details[board.paths[i]]]
        of(name) == SelectSeq(all, LAMBDA d : d.name = name)
    IN  UNION {NamedFiles(dir, prefix, name, of(name), NoBest(SelectBest(of(name)), packages)) :
                  name \in {d.name : d \in ToSet(all)}}

\* generate_public_images: what a board's images are built with
ImagesFile ==
    Referring(<<"images">>, {<<"overlays", "target", FALSE>>, InSdk(StageBoard, "board")}
                            \union LiteConfig("board"))
===============================================================================
