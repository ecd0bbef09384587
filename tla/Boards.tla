-------------------------------- MODULE Boards --------------------------------
(***************************************************************************)
(* From a checkout to the boards of one run of alchemist: repositories,    *)
(* generated make.conf, configuration and packages of the host and of the  *)
(* target.  A world is [disk, boards, profiles, makeConf, files, provided, *)
(* useFlags, force9999, hacks, checkout, command]; boards is a function    *)
(* from "host", and "target" if there is one, to [name, profile].          *)
(***************************************************************************)
EXTENDS DirectDeps, Sources

Line(name, parts) == [name |-> name, parts |-> parts]
Literal(tokens) == [lit |-> tokens]
Minus(value) == [do |-> "remove", value |-> value]

\* generate_make_conf_board_setup
BoardSetup(order, toolchain) ==
    <<Line("ARCH", <<Literal(<<Add(PortageArch[toolchain.arch])>>)>>),
      Line("CHOST", <<Literal(<<Add(toolchain.name)>>)>>),
      Line("PORTDIR_OVERLAY", <<Literal([i \in DOMAIN order |-> Add(order[i])])>>)>>

\* generate_make_conf_board, of targets only; public boards lack some binaries
ChromeOS == [base |-> "chromeos", private |-> FALSE]
BoardConf(disk, order) ==
    FlattenSeq([i \in DOMAIN order |-> disk[order[i]].makeConf])
    \o IF ChromeOS \in ToSet(order) THEN << >>
       ELSE <<Line("USE", <<[ref |-> "USE"], Literal(<<Minus("ondevice_speech")>>)>>)>>

(* target_config_file_ops and target_host_config_file_ops.  The files of   *)
(* the checkout they link to assign PORTDIR and include these              *)
MakeConfOf(world, side, order, toolchain) ==
    BoardSetup(order, toolchain) \o world.makeConf
    \o IF side = "target" THEN BoardConf(world.disk, order) ELSE << >>

\* build_override_config_source, and the USE flags of the command line
MaskedAtom(package) ==
    [name |-> package, version |-> {[op |-> "=", version |-> Version9999]}, slot |-> {}]
HardMasked == {"chromeos-base/chromeos-lacros", "sys-libs/scudo", "sys-devel/llvm"}
Overrides(world) ==
    LET names == SetToSeq(HardMasked)
    IN  <<MaskNode(TRUE, [i \in DOMAIN names |-> MaskedAtom(names[i])])>>
        \o [i \in DOMAIN world.useFlags |->
                [kind |-> "uses", updates |->
                    <<[kind |-> "set", stable |-> FALSE, atom |-> {},
                       tokens |-> world.useFlags[i]]>>]]

\* RepositorySet::load: the directories make.conf names, each once
ReposOf(makeConf) ==
    LET env == Evaluated([env |-> NoVars, nodes |-> << >>], MakeConf(makeConf)).env
        dirs(name) == [i \in DOMAIN Get(env, name) |-> Get(env, name)[i].value]
    IN  IF "PORTDIR" \notin DOMAIN env THEN << >>
        ELSE Unique(dirs("PORTDIR") \o dirs("PORTDIR_OVERLAY"))

\* What the configuration of a board is read from
SiteProfile(world, side) ==
    IF side = "target" THEN "package.provided" :> world.provided ELSE [f \in {} |-> << >>]
ConfigOf(world, side, makeConf) ==
    Bundle(AllNodes([profiles |-> world.profiles, profile |-> world.boards[side].profile,
                     makeConfs |-> <<makeConf>>, siteProfile |-> SiteProfile(world, side),
                     site |-> world.files, overrides |-> Overrides(world)]))

(* The packages of a board, whenever they are loaded: their paths, and     *)
(* what those that can be loaded are                                       *)
Stocked(world, board, paths) ==
    board @@ [paths |-> paths,
              details |-> [path \in {p \in ToSet(paths) : ~LoadFails(world.disk, p)} |->
                              Load(world.disk, board, path)]]

\* load_board: the generated make.conf says which repositories there are
Opened(world, repos, config) ==
    IF \/ repos = << >> \/ ~LoadsRepositories(world.disk, repos)
       \/ LoadToolchains(world.disk, repos).failed
    THEN Failure
    ELSE Success(Stocked(world, [repos |-> repos, config |-> config, force9999 |-> world.force9999,
                                 chost |-> Get(config.env, "CHOST")],
                         FindAllEbuilds(world.disk, repos)))
Configured(world, side, makeConf) ==
    Opened(world, ReposOf(makeConf), ConfigOf(world, side, makeConf))

(* enter_fake_chroot and load_board of one side: the lookup only serves to *)
(* write make.conf                                                         *)
WithToolchains(world, side, order, toolchains) ==
    IF \/ toolchains.failed \/ toolchains.primary = {}
       \/ \E t \in toolchains.primary : t.arch \notin DOMAIN PortageArch
    THEN Failure
    ELSE Configured(world, side,
             MakeConfOf(world, side, order, CHOOSE t \in toolchains.primary : TRUE))
LookedUpBoard(world, side, lookup) ==
    IF lookup.failed \/ \E r \in ToSet(lookup.order) : ~(ParentsOf(world.disk, r) \subseteq DOMAIN world.disk)
    THEN Failure
    ELSE WithToolchains(world, side, lookup.order, LoadToolchains(world.disk, lookup.order))
LoadBoard(world, side) ==
    LookedUpBoard(world, side, CreateRepositorySet(world.disk, world.boards[side].name))
===============================================================================
