------------------------------ MODULE MCAlchemist ------------------------------
(* Small checkouts for Alchemist: each has few packages, and together they *)
(* reach every way a run goes on or ends                                   *)
EXTENDS Alchemist

CONSTANTS t1, t2

Pub(base) == [base |-> base, private |-> FALSE]
Priv(base) == [base |-> base, private |-> TRUE]
Stable == Pub("portage-stable")
HostRepo == Pub("amd64-host")
Bad == Pub("bad")

V(n) == [main |-> <<<<n>>>>, letter |-> 0, suffixes |-> << >>, revision |-> << >>]
Slot(main, sub) == [main |-> main, sub |-> sub]
Nothing == Node("all", << >>)
Keyword(arch, tilde) == [name |-> arch, tilde |-> tilde]
Released == {Keyword("amd64", FALSE), Keyword("arm64", FALSE)}

Ebuild(name, n) ==
    [name |-> name, version |-> V(n), category |-> "", eapi |-> 7, slot |-> Slot("0", "0"),
     iuse |-> [f \in {} |-> FALSE], keywords |-> Released, requiredUse |-> Nothing,
     restrict |-> Nothing, srcUri |-> Nothing, manifest |-> [f \in {} |-> 0],
     deps |-> [kind \in Kinds |-> {<< >>}], inherits |-> << >>, named |-> TRUE,
     sourced |-> TRUE, parses |-> TRUE, manualUprev |-> {}, hasCompile |-> FALSE,
     workon |-> {}, toml |-> [supports |-> {}, generates |-> {}], direct |-> FALSE]

\* Ebuilds with dependencies, flags and versions that differ
With(e, field, value) == [e EXCEPT ![field] = value]
Dep(e, kind, kids) == [e EXCEPT !.deps[kind] = {kids}]
Flags(e, flags) == With(e, "iuse", flags)
Atom(name) == [name |-> name, version |-> {}, slot |-> {}, uses |-> << >>, block |-> FALSE]
On(name) == Leaf(Atom(name))
Than(op, name, n) ==
    Leaf([Atom(name) EXCEPT !.version = {[op |-> op, version |-> V(n)]}])
If(flag, kids) == [t |-> "use", flag |-> flag, expect |-> TRUE, kids |-> kids]
Unless(flag, kids) == [t |-> "use", flag |-> flag, expect |-> FALSE, kids |-> kids]
OneOf(kids) == Node("any", kids)
UseIs(flag) == [do |-> "use", arg |-> [flag |-> flag, expect |-> TRUE]]
ConfigAtom(name, op, n) ==
    [name |-> name, version |-> {[op |-> op, version |-> V(n)]}, slot |-> {}]
Block(name) == Leaf([Atom(name) EXCEPT !.block = TRUE])
Rebuild(name) == Leaf([Atom(name) EXCEPT !.slot = {[slot |-> {}, rebuild |-> TRUE]}])
Using(name, flag, op) ==
    Leaf([Atom(name) EXCEPT
             !.uses = <<[flag |-> flag, op |-> op, negate |-> FALSE, default |-> {}]>>])

Repository(name, parents, toolchains, ebuilds) ==
    [name |-> name, parents |-> parents, eclasses |-> [e \in {} |-> 0], toolchains |-> toolchains,
     ebuilds |-> ebuilds, makeConf |-> << >>]
X86 == [name |-> "x86_64", arch |-> "x86_64", default |-> {TRUE}]
Arm == [name |-> "aarch64", arch |-> "aarch64", default |-> {}]
Crossdev == [name |-> "armv7m", arch |-> "armv7m", default |-> {FALSE}]

(* Eclasses: base has a tool that libraries need, and a flag; platform     *)
(* inherits it, and what it says of interface libraries comes first        *)
Eclass(inherits) ==
    [inherits |-> inherits, deps |-> [kind \in Kinds |-> {<< >>}], iuse |-> [f \in {} |-> FALSE],
     requiredUse |-> Nothing, hasCompile |-> FALSE, toml |-> [supports |-> {}, generates |-> {}]]
EclassFiles ==
    ("cros-workon" :> Eclass(<< >>)) @@ ("cros-rust" :> Eclass(<< >>)) @@ ("fcaps" :> Eclass(<< >>))
    @@ ("base" :> With(Dep(Eclass(<< >>), "run", <<If("wide", <<On("b")>>)>>), "iuse", "wide" :> FALSE))
    @@ ("platform" :> [Eclass(<<"base", "cros-rust">>) EXCEPT
            !.hasCompile = TRUE,
            !.toml.supports = {[first |-> UseIs("wide"), ops |-> << >>]}])
StableRepo(ebuilds) ==
    Stable :> [Repository(Stable, << >>, << >>, ebuilds) EXCEPT !.eclasses = EclassFiles]
HostOverlay(ebuilds) == HostRepo :> Repository(HostRepo, <<Stable>>, <<X86>>, ebuilds)

\* What every SDK is made of
SdkEbuilds(needed) ==
    <<Dep(Ebuild(ImplicitSystemName, 1), "run", needed),
      Ebuild("sys-libs/glibc", 1), Ebuild("virtual/os-headers", 1)>>
CrossTools == <<Ebuild("cross-aarch64/glibc", 1), Ebuild("sys-devel/crossdev", 1)>>

NoFiles == [f \in {} |-> << >>]
Profile(parents, defaults, files) == [parents |-> parents, defaults |-> defaults, files |-> files]
AcceptedKeywords == <<Add(Keyword("amd64", FALSE)), Add(Keyword("arm64", FALSE))>>
Plain == Profile(<< >>, <<Line("ACCEPT_KEYWORDS", <<Literal(AcceptedKeywords)>>)>>, NoFiles)

Generate == [do |-> "generate"]
Dump(names) == [do |-> "dump", atoms |-> [i \in DOMAIN names |-> AnyVersion(names[i])]]

\* Sources that all packages get, and the names of directories and files
CommonSources ==
    {<<"src", "scripts", "hooks", "h">>, HooksPrefix \o UnstableHook}
FileNames ==
    <<"%", ".git", "BUILD", "__pycache__", "common-mk", "f", "find-missing-deps.sh", "g",
      "gtest-parallel", "h", "hooks", "install", "l", "p", "platform2", "scripts", "src",
      "third_party", "w", "x", "y", "z">>

Base ==
    [disk |-> StableRepo(SdkEbuilds(<< >>)) @@ HostOverlay(<< >>),
     boards |-> "host" :> [name |-> HostRepo, profile |-> "plain"],
     profiles |-> "plain" :> Plain,
     makeConf |-> <<Line("PORTDIR", <<Literal(<<Add(Stable)>>)>>),
                    Line("GENTOO_MIRRORS", <<Literal(<<Add([scheme |-> "https", path |-> {}])>>)>>)>>,
     files |-> NoFiles, provided |-> << >>, useFlags |-> << >>, force9999 |-> FALSE,
     hacks |-> [extras |-> << >>, libcap |-> Atom("sys-libs/libcap"), allowList |-> {}],
     checkout |-> [place \in {} |-> Repo("none")],
     command |-> Generate, workers |-> {t1}, tree |-> CommonSources, links |-> {}, odd |-> {"%"},
     rank |-> [name \in ToSet(FileNames) |-> CHOOSE i \in DOMAIN FileNames : FileNames[i] = name]]
----------------------------------------------------------------------------
\* A host of which the dependencies of all kinds, the hacks, masks and
\* keywords decide what is built
HostWorld(base) ==
    [base EXCEPT
        !.disk = StableRepo(SdkEbuilds(<<On("a")>>)) @@ HostOverlay(
            <<Dep(Dep(Dep(Ebuild("a", 1), "run", <<Than(">=", "b", 1)>>),
                      "build", <<On("c"), Unless("off", <<On("b")>>)>>),
                  "buildHost", <<On("tool")>>),
              Ebuild("b", 1),
              With(Ebuild("b", 2), "keywords", {Keyword("amd64", TRUE)}),
              [Ebuild("b", 3) EXCEPT !.version.suffixes = <<[label |-> Rc, number |-> <<1>>]>>],
              [Dep(With(Ebuild("c", 1), "eapi", 6), "build", <<On("tool"), On("b")>>)
               EXCEPT !.iuse = ("wide" :> TRUE) @@ ("deep" :> TRUE),
                      !.requiredUse = Node("all", <<Node("exactlyOne",
                          <<Leaf([flag |-> "wide", expect |-> TRUE]),
                            Leaf([flag |-> "deep", expect |-> TRUE])>>)>>),
                      !.inherits = <<"platform">>,
                      !.toml.supports = {[first |-> [do |-> "false"],
                                          ops |-> <<[op |-> "or", command |-> UseIs("deep")]>>]}],
              Dep(Dep(With(With(Ebuild("tool", 1), "eapi", 8), "inherits", <<"fcaps">>),
                      "installHost", <<On("b")>>), "post", <<On("a")>>),
              With(Ebuild("sys-libs/libcap", 1), "direct", TRUE)>>),
        !.files = ("package.mask" :> <<ConfigAtom("b", ">=", 2)>>)
                  @@ ("package.unmask" :> <<ConfigAtom("b", "<", 3)>>)
                  @@ ("package.use.mask" :> <<[atom |-> {ConfigAtom("c", "=", 1)}, tokens |-> <<Add("deep")>>]>>)
                  @@ ("use.force" :> <<[atom |-> {}, tokens |-> <<Add("deep"), Add("wide")>>]>>),
        !.hacks.allowList = {"tool"},
        !.tree = CommonSources \union {<<"src", "platform2", "common-mk", "f">>,
                                    <<"src", "third_party", "gtest-parallel", "f">>},
        !.hacks.extras = <<[name |-> "c", version |-> {V(1)}, kind |-> "run", crossOnly |-> FALSE,
                            deps |-> <<On("b")>>]>>]

\* A private board with a parent of its own, another architecture, packages
\* that are provided, and a tool only the host has
Bashrc(repo, file) == [repo |-> repo, dir |-> "base", file |-> file]
Board1 == Priv("board")
CrossDisk(appKids, tool) ==
    StableRepo(SdkEbuilds(<<On("lib")>>)
        \o <<Flags(Ebuild("lib", 1), ("fast" :> FALSE) @@ (Flag("VIDEO", "intel") :> FALSE)),
           Ebuild("y", 1)>>)
    @@ HostOverlay(CrossTools \o <<tool>>)
    @@ (Pub("board") :> Repository(Pub("board"), <<Stable>>, <<Crossdev, Arm>>,
            <<Flags(With(With(Dep(Ebuild("lib", 2), "buildHost", <<On("lib")>>), "slot", Slot("0", "2")),
                         "inherits", <<"base">>),
                    ("fast" :> FALSE) @@ (Flag("VIDEO", "intel") :> FALSE))>>))
    @@ (Board1 :> Repository(Board1, <<Pub("board")>>, << >>,
            <<Dep(Dep(Dep(Flags(Ebuild("app", 1), "foo" :> FALSE),
                          "build", appKids), "run", <<On("lib")>>),
                  "buildHost", <<On("tool")>>)>>))
CrossWorld(base) ==
    [base EXCEPT
        !.disk = CrossDisk(<<Using("lib", "fast", "required"),
                             Using("lib", Flag("VIDEO", "intel"), "required"), If("foo", <<On("y")>>),
                             Unless("foo", <<On("none")>>), On("gone")>>, Ebuild("tool", 1)),
        !.boards = @ @@ ("target" :> [name |-> Board1, profile |-> "board"]),
        !.profiles = @ @@ ("board" :> Profile(<<"plain">>,
            <<Line("USE_EXPAND", <<Literal(<<Add("VIDEO")>>)>>),
              Line("VIDEO", <<Literal(<<Add("arm")>>)>>),
              Line("VIDEO", <<[ref |-> "VIDEO"], Literal(<<Add("intel"), Minus("arm")>>)>>)>>,
            "package.use" :> <<[atom |-> {ConfigAtom("lib", ">", 1)}, tokens |-> <<Add("fast")>>]>>)),
        !.provided = <<[name |-> "gone", version |-> V(1)], [name |-> "sys-libs/glibc", version |-> V(1)]>>,
        !.disk[Pub("board")].eclasses = "base" :> Eclass(<< >>),
        !.profiles["plain"].files =
            ("profile.bashrc" :> <<Bashrc(Stable, "profile.bashrc")>>)
            @@ ("package.bashrc" :> <<[atom |-> ConfigAtom("app", ">", 0),
                                       paths |-> <<Bashrc(Stable, "app.bashrc")>>]>>),
        !.useFlags = <<<<Add("foo")>>>>]

\* Bashrcs of repositories of the boards, or of another one
WithBashrcs(w, files) == [w EXCEPT !.profiles["plain"].files = files]
ForeignBashrc(cross) ==
    WithBashrcs(cross, "profile.bashrc" :> <<Bashrc(Bad, "profile.bashrc")>>)

\* Without the tools of the compiler
NoCompiler(cross) == [cross EXCEPT !.disk[HostRepo].ebuilds = <<Ebuild("tool", 1)>>]
NoSystem(base) == [base EXCEPT !.disk = StableRepo(<<Ebuild("sys-libs/glibc", 1)>>) @@ HostOverlay(<< >>)]

\* The installation of a library needs a tool that only the host has
HostTool(cross) ==
    [cross EXCEPT
        !.disk = CrossDisk(<<On("lib")>>, Ebuild("tool", 1)),
        !.disk[Pub("board")].ebuilds =
            <<Dep(With(Ebuild("lib", 2), "eapi", 8), "installHost", <<On("tool")>>)>>]

\* Packages of which the sources are in each other's directories
Workon(name, subtrees, trees) ==
    [projects |-> <<name>>, localNames |-> <<[up |-> FALSE, to |-> name]>>,
     subtrees |-> <<subtrees>>, checkouts |-> <<<< >>>>, trees |-> trees]
Nines == [main |-> <<Nine>>, letter |-> 0, suffixes |-> << >>, revision |-> << >>]
Place(name, subtree) == [path |-> [up |-> FALSE, dir |-> "third_party", to |-> name], subtree |-> subtree]
From(name, n, workon) ==
    With(With(With(Ebuild(name, n), "version", Nines), "inherits", <<"cros-workon">>), "workon", {workon})
SourceWorld(base) ==
    [base EXCEPT
        !.disk = StableRepo(SdkEbuilds(<< >>)) @@ HostOverlay(
            <<With(Ebuild("unused", 1), "sourced", FALSE),
              From("whole", 9, Workon("p", << >>, << >>)),
              With(From("parts", 9, Workon("p", <<"x", "y">>, << >>)), "manualUprev", {FALSE}),
              From("file", 9, Workon("p", <<"f">>, << >>)),
              [With(From("pinned", 1, Workon("q", <<"x", "y">>, <<"h1", "h1">>)),
                    "srcUri", Node("all", <<Leaf([uri |-> {[scheme |-> "https", public |-> FALSE, path |-> {"d"}]},
                                                  file |-> {}])>>))
               EXCEPT !.version = V(1), !.manifest = "d" :> 1],
              With(Ebuild("odd", 1), "restrict", Node("all", <<Leaf("mirror"), If("off", <<Leaf("odd")>>)>>))>>),
        !.force9999 = TRUE,
        !.checkout = (Place("p", "") :> Dir(<<"src", "p">>))
                     @@ (Place("p", "x") :> Dir(<<"src", "p", "x">>))
                     @@ (Place("p", "y") :> Dir(<<"src", "p", "y">>))
                     @@ (Place("p", "f") :> [at |-> <<"src", "p", "x", "z", "f">>, dir |-> FALSE]),
        !.tree = CommonSources \union {<<"src", "p">> \o f : f \in {
            <<"f">>, <<"BUILD">>, <<".git", "f">>, <<"l">>, <<"x", "f">>, <<"x", "%", "f">>,
            <<"x", "z", "f">>, <<"x", "z", "g">>, <<"y", "f">>, <<"y", "w", "BUILD">>,
            <<"y", "w", "f">>, <<"y", "w", "z", "f">>, <<"z", "f">>, <<"z", "w", "f">>,
            <<"z", "__pycache__", "f">>}},
        !.links = {<<"src", "p", "l">>}]

\* A file to fetch of which no known hash is listed
NoHash(sources) ==
    [sources EXCEPT !.disk[HostRepo].ebuilds = <<With(@[5], "manifest", "d" :> 0)>>]

\* Shown packages: several atoms of one name, conditions, alternatives of
\* which some do not load, tests that cannot be satisfied
DumpWorld(base) ==
    [base EXCEPT
        !.disk = StableRepo(
            <<Dep(Dep(Dep(Dep(Flags(With(Ebuild("x", 1), "eapi", 6), ("foo" :> FALSE) @@ ("test" :> FALSE)),
                  "build", <<Than(">=", "b", 2), Than("<", "b", 2),
                             OneOf(<<On("broken"), On("none"), On("d")>>),
                             Unless("foo", <<On("d")>>), If("test", <<On("none")>>)>>),
                  "run", <<Rebuild("b"), Block("d")>>), "post", <<On("d")>>),
                  "buildHost", <<On("b")>>),
              Ebuild("b", 1),
              With(Ebuild("b", 2), "slot", Slot("0", "2")),
              Ebuild("d", 1),
              Ebuild("broken", 1), With(Ebuild("broken", 2), "sourced", FALSE),
              With(Dep(Ebuild("x", 2), "run", <<OneOf(<<On("none"), On("broken")>>)>>), "requiredUse",
                   Node("all", <<Leaf([flag |-> "foo", expect |-> TRUE])>>)),
              With(Ebuild("x", 3), "parses", FALSE)>>) @@ HostOverlay(<< >>),
        !.hacks.allowList = {"d"},
        !.command = Dump(<<"x">>), !.workers = {t1, t2}]

\* An ebuild with a malformed name: where tests need it, where all does, and
\* where it is what is to be shown
BadDisk ==
    StableRepo(<<Flags(Dep(Dep(Ebuild("y", 1), "build", <<If("test", <<On("bad")>>)>>),
                           "run", <<Than("<", "bad", 2), Than(">=", "bad", 2)>>), "test" :> FALSE)>>)
    @@ (HostRepo :> Repository(HostRepo, <<Bad>>, <<X86>>, << >>))
    @@ (Bad :> Repository(Bad, <<Stable>>, << >>,
            <<With(Ebuild("bad", 1), "named", FALSE), With(Ebuild("bad", 2), "named", FALSE)>>))
BadDump(base) == [base EXCEPT !.disk = BadDisk, !.command = Dump(<<"y", "bad">>), !.workers = {t1, t2}]
BadGenerate(base) == [base EXCEPT !.disk = BadDisk, !.workers = {t1, t2}]

NoParent(base) == [base EXCEPT !.disk = HostOverlay(<< >>)]
NoArch(base) == [base EXCEPT !.disk[HostRepo].toolchains = <<[X86 EXCEPT !.arch = "riscv64"]>>]

\* The base is a bound variable, so that TLC makes it once
WorldNamed(name, base) ==
    CASE name = "host" -> HostWorld(base)
      [] name = "cross" -> CrossWorld(base)
      [] name = "noCompiler" -> NoCompiler(CrossWorld(base))
      [] name = "noSystem" -> NoSystem(base)
      [] name = "hostTool" -> HostTool(CrossWorld(base))
      [] name = "foreignBashrc" -> ForeignBashrc(CrossWorld(base))
      [] name = "sources" -> SourceWorld(base)
      [] name = "noHash" -> NoHash(SourceWorld(base))
      [] name = "dump" -> DumpWorld(base)
      [] name = "badDump" -> BadDump(base)
      [] name = "badGenerate" -> BadGenerate(base)
      [] name = "noParent" -> NoParent(base)
      [] name = "noArch" -> NoArch(base)
WorldNames == {"host", "cross", "noCompiler", "noSystem", "hostTool", "foreignBashrc", "sources",
               "noHash", "dump", "badDump", "badGenerate", "noParent", "noArch"}
MCWorlds ==
    [name \in WorldNames |-> CHOOSE made \in {WorldNamed(name, base) : base \in {Base}} : TRUE]

EbuildsOn(disk) == UNION {{[repo |-> repo, file |-> i] : i \in DOMAIN disk[repo].ebuilds} :
                              repo \in DOMAIN disk}
Paths(repo, files) == [repo : {repo}, file : files]
MCFiles ==
    Paths(Stable, 1 .. 8) \union Paths(HostRepo, 1 .. 7) \union Paths(Pub("board"), {1})
    \union Paths(Board1, {1}) \union Paths(Bad, {1, 2})
MCMalformed == Paths(Bad, {1, 2})

ASSUME FilesAssumption == UNION {EbuildsOn(w.disk) : w \in Range(MCWorlds)} \subseteq MCFiles
===============================================================================
