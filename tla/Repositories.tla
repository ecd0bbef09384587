----------------------------- MODULE Repositories -----------------------------
(***************************************************************************)
(* Repositories of ebuilds: which ones a board is made of, in which order, *)
(* and what is found in them.                                              *)
(*                                                                         *)
(* A repository name is [base, private]; disk is a function from the names *)
(* of the repositories that exist to what their directories hold: [name,   *)
(* parents, eclasses, toolchains, ebuilds, makeConf], sequences except for *)
(* the name and the eclasses, a function from their names.                 *)
(***************************************************************************)
EXTENDS Naturals, Sequences, SequencesExt

Public(name) == [name EXCEPT !.private = FALSE]
Private(name) == [name EXCEPT !.private = TRUE]
ParentsOf(disk, name) == ToSet(disk[name].parents)

\* The parents to look for, and whether each has to exist
Wanted(parents, tryPrivate) ==
    FlattenSeq([i \in DOMAIN parents |->
        <<[name |-> parents[i], required |-> TRUE]>>
        \o IF tryPrivate /\ ~parents[i].private
           THEN <<[name |-> Private(parents[i]), required |-> FALSE]>>
           ELSE << >>])

(* _add_repo: the parents before the repository; seen ends cycles.  The    *)
(* directory is found by the name, and its layout.conf must agree          *)
RECURSIVE AddRepo(_, _, _)
AddRepo(disk, state, wanted) ==
    LET name == wanted.name
        entered == [state EXCEPT !.seen = @ \union {name}]
        add(s, w) == AddRepo(disk, s, w)
    IN  IF state.failed \/ name \in state.seen THEN state
        ELSE IF name \notin DOMAIN disk THEN [entered EXCEPT !.failed = wanted.required]
        ELSE IF \/ disk[name].name # name
                \/ ~state.tryPrivate /\ \E p \in ParentsOf(disk, name) : p.private
             THEN [entered EXCEPT !.failed = TRUE]
        ELSE LET above == FoldLeft(add, entered, Wanted(disk[name].parents, state.tryPrivate))
             IN  [above EXCEPT !.order = IF above.failed THEN @ ELSE Append(@, name)]

(* create_repository_set: the public repository of a private board first,  *)
(* if there is one                                                         *)
CreateRepositorySet(disk, name) ==
    LET none == [seen |-> {}, order |-> << >>, failed |-> FALSE, tryPrivate |-> name.private]
        public == IF name.private
                  THEN AddRepo(disk, none, [name |-> Public(name), required |-> FALSE])
                  ELSE none
    IN  AddRepo(disk, public, [name |-> name, required |-> TRUE])

(* RepositorySet::load_from_layouts, of the directories PORTDIR and        *)
(* PORTDIR_OVERLAY name: no two of a name, and no parent outside the set   *)
Unique(s) == FoldLeft(LAMBDA t, x : IF x \in ToSet(t) THEN t ELSE Append(t, x), << >>, s)
LoadsRepositories(disk, dirs) ==
    /\ ToSet(dirs) \subseteq DOMAIN disk
    /\ IsInjective([i \in DOMAIN dirs |-> disk[dirs[i]].name])
    /\ \A dir \in ToSet(dirs) :
           ParentsOf(disk, dir) \subseteq {disk[d].name : d \in ToSet(dirs)}

\* Repository::eclass_dirs, and what they hold
EclassDirs(disk, repo) == Append(disk[repo].parents, repo)
Eclasses(disk, repo) == UNION {DOMAIN disk[d].eclasses : d \in ToSet(EclassDirs(disk, repo))}

\* __alchemist_find_eclass: of the directories that have it, the last
EclassDir(disk, repo, name) ==
    LET dirs == EclassDirs(disk, repo)
    IN  dirs[SelectLastInSeq(dirs, LAMBDA d : name \in DOMAIN disk[d].eclasses)]
EclassAt(disk, repo, name) == disk[EclassDir(disk, repo, name)].eclasses[name]

(* find_all_ebuilds and find_ebuilds: the paths [repo, file] of all        *)
(* ebuilds, or of those in the directory of a package, from the lowest     *)
(* priority to the highest                                                 *)
FindAllEbuilds(disk, repos) ==
    FlattenSeq([i \in DOMAIN repos |->
        [j \in DOMAIN disk[repos[i]].ebuilds |-> [repo |-> repos[i], file |-> j]]])
EbuildAt(disk, path) == disk[path.repo].ebuilds[path.file]
FindEbuilds(disk, repos, package) ==
    SelectSeq(FindAllEbuilds(disk, repos), LAMBDA path : EbuildAt(disk, path).name = package)
----------------------------------------------------------------------------
(* Toolchains: the leaf overlay decides, so the last repository comes      *)
(* first.  A toolchain is [name, arch, default]: the arch is the start of  *)
(* its name, a triple, and its default an optional BOOLEAN                 *)

\* portage_arch: of other architectures there is none
PortageArch ==
    [aarch64 |-> "arm64", arm |-> "arm", armv7a |-> "arm", armv7m |-> "arm",
     i686 |-> "x86", x86_64 |-> "amd64"]

CanBeDefault(toolchain) == FALSE \notin toolchain.default

LoadToolchain(config, toolchain) ==
    LET same == SelectSeq(config.toolchains, LAMBDA t : t.name = toolchain.name)
    IN  IF config.failed THEN config
        ELSE IF same # << >> THEN [config EXCEPT !.failed = Head(same) # toolchain]
        ELSE [config EXCEPT
                 !.toolchains = Append(@, toolchain),
                 !.primary = IF @ = {} /\ CanBeDefault(toolchain) THEN {toolchain} ELSE @]

LoadToolchains(disk, repos) ==
    FoldLeft(LoadToolchain, [toolchains |-> << >>, primary |-> {}, failed |-> FALSE],
             FlattenSeq([i \in DOMAIN repos |-> disk[repos[Len(repos) + 1 - i]].toolchains]))
===============================================================================
