# Formal models of cros-bazel

TLA+ specifications of cros-bazel, which builds ChromeOS packages (ebuilds) with Bazel,
and proofs about them. They cover the parts of it that are hard to test: directories
that survive Bazel's remote cache and are used by several actions at once, containers of
stacked overlays and the processes that run in them, the installation of packages by
stacking layers, the extraction of packages, a tracer that pretends
changes of file owners, the wrapper around every action, and alchemist, which loads packages
in parallel, resolves their dependencies and generates a Bazel repository whose labels have to
fit together. Each module is written from the Rust, Go, C and shell
sources under `src/portage`; `PROJECT.json` names, for every definition, the lines it
stands for.

Run a model with `tlc -config X.cfg M`, where `X` and `M` are in the table of section 3;
check the proofs with `tlapm M.tla` for `DurableTreeProofs`, `LayerActionProofs` (which takes
some minutes), `OverlayMountProofs`, `ContainerProofs`, `FastInstallProofs`, `FakefsProofs`,
`PackageCacheProofs` and `IndirectDepsProofs`.

## 1. The system

*alchemist* reads the Portage overlays, analyzes every package and generates Bazel rules.
Each rule runs a Rust program in a container whose root is an overlay of many layers, and
leaves its outputs as directories and archives for later actions.

| Component (under `src/portage`) | State it keeps | Operations | What is hard | What makes it correct | Model |
|---|---|---|---|---|---|
| Durable trees, `common/durabletree` | an output directory: raw files, `manifest.json`, a marker file, the mode of the top directory, a "restored" xattr; a flock | `convert`, `expand`, dropping an expanded tree | concurrent expansions that repair files in place, crashes half way, a cache that strips metadata and empty directories, an action that must not use its own output | what is mounted is what the action left; nothing moves under a mount; no lock is kept | `DurableTree`, `DurableConvert`, `TreeStore` |
| Overlay mounts, `common/container/src/mounts.rs`, `bin/overlayfs_mount_helper` | mount points, guards that unmount them | `mount_overlayfs`, dropping the guard | more layers than one overlay takes, failure at any of many calls, order of layers | the merge of all layers, no mount left behind | `OverlayMount` |
| Containers, `common/container/src/container.rs` | list of layers, reusable archive directory, durable trees held, temporary directories | push a layer, prepare, mount, run, take the upper directory | order of layers against sharing of the archive directory; order in which mounts and directories are dropped | layers stack in the order they were pushed; nothing mounted is removed | `Container` |
| Control channel, `common/container/src/control.rs` | a FIFO, a pipe, a reader thread | start, a command, drop | reader and owner end independently | dropping it always returns, and the terminal is given back | `ContainerRun` |
| Child processes, `common/processes`, `bin/run_in_container` | a signal queue, a child | run | signals before, during and after the child, through five processes | the wait ends, with the status of the command | `ContainerRun` |
| Layer cleaning, `common/container/src/clean_layer.rs` | a finished layer | remove and rewrite files | runs between an install and a conversion | nothing a later action needs is lost | in `FastInstall`, the VDB part |
| Fast installation, `bin/fast_install_packages` | container layers, preinst and postinst outputs | install one package after another, then convert all outputs | a dozen steps over layers that hide and move each other's files | hooks and later actions see the root that merging the images would give | `FastInstall` |
| Hooks, `bin/drive_binary_package` | the container's files | setup, preinst, postinst | shell code | - | in `FastInstall`, what it leaves on disk |
| Binary packages, package database, `common/portage`; `bin/xpaktool` | archive formats | read, rewrite | - | - | what a VDB entry has, in `ExtractPackage` and `FastInstall` |
| Package extraction, `bin/extract_package`, `bin/auditfuse` | the image of a package | create VDB entries, audit the hooks, move `/lib` and the like of the host | a tree that is renamed while it is walked; hooks judged by what they look up in a mock root | no entry is lost or put over another; a hook that is skipped sees the same in every root | `ExtractPackage` |
| Action wrapper, `bin/action_wrapper`; tracing and redirection, `common/cliutil`, `common/tracing_chrome_trace`, `common/chrome_trace` | a log, a directory of traces | run a command, show its log, merge the traces | programs that are killed or left behind while they write | what went wrong is shown; success means that all is there; the profile has what was written | `ActionWrapper` |
| File utilities, `common/fileutil` | - | permissions, temporary directories, moves | crash inside `with_permissions` | - | in `DurableTree`, `DurableConvert`, where used |
| fakefs, `bin/fakefs` | an override of the owner on each file, a record per thread | hooks of stat, chown and listxattr calls; a preloaded library that bypasses them | threads that start, stop, die or call execve while the tracer works on their last stop | answers are true of the file, a change takes effect, the tracer ends after its command | `Fakefs` |
| Repositories, profiles and configuration, alchemist's `repository.rs`, `config`, `toolchain.rs`, `bin/alchemist` | read once | load the boards | order of overlays, profiles and files; what the host has from the target | - | `Repositories`, `PackageConfig`, `Boards` |
| Ebuild evaluation, alchemist's `ebuild`, `bash` | - | run bash, read TOML files | inheritance of eclasses | - | `PackageLoading` |
| Package caches, alchemist's `ebuild/mod.rs`, `ebuild/metadata.rs` | mutex, map of once-cells | load a package from many threads | a failed load, a thread waiting for another's load | each ebuild is evaluated once; nobody waits for good | `PackageCache` |
| Versions, atoms, resolver, alchemist's `dependency`, `resolver.rs`, `common/portage/version` | - | best package for an atom | packages that could not be loaded | the answer does not depend on what is unknown | `Versions`, `Atoms`, `DirectDeps` |
| Direct dependencies, alchemist's `analyze/dependency/direct` | - | flatten expressions, bind sub-slots | rewriting in turns, choice of any-of | what is chosen satisfies the ebuild | `Dependencies`, `DirectDeps` |
| Indirect dependencies, alchemist's `analyze/dependency/indirect.rs` | DFS stacks and visited maps | one analysis per package | circles, packages that failed analysis, a package as both host and target | closures of the right edges; every search ends | `IndirectDeps`; `PackageAnalysis`, the results |
| Sources, alchemist's `analyze/source.rs`, `generate_repo/internal/sources` | - | find sources, nest them in Bazel packages | a directory inside another one's package | every file exactly once | `Sources`, `SourcePackages` |
| Analysis driver, alchemist's `analyze/mod.rs` | maps of results | local, then global analyses | which error wins | - | `PackageAnalysis` |
| Repository generation, alchemist's `generate_repo` | - | write BUILD files | functions that name each other's targets by convention | no label without its target | `Generation`, `BuildFiles` |
| alchemist's commands | all of the above | `generate-repo`, `dump-package` | - | every run ends | `Alchemist` |

How they interact: Bazel starts one program per action. A program pushes layers onto
a *container*; a layer that is a *durable tree* is expanded, which takes its flock and
may restore it, and gives directories; the container passes all directories to
*mount_overlayfs*, runs a command through a chain of *processes*, and drops everything in
reverse. *fast_install_packages* repeats this for every package and converts its
outputs to durable trees; what it installs, *extract_package* has made of a binary package.
Builds run under *fakefs*, and the programs of an action under the *action wrapper*. alchemist
loads *boards* from the *repositories* and their *configuration*, loads all packages through
the *caches* from a pool of threads, finds *direct dependencies* and *sources* of each on its
own, *indirect dependencies* from those of all, and *generates* the repository from the
results.

The hazards, each at its line, are listed in `PROJECT.json`.

Not modelled, and why:

* The programs that each set up one container, run one command in it and copy results
  (package and SDK build actions), the remaining commands of alchemist (`dump-profile`,
  `digest-repo`, `ver-rs`, `ver-test`) and the profile compiler: sequences of calls over the
  components above without state of their own.
* Interface layers, package extraction from manifests, the format of binary packages with
  the tools that rewrite and compare them, the text formats that alchemist reads and writes:
  what matters there is bytes. `Checkouts` says what values the parsers can make.
* auditfuse beyond what it reports, parsing of flags, the content mirror and repository
  rules: debugging aids and scripts nothing here depends on.
* Starlark rules: pure functions that Bazel evaluates. What they pass to the programs is in
  the models of these (`LaterLayers` of `FastInstall`, the targets in `Generation`).
* Namespaces and privileges, which are fixed sequences of system calls; that entering one
  fails is modelled.

## 2. The modules

### DurableTree

State: what Bazel knows (`tree`, the directory the action made, and `phase`), what is
on disk (`named`, `topFiles`, `topMode`, `restored`, `raw`), what convert has built
(`manifest`, `cpc`), the locks (`owner`), and the program counter and locals of each
expander (`pc`, `todo`, `cur`, `saved`, `layers`).

| Actions | Code |
|---|---|
| `ConvertRefuse`, `ConvertLock`, `PivotAway`, `PivotBack`, `ProcessFile`, `ProcessUnsupported`, `WriteManifest`, `MarkHot`, `MarkDurable`, `ConvertDies` | `convert.rs`: the checks and the lock, the two renames of the pivot, one entry of the recursive walk, the manifest, mode 0700, the marker |
| `CheckMarker`, `Acquire`, `RefuseHot`, `SkipRestore`, `StartRestore` | `expand_impl` up to the restoration, `DirLock::try_new` |
| `RestoreOpen`, `RestoreXattrs`, `RestoreMode` | the three system calls per manifest entry: `create_dir` and `chmod`, `setxattr`, `chmod` |
| `OpenTop`, `MarkRestored`, `MarkFails`, `CloseTop` | the restored xattr, set inside `with_permissions` |
| `MakeExtra`, `ListLayers`, `Unmount`, `ExpandDies` | the tmpfs of symlinks and whiteouts, the layer list of `DurableTree::expand`, drop, and a crash or error at any step |
| `CoolDown`, `RemoteRoundTrip`, `Rerun` | Bazel, as the comments at `lib.rs:26-98` describe it: 0555 after the action, loss of metadata and of empty directories in the remote cache, a failed action run again |

A mode is where it comes from (`orig`, `rwx`, `hot`, `bazel`); user xattrs are there or
not. `Merged` is overlayfs over the layers of one tree. Bazel's steps are only taken
while nobody expands the tree (`NobodyExpands`): Bazel neither changes an output while
the action that makes it runs nor evicts an input of a running action.

### TreeStore

The abstract specification: a directory is published once, and every reader that opens
it sees its content until it closes it. `KeepsPromise` states that `DurableTree`
implements it, with a mounted tree mapped to what its layers show now, so that a
change under a mount is a step the store cannot take. An empty directory may come back
as no layer at all, so the store lets either be seen.

### DurableConvert

Several converters of one path, at the level of inodes: which inode each call locks,
which the path names by then, whose `raw` subdirectory is what (`raws`); and at the level of
files: `kept` is what is left of the mode of each, or whether a symlink or whiteout is still
there. `build_manifest_impl` is modelled file by file, as `root/raw/...` is looked up each time:
`Look` reads the metadata of a file, `ProcessFile` changes its mode or removes it and notes in
`record`, the manifest in memory, what it read before; `ListDirectory` lists a directory, and
`EndWalk` is the end of the last one. `CreateManifest` truncates `manifest.json` in whatever the path
names then, and `WriteManifest` writes the record to the file that was opened; two
converters that write one file may leave something that cannot be read.

A converter fails if the path names nothing when it needs it (`PathGone`), or an entry that it
has listed is gone (`EntryGone`), and may die at any step: it then forgets its record,
lets go of its lock, and what it has done to the files stays. The entries are those of
the original, whichever directory of it they are in, so that the walk takes them in any
order; a directory that an earlier converter has made is walked over as a whole, and its
own manifest and marker are not told apart in a record. An entry that another converter
takes while this one walks is either missed by it (taken before it was listed) or an error (after).

`NothingIsLost` has two parts. The first is without a condition: every directory has exactly
one name. The second is about modes, symlinks and whiteouts, which each converter has in
memory only until it writes: they are on disk as they were, or recorded, while the lock does its
work, that is, all who came have opened the original directory, and nobody has given up
after its pivot. Section 4 has what happens otherwise.

### OverlayMount

`mount_overlayfs` for one container. A layer maps two paths, a directory `D` and a file
`F` in it, to nothing, a whiteout, a file or a directory; `Overlay` is what overlayfs
makes of a list of layers. The actions are the calls of the function in order: two
checks, the bind mount of the lowers directory and of each layer, the chunks, the top
overlay; `Fails` stands for a failure of any of them, and `Bail` for the guards that drop
on the way out.

### Container and ContainerRun

`Container` is `ContainerSettings` with what is made of it. `disk` maps the directories that
exist to what they have at one path, and whether `.control` is in them; `lowerDirs`,
`archiveDirs`, `trees` and `reusable` are the fields of the settings, `mount` the overlay,
`drops` what the destructors that run still have to drop, in order. `pushed` is a history
variable: the layers as the caller pushed them.

| Actions | Code (`container.rs`) |
|---|---|
| `PushArchive`, `PushDir`, `PushDurableTree`, `PushFails` | `push_layer` and what it calls; an archive goes to the reusable directory if there is one |
| `Make`, `MakeFails`, `Made` | `prepare` and `mount`, one temporary directory or mount at a time, in their order; locals are dropped in reverse |
| `Drop`, `IntoUpper`, `DropNext` | the fields of `PreparedContainer` and `MountedContainer` in the order of their declaration; `into_upper_dir`, `into_upper` |
| `Reuse`, `PushUpper`, `DropSettings` | the same settings again; the upper directory as a layer, as `fast_install_packages` does |
| `Write`, `Status`, `Running` | a file left by the caller; `ContainerCommand::status` |

`ContainerRun` is one command. Each of *host*, *outer*, *init*, *inner* waits for the next of
the chain, the last child being setup.sh with the command; *sentinel* keeps the namespaces
alive. A process is in `st`, its unhandled signals in `pending`. `Register`, `Spawn`,
`SpawnFails`, `OnChild` and `OnSignal` are `processes::run`, and for *init* the loop of
`dumb_init`; `EntryFails`, `StartSentinel` and `EndSentinel` are `run_in_container`. The
kernel's part is in `Signal` and `Happens`: a handled signal is queued, an unhandled one
kills, the init of a namespace is immune to what it does not handle, its end kills the
namespace. `OpenControl`, `ReadControl`, `StopReading`, `CloseControl` and `JoinReader` are the
control channel; `tx` is the set of processes that hold a copy of the write end of its pipe.
`StartShell`, `AskForTerminal`, `EndCommand`, `Obey` and `Ignore` are setup.sh and the command;
`Terminate` and `Interrupt` come from Bazel and the terminal.

Left out: bind mounts of the caller, the parsing of install groups, and what is in the root
other than the one path.

### FastInstall

`fast_install_packages` for a list of packages. A layer maps the paths that matter to what
it has there: `/.image` itself, a file in the image, a file in the root, and per package
`environment.raw` and `CONTENTS` of its VDB entry. `Seen` is what overlayfs shows of a list
of layers; `Changed` is what a hook's writes and removals leave in the upper directory,
whiteouts included. `layers` is the list in `ContainerSettings`, by name; `output` holds the
preinst and postinst directories, `upper` the upper directory in use.

| Actions | Code (`main.rs`) |
|---|---|
| `SkipHooks`, `RefuseHooks`, `PushStaged` | the start of `install_package` |
| `RunPreinst`, `PushPreinst` | `run_pkg_setup_and_preinst`; the upper directory becomes the output and a layer |
| `RecomputeContents`, `SkipImage`, `MoveImage`, `MoveVdb` | `mangle_preinst_layer`, in its order |
| `HideImage`, `PushInstalled`, `RunPostinst`, `StripVdb`, `PushPostinst` | the rest of `install_package` |
| `Postprocess` | one output of `postprocess_layers` |

Two history variables say what should come out: `image`, each package's image as its
preinst left it, and `root`, the root after merging the images into it and running the
hooks. `LaterLayers` is what Bazel passes to later actions (`install_deps.bzl:240-248`).
Left out: files of the same path in two packages (a TODO of the code), opaque directories,
which exist only when a hook replaces a directory and whose handling depends on the kernel,
and `/tmp` and the caches that `clean_layer` removes.

### IndirectDeps

One call of `analyze_indirect_dependencies`. One action per iteration of a loop, with the
explicit stack of the code; `Follows` and `FollowsReusable` are the edges each search
takes. The properties compare the sets it returns with least fixed points (`Closure`).

### Fakefs

The tracer of `bin/fakefs/tracer` and `fsop`, one ptrace stop at a time, and the preloaded
library of `bin/fakefs/preload`. The kernel is external: `Clone`, `Enter`, `Return`, `Exec`,
`Signal`, `Continue`, `ExitThread` and `Die` happen to a thread at any time, also while the
tracer works on an earlier stop of it. `thread` is the kernel's view, `hooks` is
`threadStateIndex`, `override` the xattr of each file; `seen` is a history variable, the
overrides a call could have met while it ran.

| Actions | Code |
|---|---|
| `FastStat`, `FastChown`, `Backdoor`, `ClearOverride` | `preload/fakefs_preload.c`: the check for an override, then the system call with the backdoor key |
| `StartTracee`, `Wait`, `WaitDead`, `WaitFails` | `startTracee`, `waitNextStop`, the end of the loop |
| `SyscallEntry`, `FchownReads`, `FchownRefuses`, `FchownWrites` | the hooks in `hooks`, with `fsop.Fstat`, `Fstatx`, `Fchown`, `Listxattr` |
| `SyscallExit`, `NoRegisters`, `ExecStop`, `OtherStop`, `Go` | `processStop` for the exit of a call, execve, new threads, signals and group stops, and how the thread is resumed; a thread that is gone by then |

`Cleared` has a flaw of the code: `lremovexattr` is bound to the `removexattr` of libc
(`fakefs_preload.c:31`), so that clearing the override of a symbolic link clears that of its
target. `ChownTakesEffect` names another as its one exception: a change to the owner that
was set before takes the override away (`fsop.go:225-228`). Left out: the hooked `fchmodat`,
strings that cannot be read from a thread, the size query of `listxattr`, and the refusal to
run fakefs in itself.

### ExtractPackage

`extract_package` for one package, from its image to the output. `tree` maps the paths of the
image to a kind, a mode with xattrs (`meta`), and where the entry came from; `walk` is what
`WalkDir` has still to visit. The actions are the steps of `do_main` in order: `ExtractImage`,
`GenerateContents`, `CreateSparseVdb` and `CreateInitialVdb`, the audit (`MockRoot`, `RunHook`,
`HookNotImplemented`, `HooksReturn`), `LateFiles` with `WriteRequires`, and for each pair of
directories to be renamed `NextRename`, `MoveEntry`, `MergeEntry`, `LeaveDir`, `RemoveSource`; `ExtractFails`
is an error of any of them. A hook makes any accesses of a set, each a lookup or a listing;
`LooksUp` is how far the kernel gets with a path in a root, and `Reported` what auditfuse
writes down.

`RenamesAreApart` and `RootsAreFaithful` are what the constants of the code satisfy: `/lib` is
renamed to `/lib64` and `/usr/lib` to `/usr/lib64`, and `/var/db` has to do with none of them. Of the image
`InputsAreFaithful` asks that it has nothing at the package's own VDB entry, and only directories
above it.

`MergeIsComplete` is about images in which a file that only the source has is the last entry of
its directory (`FilesAreLast`): in the others `merge_directories` skips what comes after it,
which is what `FilesAreMoved` shows. What a hook looks up in files that are written after the
audit, `CONTENTS` among them, is ignored by the code (`audit.rs:254-262`) and exempt from
`CleanHooksCanBeSkipped` (`LateFiles`).

### ActionWrapper

The wrapper is sequential: `SetUp`, `RunCommand`, `ReportStatus`, `Chown`, `ReadDir`, `Load`, `Save`,
`Result`, `Show`, each with its failing twin. `Chown` is `sudo chown`, whose status is discarded
(`main.rs:294`; only a `sudo` that cannot be run is an error, `ChownFails`): it gives the user some of
the outputs, all or none, the others are `"refused"` and stay with root, and the wrapper goes on either
way. Beside it the programs start each other, set up a trace
(`OpenTrace`, `EmitClockSync`), write events, say something, end in order (`Return`, which drops the
guard of the trace) or do not (`IsKilled`). `stream` is what a program has written of its trace, `flushed`
how much of it is in the file: the buffer is written when it is full, at any event, and when
the guard is dropped. An event carries when it happened, for the properties; the wrapper
reads that of `clock_sync` only, as the code does. Left out: the names of events, the banner before
the command, errors of the log other than that it cannot be opened.

A program that is killed, or still running, before its trace has reached the file leaves an
empty trace, which `Trace::load` refuses: the action then ends with 1, whatever the status of
the command (`main.rs:103`). `SuccessIsComplete` is therefore about an exit code of 0 only; and of the
outputs it says that `chown` was called with every one that root had, not that the user owns it.

A program that is left behind when the command ends goes on: it may write events while the
wrapper loads the traces, and say more after the log has been shown.

### LayerAction

The conversion, the extraction and the wrapper side by side: `part` says which of the three takes the
steps, and `LayerSpec` lets any of them. They share no state, so that what one of them keeps, the
whole keeps (`LayerIsAll`). `MCLayerAction` gives it packages, hooks and commands.

### alchemist

The pure parts are operators, one module per part, from the bottom up; results of a
fallible function are `Success(value)` or `Failure`.

| Module | What it defines |
|---|---|
| `Versions` | parsed versions, their order, prefixes |
| `Atoms` | package atoms, what they match: yes, no or an error when the package could not be loaded |
| `Dependencies` | expressions as trees: conditions, leaves, simplification, evaluation |
| `Repositories` | overlays with their parents, the order of a board's, ebuilds, eclasses, toolchains |
| `PackageConfig` | files of profiles, `make.conf` and `/etc/portage` as nodes, and what they say of a package: flags, masks, keywords, bashrcs |
| `PackageLoading` | from ebuild, eclasses and TOML files to the details of a package on a board |
| `DirectDeps` | the searches of the resolver, the reduction of each kind of dependency to packages, sub-slots, hacks |
| `Sources` | local sources, pinned trees, files to fetch |
| `Boards` | a world: checkout and command line; host and target with their generated configuration |
| `PackageAnalysis` | local analysis, closures, the join of both, which error wins |
| `Generation` | the targets of a package at every stage, and their labels |
| `SourcePackages` | the nesting of sources in Bazel packages, excluded subdirectories, links and renamed files |
| `BuildFiles` | overlays, bashrcs, SDKs, sysroots, external dependencies, public aliases |
| `Checkouts` | what values the parsers make; the assumption on `Worlds` |

`PackageCache` has the threads: each takes one path of one collection, looks for the cell of
its board's loader, waits for it while another fills it, and in it for the cell of the shared
evaluator, runs bash, and leaves both full, or empty again after a failure. `FindLoaded`,
`BeginLoad`, `FindEvaluated`, `BeginEvaluation`, `EndEvaluation`, `FailEvaluation`, `EndLoad` and
`FailLoad` are the steps of `CachedPackageLoader` and `CachedEBuildEvaluator`.

`Alchemist` composes all: the main thread loads the boards, begins collections of packages
and waits for the pool, then analyzes, joins and generates (`LoadBoards`, `SetUp`, `Begin`,
`Loaded`, `Overlays`, `AnalyzeLocals`, `AnalyzeGlobals`, `HostSdk`, `CrossSdk`, `Complete`), or finds
packages and shows them (`Found`, `DumpStep`); each step that can fail has its failing twin.
A BUILD file is the set of labels it defines and the set it refers to.

`IndirectDeps` has the searches step by step; `PackageAnalysis` uses their results, as
`SetsAreClosures` states them, for all packages of a board at once.

Left out: the output of bash that `bash/vars.rs` parses and the default of `RDEPEND` before
EAPI 4; circular `inherit`s; site configurations of a real chroot
(`use_portage_site_configs`); digests; attributes that are not labels, `settings.bzl` and
`deps.json`; labels of other Bazel repositories and of targets in the same file.
`CrossCompiler` stands for the search of the cross glibc and of the toolchain packages, with
binutils and compiler-rt left out.

## 3. Runs

| Run | Module and configuration | Instance | Properties |
|---|---|---|---|
| `durable_tree` | `MCDurableTree`, `MCDurableTree.cfg` | 3 expanders, 11 trees over a directory, a path in it and one beside it | `RestoredMeansOriginal`, `HotTreeIsLeftAlone`, `MountedIsOriginal`; `NothingMovesUnderAMount`; `KeepsPromise` (refinement); `ExpansionsEnd` (liveness) |
| `overlay_mount` | `MCOverlayMount`, `MCOverlayMount.cfg` | chunks of 2, every stack of up to 4 layers and one of 5 | `NoMountLeaks`, `StackingIsInvisible` |
| `overlay_whiteout` | `MCOverlayMount`, `MCOverlayWhiteout.cfg` | the same | `MountShowsAllLayers` is violated |
| `container` | `MCContainer`, `MCContainer.cfg` | lists of up to 3 layers of every kind, 2 containers, one command in each | `LayersStackInPushOrder`, `TeardownIsOrderly`, `StatusIsTheCommands`, `TerminalIsGivenBack`; `StatusReturns` |
| `fast_install` | `MCFastInstall`, `MCFastInstall.cfg` | 2 packages with one file each, a base with a third file, any subset of packages with hooks, full and sparse VDBs | `HooksSeeTheirImage`, `PostinstSeesMergedRoot`, `LaterActionsSeeTheSame`; `InstallEnds` |
| `fast_install_known` | `MCFastInstall`, `MCFastInstallKnown.cfg` | the same, and preinst may take out of the image what the root has | `PostinstSeesMergedRoot` is violated |
| `indirect_deps` | `MCIndirectDeps`, `MCIndirectDeps.cfg` | 3 packages, 1024 graphs, none or one of the packages broken | `SetsAreClosures`; `AnalysisEnds` |
| `idepends` | `MCIndirectDeps`, `MCIdepends.cfg` | the same | `BuildHostSetIsComplete` is violated |
| `analysis` | `MCAlchemist`, `MCAlchemist.cfg` | 13 small checkouts, 2 threads, a host and a target | types; `EvaluatedOnce`, `DependenciesHold`, `BestIsReliable`, `NoDanglingLabels`, `SourcesAreWhole`; `AnalysisEnds` |
| `layer_action` | `MCLayerAction`, `MCLayerAction.cfg` | 2 converters that may die anywhere, of a directory with a file and 2 links; packages with every way in which `/lib` and `/lib64` can meet, or with hooks of up to 2 accesses; a command and a program it starts, one event each, and 3 ways to call the wrapper | types (`TypesAreKept`); `NothingIsLost`, `SoleSuccessIsComplete`; `MergeIsComplete`, `CleanHooksCanBeSkipped`; `FailureIsShown`, `SuccessIsComplete`, `TracesAreKept`, `ProfileHasOneClock`; `ConversionsAllEnd` |
| `extract_files` | `MCLayerAction`, `MCExtractFiles.cfg` | the packages of `layer_action` | `FilesAreMoved` is violated |
| `fakefs` | `MCFakefs`, `MCFakefs.cfg` | 3 threads of 2 processes, 3 files, 2 calls a thread | `AnswersAreTruthful`, `EndsAfterRoot`; `ChownTakesEffect`; `StopsEnd` |

Bounds. *Expanders*: two are needed for any conflict over the lock; with three, one can use a
mounted tree while two others race, which is how a restoration under a mount would come about.
*Trees*: they cover a special file inside a directory (so that the extra layer has to make the
directory), a directory that is empty without it (dropped by the cache), an empty tree, one
with an unsupported file, one that is not accessible. *Converters*: two suffice for every race
over the pivot, the walk and the manifest, the third would only nest once more, and what is
proved is proved for any number. *Entries*: one file and two links, so that a walk can be cut with the
directory, one kind and only one of two links taken. *Layers*:
2 is the smallest chunk for which a chunk is an overlay of its own, and 2 x 2 layers give full,
partial and single-layer last chunks; 5 layers are one too many. *Installed packages*: two are
needed for a package to meet the layers of an earlier one; a third would meet the same layers
twice. Each run of hooks writes or removes one file, in the image, in the root or in both
(`HookChanges`): every path is read on its own, so two changed files are two instances of one.
*Packages to analyze*: three give circles of length one, two and three, and a package reached
over two kinds of edges. *Containers*: sharing of the archive directory depends on the last
layer and on whether one came in between, so that three layers (archive, other, archive) are
the least that show an order; the second container shows what is left of the first in the
settings and, taken as a layer, in the upper directory. Files are left in a mounted one, a
command is run in a prepared one (`MaxCommands = 1`: as every caller does; a second command
with a login mode in one container fails, see below). Each signal is sent once. *Checkouts*:
they differ in what a run depends on: versions, slots, flags and any-ofs; packages that fail in
every way; circles; overlays with and without parents and a private twin; sources that are
nested, renamed or missing; no target. Two threads are needed for any wait, and two boards for
a package to be loaded twice. Three of the checkouts (`dump`, `badDump`, `badGenerate`) use
both threads; in the others, which are about what is done with the packages once they are
loaded, one thread loads them (`workers`). *fakefs*: two threads of one process for execve and
group stops, and a second process for the race on a file; `MaxEnters = 2` lets a thread meet
what its first call left behind; what each may ask for (`MCAsks`) covers each hook, files with
and without override, links and files that cannot be read; one thread gets a signal.
*Extraction*: entries are merged one by one, and what happens to one depends on what the other
side has at its path and on whether a file before it was moved; two accesses let a hook look
below a directory that the mock root lacks. *Action wrapper*: of the programs that a command
starts one is enough to be left behind; `MaxClock = 1` separates the start of a trace, its
first event and that of the wrapper; with `MaxEvents = 1` a trace is empty, has its first
event, or more. Where no bound is named, the instance is finite as it is.

`CHECK_DEADLOCK` is off where the modelled function returns and nothing follows
(`OverlayMount`, `Container`, `FastInstall`, `IndirectDeps`, and the three programs of
`MCLayerAction`); `DurableTree`, `Alchemist` and `Fakefs` are checked for deadlock, the last two
with an explicit step for the ended program. Types are checked where they are
not proved (`Alchemist`), and for the programs of `LayerAction`.

Fairness. An expander that has the lock, or needs none, is scheduled again
(`WF_vars(ExpandStep(p))`). For the lock strong fairness is assumed: flock(2) queues its
waiters in the kernel, so one that waits while the lock is free again and again gets it.
Nobody is obliged to start an expansion, to drop a tree, to die or to fail. Converters,
the installation and the dependency analysis need weak fairness of their steps only. In a
container every process, the reader thread and the thread that drops the channel are
scheduled; a command ends unless it is one that runs until it is told to (`endless`), and
obeys SIGTERM; it need not obey SIGINT, and nobody need send a signal. The threads of
alchemist's pool and its main thread are scheduled; `MainRuns` is `WF_vars(Main)` written
out, because ENABLED of an action over whole checkouts is slow. Under fakefs the tracer is
scheduled and a system call that was let pass returns; threads may do nothing forever. Package
extraction and the action wrapper have safety properties only, and no fairness.

What the violated properties show (details under "findings" in `PROJECT.json`):

* `MountShowsAllLayers`: a whiteout in a chunk does not reach the chunks below.
  `StackingIsInvisible` states the condition under which stacking is right.
* `PostinstSeesMergedRoot` with `TakesOutKnown`: a file that preinst removes from `$D`
  becomes a whiteout of the root, which hides more than the package's own file.
  `fast_install` shows that nothing else goes wrong between an image and the root.
* `BuildHostSetIsComplete`: only the last IDEPEND of each package is kept.
* `FilesAreMoved`: `merge_directories` tells `WalkDir` to skip the directory it has moved, also when
  what it has moved is a file; the rest of the file's directory is then skipped and removed.

What some of the others leave open:

* `SoleSuccessIsComplete` is about a conversion that succeeds alone. The lock of `convert` is on
  the inode that is about to be moved into `raw` (`convert.rs:147-149`); a second call that opens
  the path after the pivot locks another inode, and both can succeed, one tree nested in the
  other. `NothingIsLost` shows that no directory is lost by that, but more is at stake: the walks of
  both may go over the original at the same time, and a symlink that one has removed is recorded
  in the manifest that the other overwrites, or in one that is now nested; both calls return
  success. The second part of `NothingIsLost` therefore assumes that all have opened the
  original (`LockedOriginal`); without that assumption TLC finds it violated with two converters. The
  comment says that concurrent calls get an error, "a better error message": they may get none.
* A converter that dies, or meets an unsupported file, after its pivot takes with it the modes, symlinks and
  whiteouts of all files it has processed (`convert.rs:57`, `:74`, `:80`): they are in no manifest. The
  directory it leaves has no marker, so another call may convert it once more and return
  success, also one that waited for the lock of the original. `NothingIsLost` assumes
  that nobody has given up half way (`GaveUpHalfWay`), and `SoleSuccessIsComplete` that no other has pivoted. In this
  repository nobody converts the output of a failed action: `DurableTree`, where a failed
  conversion fails the action and Bazel runs it again, keeps `KeepsPromise`.
* `SuccessIsComplete` does not say that the user owns all outputs: the status of `sudo chown` is not
  looked at (`main.rs:294`), so the wrapper may return 0 with outputs that root still owns.
* `parse_simplified_dependency` sorts the atoms and drops duplicates. `ParseSimplified` has each atom once
  and in an order that only the set of atoms decides, but not in that of the code: which
  of several IDEPENDs is the last (`indirect.rs:185`) is therefore not the code's choice. No property depends on it.
* `NoDanglingLabels` exempts two kinds of labels (`Optional`): public aliases of targets that
  not all packages have (`_debug`, `_install`, `_installed`, `_install_list`, `_test`), which
  fail only if somebody asks for them, and the sysroot of the host in stages of the host.
* `StatusReturns` holds for a command that runs until it is told to only if it is told: a
  SIGTERM that reaches *init* before its handlers are in place is dropped by the kernel
  (`lost`).
* `DependenciesHold` looks at packages whose analysis succeeds. An any-of within an any-of
  may fail a package that could be satisfied (`algorithm.rs:104`).
* The order of versions is not transitive for versions with several suffixes
  (`version.rs:279-292`: `1_alpha_p` > `1` > `1_beta` > `1_alpha_p`); the checkouts have at
  most one suffix a version.
* `.control` is made in the root of the container and never removed, so that a second
  command with a login mode in one container fails with EEXIST (`control.rs:71`).
* fakefs takes an override away when a file is given the owner it was given before
  (`fsop.go:225-228`).

Every property of a passing run has a mutant in `PROJECT.json`: a change of one modelled
operation, as a slip in the code could make, that violates the property in the same
configuration. The mutated operators stand beside the originals, marked "Mutant".

## 4. Proofs

### Durable trees

`DurableTreeProofs` proves, for all sets of paths, of trees
and of expanders that satisfy the assumptions `EntriesAssumption` (paths are sequences,
closed under parents), `TreesAssumption` (only a directory holds anything) and
`ProcsAssumption` (the processes are distinct):

| Theorem | Statement |
|---|---|
| `Typing` | `Spec => [](TypeOK /\ LocalsInv)` |
| `HotTreeSafety` | `Spec => [](HotTreeIsLeftAlone /\ HotInv /\ LockInv)` |
| `ManifestSafety` | `Spec => []ManifestInv` |
| `RestorationSafety` | `Spec => [](RestoredMeansOriginal /\ RestoreInv)` |
| `MountsAreUndisturbed` | `Spec => NothingMovesUnderAMount` |
| `MountsAreFaithful` | `Spec => [](MountedIsOriginal /\ LayersInv)` |
| `Refinement` | `Spec => KeepsPromise` |

None of the stated invariants is inductive. The inductive one is built in layers, each
proved from those before:

1. `TypeOK`, with `LocalsInv`: an expander has only recorded files and directories to
   restore. Without it the restoration could write an entry the manifest does not have.
2. `HotInv` and `LockInv`: nobody is past the marker check unless the conversion is
   complete, a complete tree is hot until Bazel cools it down, and whoever works on the
   tree owns the lock of the inode the path names. The last part is where the pivot
   matters: `named` does not change once the marker is there.
3. `ManifestInv`: the manifest records original entries only, all of them when the walk
   is over, and what is not stored as a file or directory is gone from `raw`. That the
   walk reaches everything when no entry is left to visit needs that a nonempty set of
   paths has a member whose parent is not in it (`ShallowestMember`, by well-founded
   induction on the length).
4. `RestoreInv`: what has been restored stays so until the xattr is set, because the
   lock excludes other expanders and Bazel only acts when there are none.

From these, `UsedIsWhole` has the tree complete whenever somebody lists or uses its
layers, `InUseStandsStill` shows that no step changes it then, `MergeOfWhole` computes
the merge of its layers, and `Refinement` maps `ListLayers` to `Open`, `Unmount` to
`Close`, `CoolDown` to `Publish`, `Rerun` to `Replace` and every other step to a stutter.

### Concurrent conversions

`LayerActionProofs` proves, for any number of converters that race on a path and may die
between any two calls (`ConvertersAssumption`):

| Theorem | Statement |
|---|---|
| `ConvertTyping` | `Spec => []TypeOK` |
| `ContentSurvives` | `Spec => []NothingIsLost` |
| `LoneConversion` | `Spec => []SoleSuccessIsComplete` |

Neither property is inductive: a rename moves whatever its source names at the time, and a walk
goes over whatever the path names. Both follow from `ConvertInv`, which is:

* `NamesInv`: every inode that exists has one name, one that is not made yet has none, and the
  temporary directory of a converter that is about to rename it is still there. Each rename of
  the pivot then takes a name from one place and gives it to one other (`NamesCounted`).
* `PivotInv` and `UntouchedInv`: as long as nobody has pivoted, nothing has been taken.
* `SoleInv`: what a converter has done, step by step, as long as it is the only one that has
  pivoted. `RecordInv` follows its walk: every file is as it was or in the record, with what it
  was, and the record is `Everything` at the end of the walk. Here the order of reading the
  mode and changing it matters, and that other converters have walked over nothing.
* `HoldInv` and `ExclusionInv`: who holds the lock of which inode; when all have opened the
  original and nobody has given up half way (`Guarded`), at most one converter has pivoted, and none while
  another is about to, so that `SoleInv` is about that one.

### Package extraction

`LayerActionProofs` proves, for any packages, hooks, roots and list of directories to be renamed (with
`InputsAreFaithful`, `NamesAreRanked`, `RenamesAreApart` and `RootsAreFaithful`):

| Theorem | Statement |
|---|---|
| `ExtractTyping` | `ExtractSpec => []ExtractTypeOK` |
| `MergesAreComplete` | `ExtractSpec => []MergeIsComplete` |
| `HooksCanBeSkipped` | `ExtractSpec => []CleanHooksCanBeSkipped` |

Both properties speak of the end only. For the first, `WalkInv` says what the lists of `WalkDir` have
while the tree is renamed below them: every entry is still in the tree, its parent has been merged,
no two of them are one below the other, and those of one list are siblings. It is what keeps a step from renaming an
entry that is gone, and without it the tree would not even stay a tree. `ContentInv`
follows the entries of the image: each is where it was, or in its new place and no longer in the old one
(`NothingMissing`), nothing else is there but the directories of the VDB (`NothingElse`), and
while a directory is being merged, what is left in it has been merged or is below an entry that is
still to come (`Visited`); so what `RemoveSource` deletes are directories that the target has as well.
`Visited` is where `FilesAreLast` is needed: after a directory has been moved, `skip_current_dir`
drops a list that was just made for it; after a file has been moved it drops the list that the file was in, which is
then empty.

`HooksInv` has in the audit all that auditfuse reported of the accesses made so far. A lookup
of a path in the mock root and in a real one goes the same way up to the first directory that only one
of them has. The parent of that is in both, so auditfuse reports it, and its entry tells something
unless it is on the allowlist, in which case both roots have it. Along the path this is an induction
on the length (`LeastNumber`: the shortest prefix about which the two roots disagree).

### Action wrapper

`LayerActionProofs` proves, for any number of programs, codes, signals and outputs, and any bound on
the events and lines of each (`OptionsAreTyped`):

| Theorem | Statement |
|---|---|
| `WrapperTyping` | `WrapperSpec => []WrapperTypeOK` |
| `SuccessMeansComplete` | `WrapperSpec => []SuccessIsComplete` |
| `FailureMeansShown` | `WrapperSpec => []FailureIsShown` |
| `TracesAreInTheProfile` | `WrapperSpec => []TracesAreKept` |
| `OneClock` | `WrapperSpec => []ProfileHasOneClock` |

`TracesInv` has the shape of a trace at every moment: the bracket, the `clock_sync` event and
only events of this program after it, each with the time since the trace was set up, and the
closing bracket at most at the end of a program that has ended; never is the bracket alone in the
file, which would make a trace without its clock. `ControlInv` says which steps the wrapper
reaches with which error, code and state of the command, `OutputsInv` that no output is root's that `chown` was not called with once the wrapper
is past `Chown`: programs that are left behind make none. `LogInv` splits the log
where it was shown.

`MergedInv` is about the traces loaded so far, in any order: the events of a program are in
one place of `merged` (`Place`), they are the first of its trace (`First`), also when it has written more since, and of a
command that was not killed all (`AllOfTheCommand`), because its trace is in the file once it has ended
(`FlushedInv`). From this `BaseIsStart`: the time that the wrapper finds for a program is that at which the program
has set up its trace. That a finite set of programs can be sorted by it, so that `SortIndex` exists
(`SortIndexOrder`), is proved by induction on their number (`SortedOrderExists`).

`LayerTyping` and `LayerKeepsPromises` put these theorems and those about the conversion together for
`LayerSpec`, of which `layer_action` checks an instance.

### Overlay mounts

`OverlayMountProofs` proves, for all stacks of layers and every limit on their number
(`MaxLowersAssumption`: it is at least 2; `LayersAssumption`: every layer is a tree whose one
directory is the parent of its one file):

| Theorem | Statement |
|---|---|
| `NothingStaysMounted` | `Spec => [](NoMountLeaks /\ MountsInv)` |
| `StackingIsFaithful` | `Spec => [](StackingIsInvisible /\ OrderInv /\ CoverInv /\ ViewInv)` |
| `MountTyping` | `Spec => []TypeOK` |

`MountsInv` relates what is mounted to the guards the function holds at each of its steps:
an error drops exactly the guards of what was mounted. For the second theorem, `OrderInv`
says that the chunks hold layers in the order of the container, none twice, `CoverInv` that
they hold all of them in the end, and `ViewInv` that the overlay shows the merge of the
chunks. What is left is about merging alone: the top entry of a path in a stack is that of the
first chunk that has one, as every whiteout of the layers below is still in force in a chunk's
own merge (`NoCuts`, the condition the property is stated under, excludes the one case where
it is not: a chunk other than the lowest that cuts a search short). The runs check this with
chunks of 2 and up to 5 layers; the theorem covers the limit of 499 in the code and any
contents.

### Fast installation

`FastInstallProofs` proves, for any list of packages, any images without files of the same
path (`ShipsAssumption`), full and sparse VDBs and any changes the hooks make:

| Theorem | Statement |
|---|---|
| `HooksFindTheirImage` | `Spec => [](HooksSeeTheirImage /\ ShapeInv /\ ImageInv)` |
| `PostinstIsFaithful` | `Spec => []PostinstSeesMergedRoot`, if `~TakesOutKnown` |
| `LaterActionsAreFaithful` | `Spec => []LaterActionsSeeTheSame`, if `~TakesOutKnown` |
| `InstallTyping` | `Spec => []TypeOK` |

The first three properties speak of single points of an installation, so the invariants say
what holds at each step between them. Their base is `SeenOnTop`: one more layer shows what it has,
hides what it has a whiteout for, and leaves the rest as the layers below show it, except
that a file at `/.image` hides all images (`CutHidesImages`). `ShapeInv` says what has been
pushed: a layer under the name of an output that is still to be written would make what is
below change. `ImageInv` has no image in sight between two packages, and follows the changes
that preinst made to the image from the preinst layer to the upper directory that postinst
starts from, with the VDB entry behind them. `RootInv` has the history variable `root` equal
to the stack, to the stack below the layer still to be pushed, or to the image merged
into the stack, whichever the step calls for. A whiteout that comes with the moved changes
removes a file of the root too, and the second theorem needs that there is none:
`TakesOutKnown` is the case `fast_install_known` finds violated.

A later action does not mount what the installation had mounted: it takes the outputs of all
packages after `Postprocess` has changed them, and leaves out the staged images. That it sees
the same is an argument about order. Layers have a `Rank`, by package and within one by kind,
and in a stack in that order (`OrderInv`) only those count that have something at the path in
question; so two stacks that agree on these show the same. `PushedInv` says which layers there
are, `VdbInv` what the outputs have of each VDB entry, with the postinst layer without one in the
sparse case, and `ProcessedInv` that an output that has been processed has nothing left at
`/.image`. `RootInv` carries the rest over: once the installation is done, postprocessing only
takes out what nothing in the root rests on.

### Containers

`ContainerProofs` proves, for any list of layers of any kind, any number of containers made of
the same settings and any number of commands, with signals, failures and ends of processes at
any point (`ContainerAssumption`: the requests are typed, the bounds are numbers):

| Theorem | Statement |
|---|---|
| `StatusIsPassedOn` | `Spec => []StatusIsTheCommands` |
| `TerminalComesBack` | `Spec => []TerminalIsGivenBack` |
| `LayersStack` | `Spec => []LayersStackInPushOrder` |
| `TeardownKeepsOrder` | `Spec => []TeardownIsOrderly` |
| `ContainerTyping` | `Spec => []TypeOK` |

The first two follow from `RunInv`, about one command. `ChainInv` says that a process outlives
its child, and has none before it waits for it: so nothing of the container is alive when the
host returns. Signals are what could break it, and `SignalRun` shows that they kill only
processes that have no child yet, the sentinel among them. `StatusInv` says that each process
that is gone has passed on what the one below it exited with, or an error if there never was a
command; `TerminalInv` that while a shell has the terminal, or has just ended, the reader of
`.control` has still the request to give it back before it unless it is broken, and that the
host does not join the reader with a write end of the pipe in its own hands.

The other two follow from `LayersInv`, about the directories. `NamesInv` keeps them apart,
by kind and number; `DirsInv` says that what is on disk is exactly what somebody holds or is
going to drop, each once; `MountInv` that a mounted overlay has all its directories and is the
next thing to be dropped once anything is; `StackInv` that the lower directories show what was
pushed (`Highest`), where a directory that still takes archives is the last of them. This is
what makes it right to unpack an archive over an earlier one, and it would fail if another
layer could come between.

### Indirect dependencies

`IndirectDepsProofs` proves, for any packages and any graph of dependencies, circles and
packages that failed their analysis included (`InputsAssumption`: dependencies are packages):

| Theorem | Statement |
|---|---|
| `SearchesFindClosures` | `Spec => [](SetsAreClosures /\ IInv)` |
| `IndirectTyping` | `Spec => []TypeOK` |

`SetsAreClosures` is about finished analyses. In `IInv` every search under way is a
`GoodSearch`: its seeds, and the successors of what it has visited, are visited or on the
stack, and all of those are in the closure. When the stack is empty, what has been visited
is closed under the edges, so it contains the least closed set and is that set. The
last search runs over pairs of a package and a side, host or target; `NodesReached` splits its closure
into those of the two sides. The order in which a search takes its seeds is left open.

### Package caches

`PackageCacheProofs` proves, for all sets of threads, boards, files and collections, and any
use of the caches (`CacheSpec`, of which the caches of `Alchemist` are an instance), from
`MalformedAssumption` (the malformed names are among the files):

| Theorem | Statement |
|---|---|
| `CacheTyping` | `CacheSpec => []CacheTypeOK` |
| `EvaluationIsShared` | `CacheSpec => [](EvaluatedOnce /\ EvaluatorInv)` |
| `NoStandstill` | `CacheSpec => [](SomebodyMoves /\ HeldInv)` |

`EvaluatedOnce` is not inductive: that bash does not start a second time depends on who is
in bash now. `EvaluatorInv` says that a thread in bash is alone with its file, that its cell is
busy and bash has not succeeded on it, and that a full cell of a loader has a full one of the
evaluator behind it. `SomebodyMoves`, that of the threads at work one does not wait, is the safety half of
`AnalysisEnds`. It rests on `HeldInv`: a busy cell belongs to a thread that is past it. A
thread that waits for a loader's cell waits for one that has it and is at the evaluator or
later; one that waits for the evaluator's waits for one that is in bash; and bash waits for
nobody. Locks are taken in one order, and a failure gives the cell back.

### fakefs

`FakefsProofs` proves, for any files, threads and processes, any calls, signals, executions
and deaths, and any order in which the kernel reports the stops (`FakefsAssumption`: the leader
of a process is one of its threads, links point to files, and calls are about files):

| Theorem | Statement |
|---|---|
| `ProgramsAreNotFooled` | `Spec => []AnswersAreTruthful` |
| `OutlivesTheCommand` | `Spec => []EndsAfterRoot` |
| `ChownsTakeEffect` | `Spec => ChownTakesEffect` |
| `TypeCorrect` | `Spec => []TypeOK` |

All four follow from one invariant, `Inv`, for none is inductive: the tracer decides on an
answer at one stop and puts it in place at another, and between the two the thread may die, be
replaced by its leader's execve, or stop again before the tracer has resumed it. `ThreadInv`
has a thread *fit* its hook wherever it is (`Fits`): in a blocked call the hook is a truthful
answer to that call, given the overrides it could have seen (`seen`, which `Watched` keeps up
to date while files change); in a call let pass there is none; when a blocked call returns,
there is an answer to put in place of what the kernel says. `TracerInv` says
that while the tracer works on a stop the thread is still there, or dead, or has become the
only thread of its process (`Alone`), so that an answer never goes to another call.
`ExecInv` has the other threads gone at an execve stop, so that nothing is dropped with their
hooks, and `RootInv` that the tracer knows the leader of the command before it lets it go on,
so that the last thread it knows is the last there is.

`Truthful` includes the errors: `listxattr` of a missing file fails with ENOENT, and `MCFakefs` has
such a file.

### Model-checked only

* Liveness (`ExpansionsEnd`, `ConversionsAllEnd`, `InstallEnds`, `AnalysisEnds`, `StatusReturns`,
  `StopsEnd`), which needs fairness and ENABLED.
* All that rests on recursive definitions over expressions, versions and graphs
  (`Dependencies` and the modules above it, up to `Alchemist`: `DependenciesHold`, `BestIsReliable`,
  `NoDanglingLabels`, `SourcesAreWhole`), for which the provers have no induction.
* That `FilesAreMoved`, `MountShowsAllLayers`, `BuildHostSetIsComplete` and the unrestricted
  `PostinstSeesMergedRoot` are violated, which takes a counterexample.

## 5. Plan

Done, the most important behaviour first: durable trees with their proofs; overlay mounts and
indirect dependencies; fast installation; containers with processes and control channel;
proofs about concurrent conversion, overlay mounts, fast installation and indirect
dependencies; alchemist's caches with their proofs, its resolver, analyses and generation, and their
composition; fakefs with its proofs; package extraction and the action wrapper with their proofs;
proofs of what later actions see of an installation, and about containers and the processes in them.

Left, in this order:

1. The format of binary packages, and updates of one that end half way.
2. Site configurations and digests of alchemist, once a property needs them.
