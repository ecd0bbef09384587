----------------------------- MODULE FastInstall -----------------------------
(***************************************************************************)
(* fast_install_packages (main.rs): install packages one after another by  *)
(* stacking layers.  The image of a package is staged at /.image, where    *)
(* its preinst hook may change it; the installed layer already holds the   *)
(* unchanged image, so what the hook changed is moved over it before       *)
(* postinst runs.  The upper directories of the two hook runs are the      *)
(* outputs.  A later action stacks preinst, installed and postinst of      *)
(* every package, without the staged image (install_deps.bzl:240-248).     *)
(*                                                                         *)
(* A layer maps paths to what it has there.  Opaque directories, which a   *)
(* hook gets when it replaces a directory, are left out.                   *)
(***************************************************************************)
EXTENDS Naturals, Sequences, SequencesExt, FiniteSetsExt, Functions

CONSTANTS
    Files,          \* paths of files, in an image or in the root
    Ships,          \* for each package in order, the files in its image
    BaseFiles,      \* the files of the layers given with --layer
    TakesOutKnown   \* may preinst take out of the image a file the root has?

Packages == DOMAIN Ships

\* File collisions are a TODO of the code (main.rs:395, 433)
ASSUME ShipsAssumption ==
    /\ Ships \in Seq(SUBSET Files)
    /\ BaseFiles \subseteq Files
    /\ \A p, q \in Packages : p # q => Ships[p] \intersect Ships[q] = {}
    /\ \A p \in Packages : Ships[p] \intersect BaseFiles = {}
    /\ TakesOutKnown \in BOOLEAN

Image == <<"image">>                 \* /.image itself
InImage(f) == <<"image", f>>
InRoot(f) == <<"root", f>>
Env(p) == <<"env", p>>               \* environment.raw of a package in the VDB
Contents(p) == <<"contents", p>>     \* CONTENTS of a package in the VDB

ImageFiles == {InImage(f) : f \in Files}
RootFiles == {InRoot(f) : f \in Files}
Vdb(p) == {Env(p), Contents(p)}
Paths == {Image} \union ImageFiles \union RootFiles \union UNION {Vdb(p) : p \in Packages}

Absent == <<"absent">>
Whiteout == <<"whiteout">>
Dir == <<"dir">>
EmptyFile == <<"file">>
By(who, p) == <<who, p>>             \* a file with the content who gave it

VARIABLES
    input,      \* which packages need their hooks run, --sparse-vdb, --ensure-skip-hooks
    pc,
    n,          \* the package being installed; later the output being processed
    layers,     \* the layers of ContainerSettings, lowest first
    output,     \* the preinst and postinst directories of every package
    upper,      \* the upper directory of the container, or what postinst will start from
    updated,    \* updated_contents
    image,      \* history: each package's image when its preinst hook had run
    root        \* history: the root if Portage had merged the images into it

vars == <<input, pc, n, layers, output, upper, updated, image, root>>
----------------------------------------------------------------------------
(* Layers and what a container makes of them                               *)

Empty == [x \in Paths |-> Absent]

Base == [x \in Paths |-> IF x \in {InRoot(f) : f \in BaseFiles} THEN By("base", 0) ELSE Absent]

\* What generate_vdb_contents lists: the files of an image with their hashes
Shipped(p) == [f \in Files |-> IF f \in Ships[p] THEN By("shipped", p) ELSE Absent]

\* The image under /.image with its complete VDB entry
Staged ==
    [p \in Packages |-> [x \in Paths |->
        CASE x = Image -> Dir
          [] x \in {InImage(f) : f \in Ships[p]} \union {Env(p)} -> By("shipped", p)
          [] x = Contents(p) -> <<"list", Shipped(p)>>
          [] OTHER -> Absent]]

\* The image in the root; a sparse VDB entry has neither of the two files
Installed ==
    [sparse \in BOOLEAN |-> [p \in Packages |-> [x \in Paths |->
        CASE x \in {InRoot(f) : f \in Ships[p]} -> By("shipped", p)
          [] x = Env(p) /\ ~sparse -> By("shipped", p)
          [] x = Contents(p) /\ ~sparse -> <<"list", Shipped(p)>>
          [] OTHER -> Absent]]]

LayerAt(name) ==
    CASE name[1] = "base" -> Base
      [] name[1] = "staged" -> Staged[name[2]]
      [] name[1] = "installed" -> Installed[input.sparse][name[2]]
      [] OTHER -> output[name]

Stack(names) == [i \in DOMAIN names |-> LayerAt(names[i])]

\* The topmost layer that has something at x shows it, but a layer that has
\* something else than a directory at /.image hides every image below it
Seen(stack, x) ==
    LET cuts == {i \in DOMAIN stack : stack[i][Image] \notin {Absent, Dir}}
        reach == IF x \in ImageFiles THEN {i \in DOMAIN stack : \A j \in cuts : i > j} ELSE DOMAIN stack
        has == {i \in reach : stack[i][x] # Absent}
    IN  IF has = {} \/ stack[Max(has)][x] = Whiteout THEN Absent ELSE stack[Max(has)][x]

SeenImage(stack) == [f \in Files |-> Seen(stack, InImage(f))]
SeenRoot(stack) == [f \in Files |-> Seen(stack, InRoot(f))]

\* The container of the current settings, with an upper directory
Container == Append(Stack(layers), upper)

\* The upper directory after writing or, with Absent, removing files
Changed(lower, up, changes) ==
    [x \in Paths |->
        IF x \in DOMAIN changes
        THEN IF changes[x] = Absent /\ Seen(lower, x) # Absent THEN Whiteout ELSE changes[x]
        ELSE IF x = Image /\ DOMAIN changes \intersect ImageFiles # {} THEN Dir
        ELSE up[x]]

\* What a hook may do: write or remove a file.  The bound: one file per run, in
\* any or all of the places it has.
HookChanges(places, content) ==
    {c \in UNION {[S -> {content, Absent}] : S \in UNION {SUBSET P : P \in places}} :
        \A x \in DOMAIN c : c[x] = Absent => Seen(Container, x) # Absent}

\* The environment is saved after a run
WithEnv(c, who, p) ==
    [x \in DOMAIN c \union {Env(p)} |-> IF x = Env(p) THEN By(who, p) ELSE c[x]]
----------------------------------------------------------------------------
Outputs == {"preinst", "postinst"} \X Packages

Init ==
    /\ input \in [hooks : SUBSET Packages, sparse : BOOLEAN, ensureSkip : BOOLEAN]
    /\ pc = "install"
    /\ n = 1
    /\ layers = << <<"base", 0>> >>
    /\ output = [o \in Outputs |-> Empty]
    /\ upper = Empty
    /\ updated = Absent
    /\ image = [p \in Packages |-> Shipped(p)]
    /\ root = SeenRoot(<<Base>>)

Goes(from, to) == pc = from /\ pc' = to

Installing == pc = "install" /\ n \in Packages

\* The hooks do nothing: the installed layer is all there is
SkipHooks ==
    /\ Installing /\ n \notin input.hooks
    /\ layers' = Append(layers, <<"installed", n>>)
    /\ root' = [f \in Files |-> IF f \in Ships[n] THEN By("shipped", n) ELSE root[f]]
    /\ n' = n + 1
    /\ UNCHANGED <<input, pc, output, upper, updated, image>>

RefuseHooks ==
    /\ Installing /\ n \in input.hooks
    /\ input.ensureSkip
    /\ pc' = "failed"
    /\ UNCHANGED <<input, n, layers, output, upper, updated, image, root>>

\* Push the staged layer and prepare a container with a new upper directory
PushStaged ==
    /\ Installing /\ n \in input.hooks
    /\ ~input.ensureSkip
    /\ pc' = "preinst"
    /\ layers' = Append(layers, <<"staged", n>>)
    /\ upper' = Empty
    /\ UNCHANGED <<input, n, output, updated, image, root>>

\* pkg_setup and pkg_preinst may change the image and the root, and their
\* environment is saved in the VDB.  The upper directory becomes the output.
RunPreinst ==
    /\ Goes("preinst", "ran")
    /\ \E c \in HookChanges({{InImage(f), InRoot(f)} : f \in Files}, By("preinst", n)) :
        LET after == Changed(Stack(layers), upper, WithEnv(c, "preinst", n))
            stack == Append(Stack(layers), after)
        IN  /\ TakesOutKnown \/ \A f \in Ships[n] :
                    Seen(stack, InImage(f)) = Absent => Seen(stack, InRoot(f)) = Absent
            /\ output' = [output EXCEPT ![<<"preinst", n>>] = after]
            /\ image' = [image EXCEPT ![n] = SeenImage(stack)]
            /\ root' = [f \in Files |->
                    IF Seen(stack, InImage(f)) # Absent THEN Seen(stack, InImage(f))
                    ELSE Seen(stack, InRoot(f))]
    /\ upper' = Empty
    /\ UNCHANGED <<input, n, layers, updated>>

Preinst == output[<<"preinst", n>>]

PushPreinst ==
    /\ Goes("ran", "mangle")
    /\ layers' = Append(layers, <<"preinst", n>>)
    /\ UNCHANGED <<input, n, output, upper, updated, image, root>>

\* List the image as a container shows it
RecomputeContents ==
    /\ Goes("mangle", "move")
    /\ Preinst[Image] = Dir /\ ~input.sparse
    /\ updated' = <<"list", SeenImage(Append(Stack(layers), Empty))>>
    /\ UNCHANGED <<input, n, layers, output, upper, image, root>>

SkipImage ==
    /\ Goes("mangle", "vdb")
    /\ Preinst[Image] # Dir
    /\ UNCHANGED <<input, n, layers, output, upper, updated, image, root>>

\* The changes to the image, whiteouts included, as changes to the root
ImageAsRoot(layer) ==
    [x \in Paths |-> IF x \in RootFiles THEN layer[InImage(x[2])] ELSE Absent]

Without(layer, paths) == [x \in Paths |-> IF x \in paths THEN Absent ELSE layer[x]]

\* Mutant: copied instead of moved
MoveImageCopies ==
    /\ \/ pc = "move"
       \/ pc = "mangle" /\ input.sparse
    /\ Preinst[Image] = Dir
    /\ pc' = "vdb"
    /\ upper' = ImageAsRoot(Preinst)
    /\ UNCHANGED <<input, n, layers, output, updated, image, root>>

\* Move what preinst changed in the image to where postinst starts from
MoveImage ==
    /\ \/ pc = "move"
       \/ pc = "mangle" /\ input.sparse
    /\ Preinst[Image] = Dir
    /\ pc' = "vdb"
    /\ upper' = ImageAsRoot(Preinst)
    /\ output' = [output EXCEPT ![<<"preinst", n>>] = Without(@, {Image} \union ImageFiles)]
    /\ UNCHANGED <<input, n, layers, updated, image, root>>

\* Mutant: the VDB stays in the preinst layer
MoveVdbStays ==
    /\ Goes("vdb", "hide")
    /\ upper' = IF updated = Absent THEN upper ELSE [upper EXCEPT ![Contents(n)] = updated]
    /\ updated' = Absent
    /\ UNCHANGED <<input, n, layers, output, image, root>>

\* Move the VDB entry too, then write the new CONTENTS into it
MoveVdb ==
    /\ Goes("vdb", "hide")
    /\ upper' = [x \in Paths |->
            IF x = Contents(n) /\ updated # Absent THEN updated
            ELSE IF x \in Vdb(n) THEN Preinst[x]
            ELSE upper[x]]
    /\ output' = [output EXCEPT ![<<"preinst", n>>] = Without(@, Vdb(n))]
    /\ updated' = Absent
    /\ UNCHANGED <<input, n, layers, image, root>>

\* Mutant: the image is not hidden
HideImageForgotten ==
    /\ Goes("hide", "merge")
    /\ UNCHANGED <<input, n, layers, output, upper, updated, image, root>>

\* An empty file in the upper directory hides the image
HideImage ==
    /\ Goes("hide", "merge")
    /\ upper' = [upper EXCEPT ![Image] = EmptyFile]
    /\ UNCHANGED <<input, n, layers, output, updated, image, root>>

PushInstalled ==
    /\ Goes("merge", "postinst")
    /\ layers' = Append(layers, <<"installed", n>>)
    /\ UNCHANGED <<input, n, output, upper, updated, image, root>>

\* pkg_postinst may change the root; there is no image any more
RunPostinst ==
    /\ Goes("postinst", "strip")
    /\ \E c \in HookChanges({{x} : x \in RootFiles}, By("postinst", n)) :
        /\ output' = [output EXCEPT ![<<"postinst", n>>] =
                Changed(Stack(layers), upper, WithEnv(c, "postinst", n))]
        /\ root' = [f \in Files |-> IF InRoot(f) \in DOMAIN c THEN c[InRoot(f)] ELSE root[f]]
    /\ upper' = Empty
    /\ UNCHANGED <<input, n, layers, updated, image>>

\* Sparse VDB entries take no changes.  There is an entry to remove: the
\* environment of postinst.
StripVdb ==
    /\ Goes("strip", "push")
    /\ input.sparse
    /\ \E x \in Vdb(n) : output[<<"postinst", n>>][x] # Absent
    /\ output' = [output EXCEPT ![<<"postinst", n>>] = Without(@, Vdb(n))]
    /\ UNCHANGED <<input, n, layers, upper, updated, image, root>>

PushPostinst ==
    /\ \/ pc = "push"
       \/ pc = "strip" /\ ~input.sparse
    /\ pc' = "install"
    /\ layers' = Append(layers, <<"postinst", n>>)
    /\ n' = n + 1
    /\ UNCHANGED <<input, output, upper, updated, image, root>>

EndInstall ==
    /\ Goes("install", "postprocess")
    /\ n = Len(Ships) + 1
    /\ n' = 1
    /\ UNCHANGED <<input, layers, output, upper, updated, image, root>>

\* The outputs in the order they are processed
OutputAt(k) == <<IF k % 2 = 1 THEN "preinst" ELSE "postinst", (k + 1) \div 2>>

\* clean_layer empties the environments (their compressed twins are not there)
Cleaned(layer) == Without(layer, {Env(p) : p \in Packages})

\* Mutant: the file that hides the image is left
PostprocessKeepsFile ==
    /\ pc = "postprocess" /\ n <= 2 * Len(Ships)
    /\ output' = [output EXCEPT ![OutputAt(n)] = Cleaned(@)]
    /\ n' = n + 1
    /\ UNCHANGED <<input, pc, layers, upper, updated, image, root>>

\* Remove what is at /.image, which fails on a directory, clean the layer and
\* make a durable tree of it, which shows the same
Postprocess ==
    /\ pc = "postprocess" /\ n <= 2 * Len(Ships)
    /\ output[OutputAt(n)][Image] # Dir
    /\ output' = [output EXCEPT ![OutputAt(n)] = Cleaned(Without(@, {Image}))]
    /\ n' = n + 1
    /\ UNCHANGED <<input, pc, layers, upper, updated, image, root>>

Done ==
    /\ Goes("postprocess", "done")
    /\ n = 2 * Len(Ships) + 1
    /\ UNCHANGED <<input, n, layers, output, upper, updated, image, root>>

\* Any call, or a hook, may fail; Bazel discards the outputs
Fails ==
    /\ pc \notin {"done", "failed"}
    /\ pc' = "failed"
    /\ UNCHANGED <<input, n, layers, output, upper, updated, image, root>>

Progress ==
    \/ SkipHooks
    \/ RefuseHooks
    \/ PushStaged
    \/ RunPreinst
    \/ PushPreinst
    \/ RecomputeContents
    \/ SkipImage
    \/ MoveImage
    \/ MoveVdb
    \/ HideImage
    \/ PushInstalled
    \/ RunPostinst
    \/ StripVdb
    \/ PushPostinst
    \/ EndInstall
    \/ Postprocess
    \/ Done

Next == Progress \/ Fails

Spec == Init /\ [][Next]_vars /\ WF_vars(Progress)
----------------------------------------------------------------------------
Layer == [Paths -> {Absent, Whiteout, Dir, EmptyFile}
            \union {By(who, p) : who \in {"shipped", "preinst", "postinst"}, p \in Packages}
            \union {<<"list", Shipped(p)>> : p \in Packages}
            \union {<<"list", image[p]>> : p \in Packages}]

\* Types; a layer is pushed once, and has files in /.image only if that is a directory.
TypeOK ==
    /\ pc \in {"install", "preinst", "ran", "mangle", "move", "vdb", "hide", "merge", "postinst",
               "strip", "push", "postprocess", "done", "failed"}
    /\ n \in 1 .. 2 * Len(Ships) + 1
    /\ IsInjective(layers)
    /\ \A l \in Range(output) \union {upper} :
        /\ l \in Layer
        /\ l[Image] # Dir => \A x \in ImageFiles : l[x] = Absent

\* A preinst hook finds at ${D} its package's image as it was built, whatever the
\* hooks of earlier packages did to theirs, and an earlier image is never in sight
\* of anybody else (main.rs:408-410, 429-430).
HooksSeeTheirImage ==
    /\ pc = "preinst" => SeenImage(Container) = Shipped(n)
    /\ pc = "postinst" => Seen(Container, Image) = EmptyFile /\ SeenImage(Container) = [f \in Files |-> Absent]

\* "Migrate modifications to $D to the postinst layer so that they're applied correctly to
\* the package installation result" (main.rs:254-255): postinst runs in the root that merging
\* the image would have given, with the environment that preinst saved.
\* CONTENTS lists what was installed, not what was built (main.rs:256-258).
PostinstSeesMergedRoot ==
    pc = "postinst" =>
        /\ SeenRoot(Container) = root
        /\ Seen(Container, Env(n)) = By("preinst", n)
        /\ ~input.sparse => Seen(Container, Contents(n)) = <<"list", image[n]>>

\* The layers a later action installs the same packages from (install_deps.bzl:240-248)
LaterLayers ==
    [i \in 1 .. 3 * Len(Ships) + 1 |->
        IF i = 1 THEN <<"base", 0>>
        ELSE << <<"preinst", "installed", "postinst">>[((i + 1) % 3) + 1], (i + 1) \div 3 >>]

\* Later actions find the root that the hooks left behind, CONTENTS that match it
\* unless the VDB is sparse, and no trace of an image (main.rs:479-487).
LaterActionsSeeTheSame ==
    pc = "done" =>
        /\ SeenRoot(Stack(LaterLayers)) = root
        /\ Seen(Stack(LaterLayers), Image) = Absent
        /\ \A p \in Packages : Seen(Stack(LaterLayers), Contents(p)) =
                IF input.sparse THEN Absent ELSE <<"list", image[p]>>

\* Unless a call or a hook fails, the installation gets to its end: no step finds the
\* directories other than it needs them (main.rs:457, 483).
InstallEnds == <>(pc \in {"done", "failed"})
============================================================================
