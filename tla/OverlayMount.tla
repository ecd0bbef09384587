---------------------------- MODULE OverlayMount ----------------------------
(***************************************************************************)
(* mount_overlayfs (mounts.rs:105-250): bind the layers of a container     *)
(* under short names, stack overlays over them in chunks when the kernel   *)
(* cannot take so many at once, mount the result, and let every auxiliary  *)
(* mount go, also when a step fails.                                       *)
(*                                                                         *)
(* Overlay is what the kernel makes of a list of layers.  A layer maps a   *)
(* path to what it has there.  Two paths show all there is to merging: D   *)
(* at the top, and F in D.                                                 *)
(***************************************************************************)
EXTENDS Naturals, Sequences, SequencesExt

CONSTANTS
    MaxLowers,      \* MAX_LOWER_DIRS, 499 in the code
    LayerStacks     \* the stacks a container may ask for, lowest layer first

D == "d"
F == "d/f"
Paths == {D, F}

Absent == [kind |-> "absent", from |-> 0]
Whiteout(i) == [kind |-> "whiteout", from |-> i]

ASSUME MaxLowersAssumption == MaxLowers \in Nat \ {0, 1}

Kinds == {"absent", "whiteout", "file", "dir"}
Layer == [Paths -> [kind : Kinds, from : Nat]]

\* Only a directory holds anything
ASSUME LayersAssumption ==
    \A s \in LayerStacks :
        /\ s \in Seq(Layer)
        /\ \A i \in DOMAIN s :
            /\ s[i][F].kind # "dir"
            /\ s[i][D].kind # "dir" => s[i][F] = Absent

VARIABLES
    layers,     \* lower_dirs, lowest first
    scratch,    \* is the scratch directory empty?
    pc,
    bound,      \* how many lower directories are bind-mounted
    lowers,     \* short_lower_dirs of the final overlay: chunks of layer numbers
    mounts,     \* mount points that exist
    guards,     \* the MountGuards held: each unmounts its mount point on drop
    view        \* the merged directory the caller gets

vars == <<layers, scratch, pc, bound, lowers, mounts, guards, view>>
----------------------------------------------------------------------------
(* The kernel: overlayfs over a list of layers, topmost first              *)

\* The layers whose D is merged: directories down to the first other thing
MergedD(stack) ==
    {i \in DOMAIN stack :
        /\ stack[i][D].kind = "dir"
        /\ \A j \in 1 .. i : stack[j][D].kind \in {"dir", "absent"}}

\* The first thing on the way down that the layers in S have at path p
TopMost(stack, S, p) ==
    LET has == {i \in S : stack[i][p].kind # "absent"}
        top == CHOOSE i \in has : \A j \in has : i <= j
    IN  IF has = {} \/ stack[top][p].kind = "whiteout" THEN Absent ELSE stack[top][p]

\* Readers of an overlay never see a whiteout, whatever mounts it next
Overlay(stack) ==
    [p \in Paths |-> TopMost(stack, IF p = D THEN DOMAIN stack ELSE MergedD(stack), p)]

\* At most MaxLowers layers, and with no upper directory at least two
KernelTakes(n, upper) == n <= MaxLowers /\ (upper \/ n # 1)
----------------------------------------------------------------------------
LowersDir == <<"lowers", 0>>
LayerMount(i) == <<"layer", i>>
ChunkMount(i) == <<"chunk", i>>
OverlayMountPoint == <<"overlay", 0>>

\* All layer and chunk mount points are directories of the lowers directory,
\* and detaching a mount detaches what is mounted below it
Detached(g) == IF g = LowersDir THEN mounts \ {OverlayMountPoint} ELSE {g}

\* An early return drops every guard the function holds
Bail ==
    /\ pc' = "failed"
    /\ mounts' = mounts \ UNION {Detached(g) : g \in guards}
    /\ guards' = {}

Init ==
    /\ layers \in LayerStacks
    /\ scratch \in BOOLEAN
    /\ pc = "start"
    /\ bound = 0
    /\ lowers = << >>
    /\ mounts = {}
    /\ guards = {}
    /\ view = << >>

Goes(from, to) == pc = from /\ pc' = to

\* The two ensure! at the top: nothing is mounted yet
Refuse ==
    /\ pc = "start"
    /\ ~scratch \/ layers = << >>
    /\ Bail
    /\ UNCHANGED <<layers, scratch, bound, lowers, view>>

\* Mutant: the guard is dropped where it is made
BindLowersDirUnguarded ==
    /\ Goes("start", "bind")
    /\ scratch /\ layers # << >>
    /\ UNCHANGED <<layers, scratch, bound, lowers, mounts, guards, view>>

\* Bind the lowers directory to itself
BindLowersDir ==
    /\ Goes("start", "bind")
    /\ scratch /\ layers # << >>
    /\ mounts' = mounts \union {LowersDir}
    /\ guards' = guards \union {LowersDir}
    /\ UNCHANGED <<layers, scratch, bound, lowers, view>>

\* The guard of each layer is leaked: the one of the lowers directory is enough
BindLayer ==
    /\ Goes("bind", "bind")
    /\ bound < Len(layers)
    /\ bound' = bound + 1
    /\ mounts' = mounts \union {LayerMount(bound + 1)}
    /\ UNCHANGED <<layers, scratch, lowers, guards, view>>

TooMany ==
    /\ pc = "bind"
    /\ bound = Len(layers)
    /\ Len(layers) > MaxLowers * MaxLowers
    /\ Bail
    /\ UNCHANGED <<layers, scratch, bound, lowers, view>>

\* Few enough layers are mounted as they are
SkipStacking ==
    /\ Goes("bind", "mount")
    /\ bound = Len(layers)
    /\ Len(layers) <= MaxLowers
    /\ lowers' = [i \in 1 .. Len(layers) |-> <<i>>]
    /\ UNCHANGED <<layers, scratch, bound, mounts, guards, view>>

StartStacking ==
    /\ Goes("bind", "chunk")
    /\ bound = Len(layers)
    /\ Len(layers) > MaxLowers
    /\ Len(layers) <= MaxLowers * MaxLowers
    /\ UNCHANGED <<layers, scratch, bound, lowers, mounts, guards, view>>

\* Layers up to this one are in chunks already
Chunked == Len(lowers) * MaxLowers

NextChunk ==
    LET n == IF Chunked + MaxLowers <= Len(layers) THEN MaxLowers ELSE Len(layers) - Chunked
    IN  [i \in 1 .. n |-> Chunked + i]

\* The kernel would not mount one layer alone: it stands for itself
StandsAlone(chunk) == Len(chunk) = 1

KeepLayer ==
    /\ Goes("chunk", "chunk")
    /\ Chunked < Len(layers)
    /\ StandsAlone(NextChunk)
    /\ lowers' = Append(lowers, NextChunk)
    /\ UNCHANGED <<layers, scratch, bound, mounts, guards, view>>

ChunkToMount == Chunked < Len(layers) /\ ~StandsAlone(NextChunk)

\* If the kernel does not take the mount, the helper Fails
MountChunk ==
    /\ Goes("chunk", "chunk")
    /\ ChunkToMount
    /\ KernelTakes(Len(NextChunk), FALSE)
    /\ lowers' = Append(lowers, NextChunk)
    /\ mounts' = mounts \union {ChunkMount(Len(lowers))}
    /\ UNCHANGED <<layers, scratch, bound, guards, view>>

ChunksDone ==
    /\ Goes("chunk", "mount")
    /\ Chunked >= Len(layers)
    /\ UNCHANGED <<layers, scratch, bound, lowers, mounts, guards, view>>

\* A list of layers in the order of the option string, topmost first
Lowerdir(list) == Reverse(list)

\* Mutant: the layers of a chunk in the order of the container's list
LowerUpsideDown(chunk) == Overlay([i \in DOMAIN chunk |-> layers[chunk[i]]])

Lower(chunk) ==
    IF StandsAlone(chunk) THEN layers[chunk[1]]
    ELSE Overlay(Lowerdir([i \in DOMAIN chunk |-> layers[chunk[i]]]))

\* Mount the overlay, with an empty upper directory, and return its guard;
\* the guard of the lowers directory drops
MountTop ==
    /\ Goes("mount", "mounted")
    /\ KernelTakes(Len(lowers), TRUE)
    /\ view' = Overlay(Lowerdir([i \in DOMAIN lowers |-> Lower(lowers[i])]))
    /\ mounts' = (mounts \ Detached(LowersDir)) \union {OverlayMountPoint}
    /\ guards' = {OverlayMountPoint}
    /\ UNCHANGED <<layers, scratch, bound, lowers>>

\* Any call may fail
Fails ==
    /\ pc \in {"start", "bind", "chunk", "mount"}
    /\ Bail
    /\ UNCHANGED <<layers, scratch, bound, lowers, view>>

\* The caller drops the guard it got
Unmount ==
    /\ Goes("mounted", "unmounted")
    /\ mounts' = mounts \ UNION {Detached(g) : g \in guards}
    /\ guards' = {}
    /\ view' = << >>
    /\ UNCHANGED <<layers, scratch, bound, lowers>>

Next ==
    \/ Refuse
    \/ BindLowersDir
    \/ BindLayer
    \/ TooMany
    \/ SkipStacking
    \/ StartStacking
    \/ KeepLayer
    \/ MountChunk
    \/ ChunksDone
    \/ MountTop
    \/ Fails
    \/ Unmount

Spec == Init /\ [][Next]_vars
----------------------------------------------------------------------------
TypeOK ==
    /\ scratch \in BOOLEAN
    /\ pc \in {"start", "bind", "chunk", "mount", "mounted", "unmounted", "failed"}
    /\ bound \in 0 .. Len(layers)
    /\ \A i \in DOMAIN lowers : \A j \in DOMAIN lowers[i] : lowers[i][j] \in DOMAIN layers
    /\ guards \subseteq mounts

\* On every way out the function leaves at most the overlay itself behind,
\* and nothing once the caller drops it (mounts.rs:127-146, 381).
NoMountLeaks ==
    /\ pc \in {"failed", "unmounted"} => mounts = {}
    /\ pc = "mounted" => mounts = {OverlayMountPoint}

\* What the same layers give in one overlay
Flat == Overlay(Lowerdir(layers))

\* A chunk that ends the search for some path: its merged directory does not
\* tell the overlay above to stop there
Cuts(chunk) ==
    /\ Len(chunk) > 1
    /\ \E i \in 1 .. Len(chunk), p \in Paths :
        LET kind == layers[chunk[i]][p].kind
        IN  \/ kind = "whiteout"
            \/ kind = "file" /\ \E j \in i .. Len(chunk) : layers[chunk[j]][p].kind = "dir"

\* Stacking overlays is no different from mounting all layers at once, as long
\* as no chunk but the lowest holds a whiteout or replaces a directory.
StackingIsInvisible ==
    pc = "mounted" /\ (\A k \in DOMAIN lowers : k > 1 => ~Cuts(lowers[k])) => view = Flat

\* The comment has two overlayfs stand for one with up to 250,000 layers
\* (mounts.rs:155-157): the caller gets the merge of its layers.
MountShowsAllLayers == pc = "mounted" => view = Flat
============================================================================
