---------------------------- MODULE DurableTree ----------------------------
(***************************************************************************)
(* The life of one durable tree: the Bazel action that produces a          *)
(* directory converts it in place (convert.rs), Bazel cools it down and    *)
(* may send it through the remote cache, and later actions expand it,      *)
(* several at once, to mount its layers (expand.rs, lib.rs).               *)
(*                                                                         *)
(* A path is the sequence of its components, Root the converted directory  *)
(* itself.  Metadata is what the tree promises to bring back: the mode of  *)
(* a file or directory and whether its user xattrs are there.  A mode is   *)
(* abstracted to where it comes from.  One step is one file system call,   *)
(* or several where nobody can see or interrupt the state between them.    *)
(*                                                                         *)
(* Two inodes matter to the locks: "orig" is the directory the action      *)
(* made, which the pivot turns into the raw subdirectory, and "top" is the *)
(* temporary directory that takes its name.  DurableConvert models several *)
(* converters of one directory.                                            *)
(***************************************************************************)
EXTENDS Integers, FiniteSets, Sequences, SequencesExt

CONSTANTS
    Entries,    \* the paths a tree may contain
    Trees,      \* the directories the producing action may leave to convert
    Expanders,  \* processes that call DurableTree::expand on the tree
    Converter,  \* the process that calls DurableTree::convert
    NoProc      \* holder of a free lock

Root == << >>
Parent(e) == Front(e)

Kinds == {"file", "dir", "symlink", "whiteout", "other", "absent"}
Special == {"symlink", "whiteout"}
Storable == {"file", "dir"}

\* orig: the mode the action gave; rwx: 0755; hot: 0700; bazel: 0555;
\* none: an entry whose mode nobody reads
Modes == {"orig", "rwx", "hot", "bazel", "none"}

Node == [kind : Kinds, mode : Modes, xattrs : BOOLEAN]
Absent == [kind |-> "absent", mode |-> "none", xattrs |-> FALSE]

\* A directory tree: what is at each path, and whether the root is u+rwx
Tree == [kind : [Entries -> Kinds], accessible : BOOLEAN]

ASSUME EntriesAssumption ==
    /\ Entries \subseteq Seq(STRING)
    /\ Root \in Entries
    /\ \A e \in Entries \ {Root} : Parent(e) \in Entries

ASSUME TreesAssumption ==
    /\ Trees \subseteq Tree
    /\ \A t \in Trees :
        /\ t.kind[Root] = "dir"
        /\ \A e \in Entries \ {Root} :
            t.kind[e] # "absent" => t.kind[Parent(e)] = "dir"

ASSUME ProcsAssumption ==
    /\ Converter \notin Expanders
    /\ NoProc \notin Expanders \union {Converter}

Procs == Expanders \union {Converter}

VARIABLES
    tree,       \* the directory the action made
    phase,      \* "action" while the producing action runs, then "published"
    named,      \* the inode the output path names: "orig", "top" or "none"
    topFiles,   \* which of manifest.json and DURABLE_TREE the top has
    topMode,    \* mode of the top directory
    restored,   \* is user.durabletree.restored set on the top directory
    raw,        \* what is at each path under the raw directory
    manifest,   \* the entries recorded so far, a function on some paths
    owner,      \* who holds the flock of each inode
    cpc,        \* where the converter is
    pc,         \* where each expander is
    todo,       \* manifest entries an expander has yet to restore
    cur,        \* the entry an expander is restoring
    saved,      \* the top mode with_permissions will put back
    layers      \* the layer directories a mounted expander got

bazelVars == <<tree, phase>>
convertVars == <<named, topFiles, manifest, cpc>>
diskVars == <<topMode, restored, raw>>
localVars == <<todo, cur, saved, layers>>
vars == <<bazelVars, convertVars, diskVars, owner, pc, localVars>>
----------------------------------------------------------------------------
\* What stands at e in the directory the action made
Original(t, e) ==
    CASE t.kind[e] \in Storable ->
            [kind |-> t.kind[e], mode |-> "orig", xattrs |-> TRUE]
      [] t.kind[e] = "absent" -> Absent
      [] OTHER -> [kind |-> t.kind[e], mode |-> "none", xattrs |-> FALSE]

OriginalTree(t) == [e \in Entries |-> Original(t, e)]

\* An empty manifest
NoEntries == [e \in {} |-> Absent]

Init ==
    /\ tree \in Trees
    /\ phase = "action"
    /\ named = "orig"
    /\ topFiles = {}
    /\ topMode = "none"
    /\ restored = FALSE
    /\ raw = OriginalTree(tree)
    /\ manifest = NoEntries
    /\ cpc = "start"
    /\ owner = [i \in {"orig", "top"} |-> NoProc]
    /\ pc = [p \in Expanders |-> "idle"]
    /\ todo = [p \in Expanders |-> {}]
    /\ cur = [p \in Expanders |-> Root]
    /\ saved = [p \in Expanders |-> "none"]
    /\ layers = [p \in Expanders |-> << >>]
----------------------------------------------------------------------------
(* DurableTree::convert                                                    *)

ConvertGoesTo(from, to) == cpc = from /\ cpc' = to

\* A root directory without u+rwx is refused
ConvertRefuse ==
    /\ ConvertGoesTo("start", "failed")
    /\ ~tree.accessible
    /\ UNCHANGED <<bazelVars, named, topFiles, manifest, diskVars, owner, pc, localVars>>

\* Lock the directory the path names; it is not a durable tree yet
ConvertLock ==
    /\ ConvertGoesTo("start", "pivot")
    /\ tree.accessible
    /\ owner[named] = NoProc
    /\ "marker" \notin topFiles
    /\ owner' = [owner EXCEPT ![named] = Converter]
    /\ UNCHANGED <<bazelVars, named, topFiles, manifest, diskVars, pc, localVars>>

\* rename(root, temp/raw): until the next step the path names nothing
PivotAway ==
    /\ ConvertGoesTo("pivot", "rename")
    /\ named' = "none"
    /\ UNCHANGED <<bazelVars, topFiles, manifest, diskVars, owner, pc, localVars>>

\* rename(temp, root)
PivotBack ==
    /\ ConvertGoesTo("rename", "walk")
    /\ named' = "top"
    /\ topMode' = "rwx"
    /\ UNCHANGED <<bazelVars, topFiles, manifest, restored, raw, owner, pc, localVars>>

Recorded == DOMAIN manifest
Record(e, node) ==
    [x \in Recorded \union {e} |-> IF x = e THEN node ELSE manifest[x]]

\* The walk visits a directory before what is in it
Unvisited(e) ==
    /\ raw[e].kind # "absent"
    /\ e \notin Recorded
    /\ e # Root => Parent(e) \in Recorded

\* Mutant: the mode is read after the chmod
ProcessFileChmodFirst(e) ==
    /\ ConvertGoesTo("walk", "walk")
    /\ Unvisited(e)
    /\ raw[e].kind # "other"
    /\ raw' = [raw EXCEPT ![e] = IF raw[e].kind \in Special
                                  THEN Absent
                                  ELSE [raw[e] EXCEPT !.mode = "rwx"]]
    /\ manifest' = Record(e, [raw[e] EXCEPT !.mode = raw'[e].mode])
    /\ UNCHANGED <<bazelVars, named, topFiles, topMode, restored, owner, pc, localVars>>

\* process_file: record a file or directory and make it accessible, remove a
\* symlink or whiteout and keep it in the manifest only
ProcessFile(e) ==
    /\ ConvertGoesTo("walk", "walk")
    /\ Unvisited(e)
    /\ raw[e].kind # "other"
    /\ manifest' = Record(e, raw[e])
    /\ raw' = [raw EXCEPT ![e] = IF raw[e].kind \in Special
                                  THEN Absent
                                  ELSE [raw[e] EXCEPT !.mode = "rwx"]]
    /\ UNCHANGED <<bazelVars, named, topFiles, topMode, restored, owner, pc, localVars>>

\* Sockets, fifos and devices end the conversion half way
ProcessUnsupported(e) ==
    /\ ConvertGoesTo("walk", "failed")
    /\ Unvisited(e)
    /\ raw[e].kind = "other"
    /\ owner' = [owner EXCEPT !["orig"] = NoProc]
    /\ UNCHANGED <<bazelVars, named, topFiles, manifest, diskVars, pc, localVars>>

WriteManifest ==
    /\ ConvertGoesTo("walk", "hot")
    /\ \A e \in Entries : ~Unvisited(e)
    /\ topFiles' = topFiles \union {"manifest"}
    /\ UNCHANGED <<bazelVars, named, manifest, diskVars, owner, pc, localVars>>

\* Mutant: the top directory keeps its mode
MarkHotForgotten ==
    /\ ConvertGoesTo("hot", "mark")
    /\ UNCHANGED <<bazelVars, named, topFiles, manifest, diskVars, owner, pc, localVars>>

MarkHot ==
    /\ ConvertGoesTo("hot", "mark")
    /\ topMode' = "hot"
    /\ UNCHANGED <<bazelVars, named, topFiles, manifest, restored, raw, owner, pc, localVars>>

\* Create the marker; the lock goes as the function returns
MarkDurable ==
    /\ ConvertGoesTo("mark", "done")
    /\ topFiles' = topFiles \union {"marker"}
    /\ owner' = [owner EXCEPT !["orig"] = NoProc]
    /\ UNCHANGED <<bazelVars, named, manifest, diskVars, pc, localVars>>

\* The process is killed, or a call fails: the lock goes, the files stay
ConvertDies ==
    /\ cpc \notin {"done", "failed"}
    /\ cpc' = "failed"
    /\ owner' = [i \in DOMAIN owner |-> IF owner[i] = Converter THEN NoProc ELSE owner[i]]
    /\ UNCHANGED <<bazelVars, named, topFiles, manifest, diskVars, pc, localVars>>
----------------------------------------------------------------------------
(* DurableTree::expand                                                     *)

GoesTo(p, from, to) ==
    /\ pc[p] = from
    /\ pc' = [pc EXCEPT ![p] = to]

Release(p) ==
    owner' = [i \in DOMAIN owner |-> IF owner[i] = p THEN NoProc ELSE owner[i]]

ForgetLocals(p) ==
    /\ todo' = [todo EXCEPT ![p] = {}]
    /\ cur' = [cur EXCEPT ![p] = Root]
    /\ saved' = [saved EXCEPT ![p] = "none"]
    /\ layers' = [layers EXCEPT ![p] = << >>]

\* Without the marker this is not a durable tree, and expand returns an error
CheckMarker(p) ==
    /\ GoesTo(p, "idle", "lock")
    /\ "marker" \in topFiles
    /\ UNCHANGED <<bazelVars, convertVars, diskVars, owner, localVars>>

\* Mutant: the lock is a shared one
AcquireShared(p) ==
    /\ GoesTo(p, "lock", "locked")
    /\ named # "none"
    /\ UNCHANGED <<bazelVars, convertVars, diskVars, owner, localVars>>

\* DirLock::try_new: open what the path names, and wait for its flock
Acquire(p) ==
    /\ GoesTo(p, "lock", "locked")
    /\ named # "none"
    /\ owner[named] = NoProc
    /\ owner' = [owner EXCEPT ![named] = p]
    /\ UNCHANGED <<bazelVars, convertVars, diskVars, localVars>>

\* A tree whose action has not finished is hot, and expanding it an error
RefuseHot(p) ==
    /\ GoesTo(p, "locked", "idle")
    /\ topMode = "hot"
    /\ Release(p)
    /\ UNCHANGED <<bazelVars, convertVars, diskVars, localVars>>

SkipRestore(p) ==
    /\ GoesTo(p, "locked", "extra")
    /\ topMode # "hot"
    /\ restored
    /\ UNCHANGED <<bazelVars, convertVars, diskVars, owner, localVars>>

StartRestore(p) ==
    /\ GoesTo(p, "locked", "restore")
    /\ topMode # "hot"
    /\ ~restored
    /\ todo' = [todo EXCEPT ![p] = {e \in Recorded : manifest[e].kind \in Storable}]
    /\ UNCHANGED <<bazelVars, convertVars, diskVars, owner, cur, saved, layers>>

\* Create a directory the cache dropped, and make the entry writable.  The
\* manifest is ordered by path, so a directory comes before what is in it
RestoreOpen(p, e) ==
    /\ GoesTo(p, "restore", "xattrs")
    /\ e \in todo[p]
    /\ \A d \in todo[p] : IsPrefix(d, e) => d = e
    /\ cur' = [cur EXCEPT ![p] = e]
    /\ raw' = [raw EXCEPT ![e] = [kind |-> manifest[e].kind, mode |-> "rwx", xattrs |-> @.xattrs]]
    /\ UNCHANGED <<bazelVars, convertVars, topMode, restored, owner, todo, saved, layers>>

RestoreXattrs(p) ==
    /\ GoesTo(p, "xattrs", "mode")
    /\ raw' = [raw EXCEPT ![cur[p]].xattrs = @ \/ manifest[cur[p]].xattrs]
    /\ UNCHANGED <<bazelVars, convertVars, topMode, restored, owner, localVars>>

RestoreMode(p) ==
    /\ GoesTo(p, "mode", "restore")
    /\ raw' = [raw EXCEPT ![cur[p]].mode = manifest[cur[p]].mode]
    /\ todo' = [todo EXCEPT ![p] = @ \ {cur[p]}]
    /\ UNCHANGED <<bazelVars, convertVars, topMode, restored, owner, cur, saved, layers>>

\* Mutant: the restored xattr is set without waiting for every entry
OpenTopEarly(p) ==
    /\ GoesTo(p, "restore", "mark")
    /\ saved' = [saved EXCEPT ![p] = topMode]
    /\ topMode' = "rwx"
    /\ UNCHANGED <<bazelVars, convertVars, restored, raw, owner, todo, cur, layers>>

\* with_permissions(root, 0755) around setting the restored xattr
OpenTop(p) ==
    /\ GoesTo(p, "restore", "mark")
    /\ todo[p] = {}
    /\ saved' = [saved EXCEPT ![p] = topMode]
    /\ topMode' = "rwx"
    /\ UNCHANGED <<bazelVars, convertVars, restored, raw, owner, todo, cur, layers>>

MarkRestored(p) ==
    /\ GoesTo(p, "mark", "close")
    /\ restored' = TRUE
    /\ UNCHANGED <<bazelVars, convertVars, topMode, raw, owner, localVars>>

\* setxattr fails: with_permissions puts the mode back, and the error goes up
MarkFails(p) ==
    /\ GoesTo(p, "mark", "idle")
    /\ topMode' = saved[p]
    /\ Release(p)
    /\ ForgetLocals(p)
    /\ UNCHANGED <<bazelVars, convertVars, restored, raw>>

CloseTop(p) ==
    /\ GoesTo(p, "close", "extra")
    /\ topMode' = saved[p]
    /\ UNCHANGED <<bazelVars, convertVars, restored, raw, owner, localVars>>

\* Mutant: the lock is kept with the extra directory
MakeExtraKeepsLock(p) ==
    /\ GoesTo(p, "extra", "list")
    /\ UNCHANGED <<bazelVars, convertVars, diskVars, owner, localVars>>

\* create_extra_dir: a tmpfs with the symlinks and whiteouts of the manifest.
\* Its content is a function of the manifest, ExtraEntry below.  The lock goes
\* as expand_impl returns
MakeExtra(p) ==
    /\ GoesTo(p, "extra", "list")
    /\ Release(p)
    /\ UNCHANGED <<bazelVars, convertVars, diskVars, localVars>>

SpecialEntries == {e \in Recorded : manifest[e].kind \in Special}

\* A special file, or a directory create_dir_all made on the way to one
ExtraEntry(e) ==
    IF e \in SpecialEntries THEN manifest[e]
    ELSE IF \E s \in SpecialEntries : IsPrefix(e, s) /\ e # s
    THEN [kind |-> "dir", mode |-> "rwx", xattrs |-> FALSE]
    ELSE Absent

RawHasChild == \E e \in Entries \ {Root} : raw[e].kind # "absent" /\ Parent(e) = Root

\* Mutant: the extra directory on top
LayerDirsExtraOnTop ==
    CASE SpecialEntries # {} -> <<"raw", "extra">>
      [] SpecialEntries = {} /\ RawHasChild -> <<"raw">>
      [] OTHER -> << >>

\* The layers to mount, lowest first; an empty tree has none
LayerDirs ==
    CASE SpecialEntries # {} -> <<"extra", "raw">>
      [] SpecialEntries = {} /\ RawHasChild -> <<"raw">>
      [] OTHER -> << >>

ListLayers(p) ==
    /\ GoesTo(p, "list", "mounted")
    /\ layers' = [layers EXCEPT ![p] = LayerDirs]
    /\ UNCHANGED <<bazelVars, convertVars, diskVars, owner, todo, cur, saved>>

\* The expanded tree is dropped: unmount the extra directory
Unmount(p) ==
    /\ GoesTo(p, "mounted", "idle")
    /\ ForgetLocals(p)
    /\ UNCHANGED <<bazelVars, convertVars, diskVars, owner>>

\* The process is killed, or a call fails.  The kernel drops its lock and its
\* mounts; what it changed on disk stays
ExpandDies(p) ==
    /\ pc[p] \notin {"idle", "mounted"}
    /\ pc' = [pc EXCEPT ![p] = "idle"]
    /\ Release(p)
    /\ ForgetLocals(p)
    /\ UNCHANGED <<bazelVars, convertVars, diskVars>>
----------------------------------------------------------------------------
(* Bazel, as the comments of lib.rs describe it                            *)

NobodyExpands == \A p \in Expanders : pc[p] = "idle"

\* The action has finished: make everything in its output 0555.  The function
\* that stands for Bazel in tests drops user xattrs as well; Bazel need not
CoolDown ==
    /\ phase = "action"
    /\ cpc = "done"
    /\ NobodyExpands
    /\ phase' = "published"
    /\ topMode' = "bazel"
    /\ \E keeps \in BOOLEAN :
        /\ raw' = [e \in Entries |->
                     IF raw[e].kind = "absent" THEN Absent
                     ELSE [kind |-> raw[e].kind, mode |-> "bazel",
                           xattrs |-> keeps /\ raw[e].xattrs]]
        /\ restored' = (keeps /\ restored)
    /\ UNCHANGED <<tree, convertVars, owner, pc, localVars>>

\* A directory of the raw directory that holds a file somewhere below
HoldsFile(d) == \E e \in Entries : raw[e].kind = "file" /\ IsPrefix(d, e)

\* The tree comes back from the remote cache: no metadata, no empty directory
RemoteRoundTrip ==
    /\ phase = "published"
    /\ NobodyExpands
    /\ topMode' = "bazel"
    /\ restored' = FALSE
    /\ raw' = [e \in Entries |->
                 IF raw[e].kind # "absent" /\ HoldsFile(e)
                 THEN [kind |-> raw[e].kind, mode |-> "bazel", xattrs |-> FALSE]
                 ELSE Absent]
    /\ UNCHANGED <<bazelVars, convertVars, owner, pc, localVars>>

\* The action failed: discard its output and run it again, on what may be
\* other inputs
Rerun ==
    /\ cpc = "failed"
    /\ NobodyExpands
    /\ tree' \in Trees
    /\ raw' = OriginalTree(tree')
    /\ cpc' = "start"
    /\ named' = "orig"
    /\ topFiles' = {}
    /\ topMode' = "none"
    /\ manifest' = NoEntries
    /\ restored' = FALSE
    /\ UNCHANGED <<phase, owner, pc, localVars>>
----------------------------------------------------------------------------
ConvertStep ==
    \/ ConvertRefuse
    \/ ConvertLock
    \/ PivotAway
    \/ PivotBack
    \/ \E e \in Entries : ProcessFile(e) \/ ProcessUnsupported(e)
    \/ WriteManifest
    \/ MarkHot
    \/ MarkDurable

\* What an expander that has the lock, or needs none, does on its own
ExpandStep(p) ==
    \/ RefuseHot(p)
    \/ SkipRestore(p)
    \/ StartRestore(p)
    \/ \E e \in Entries : RestoreOpen(p, e)
    \/ RestoreXattrs(p)
    \/ RestoreMode(p)
    \/ OpenTop(p)
    \/ MarkRestored(p)
    \/ CloseTop(p)
    \/ MakeExtra(p)
    \/ ListLayers(p)

ExpanderStep(p) ==
    \/ CheckMarker(p)
    \/ Acquire(p)
    \/ ExpandStep(p)
    \/ Unmount(p)
    \/ MarkFails(p)
    \/ ExpandDies(p)

Next ==
    \/ ConvertStep
    \/ ConvertDies
    \/ \E p \in Expanders : ExpanderStep(p)
    \/ CoolDown
    \/ RemoteRoundTrip
    \/ Rerun

Spec == Init /\ [][Next]_vars

\* A running process is scheduled.  flock queues its waiters, so one that
\* waits while the lock is free again and again gets it.  Nothing obliges a
\* process to start, to finish using a mounted tree, or to die.
Fairness ==
    \A p \in Expanders : WF_vars(ExpandStep(p)) /\ SF_vars(Acquire(p))

FairSpec == Spec /\ Fairness
----------------------------------------------------------------------------
(* What a mounted tree shows: overlayfs over the layers, the last on top   *)

LayerEntry(layer, e) == IF layer = "raw" THEN raw[e] ELSE ExtraEntry(e)

Provides(stack, e) == {i \in DOMAIN stack : LayerEntry(stack[i], e).kind # "absent"}

Merged(stack, e) ==
    LET on == Provides(stack, e)
    IN  IF on = {} THEN Absent
        ELSE LayerEntry(stack[CHOOSE i \in on : \A j \in on : j <= i], e)

MergedTree(stack) == [e \in Entries |-> Merged(stack, e)]

\* An empty directory may come back as no layer at all
Nothing == [e \in Entries |-> Absent]
IsEmpty(t) == \A e \in Entries \ {Root} : t.kind[e] = "absent"

Promised(t) == {OriginalTree(t)} \union (IF IsEmpty(t) THEN {Nothing} ELSE {})
----------------------------------------------------------------------------
TypeOK ==
    /\ tree \in Trees
    /\ phase \in {"action", "published"}
    /\ named \in {"orig", "top", "none"}
    /\ topFiles \subseteq {"manifest", "marker"}
    /\ topMode \in Modes
    /\ restored \in BOOLEAN
    /\ raw \in [Entries -> Node]
    /\ Recorded \subseteq Entries
    /\ manifest \in [Recorded -> Node]
    /\ owner \in [{"orig", "top"} -> Procs \union {NoProc}]
    /\ cpc \in {"start", "pivot", "rename", "walk", "hot", "mark", "done", "failed"}
    /\ pc \in [Expanders -> {"idle", "lock", "locked", "restore", "xattrs", "mode",
                              "mark", "close", "extra", "list", "mounted"}]
    /\ todo \in [Expanders -> SUBSET Entries]
    /\ cur \in [Expanders -> Entries]
    /\ saved \in [Expanders -> Modes]
    /\ layers \in [Expanders -> {<< >>, <<"raw">>, <<"extra", "raw">>}]

\* The stored half of the tree is as the action left it
RawIsOriginal ==
    \A e \in Entries :
        raw[e] = IF tree.kind[e] \in Storable THEN Original(tree, e) ELSE Absent

\* The restored xattr is the reason later expansions skip the restoration
\* (expand.rs:71): it is never set on a tree with an entry still missing or
\* stripped, not after a crash between two entries, nor after a round trip
\* through the cache, nor by the cool down of a tree expanded too early.
RestoredMeansOriginal == restored => RawIsOriginal

\* A producing action cannot get its own tree expanded: until Bazel has set
\* the final permissions nothing is restored and nobody holds its layers,
\* however far convert and an expand running beside it have come
\* (lib.rs:84-93, expand.rs:166).
HotTreeIsLeftAlone ==
    phase = "action" => ~restored /\ \A p \in Expanders : pc[p] \in {"idle", "lock", "locked"}

\* Whatever an expanded tree is mounted from gives back the tree the action
\* made: kinds, modes and user xattrs of every path, in every state in which
\* some process still uses it (lib.rs:28-38).
MountedIsOriginal ==
    \A p \in Expanders : pc[p] = "mounted" => MergedTree(layers[p]) \in Promised(tree)

\* Restoration changes files in place, under the layers other processes may
\* have mounted; it is safe in parallel because nobody starts while one of
\* them uses the tree (lib.rs:135-138).
NothingMovesUnderAMount ==
    [][(\E p \in Expanders : pc[p] \in {"list", "mounted"}) => raw' = raw]_vars

\* Every call of expand returns, with a tree or an error, although calls wait
\* for each other and any of them may die holding the lock (util.rs:27).
ExpansionsEnd ==
    \A p \in Expanders : pc[p] # "idle" ~> pc[p] \in {"idle", "mounted"}

Promise ==
    INSTANCE TreeStore WITH
        Readers <- Expanders,
        Contents <- {Promised(t) : t \in Trees},
        Nobody <- NoProc,
        content <- Promised(tree),
        published <- phase = "published",
        view <- [p \in Expanders |-> IF pc[p] = "mounted" THEN MergedTree(layers[p]) ELSE NoProc]

\* What a user of the type may rely on (TreeStore.tla): expansions of an
\* unpublished tree give nothing, those of a published tree its content, and
\* what a user holds does not change until the user drops it.
KeepsPromise == Promise!Spec
============================================================================
