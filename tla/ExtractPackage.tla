---------------------------- MODULE ExtractPackage ----------------------------
(***************************************************************************)
(* extract_package: the image of a binary package and its entry of the     *)
(* package database, the VDB, become a durable tree that is mounted as a   *)
(* layer.  On the way the program finds out whether the hooks of the       *)
(* package look at anything outside of the package: it runs them in a mock *)
(* root that auditfuse watches, and hooks with a clean audit are skipped   *)
(* whenever the package is installed.  For packages of the host it renames *)
(* /lib to /lib64 and /usr/lib to /usr/lib64, and merges the two where     *)
(* both exist.                                                             *)
(*                                                                         *)
(* tar, the kernel, auditfuse and the hooks are external.                  *)
(***************************************************************************)
EXTENDS Naturals, Sequences, SequencesExt

CONSTANTS
    Inputs,         \* packages with the arguments of the program
    MockDirs,       \* MOCK_DIRS: directories of the mock root
    AllowedDirs,    \* LOOKUP_ALLOWED_DIRS
    Mounted,        \* directories of a container that are mounts of their own
    Rank,           \* where names come when they are sorted
    Marker,         \* /DURABLE_TREE
    VdbRoot,        \* get_vdb_dir: the VDB entry of the package in a root
    VdbInImage,     \* and in the image, where both have the same prefix
    Renames,        \* the directories of the host to be renamed, and their new names
    Roots           \* directories that real roots have besides those of every root

(* Paths are sequences of names.  A tree maps the paths it has, without    *)
(* its root, to entries; meta is their mode and their xattrs, from the     *)
(* path they were extracted to                                             *)
Path == Seq(DOMAIN Rank)
Kinds == {"dir", "file", "link"}
Entry(kind, meta, from) == [kind |-> kind, meta |-> meta, from |-> from]
Under(path, dir) == Len(dir) <= Len(path) /\ SubSeq(path, 1, Len(dir)) = dir
Parent(path) == SubSeq(path, 1, Len(path) - 1)
Before(path, other) == Rank[path[Len(path)]] < Rank[other[Len(other)]]
Join(dir, path, root) == dir \o SubSeq(path, Len(root) + 1, Len(path))
Ancestors(path) == {SubSeq(path, 1, n) : n \in 0 .. Len(path)}

IsTree(image) ==
    \A path \in DOMAIN image :
        /\ path \in Path \ {<< >>} /\ image[path].kind \in Kinds
        /\ \A dir \in Ancestors(path) \ {<< >>, path} : dir \in DOMAIN image /\ image[dir].kind = "dir"

(* The package database is not part of an image, and what an image has     *)
(* above it are directories.  Hooks access paths: look them up or list     *)
(* them, or call a function that is not implemented                        *)
ASSUME InputsAreFaithful ==
    \A one \in Inputs :
        /\ IsTree(one.image)
        /\ \A path \in DOMAIN one.image : one.image[path] = Entry(one.image[path].kind, one.image[path].meta, path)
        /\ VdbInImage \notin DOMAIN one.image
        /\ \A dir \in Ancestors(VdbInImage) \intersect DOMAIN one.image : one.image[dir].kind = "dir"
        /\ one.xpak \intersect {"CROS_BAZEL_HOOK_REQUIRES", "CONTENTS"} = {}
        /\ one.hooks \in Seq([access : {"lookup", "readdir", "internal"}, path : Path, fatal : BOOLEAN])
        /\ {one.host, one.sparse, one.shared} \subseteq BOOLEAN

\* No two names are the same when they are sorted
ASSUME NamesAreRanked ==
    /\ Rank \in [DOMAIN Rank -> Nat]
    /\ \A one, other \in DOMAIN Rank : Rank[one] = Rank[other] => one = other

(* Directories are renamed where they are, none of them has to do with     *)
(* another, and the package database is somewhere else                     *)
Apart(one, other) == ~Under(one, other) /\ ~Under(other, one)
ASSUME RenamesAreApart ==
    /\ Renames \in Seq((Path \ {<< >>}) \X (Path \ {<< >>}))
    /\ \A i, j \in DOMAIN Renames :
           /\ Parent(Renames[i][1]) = Parent(Renames[i][2])
           /\ Apart(Renames[i][1], Renames[j][2])
           /\ i # j => Apart(Renames[i][1], Renames[j][1]) /\ Apart(Renames[i][2], Renames[j][2])
           /\ Apart(VdbInImage, Renames[i][1]) /\ Apart(VdbInImage, Renames[i][2])
    /\ VdbInImage \in Path

(* The entry of the package in the VDB has nothing but its files, a mount  *)
(* hides what a root has there, and no root has the marker                 *)
ASSUME RootsAreFaithful ==
    /\ \A dirs \in Roots \union {MockDirs} : \A dir \in dirs :
           /\ dir \in Path /\ ~Under(dir, Marker) /\ ~Under(dir, VdbRoot)
           /\ \A mount \in Mounted : Under(dir, mount) => dir = mount
    /\ \A dir \in AllowedDirs \union {VdbRoot} : dir \in Path /\ ~Under(dir, Marker)
    /\ ~Under(Marker, VdbRoot)
    /\ Mounted \union {Marker} \subseteq Path

VARIABLES
    input,      \* the package and the arguments
    step,       \* the step of do_main
    tree,       \* the image directory
    contents,   \* what generate_vdb_contents found
    vdb,        \* files of the VDB entry, and what is in two of them
    hook,       \* how many accesses of the hooks have been made
    audit,      \* the audit file: pairs of an access and a path
    walk,       \* the lists of entries that WalkDir has still to yield
    merge       \* which of Renames is being made

extractVars == <<input, step, tree, contents, vdb, hook, audit, walk, merge>>

NoVdb == [files |-> {}, contents |-> {}, requires |-> {}]
ExtractInit ==
    /\ input \in Inputs
    /\ step = "extract"
    /\ tree = << >> /\ contents = {} /\ vdb = NoVdb
    /\ hook = 0 /\ audit = {}
    /\ walk = << >> /\ merge = 1
----------------------------------------------------------------------------
(* The image and its VDB entry                                             *)

ExtractImage ==
    /\ step = "extract" /\ step' = "contents"
    /\ tree' = input.image
    /\ UNCHANGED <<input, contents, vdb, hook, audit, walk, merge>>

Listing == {<<path, tree[path].kind>> : path \in DOMAIN tree}
GenerateContents ==
    /\ step = "contents" /\ step' = "vdb"
    /\ contents' = Listing
    /\ UNCHANGED <<input, tree, vdb, hook, audit, walk, merge>>

Grown(more) ==
    [path \in DOMAIN tree \union more |->
        IF path \in DOMAIN tree THEN tree[path] ELSE Entry("dir", "0755", << >>)]

WithVdbDir == IF input.shared THEN Grown(Ancestors(VdbInImage) \ {<< >>}) ELSE tree

SparseKeys == {"EAPI", "SLOT", "IUSE", "USE", "repository"}
CreateSparseVdb ==
    /\ step = "vdb" /\ input.sparse
    /\ step' = IF SparseKeys \subseteq input.xpak THEN "rename" ELSE "failed"
    /\ vdb' = [vdb EXCEPT !.files = SparseKeys \intersect input.xpak]
    /\ tree' = WithVdbDir
    /\ UNCHANGED <<input, contents, hook, audit, walk, merge>>

\* decompress_environment puts environment.raw in the place of environment.bz2
CreateInitialVdb ==
    /\ step = "vdb" /\ ~input.sparse
    /\ step' = IF "environment.bz2" \in input.xpak THEN "audit" ELSE "failed"
    /\ vdb' = [vdb EXCEPT !.files =
                   (input.xpak \ {"environment.bz2"}) \union {"COUNTER", "environment.raw"}]
    /\ tree' = WithVdbDir
    /\ UNCHANGED <<input, contents, hook, audit, walk, merge>>
----------------------------------------------------------------------------
(* The audit of the hooks                                                  *)

\* The lookup allowlist: a lookup of these is ignored, so they have to exist
LookupAllowlist == AllowedDirs \union Ancestors(VdbRoot)

\* What the mock root has
Staged(dirs) == UNION {Ancestors(dir) : dir \in dirs}
RootWith(dirs, files) ==
    Staged(dirs \union LookupAllowlist) \union {VdbRoot \o <<name>> : name \in files}

\* Mutant: the mock root has no more than the popular directories
MockRootPopular == Staged(MockDirs) \union {VdbRoot \o <<name>> : name \in vdb.files}

MockRoot == RootWith(MockDirs, vdb.files)

(* The kernel looks up a path name by name and gives up at the first that  *)
(* is not there; what is on a mount never reaches auditfuse                *)
LooksUp(root, path) ==
    {prefix \in Ancestors(path) \ {<< >>} : Parent(prefix) \in root}
Reported(root, path) ==
    {prefix \in LooksUp(root, path) : \A mount \in Mounted : ~(Under(prefix, mount) /\ prefix # mount)}
ReadDirs(root, access) ==
    {dir \in root : access.access = "readdir" /\ dir = access.path
                    /\ \A mount \in Mounted : ~Under(dir, mount)}
Found(root, path) == path \in root \/ \E mount \in Mounted : Under(path, mount)

(* A hook accesses a path and goes on, dies as the path is not there, or   *)
(* calls a function that drive_binary_package.sh does not implement        *)
Kills(root, access) == access.fatal /\ ~Found(root, access.path)
RunHook ==
    /\ step = "audit" /\ hook < Len(input.hooks)
    /\ LET access == input.hooks[hook + 1]
       IN  /\ access.access # "internal"
           /\ audit' = audit \union {<<"lookup", prefix>> : prefix \in Reported(MockRoot, access.path)}
                             \union {<<"readdir", dir>> : dir \in ReadDirs(MockRoot, access)}
           /\ hook' = hook + 1
           /\ step' = IF Kills(MockRoot, access) THEN "requires" ELSE step
    /\ UNCHANGED <<input, tree, contents, vdb, walk, merge>>
HookNotImplemented ==
    /\ step = "audit" /\ hook < Len(input.hooks)
    /\ input.hooks[hook + 1].access = "internal"
    /\ step' = "failed"
    /\ UNCHANGED <<input, tree, contents, vdb, hook, audit, walk, merge>>
HooksReturn ==
    /\ step = "audit" /\ hook = Len(input.hooks)
    /\ step' = "requires"
    /\ UNCHANGED <<input, tree, contents, vdb, hook, audit, walk, merge>>

\* filter_audit_entry: entries that tell something
Tells(entry) ==
    /\ ~(entry[1] = "lookup" /\ entry[2] \in LookupAllowlist)
    /\ ~Under(entry[2], VdbRoot)
    /\ entry[2] # Marker

\* CROS_BAZEL_HOOK_REQUIRES, and CONTENTS
LateFiles == {"CROS_BAZEL_HOOK_REQUIRES", "CONTENTS"}
WriteRequires ==
    /\ step = "requires" /\ step' = "rename"
    /\ vdb' = [files |-> vdb.files \union LateFiles,
               contents |-> contents,
               requires |-> {entry \in audit : Tells(entry)}]
    /\ UNCHANGED <<input, tree, contents, hook, audit, walk, merge>>
----------------------------------------------------------------------------
(* merge_directories                                                       *)

From == Renames[merge][1]
To == Renames[merge][2]

\* Mutant: source and target are mixed up
NextRenameSwapped ==
    /\ step = "rename"
    /\ IF ~input.host \/ merge > Len(Renames) THEN step' = "done" /\ UNCHANGED <<walk, merge>>
       ELSE IF From \in DOMAIN tree /\ tree[From].kind = "dir"
            THEN step' = "merge" /\ walk' = <<{To}>> /\ UNCHANGED merge
            ELSE merge' = merge + 1 /\ UNCHANGED <<step, walk>>
    /\ UNCHANGED <<input, tree, contents, vdb, hook, audit>>

\* Only a directory of the host is renamed, and only where there is one
NextRename ==
    /\ step = "rename"
    /\ IF ~input.host \/ merge > Len(Renames) THEN step' = "done" /\ UNCHANGED <<walk, merge>>
       ELSE IF From \in DOMAIN tree /\ tree[From].kind = "dir"
            THEN step' = "merge" /\ walk' = <<{From}>> /\ UNCHANGED merge
            ELSE merge' = merge + 1 /\ UNCHANGED <<step, walk>>
    /\ UNCHANGED <<input, tree, contents, vdb, hook, audit>>

Children(dir) == {path \in DOMAIN tree : Len(path) > 0 /\ Parent(path) = dir}

(* WalkDir yields the first entry of the list on top; the contents of a    *)
(* directory are a new list that is read before it is yielded.  Whatever   *)
(* was yielded, skip_current_dir drops the list on top                     *)
IsFirst(path) == path \in Last(walk) /\ \A other \in Last(walk) : ~Before(other, path)
Rest(path) == Append(Front(walk), Last(walk) \ {path})
Yielded(path) == IF tree[path].kind = "dir" THEN Append(Rest(path), Children(path)) ELSE Rest(path)
SkipCurrentDir(stack) == Front(stack)

Target(path) == Join(To, path, From)
Moved(path) == {sub \in DOMAIN tree : Under(sub, path)}
Renamed(path) ==
    [new \in (DOMAIN tree \ Moved(path)) \union {Target(sub) : sub \in Moved(path)} |->
        IF Under(new, Target(path)) THEN tree[Join(From, new, To)] ELSE tree[new]]

\* Mutant: whatever their modes and xattrs
EquivalentAnyway(one, other) == TRUE

\* ensure_directories_equivalent
Equivalent(one, other) == one.meta = other.meta

MoveEntry ==
    /\ step = "merge" /\ walk # << >>
    /\ \E path \in DOMAIN tree :
           /\ IsFirst(path) /\ Target(path) \notin DOMAIN tree
           /\ tree' = Renamed(path)
           /\ walk' = SkipCurrentDir(Yielded(path))
    /\ UNCHANGED <<input, step, contents, vdb, hook, audit, merge>>
MergeEntry ==
    /\ step = "merge" /\ walk # << >>
    /\ \E path \in DOMAIN tree :
           /\ IsFirst(path) /\ Target(path) \in DOMAIN tree
           /\ IF /\ tree[path].kind = "dir" /\ tree[Target(path)].kind = "dir"
                 /\ Equivalent(tree[path], tree[Target(path)])
              THEN walk' = Yielded(path) /\ UNCHANGED step
              ELSE step' = "failed" /\ UNCHANGED walk
    /\ UNCHANGED <<input, tree, contents, vdb, hook, audit, merge>>
LeaveDir ==
    /\ step = "merge" /\ walk # << >> /\ Last(walk) = {}
    /\ walk' = Front(walk)
    /\ UNCHANGED <<input, step, tree, contents, vdb, hook, audit, merge>>

\* Remaining directories are removed, if any
RemoveSource ==
    /\ step = "merge" /\ walk = << >>
    /\ tree' = [path \in {path \in DOMAIN tree : ~Under(path, From)} |-> tree[path]]
    /\ merge' = merge + 1
    /\ step' = "rename"
    /\ UNCHANGED <<input, contents, vdb, hook, audit, walk>>
----------------------------------------------------------------------------
\* Any system call, tar or the tools of the container may fail
ExtractFails ==
    /\ step \notin {"done", "failed"} /\ step' = "failed"
    /\ UNCHANGED <<input, tree, contents, vdb, hook, audit, walk, merge>>

ExtractNext ==
    \/ ExtractImage \/ GenerateContents \/ CreateSparseVdb \/ CreateInitialVdb
    \/ RunHook \/ HookNotImplemented \/ HooksReturn \/ WriteRequires
    \/ NextRename \/ MoveEntry \/ MergeEntry \/ LeaveDir \/ RemoveSource
    \/ ExtractFails
ExtractSpec == ExtractInit /\ [][ExtractNext]_extractVars
----------------------------------------------------------------------------
ExtractSteps == {"extract", "contents", "vdb", "audit", "requires", "rename", "merge", "done", "failed"}

ExtractTypeOK ==
    /\ input \in Inputs
    /\ step \in ExtractSteps
    /\ IsTree(tree)
    /\ hook \in 0 .. Len(input.hooks)
    /\ audit \subseteq {"lookup", "readdir"} \X Path
    /\ vdb.requires \subseteq audit
    /\ merge \in 1 .. Len(Renames) + 1
    /\ step = "merge" => \A i \in DOMAIN walk : \A path \in walk[i] : Under(path, From)

\* Where an entry of the package belongs
IsRenamed(path, i) ==
    LET dir == Renames[i][1]
    IN  input.host /\ Under(path, dir) /\ dir \in DOMAIN input.image /\ input.image[dir].kind = "dir"
NewPath(path) ==
    IF \E i \in DOMAIN Renames : IsRenamed(path, i)
    THEN LET i == CHOOSE i \in DOMAIN Renames : IsRenamed(path, i)
         IN  Join(Renames[i][2], path, Renames[i][1])
    ELSE path

(* In a directory that both have, a file that only the source has is the   *)
(* last                                                                    *)
FilesAreLast ==
    \A path, other \in DOMAIN input.image :
        /\ input.image[path].kind # "dir"
        /\ NewPath(path) # path /\ NewPath(path) \notin DOMAIN input.image
        /\ NewPath(Parent(path)) \in DOMAIN input.image
        /\ Len(other) = Len(path) /\ Parent(other) = Parent(path)
        => ~Before(path, other)

(* The output has all the package has, each entry where it belongs, its    *)
(* mode and xattrs as they were, and nothing of the renamed directories -- *)
(* as long as no file is moved while others of its directory are still to  *)
(* come, which the walk would then skip                                    *)
MergeIsComplete ==
    step = "done" /\ FilesAreLast =>
        /\ \A path \in DOMAIN input.image :
               /\ NewPath(path) \in DOMAIN tree
               /\ tree[NewPath(path)].kind = input.image[path].kind
               /\ tree[NewPath(path)].meta = input.image[path].meta
               /\ input.image[path].kind # "dir" => tree[NewPath(path)].from = path
        /\ \A path \in DOMAIN tree :
               tree[path].from # << >> => path \in {NewPath(old) : old \in DOMAIN input.image}

(* What the comment of merge_directories says: files under the source are  *)
(* moved to the target (src/main.rs:112-117)                               *)
FilesAreMoved ==
    step = "done" => \A path \in DOMAIN input.image : NewPath(path) \in DOMAIN tree

(* A hook whose audit is clean sees in every root what it saw in the mock  *)
(* root, so that it may be skipped: what it looked up is there or is not,  *)
(* and directories that it listed hold the same                            *)
Listed(root, dir) == {path \in root : Len(path) = Len(dir) + 1 /\ Parent(path) = dir}
SeesTheSame(access, mock, root) ==
    /\ Found(mock, access.path) = Found(root, access.path)
    /\ access.access = "readdir" => Listed(mock, access.path) = Listed(root, access.path)
CleanHooksCanBeSkipped ==
    step = "done" /\ ~input.sparse /\ vdb.requires = {} =>
        \A i \in 1 .. hook : \A dirs \in Roots :
            LET files == vdb.files \ LateFiles
            IN  SeesTheSame(input.hooks[i], RootWith(MockDirs, files), RootWith(dirs, files))
===============================================================================
