--------------------------- MODULE DurableConvert ---------------------------
(***************************************************************************)
(* Several processes call DurableTree::convert on one directory            *)
(* (convert.rs:138-166).  convert takes the flock of the inode it opened,  *)
(* and every later call goes through the path, which the pivot of another  *)
(* makes name another inode; and it takes modes and links from the files   *)
(* one by one, and has them in memory only until manifest.json is written. *)
(*                                                                         *)
(* The inodes are Orig, the directory to convert, and for each converter   *)
(* the temporary directory it makes, written as the converter itself.      *)
(* The entries are those of Orig, whichever directory of Orig they are in, *)
(* and so the walk finds them in any order, and lists one before or after  *)
(* another converter has taken it.  What else a temporary directory holds, *)
(* a manifest and a marker, is not told apart when it is walked over.      *)
(***************************************************************************)
EXTENDS Naturals, FiniteSets, Sequences

CONSTANTS
    Converters, \* processes that call convert on the same path
    Orig,       \* the inode of the directory to convert
    Entries,    \* the files, directories, symlinks and whiteouts in it
    Links,      \* those of them that are symlinks and whiteouts
    None        \* no inode, no process, no entry

ASSUME ConvertersAssumption ==
    /\ Orig \notin Converters
    /\ Links \subseteq Entries
    /\ Entries \intersect (Converters \union {Orig}) = {}
    /\ None \notin Converters \union {Orig} \union Entries

Inodes == Converters \union {Orig}
MaybeInode == Inodes \union {None}

VARIABLES
    root,       \* the inode the path names
    raws,       \* of each inode: raw, raw/raw and so on, the directories under it
    temp,       \* temporary directories still under their temporary names
    kept,       \* what is left of the directories and entries
    manifest,   \* what manifest.json in each inode records; nothing if it cannot be read
    hot,        \* inodes set to 0700
    marked,     \* inodes with a DURABLE_TREE marker
    owner,      \* who holds the flock of each inode
    pc,
    fd,         \* the inode each converter opened
    depth,      \* the directory it walks over: raw is 1, raw/raw is 2
    looking,    \* the file it processes
    record,     \* the manifest it has in memory
    created     \* the inode in which it has made a manifest.json

disk == <<root, raws, temp, kept, manifest, hot, marked>>
memory == <<depth, looking, record, created>>
vars == <<disk, owner, pc, fd, memory>>

\* A file under raw^depth: an entry, or None for the directory itself
Paths == Entries \union {None}
\* Modes are the original ones or 0755; symlinks and whiteouts are there or not
NotLooking == [path |-> None, as |-> "original"]
Records == [depth : Nat, path : Paths, as : {"original", "plain"}]

Init ==
    /\ root = Orig
    /\ raws = [i \in Inodes |-> << >>]
    /\ temp = {}
    /\ kept = [f \in Inodes \union Entries |-> "original"]
    /\ manifest = [i \in Inodes |-> {}]
    /\ hot = {}
    /\ marked = {}
    /\ owner = [i \in Inodes |-> None]
    /\ pc = [c \in Converters |-> "start"]
    /\ fd = [c \in Converters |-> None]
    /\ depth = [c \in Converters |-> 1]
    /\ looking = [c \in Converters |-> NotLooking]
    /\ record = [c \in Converters |-> {}]
    /\ created = [c \in Converters |-> None]

GoesTo(c, from, to) ==
    /\ pc[c] = from
    /\ pc' = [pc EXCEPT ![c] = to]

Release(c) ==
    owner' = [i \in Inodes |-> IF owner[i] = c THEN None ELSE owner[i]]

\* build_manifest returns, or the process ends: the manifest in memory is gone
Forget(c) ==
    /\ depth' = [depth EXCEPT ![c] = 1]
    /\ looking' = [looking EXCEPT ![c] = NotLooking]
    /\ record' = [record EXCEPT ![c] = {}]
    /\ created' = [created EXCEPT ![c] = None]

\* metadata(root); every directory here is u+rwx
Stat(c) ==
    /\ GoesTo(c, "start", "open")
    /\ root # None
    /\ UNCHANGED <<disk, owner, fd, memory>>

Open(c) ==
    /\ GoesTo(c, "open", "lock")
    /\ root # None
    /\ fd' = [fd EXCEPT ![c] = root]
    /\ UNCHANGED <<disk, owner, memory>>

\* Mutant: converters share the lock
FlockShared(c) ==
    /\ GoesTo(c, "lock", "check")
    /\ owner' = [owner EXCEPT ![fd[c]] = c]
    /\ UNCHANGED <<disk, fd, memory>>

Flock(c) ==
    /\ GoesTo(c, "lock", "check")
    /\ owner[fd[c]] = None
    /\ owner' = [owner EXCEPT ![fd[c]] = c]
    /\ UNCHANGED <<disk, fd, memory>>

\* try_exists finds no marker where the path names nothing
CheckMarker(c) ==
    /\ GoesTo(c, "check", "pivot")
    /\ root \notin marked
    /\ UNCHANGED <<disk, owner, fd, memory>>

RefuseDurable(c) ==
    /\ GoesTo(c, "check", "failed")
    /\ root \in marked
    /\ Release(c)
    /\ UNCHANGED <<disk, fd, memory>>

\* Make a temporary directory beside the root, and rename the root, whatever
\* inode that is now, to its raw subdirectory
PivotAway(c) ==
    /\ GoesTo(c, "pivot", "rename")
    /\ root # None
    /\ raws' = [raws EXCEPT ![c] = <<root>> \o raws[root]]
    /\ temp' = temp \union {c}
    /\ root' = None
    /\ UNCHANGED <<kept, manifest, hot, marked, owner, fd, memory>>

\* Rename the temporary directory to the root.  It would not replace another
\* directory, but nobody else can have brought one: only its own converter
\* can pivot back while the path names nothing
PivotBack(c) ==
    /\ GoesTo(c, "rename", "directory")
    /\ root = None
    /\ root' = c
    /\ temp' = temp \ {c}
    /\ UNCHANGED <<raws, kept, manifest, hot, marked, owner, fd, memory>>
----------------------------------------------------------------------------
(* build_manifest_impl and process_file, which go by root/raw^depth/path   *)

Directory(c) == raws[root][depth[c]]

\* What a path names now, if there is such a file
FileAt(c, path) == IF path = None THEN Directory(c) ELSE IF Directory(c) = Orig THEN path ELSE None
IsThere(c, path) == FileAt(c, path) \in DOMAIN kept /\ kept[FileAt(c, path)] # "gone"

\* Each file is processed once
Processed(c) == {r.path : r \in {s \in record[c] : s.depth = depth[c]}}

\* symlink_metadata
Look(c) ==
    /\ root # None
    /\ \E path \in Paths \ Processed(c) :
           /\ GoesTo(c, IF path = None THEN "directory" ELSE "entries", "process")
           /\ IsThere(c, path)
           /\ looking' = [looking EXCEPT ![c] = [path |-> path, as |-> kept[FileAt(c, path)]]]
    /\ UNCHANGED <<disk, owner, fd, depth, record, created>>

Remember(c, as) ==
    record' = [record EXCEPT ![c] = @ \union {[depth |-> depth[c], path |-> looking[c].path, as |-> as]}]

\* chmod, or unlink
Strip(c) ==
    LET path == looking[c].path IN
    /\ GoesTo(c, "process", IF path = None THEN "list" ELSE "entries")
    /\ root # None
    /\ IsThere(c, path)
    /\ kept' = [kept EXCEPT ![FileAt(c, path)] = IF path \in Links THEN "gone" ELSE "plain"]
    /\ hot' = hot \ {FileAt(c, path)}
    /\ looking' = [looking EXCEPT ![c] = NotLooking]
    /\ UNCHANGED <<root, raws, temp, manifest, marked, owner, fd, depth, created>>

\* Mutant: the mode is read after it has been set
ProcessFileChmodFirst(c) ==
    Strip(c) /\ Remember(c, IF looking[c].path \in Links THEN "original" ELSE "plain")

\* set_permissions or remove_file
ProcessFile(c) == Strip(c) /\ Remember(c, looking[c].as)

\* read_dir: the entries of the original, or what a conversion has made,
\* with another raw in it
ListDirectory(c) ==
    /\ pc[c] = "list" /\ root # None
    /\ IF Directory(c) = Orig THEN GoesTo(c, "list", "entries") /\ UNCHANGED depth
       ELSE GoesTo(c, "list", "directory") /\ depth' = [depth EXCEPT ![c] = @ + 1]
    /\ UNCHANGED <<disk, owner, fd, looking, record, created>>

\* An entry that another converter had taken before its directory was listed
\* is not missed; after that it is: see EntryGone
EndWalk(c) ==
    /\ GoesTo(c, "entries", "create")
    /\ \A e \in Entries \ Processed(c) : kept[e] = "gone"
    /\ UNCHANGED <<disk, owner, fd, memory>>

\* File::create, which truncates what is there
CreateManifest(c) ==
    /\ GoesTo(c, "create", "write")
    /\ root # None
    /\ manifest' = [manifest EXCEPT ![root] = {}]
    /\ created' = [created EXCEPT ![c] = root]
    /\ UNCHANGED <<root, raws, temp, kept, hot, marked, owner, fd, depth, looking, record>>

\* to_writer.  What another converter has written to the file since then may
\* be longer, and what is left of it spoils the manifest
WriteManifest(c) ==
    /\ GoesTo(c, "write", "hot")
    /\ \E written \in {record[c], {}} :
           /\ written = record[c] \/ manifest[created[c]] # {}
           /\ manifest' = [manifest EXCEPT ![created[c]] = written]
    /\ Forget(c)
    /\ UNCHANGED <<root, raws, temp, kept, hot, marked, owner, fd>>
----------------------------------------------------------------------------
MarkHot(c) ==
    /\ GoesTo(c, "hot", "mark")
    /\ root # None
    /\ hot' = hot \union {root}
    /\ UNCHANGED <<root, raws, temp, kept, manifest, marked, owner, fd, memory>>

MarkDurable(c) ==
    /\ GoesTo(c, "mark", "done")
    /\ root # None
    /\ marked' = marked \union {root}
    /\ Release(c)
    /\ UNCHANGED <<root, raws, temp, kept, manifest, hot, fd, memory>>

\* Mutant: the lock is a file, which only success removes
GivesUpLocked(c) ==
    /\ pc' = [pc EXCEPT ![c] = "failed"]
    /\ Forget(c)
    /\ UNCHANGED <<disk, owner, fd>>

GivesUp(c) ==
    /\ pc' = [pc EXCEPT ![c] = "failed"]
    /\ Release(c) /\ Forget(c)
    /\ UNCHANGED <<disk, fd>>

\* A call that needs the path finds it names nothing: another pivot is under
\* way, or died half way
PathGone(c) ==
    /\ root = None
    /\ pc[c] \in {"start", "open", "pivot", "directory", "process", "list", "entries", "create", "hot", "mark"}
    /\ GivesUp(c)

\* An entry that was listed is not there any more: another pivot has moved
\* its directory, or another converter has removed it
EntryGone(c) ==
    /\ root # None
    /\ \/ pc[c] = "process" /\ ~IsThere(c, looking[c].path)
       \/ pc[c] = "entries" /\ \E e \in Entries \ Processed(c) : ~IsThere(c, e)
    /\ GivesUp(c)

\* Killed, or a failed call, or a file of a type or a name that is not
\* supported: the lock goes, what it did stays.  Between the two renames the
\* temporary directory is already permanent (into_path)
Dies(c) ==
    /\ pc[c] \notin {"start", "done", "failed"}
    /\ GivesUp(c)

Step(c) ==
    \/ Stat(c)
    \/ Open(c)
    \/ Flock(c)
    \/ CheckMarker(c)
    \/ RefuseDurable(c)
    \/ PivotAway(c)
    \/ PivotBack(c)
    \/ Look(c)
    \/ ProcessFile(c)
    \/ ListDirectory(c)
    \/ EndWalk(c)
    \/ CreateManifest(c)
    \/ WriteManifest(c)
    \/ MarkHot(c)
    \/ MarkDurable(c)
    \/ PathGone(c)
    \/ EntryGone(c)

Next == \E c \in Converters : Step(c) \/ Dies(c)

Spec == Init /\ [][Next]_vars

\* Every process is scheduled; one that waits for a flock is woken when it
\* comes free, and each converter locks only once
FairSpec == Spec /\ \A c \in Converters : WF_vars(Step(c))
----------------------------------------------------------------------------
TypeOK ==
    /\ root \in MaybeInode
    /\ raws \in [Inodes -> Seq(Inodes)]
    /\ temp \subseteq Converters
    /\ kept \in [Inodes \union Entries -> {"original", "plain", "gone"}]
    /\ manifest \in [Inodes -> SUBSET Records]
    /\ hot \subseteq Inodes
    /\ marked \subseteq Inodes
    /\ owner \in [Inodes -> Converters \union {None}]
    /\ pc \in [Converters -> {"start", "open", "lock", "check", "pivot", "rename", "directory", "process",
                              "list", "entries", "create", "write", "hot", "mark", "done", "failed"}]
    /\ fd \in [Converters -> MaybeInode]
    /\ depth \in [Converters -> Nat]
    /\ looking \in [Converters -> [path : Paths, as : {"original", "plain"}]]
    /\ record \in [Converters -> SUBSET Records]
    /\ created \in [Converters -> MaybeInode]

\* The raw subdirectory of an inode
Raw(i) == IF raws[i] = << >> THEN None ELSE Head(raws[i])

\* The places that name an inode: the path, a temporary name, a raw subdirectory
Names(i) ==
    (IF root = i THEN {"root"} ELSE {})
    \union (IF i \in temp THEN {"temp"} ELSE {})
    \union {j \in Inodes : Raw(j) = i}

Pivoted(c) == raws[c] # << >>
Made == {Orig} \union {c \in Converters : Pivoted(c)}

\* The file of the original as it should be recorded
AsItWas(path) == [depth |-> 1, path |-> path, as |-> "original"]
Everything == {AsItWas(path) : path \in Paths}
At(path) == IF path = None THEN Orig ELSE path

\* All who came have opened the original, so that its lock is between them
LockedOriginal == \A c \in Converters : fd[c] \in {Orig, None}
GaveUpHalfWay(c) == pc[c] = "failed" /\ Pivoted(c)

\* However converters race and wherever they die, every directory they made
\* or moved has exactly one name (convert.rs:29-51).  Modes, symlinks and
\* whiteouts have more to fear: they are safe -- as they were, or recorded by
\* a converter that is still at work or in the manifest.json beside them --
\* as long as nobody has opened the path after a pivot, and so has locked
\* something else, and nobody has given up after its pivot (convert.rs:92-149).
NothingIsLost ==
    /\ \A i \in Made : Cardinality(Names(i)) = 1
    /\ LockedOriginal /\ (\A c \in Converters : ~GaveUpHalfWay(c)) =>
           \A path \in Paths :
               \/ kept[At(path)] = "original"
               \/ \E c \in Converters : raws[c] = <<Orig>> /\ AsItWas(path) \in record[c] \union manifest[c]

\* A converter that returns success, and is the only one so far that has
\* moved the path, whoever else waits, is refused or has died before that,
\* leaves a top directory over the original with a manifest that records all
\* that was there and as it was, and leaves it hot.
SoleSuccessIsComplete ==
    \A c \in Converters :
        pc[c] = "done" /\ (\A d \in Converters \ {c} : ~Pivoted(d)) =>
            /\ root = c
            /\ raws[c] = <<Orig>>
            /\ manifest[c] = Everything
            /\ c \in hot \intersect marked

\* Every call returns: the locks of the old and the new inode are never
\* waited for in a circle, and an error lets go of them.
ConversionsEnd == <>(\A c \in Converters : pc[c] \in {"done", "failed"})
============================================================================
