------------------------------ MODULE Container ------------------------------
(***************************************************************************)
(* ContainerSettings and what it makes: layers are pushed, then the same   *)
(* settings are used for one container after another.  A container is an   *)
(* overlay of the layers, a stage directory and an upper directory; it is  *)
(* mounted only (mount) or prepared to run commands (prepare).  In the end *)
(* it is dropped, or turned into its upper directory, which may become the *)
(* next layer.                                                             *)
(*                                                                         *)
(* A directory is a record of what it has at one path, "absent", a file or *)
(* a directory, and whether .control is in it.  from is the layer a file   *)
(* comes from or, below zero, the container it was written in.             *)
(***************************************************************************)
EXTENDS ContainerRun

CONSTANTS
    Requests,       \* what the program asks of its settings
    MaxContainers,  \* containers made of one settings object
    MaxCommands     \* commands run in one container

Node == [kind : {"absent", "file", "dir"}, from : Int]
Empty == [node |-> [kind |-> "absent", from |-> 0], control |-> FALSE]

ASSUME ContainerAssumption ==
    /\ MaxContainers \in Nat
    /\ MaxCommands \in Nat
    /\ \A r \in Requests :
        /\ r.use \in {"mount", "prepare"}
        /\ r.run \in BOOLEAN
        /\ r.layers \in Seq([type : {"archive", "dir", "tree"}, node : Node])

VARIABLES
    request,
    pc,
    pushed,     \* layers pushed so far, as the caller sees them
    disk,       \* what is in the directories that exist
    lowerDirs,  \* ContainerSettings: lower_dirs,
    archiveDirs,\*   archive_dirs,
    trees,      \*   durable_trees
    reusable,   \*   and reusable_archive_dir
    round,      \* which container this is
    made,       \* steps done to make it
    mount,      \* lower directories of its overlay
    commands,   \* commands run in it
    drops,      \* what is dropped next, in order
    owned       \* directories the caller looks after

settings == <<lowerDirs, archiveDirs, trees, reusable>>
files == <<disk, mount, drops>>
vars == <<request, pc, pushed, settings, round, made, files, owned, commands, runVars>>

NoDir == <<"none", 0>>
Temp(name) == <<name, round>>
LayerDir(type, i) == <<type, i>>
----------------------------------------------------------------------------
\* The uppermost of a list of nodes, lowest first
Highest(nodes) ==
    LET has == {i \in DOMAIN nodes : nodes[i].kind # "absent"}
    IN  IF has = {} THEN Empty.node ELSE nodes[CHOOSE i \in has : \A j \in has : j <= i]

\* What an overlay shows of a list of directories
Top(list) == Highest([i \in DOMAIN list |-> list[i].node])

Control(list) == \E i \in DOMAIN list : list[i].control

Contents(dirs) == [i \in DOMAIN dirs |-> disk[dirs[i]]]

\* The directories with one more, or with other contents of one
With(dir, what) == [d \in DOMAIN disk \union {dir} |-> IF d = dir THEN what ELSE disk[d]]

\* The directories of the overlay, the upper one last
Stack == Append(mount, Temp("upper"))

Init ==
    /\ request \in Requests
    /\ pc = "push"
    /\ pushed = << >>
    /\ disk = [d \in {} |-> Empty]
    /\ lowerDirs = << >>
    /\ archiveDirs = << >>
    /\ trees = << >>
    /\ reusable = NoDir
    /\ round = 1
    /\ made = 0
    /\ mount = << >>
    /\ commands = 0
    /\ drops = << >>
    /\ owned = {}
    /\ Idle

NextLayer == request.layers[Len(pushed) + 1]
ToPush(type) == pc = "push" /\ Len(pushed) < Len(request.layers) /\ NextLayer.type = type
Here == [Empty EXCEPT !.node = NextLayer.node]

\* tar replaces files, and takes no directory for a file or the reverse
Clash(old, new) == {old.kind, new.kind} = {"file", "dir"}
Unpacked(old, new) == IF new.kind = "absent" THEN old ELSE new

\* request_archive_dir, then extract_archive
PushArchive ==
    /\ ToPush("archive")
    /\ LET fresh == reusable = NoDir
           dir == IF fresh THEN LayerDir("archive", Len(pushed) + 1) ELSE reusable
           old == IF fresh THEN Empty.node ELSE disk[dir].node
       IN  /\ ~Clash(old, NextLayer.node)
           /\ disk' = With(dir, [Empty EXCEPT !.node = Unpacked(old, NextLayer.node)])
           /\ archiveDirs' = IF fresh THEN Append(archiveDirs, dir) ELSE archiveDirs
           /\ lowerDirs' = IF fresh THEN Append(lowerDirs, dir) ELSE lowerDirs
           /\ reusable' = dir
    /\ pushed' = Append(pushed, NextLayer.node)
    /\ UNCHANGED <<request, pc, trees, round, made, mount, drops, owned, commands, runVars>>

\* Mutant: the archive directory stays open for the next archive
AfterOtherLayerKept == reusable

\* A layer of another kind closes the archive directory
AfterOtherLayer == NoDir

PushDir ==
    /\ ToPush("dir")
    /\ LET dir == LayerDir("dir", Len(pushed) + 1)
       IN  /\ disk' = With(dir, Here)
           /\ lowerDirs' = Append(lowerDirs, dir)
           /\ owned' = owned \union {dir}
    /\ reusable' = AfterOtherLayer
    /\ pushed' = Append(pushed, NextLayer.node)
    /\ UNCHANGED <<request, pc, archiveDirs, trees, round, made, mount, drops, commands, runVars>>

\* DurableTree::expand mounts what the settings keep until they are dropped
PushDurableTree ==
    /\ ToPush("tree")
    /\ LET dir == LayerDir("tree", Len(pushed) + 1)
       IN  /\ disk' = With(dir, Here)
           /\ lowerDirs' = Append(lowerDirs, dir)
           /\ trees' = Append(trees, dir)
    /\ reusable' = AfterOtherLayer
    /\ pushed' = Append(pushed, NextLayer.node)
    /\ UNCHANGED <<request, pc, archiveDirs, round, made, mount, drops, owned, commands, runVars>>

\* The settings drop what they hold
SettingsDrops == archiveDirs \o trees

PushFails ==
    /\ pc = "push"
    /\ Len(pushed) < Len(request.layers)
    /\ pc' = "end"
    /\ drops' = SettingsDrops
    /\ UNCHANGED <<request, pushed, settings, round, made, disk, mount, owned, commands, runVars>>

AllPushed ==
    /\ pc = "push"
    /\ Len(pushed) = Len(request.layers)
    /\ pc' = "make"
    /\ UNCHANGED <<request, pushed, settings, round, made, files, owned, commands, runVars>>
----------------------------------------------------------------------------
(* prepare() and mount()                                                   *)

Steps ==
    IF request.use = "mount" THEN <<"root", "scratch", "upper", "overlay">>
    ELSE <<"upper", "stage", "scratch", "root", "overlay", "bind">>

\* Mutant: the fields in the order they are made
FieldsAsMade ==
    IF request.use = "mount" THEN <<"root", "scratch", "upper", "overlay">>
    ELSE <<"upper", "stage", "scratch", "root", "overlay">>

\* Rust drops the fields of a struct in the order of their declaration
Fields ==
    IF request.use = "mount" THEN <<"overlay", "root", "scratch", "upper">>
    ELSE <<"overlay", "root", "stage", "scratch", "upper">>

\* and the locals of a function in the reverse order
Locals == Reverse(SubSeq(Steps, 1, made))

Named(names) == [i \in DOMAIN names |-> Temp(names[i])]
Lowers == IF request.use = "mount" THEN lowerDirs ELSE Append(lowerDirs, Temp("stage"))

Make ==
    /\ pc = "make"
    /\ made < Len(Steps)
    /\ LET step == Steps[made + 1]
       IN  CASE step = "overlay" ->
                  /\ Lowers # << >>
                  /\ mount' = Lowers
                  /\ UNCHANGED disk
             [] step = "bind" -> UNCHANGED <<mount, disk>>
             [] OTHER ->
                  /\ disk' = With(Temp(step), Empty)
                  /\ UNCHANGED mount
    /\ made' = made + 1
    /\ UNCHANGED <<request, pc, pushed, settings, round, drops, owned, commands, runVars>>

MakeFails ==
    /\ pc = "make"
    /\ made < Len(Steps)
    /\ pc' = "end"
    /\ drops' = Named(Locals) \o SettingsDrops
    /\ UNCHANGED <<request, pushed, settings, round, made, disk, mount, owned, commands, runVars>>

Made ==
    /\ pc = "make"
    /\ made = Len(Steps)
    /\ pc' = "ready"
    /\ UNCHANGED <<request, pushed, settings, round, made, files, owned, commands, runVars>>

InContainer == pc = "ready" /\ st["host"] \in {"none", "done", "failed"}

Written == [kind |-> "file", from |-> -round]

\* The caller leaves a file in the container
Write ==
    /\ InContainer
    /\ ~request.run
    /\ disk' = [disk EXCEPT ![Temp("upper")].node = Written]
    /\ UNCHANGED <<request, pc, pushed, settings, round, made, mount, drops, owned, commands, runVars>>

\* A command leaves one, and .control is never removed
Status ==
    /\ InContainer
    /\ request.run
    /\ commands < MaxCommands
    /\ commands' = commands + 1
    /\ \E mode, untilTold \in BOOLEAN :
        LET exists == Control(Contents(Stack))
        IN  /\ \/ Call(mode, exists, untilTold)
               \/ CallFails(mode, exists)
            /\ disk' = [disk EXCEPT ![Temp("upper")] =
                            [node |-> Written, control |-> @.control \/ mode]]
    /\ UNCHANGED <<request, pc, pushed, settings, round, made, mount, drops, owned>>

Meanwhile == UNCHANGED <<request, pc, pushed, settings, round, made, files, owned, commands>>

Running == RunNext /\ Meanwhile
----------------------------------------------------------------------------
Forget ==
    /\ made' = 0
    /\ commands' = 0
    /\ Fresh("none", FALSE, FALSE)

\* The container is dropped
Drop ==
    /\ InContainer
    /\ pc' = "dropping"
    /\ drops' = Named(Fields)
    /\ Forget
    /\ UNCHANGED <<request, pushed, settings, round, disk, mount, owned>>

\* into_upper_dir, into_upper: all but the upper directory, the last field, is
\* dropped
IntoUpper ==
    /\ InContainer
    /\ pc' = "upper"
    /\ drops' = Named(Front(Fields))
    /\ owned' = owned \union {Temp("upper")}
    /\ Forget
    /\ UNCHANGED <<request, pushed, settings, round, disk, mount>>

\* Unmounting detaches the bind mounts below too; a directory is removed with
\* all there is in it
DropNext ==
    /\ drops # << >>
    /\ drops' = Tail(drops)
    /\ LET d == Head(drops)
       IN  CASE d = Temp("overlay") -> mount' = << >> /\ UNCHANGED disk
             [] d = Temp("bind") -> UNCHANGED <<disk, mount>>
             [] OTHER -> disk' = Restrict(disk, DOMAIN disk \ {d}) /\ UNCHANGED mount
    /\ UNCHANGED <<request, pc, pushed, settings, round, made, owned, commands, runVars>>

Again ==
    /\ round < MaxContainers
    /\ round' = round + 1
    /\ pc' = "make"

\* The next container, of the same layers
Reuse ==
    /\ pc = "dropping"
    /\ drops = << >>
    /\ Again
    /\ UNCHANGED <<request, pushed, settings, made, files, owned, commands, runVars>>

\* The upper directory becomes a layer
PushUpper ==
    /\ pc = "upper"
    /\ drops = << >>
    /\ Again
    /\ lowerDirs' = Append(lowerDirs, Temp("upper"))
    /\ reusable' = AfterOtherLayer
    /\ pushed' = Append(pushed, disk[Temp("upper")].node)
    /\ UNCHANGED <<request, archiveDirs, trees, made, files, owned, commands, runVars>>

DropSettings ==
    /\ pc \in {"dropping", "upper"}
    /\ drops = << >>
    /\ pc' = "end"
    /\ drops' = SettingsDrops
    /\ UNCHANGED <<request, pushed, settings, round, made, disk, mount, owned, commands, runVars>>

Next ==
    \/ PushArchive \/ PushDir \/ PushDurableTree \/ PushFails \/ AllPushed
    \/ Make \/ MakeFails \/ Made
    \/ Write \/ Status \/ Running
    \/ Drop \/ IntoUpper \/ DropNext
    \/ Reuse \/ PushUpper \/ DropSettings

\* Processes are scheduled, the command ends by itself unless it is endless,
\* and it does not ignore SIGTERM
Fairness ==
    /\ \A p \in Waiters : WF_vars(ProcessSteps(p) /\ Meanwhile)
    /\ WF_vars((StartSentinel \/ EndSentinel) /\ Meanwhile)
    /\ WF_vars(CommandSteps /\ Meanwhile)
    /\ WF_vars(ReaderSteps /\ Meanwhile)
    /\ WF_vars((CloseControl \/ JoinReader) /\ Meanwhile)

Spec == Init /\ [][Next]_vars /\ Fairness
----------------------------------------------------------------------------
TypeOK ==
    /\ RunTypeOK
    /\ pc \in {"push", "make", "ready", "dropping", "upper", "end"}
    /\ \A i \in DOMAIN pushed : pushed[i] \in Node
    /\ ToSet(lowerDirs) \subseteq DOMAIN disk \/ pc = "end"
    /\ ToSet(archiveDirs) \subseteq ToSet(lowerDirs)
    /\ ToSet(trees) \subseteq ToSet(lowerDirs)
    /\ reusable \in ToSet(archiveDirs) \union {NoDir}
    /\ made \in 0 .. Len(Steps)

\* A container shows its layers in the order they were pushed, although one
\* directory may stand for several archives and the settings are used again
\* with more layers (container.rs:1036-1037, "should not merge non-adjacent
\* archive layers").
LayersStackInPushOrder == mount # << >> => Top(Contents(mount)) = Highest(pushed)

\* "The overlayfs is unmounted before removing its backing directories"
\* (container.rs:436-438), on every way out: nothing a mounted overlay uses is
\* ever gone, so that no removal reaches through the mount; and in the end the
\* caller's directories are there and no other.
TeardownIsOrderly ==
    /\ mount # << >> =>
        ToSet(Stack) \union {Temp("root"), Temp("scratch")} \subseteq DOMAIN disk
    /\ pc = "end" /\ drops = << >> => mount = << >> /\ DOMAIN disk = owned

\* status() returns: the end of the child is not missed, the reader of
\* .control ends although every process got a copy of tx, and a command that
\* waits to be told is told.  The one SIGTERM that does not get there is one
\* that comes before dumb_init has set itself up.
StatusReturns ==
    (st["host"] # "none" /\ (endless => "TERM" \in sent))
        ~> (st["host"] \in {"none", "done", "failed"} \/ lost)
=============================================================================
