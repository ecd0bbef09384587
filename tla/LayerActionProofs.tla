--------------------------- MODULE LayerActionProofs ---------------------------
(***************************************************************************)
(* Theorems about the three programs of an action that makes a layer: any  *)
(* number of conversions of one directory that race and die anywhere, the  *)
(* image and the hooks of any package, and a command with any number of    *)
(* programs that write their traces while the wrapper looks at them.       *)
(***************************************************************************)
EXTENDS LayerAction, FiniteSetTheorems, SequenceTheorems, WellFoundedInduction, TLAPS

(* The other inductions are over the natural numbers: a set of them that   *)
(* has anything has a least one                                            *)
LEMMA LeastNumber ==
    ASSUME NEW S, S \subseteq Nat, S # {} PROVE \E n \in S : \A m \in S : n <= m
<1>1. PICK n \in S : \A m \in S : ~(<<m, n>> \in OpToRel(<, Nat))
    BY WFMin, NatLessThanWellFounded
<1>2. \A m \in S : ~(m < n)
    BY <1>1 DEF OpToRel
<1> QED
    BY <1>2
----------------------------------------------------------------------------
(* Conversions of one directory                                            *)

LEMMA InitTypes == Init => TypeOK
BY EmptySeq DEF Init, TypeOK, Inodes, MaybeInode, Paths, NotLooking

LEMMA StepTypes == TypeOK /\ [Next]_vars => TypeOK'
<1> SUFFICES ASSUME TypeOK, [Next]_vars PROVE TypeOK'
    OBVIOUS
<1> USE DEF TypeOK, MaybeInode
<1>1. CASE UNCHANGED vars
    BY <1>1 DEF vars, disk, memory
<1>2. ASSUME NEW c \in Converters, Step(c) \/ Dies(c) PROVE TypeOK'
    <2> USE DEF GoesTo, Release, Forget, NotLooking, Paths, Records, disk, memory
    <2>0. c \in Inodes
        BY DEF Inodes
    <2>1. CASE Stat(c) \/ Open(c) \/ Flock(c) \/ CheckMarker(c) \/ RefuseDurable(c)
        <3>1. CASE Stat(c)
            BY <3>1 DEF Stat
        <3>2. CASE Flock(c)
            BY <3>2 DEF Flock
        <3>3. CASE RefuseDurable(c)
            BY <3>3 DEF RefuseDurable
        <3>4. CASE Open(c)
            BY <3>4 DEF Open
        <3>5. CASE CheckMarker(c)
            BY <3>5 DEF CheckMarker
        <3> QED
            BY <2>1, <3>1, <3>2, <3>3, <3>4, <3>5
    <2>2. CASE PivotAway(c)
        <3>1. root \in Inodes /\ <<root>> \in Seq(Inodes) /\ raws[root] \in Seq(Inodes)
            BY <2>2 DEF PivotAway
        <3>2. <<root>> \o raws[root] \in Seq(Inodes)
            BY <3>1, ConcatProperties
        <3> QED
            BY <2>0, <2>2, <3>2 DEF PivotAway
    <2>3. CASE PivotBack(c)
        BY <2>0, <2>3 DEF PivotBack
    <2>4. CASE Look(c)
        <3>1. PICK path \in Paths :
                  /\ GoesTo(c, IF path = None THEN "directory" ELSE "entries", "process")
                  /\ IsThere(c, path)
                  /\ looking' = [looking EXCEPT ![c] = [path |-> path, as |-> kept[FileAt(c, path)]]]
            BY <2>4 DEF Look
        <3>2. kept[FileAt(c, path)] \in {"original", "plain"}
            BY <3>1 DEF IsThere
        <3> QED
            BY <2>4, <3>1, <3>2 DEF Look
    <2>5. CASE ProcessFile(c)
        <3>1. kept' \in [Inodes \union Entries -> {"original", "plain", "gone"}]
            BY <2>5 DEF ProcessFile, Strip
        <3>2. looking' \in [Converters -> [path : Paths, as : {"original", "plain"}]]
            BY <2>5 DEF ProcessFile, Strip
        <3>3. [depth |-> depth[c], path |-> looking[c].path, as |-> looking[c].as] \in Records
            OBVIOUS
        <3>4. record' \in [Converters -> SUBSET Records]
            BY <2>5, <3>3 DEF ProcessFile, Remember
        <3>5. pc' \in [Converters -> {"start", "open", "lock", "check", "pivot", "rename", "directory", "process",
                              "list", "entries", "create", "write", "hot", "mark", "done", "failed"}]
            BY <2>5 DEF ProcessFile, Strip
        <3> QED
            BY <2>5, <3>1, <3>2, <3>4, <3>5 DEF ProcessFile, Strip
    <2>6. CASE ListDirectory(c) \/ EndWalk(c) \/ CreateManifest(c)
        <3>1. CASE ListDirectory(c)
            <4>1. depth' \in [Converters -> Nat]
                <5>1. depth' = depth \/ depth' = [depth EXCEPT ![c] = depth[c] + 1]
                    BY <3>1, Zenon DEF ListDirectory
                <5>2. depth \in [Converters -> Nat] /\ depth[c] + 1 \in Nat
                    OBVIOUS
                <5>3. [depth EXCEPT ![c] = depth[c] + 1] \in [Converters -> Nat]
                    BY <5>2, Zenon
                <5> QED
                    BY <5>1, <5>2, <5>3, Zenon
            <4>2. UNCHANGED <<disk, owner, fd, looking, record, created>>
                BY <3>1 DEF ListDirectory
            <4>3. GoesTo(c, "list", "entries") \/ GoesTo(c, "list", "directory")
                BY <3>1, Zenon DEF ListDirectory
            <4>4. pc' = [pc EXCEPT ![c] = "entries"] \/ pc' = [pc EXCEPT ![c] = "directory"]
                BY <4>3
            <4> QED
                BY <4>1, <4>2, <4>4
        <3>2. CASE EndWalk(c)
            BY <3>2 DEF EndWalk
        <3>3. CASE CreateManifest(c)
            BY <3>3 DEF CreateManifest
        <3> QED
            BY <2>6, <3>1, <3>2, <3>3
    <2>7. CASE WriteManifest(c)
        <3>1. \A written \in {record[c], {}} : [manifest EXCEPT ![created[c]] = written] \in [Inodes -> SUBSET Records]
            OBVIOUS
        <3>2. manifest' \in [Inodes -> SUBSET Records]
            BY <2>7, <3>1 DEF WriteManifest
        <3>3. /\ looking' \in [Converters -> [path : Paths, as : {"original", "plain"}]]
              /\ depth' \in [Converters -> Nat] /\ record' \in [Converters -> SUBSET Records]
              /\ created' \in [Converters -> MaybeInode]
            BY <2>7 DEF WriteManifest
        <3> QED
            BY <2>7, <3>2, <3>3 DEF WriteManifest
    <2>8. CASE MarkHot(c) \/ MarkDurable(c)
        BY <2>8 DEF MarkHot, MarkDurable
    <2>9. CASE PathGone(c) \/ EntryGone(c) \/ Dies(c)
        <3>1. GivesUp(c)
            BY <2>9 DEF PathGone, EntryGone, Dies
        <3>2. /\ looking' \in [Converters -> [path : Paths, as : {"original", "plain"}]]
              /\ depth' \in [Converters -> Nat] /\ record' \in [Converters -> SUBSET Records]
              /\ created' \in [Converters -> MaybeInode]
            BY <3>1 DEF GivesUp
        <3>3. owner' \in [Inodes -> Converters \union {None}]
            BY <3>1 DEF GivesUp
        <3> QED
            BY <3>1, <3>2, <3>3 DEF GivesUp
    <2> QED
        BY <1>2, <2>1, <2>2, <2>3, <2>4, <2>5, <2>6, <2>7, <2>8, <2>9 DEF Step
<1> QED
    BY <1>1, <1>2 DEF Next

(* Every variable of converters and inodes keeps its type, whatever order  *)
(* the calls of convert.rs come in and whoever dies.                       *)
THEOREM ConvertTyping == Spec => []TypeOK
BY InitTypes, StepTypes, PTL DEF Spec
----------------------------------------------------------------------------
(* Every inode has one name only, and the temporary directory of a         *)
(* converter has none until it has taken the root in, which it does once   *)
OneName(i) ==
    /\ root = i => i \notin temp
    /\ \A j \in Inodes : Raw(j) = i => root # i /\ i \notin temp
    /\ \A j, k \in Inodes : Raw(j) = i /\ Raw(k) = i => j = k

Named(i) == root = i \/ i \in temp \/ \E j \in Inodes : Raw(j) = i

BeforePivot == {"start", "open", "lock", "check", "pivot"}

NamesInv ==
    /\ ~Pivoted(Orig)
    /\ \A i \in Inodes : OneName(i)
    /\ \A i \in Inodes : Named(i) <=> i \in Made
    /\ \A c \in Converters : pc[c] \in BeforePivot => ~Pivoted(c)
    /\ \A c \in Converters : pc[c] = "rename" => c \in temp

LEMMA InitNames == Init => NamesInv
BY ConvertersAssumption
   DEF Init, NamesInv, OneName, Named, Made, Pivoted, Raw, BeforePivot, Inodes

\* Steps that leave the names alone
LEMMA SameNames ==
    ASSUME TypeOK, NamesInv, UNCHANGED <<root, raws, temp>>,
           \A c \in Converters :
               /\ pc'[c] \in BeforePivot => pc[c] \in BeforePivot
               /\ pc'[c] = "rename" => pc[c] = "rename"
    PROVE  NamesInv'
BY DEF NamesInv, OneName, Named, Made, Pivoted, Raw

\* The raw directories of all inodes after a pivot
LEMMA PivotedRaws ==
    ASSUME TypeOK, NEW c \in Converters, PivotAway(c)
    PROVE  /\ root \in Inodes /\ root # None /\ c \in Inodes /\ c # Orig /\ None \notin Inodes
           /\ raws'[c] = <<root>> \o raws[root] /\ \A j \in Inodes \ {c} : raws'[j] = raws[j]
           /\ Pivoted(c)' /\ Raw(c)' = root
           /\ \A j \in Inodes \ {c} : (Pivoted(j)' <=> Pivoted(j)) /\ Raw(j)' = Raw(j)
<1>1. /\ root \in Inodes /\ root # None /\ c \in Inodes /\ c # Orig /\ None \notin Inodes
      /\ raws'[c] = <<root>> \o raws[root] /\ \A j \in Inodes \ {c} : raws'[j] = raws[j]
    BY ConvertersAssumption DEF PivotAway, TypeOK, MaybeInode, Inodes
<1>2. <<root>> \in Seq(Inodes) /\ Len(<<root>>) = 1 /\ <<root>>[1] = root /\ raws[root] \in Seq(Inodes)
    BY <1>1 DEF TypeOK
<1>3. raws'[c] \in Seq(Inodes) /\ Len(raws'[c]) >= 1 /\ raws'[c][1] = root
    BY <1>1, <1>2, ConcatProperties, LenProperties
<1>4. raws'[c] # << >> /\ Head(raws'[c]) = root
    BY <1>3, EmptySeq, HeadTailProperties
<1> QED
    BY <1>1, <1>4 DEF Pivoted, Raw

\* The root becomes the raw subdirectory of c, which is then made
LEMMA PivotAwayNames ==
    ASSUME TypeOK, NamesInv, NEW c \in Converters, PivotAway(c)
    PROVE  NamesInv'
<1>1. /\ root \in Inodes /\ root # None
      /\ temp' = temp \union {c}
      /\ root' = None
      /\ pc[c] = "pivot"
      /\ \A d \in Converters : pc'[d] = IF d = c THEN "rename" ELSE pc[d]
    BY DEF PivotAway, GoesTo, TypeOK, MaybeInode
<1>2. /\ None \notin Inodes /\ c \in Inodes /\ c # Orig
      /\ Pivoted(c)' /\ Raw(c)' = root
      /\ \A j \in Inodes \ {c} : (Pivoted(j)' <=> Pivoted(j)) /\ Raw(j)' = Raw(j)
    BY PivotedRaws
<1>3. ~Pivoted(c) /\ Raw(c) = None /\ c \notin Made /\ ~Named(c)
    BY <1>1, <1>2 DEF NamesInv, BeforePivot, Made, Pivoted, Raw
<1>4. Made' = Made \union {c}
    BY <1>2 DEF Made, Inodes
<1>5. \A i \in Inodes : OneName(i)'
    <2> SUFFICES ASSUME NEW i \in Inodes PROVE OneName(i)'
        OBVIOUS
    <2>1. OneName(i) /\ OneName(root)
        BY <1>1 DEF NamesInv
    <2> QED
        BY <2>1, <1>1, <1>2, <1>3 DEF OneName, Named
<1>6. \A i \in Inodes : (Named(i) <=> i \in Made)'
    <2> SUFFICES ASSUME NEW i \in Inodes PROVE (Named(i) <=> i \in Made)'
        OBVIOUS
    <2>1. Named(i) <=> i \in Made
        BY DEF NamesInv
    <2>2. Named(i)' <=> Named(i) \/ i = c
        BY <1>1, <1>2, <1>3 DEF Named
    <2> QED
        BY <2>1, <2>2, <1>4
<1>7. ~Pivoted(Orig)'
    BY <1>2 DEF NamesInv, Inodes
<1>8. \A d \in Converters : d # c => (Pivoted(d)' <=> Pivoted(d))
    BY <1>2 DEF Inodes
<1> QED
    BY <1>1, <1>5, <1>6, <1>7, <1>8 DEF NamesInv, BeforePivot

\* The temporary directory of c becomes the root
LEMMA PivotBackNames ==
    ASSUME TypeOK, NamesInv, NEW c \in Converters, PivotBack(c)
    PROVE  NamesInv'
<1>1. /\ root = None
      /\ root' = c
      /\ temp' = temp \ {c}
      /\ raws' = raws
      /\ c \in temp
      /\ c \in Inodes
      /\ None \notin Inodes
      /\ \A d \in Converters : pc'[d] = IF d = c THEN "directory" ELSE pc[d]
    BY ConvertersAssumption DEF PivotBack, GoesTo, NamesInv, Inodes, TypeOK
<1>2. \A i \in Inodes : Raw(i)' = Raw(i) /\ (Pivoted(i)' <=> Pivoted(i))
    BY <1>1 DEF Raw, Pivoted
<1>3. \A i \in Inodes : OneName(i)'
    <2> SUFFICES ASSUME NEW i \in Inodes PROVE OneName(i)'
        OBVIOUS
    <2>1. OneName(i) /\ OneName(c)
        BY <1>1 DEF NamesInv
    <2> QED
        BY <2>1, <1>1, <1>2 DEF OneName
<1>4. \A i \in Inodes : Named(i)' <=> Named(i)
    BY <1>1, <1>2 DEF Named
<1>5. Made' = Made
    BY <1>1, <1>2 DEF Made, Inodes
<1> QED
    BY <1>1, <1>2, <1>3, <1>4, <1>5 DEF NamesInv, BeforePivot, Inodes

LEMMA StepNames == TypeOK /\ NamesInv /\ [Next]_vars => NamesInv'
<1> SUFFICES ASSUME TypeOK, NamesInv, [Next]_vars PROVE NamesInv'
    OBVIOUS
<1>1. CASE UNCHANGED vars
    BY <1>1, SameNames DEF vars, disk
<1>2. ASSUME NEW c \in Converters, Step(c) \/ Dies(c) PROVE NamesInv'
    <2>1. CASE PivotAway(c)
        BY <2>1, PivotAwayNames
    <2>2. CASE PivotBack(c)
        BY <2>2, PivotBackNames
    <2>3. CASE ~PivotAway(c) /\ ~PivotBack(c)
        <3>1. UNCHANGED <<root, raws, temp>>
            BY <1>2, <2>3
               DEF Step, Stat, Open, Flock, CheckMarker, RefuseDurable, Look, ProcessFile, Strip, ListDirectory,
                   EndWalk, CreateManifest, WriteManifest, MarkHot, MarkDurable, PathGone, EntryGone, Dies,
                   GivesUp, disk
        <3>2. /\ pc'[c] \in BeforePivot => pc[c] \in BeforePivot
              /\ pc'[c] # "rename"
              /\ \A d \in Converters : d # c => pc'[d] = pc[d]
            BY <1>2, <2>3
               DEF Step, Stat, Open, Flock, CheckMarker, RefuseDurable, Look, ProcessFile, Strip, ListDirectory,
                   EndWalk, CreateManifest, WriteManifest, MarkHot, MarkDurable, PathGone, EntryGone, Dies,
                   GivesUp, GoesTo, BeforePivot, TypeOK
        <3> QED
            BY <3>1, <3>2, SameNames
    <2> QED
        BY <2>1, <2>2, <2>3
<1> QED
    BY <1>1, <1>2 DEF Next

OneNameEach == \A i \in Made : Cardinality(Names(i)) = 1

\* Who has one name has one element in Names
LEMMA NamesCounted == TypeOK /\ NamesInv => OneNameEach
<1> SUFFICES ASSUME TypeOK, NamesInv, NEW i \in Made PROVE Cardinality(Names(i)) = 1
    BY DEF OneNameEach
<1>1. i \in Inodes /\ OneName(i) /\ Named(i)
    BY DEF NamesInv, Made, Inodes
<1>2. \E x : Names(i) = {x}
    <2>1. CASE root = i
        BY <1>1, <2>1 DEF OneName, Names
    <2>2. CASE i \in temp
        BY <1>1, <2>2 DEF OneName, Names
    <2>3. ASSUME NEW j \in Inodes, Raw(j) = i PROVE Names(i) = {j}
        BY <1>1, <2>3 DEF OneName, Names
    <2> QED
        BY <1>1, <2>1, <2>2, <2>3 DEF Named
<1> QED
    BY <1>2, FS_Singleton
----------------------------------------------------------------------------
(* Who walks, and over what                                                *)
Walking == {"directory", "process", "list", "entries", "create", "write"}
AfterWalk == {"hot", "mark", "done"}
AfterPivot == {"rename"} \union Walking \union AfterWalk

PivotInv ==
    \A c \in Converters :
        /\ pc[c] \in BeforePivot => ~Pivoted(c) /\ depth[c] = 1 /\ record[c] = {}
        /\ pc[c] \in AfterPivot => Pivoted(c)

\* Nothing happens before a pivot
UntouchedInv ==
    (\A d \in Converters : ~Pivoted(d)) =>
        root = Orig /\ raws[Orig] = << >> /\ \A path \in Paths : kept[At(path)] = "original"

Sole(c) == \A d \in Converters \ {c} : ~Pivoted(d)

\* What a walk has taken from a file it has recorded
RecordInv(c) ==
    /\ depth[c] = 1 /\ record[c] \subseteq Everything
    /\ \A path \in Paths : kept[At(path)] = "original" \/ AsItWas(path) \in record[c]
    /\ pc[c] = "process" => looking[c].as = "original"
    /\ pc[c] = "process" /\ looking[c].path # None => AsItWas(None) \in record[c]
    /\ pc[c] \in {"list", "entries"} => AsItWas(None) \in record[c]
    /\ pc[c] \in {"create", "write"} => record[c] = Everything
    /\ pc[c] = "write" => created[c] = c /\ manifest[c] = {}

SoleInv ==
    \A c \in Converters : Sole(c) /\ Pivoted(c) =>
        /\ raws[c] = <<Orig>>
        /\ pc[c] = "rename" => root = None
        /\ pc[c] \in Walking \union AfterWalk => root = c
        /\ pc[c] \in {"rename"} \union Walking => RecordInv(c)
        /\ pc[c] \in AfterWalk => manifest[c] = Everything
        /\ pc[c] \in {"mark", "done"} => c \in hot
        /\ pc[c] = "done" => c \in marked

LEMMA InitSole == Init => PivotInv /\ UntouchedInv /\ SoleInv
<1> SUFFICES ASSUME Init PROVE PivotInv /\ UntouchedInv /\ SoleInv
    OBVIOUS
<1>1. \A c \in Converters : ~Pivoted(c) /\ pc[c] = "start" /\ depth[c] = 1 /\ record[c] = {}
    BY DEF Init, Pivoted, Inodes
<1>2. \A path \in Paths : At(path) \in Inodes \union Entries
    BY DEF At, Paths, Inodes
<1> QED
    BY <1>1, <1>2 DEF Init, PivotInv, UntouchedInv, SoleInv, BeforePivot, AfterPivot, Walking, AfterWalk, Inodes

\* Only its own pivot makes a converter one that has pivoted, and for good
LEMMA PivotedByPivot ==
    ASSUME TypeOK, NEW c \in Converters, Step(c) \/ Dies(c), NEW d \in Converters
    PROVE  /\ Pivoted(d) => Pivoted(d)'
           /\ ~PivotAway(c) => raws' = raws
           /\ d # c => (Pivoted(d)' <=> Pivoted(d)) /\ pc'[d] = pc[d] /\ raws'[d] = raws[d]
<1>1. d # c => pc'[d] = pc[d]
    BY DEF Step, Stat, Open, Flock, CheckMarker, RefuseDurable, PivotAway, PivotBack, Look, ProcessFile, Strip,
           ListDirectory, EndWalk, CreateManifest, WriteManifest, MarkHot, MarkDurable, PathGone, EntryGone, Dies,
           GivesUp, GoesTo, TypeOK
<1>2. CASE PivotAway(c)
    BY <1>1, <1>2, PivotedRaws DEF Inodes
<1>3. CASE ~PivotAway(c)
    <2>1. raws' = raws
        BY <1>3
           DEF Step, Stat, Open, Flock, CheckMarker, RefuseDurable, PivotBack, Look, ProcessFile, Strip,
               ListDirectory, EndWalk, CreateManifest, WriteManifest, MarkHot, MarkDurable, PathGone, EntryGone,
               Dies, GivesUp, disk
    <2> QED
        BY <1>1, <1>3, <2>1 DEF Pivoted
<1> QED
    BY <1>2, <1>3

LEMMA StepPivot == TypeOK /\ PivotInv /\ [Next]_vars => PivotInv'
<1> SUFFICES ASSUME TypeOK, PivotInv, [Next]_vars PROVE PivotInv'
    OBVIOUS
<1>1. CASE UNCHANGED vars
    BY <1>1 DEF vars, disk, memory, PivotInv, Pivoted
<1>2. ASSUME NEW c \in Converters, Step(c) \/ Dies(c) PROVE PivotInv'
    <2> SUFFICES ASSUME NEW d \in Converters
                 PROVE  /\ pc'[d] \in BeforePivot => ~Pivoted(d)' /\ depth'[d] = 1 /\ record'[d] = {}
                        /\ pc'[d] \in AfterPivot => Pivoted(d)'
        BY DEF PivotInv
    <2>1. CASE d # c
        <3>1. depth'[d] = depth[d] /\ record'[d] = record[d]
            BY <1>2, <2>1
               DEF Step, Stat, Open, Flock, CheckMarker, RefuseDurable, PivotAway, PivotBack, Look, ProcessFile,
                   Strip, Remember, ListDirectory, EndWalk, CreateManifest, WriteManifest, MarkHot, MarkDurable,
                   PathGone, EntryGone, Dies, GivesUp, Forget, memory, TypeOK
        <3> QED
            BY <1>2, <2>1, <3>1, PivotedByPivot DEF PivotInv
    <2>2. CASE d = c /\ PivotAway(c)
        <3>1. pc'[c] = "rename" /\ Pivoted(c)'
            BY <2>2, PivotedRaws DEF PivotAway, GoesTo, TypeOK
        <3> QED
            BY <2>2, <3>1 DEF BeforePivot
    <2>3. CASE d = c /\ ~PivotAway(c)
        <3>1. raws' = raws
            BY <1>2, <2>3, PivotedByPivot
        <3>2. /\ pc'[c] \in BeforePivot => pc[c] \in BeforePivot /\ UNCHANGED memory
              /\ pc'[c] \in AfterPivot => pc[c] \in AfterPivot
            BY <1>2, <2>3
               DEF Step, Stat, Open, Flock, CheckMarker, RefuseDurable, PivotBack, Look, ProcessFile,
                   Strip, ListDirectory, EndWalk, CreateManifest, WriteManifest, MarkHot, MarkDurable,
                   PathGone, EntryGone, Dies, GivesUp, GoesTo, BeforePivot, AfterPivot, Walking, AfterWalk, TypeOK
        <3> QED
            BY <2>3, <3>1, <3>2 DEF PivotInv, Pivoted, memory
    <2> QED
        BY <2>1, <2>2, <2>3
<1> QED
    BY <1>1, <1>2 DEF Next

\* Who has not pivoted has only looked at the path
LEMMA OthersLook ==
    ASSUME TypeOK, PivotInv, NEW d \in Converters, Step(d) \/ Dies(d), ~Pivoted(d)'
    PROVE  UNCHANGED disk
<1>1. ~PivotAway(d) /\ ~Pivoted(d)
    BY PivotedRaws, PivotedByPivot
<1>2. pc[d] \notin AfterPivot
    BY <1>1 DEF PivotInv
<1> QED
    BY <1>1, <1>2
       DEF Step, Stat, Open, Flock, CheckMarker, RefuseDurable, PivotBack, Look, ProcessFile, Strip, ListDirectory,
           EndWalk, CreateManifest, WriteManifest, MarkHot, MarkDurable, PathGone, EntryGone, Dies, GivesUp, GoesTo,
           AfterPivot, Walking, AfterWalk

LEMMA StepUntouched == TypeOK /\ PivotInv /\ UntouchedInv /\ [Next]_vars => UntouchedInv'
<1> SUFFICES ASSUME TypeOK, PivotInv, UntouchedInv, [Next]_vars, \A d \in Converters : ~Pivoted(d)'
             PROVE  /\ root' = Orig /\ raws'[Orig] = << >>
                    /\ \A path \in Paths : kept'[At(path)] = "original"
    BY DEF UntouchedInv, At
<1>1. CASE UNCHANGED vars
    BY <1>1 DEF vars, disk, UntouchedInv, Pivoted
<1>2. ASSUME NEW c \in Converters, Step(c) \/ Dies(c) PROVE UNCHANGED disk
    BY <1>2, OthersLook
<1> QED
    BY <1>1, <1>2 DEF Next, disk, UntouchedInv, Pivoted
----------------------------------------------------------------------------
(* A converter nobody disturbs                                             *)

\* What another does that has not pivoted leaves a sole converter as it was
LEMMA OthersLeave ==
    ASSUME TypeOK, PivotInv, NEW c \in Converters, NEW d \in Converters, c # d,
           Step(d) \/ Dies(d), ~Pivoted(d)'
    PROVE  /\ UNCHANGED disk
           /\ pc'[c] = pc[c] /\ depth'[c] = depth[c] /\ record'[c] = record[c]
           /\ looking'[c] = looking[c] /\ created'[c] = created[c]
<1>1. UNCHANGED disk
    BY OthersLook
<1>2. ~PivotAway(d) /\ ~Pivoted(d)
    BY PivotedRaws, PivotedByPivot
<1>3. pc[d] \notin AfterPivot
    BY <1>2 DEF PivotInv
<1> QED
    BY <1>1, <1>2, <1>3
       DEF Step, Stat, Open, Flock, CheckMarker, RefuseDurable, PivotBack, Look, ProcessFile, Strip, ListDirectory,
           EndWalk, CreateManifest, WriteManifest, MarkHot, MarkDurable, PathGone, EntryGone, Dies, GivesUp, GoesTo,
           Forget, memory, AfterPivot, Walking, AfterWalk, TypeOK

\* The directory that a sole converter walks over
LEMMA SoleDirectory ==
    ASSUME TypeOK, NEW c \in Converters, raws[c] = <<Orig>>, root = c, depth[c] = 1, NEW path \in Paths
    PROVE  Directory(c) = Orig /\ FileAt(c, path) = At(path)
BY DEF Directory, FileAt, At

\* What SoleInv says of one converter
SoleState(c) ==
    /\ raws[c] = <<Orig>>
    /\ pc[c] = "rename" => root = None
    /\ pc[c] \in Walking \union AfterWalk => root = c
    /\ pc[c] \in {"rename"} \union Walking => RecordInv(c)
    /\ pc[c] \in AfterWalk => manifest[c] = Everything
    /\ pc[c] \in {"mark", "done"} => c \in hot
    /\ pc[c] = "done" => c \in marked

LEMMA SolePivotAway ==
    ASSUME TypeOK, PivotInv, UntouchedInv, NEW c \in Converters, PivotAway(c), Sole(c)
    PROVE  SoleState(c)'
<1>1. /\ root # None /\ root' = None /\ UNCHANGED <<kept, depth, record>>
      /\ pc[c] = "pivot" /\ pc'[c] = "rename"
    BY DEF PivotAway, GoesTo, memory, TypeOK
<1>2. ~Pivoted(c) /\ depth[c] = 1 /\ record[c] = {}
    BY <1>1 DEF PivotInv, BeforePivot
<1>3. root = Orig /\ raws[Orig] = << >> /\ \A path \in Paths : kept[At(path)] = "original"
    BY <1>2 DEF UntouchedInv, Sole
<1>4. raws'[c] = <<Orig>>
    BY <1>3, PivotedRaws
<1>5. \A path \in Paths : kept'[At(path)] = "original"
    BY <1>1, <1>3
<1> QED
    BY <1>1, <1>2, <1>4, <1>5 DEF SoleState, RecordInv, Walking, AfterWalk, At

LEMMA SoleProcess ==
    ASSUME TypeOK, NEW c \in Converters, ProcessFile(c), SoleState(c)
    PROVE  SoleState(c)'
<1> DEFINE path == looking[c].path
<1>1. /\ pc[c] = "process" /\ UNCHANGED <<root, raws, manifest, depth, marked>>
      /\ pc'[c] = IF path = None THEN "list" ELSE "entries"
      /\ kept' = [kept EXCEPT ![FileAt(c, path)] = IF path \in Links THEN "gone" ELSE "plain"]
      /\ record'[c] = record[c] \union {[depth |-> depth[c], path |-> path, as |-> looking[c].as]}
    BY DEF ProcessFile, Strip, Remember, GoesTo, TypeOK
<1>2. path \in Paths
    BY DEF TypeOK
<1> HIDE DEF path
<1>3. root = c /\ raws[c] = <<Orig>> /\ RecordInv(c)
    BY <1>1 DEF SoleState, Walking
<1>4. FileAt(c, path) = At(path)
    BY <1>2, <1>3, SoleDirectory DEF RecordInv
<1>5. record'[c] = record[c] \union {AsItWas(path)}
    BY <1>1, <1>3 DEF RecordInv, AsItWas
<1>6. record'[c] \subseteq Everything
    BY <1>2, <1>3, <1>5 DEF RecordInv, Everything
<1>7. ASSUME NEW other \in Paths PROVE kept'[At(other)] = "original" \/ AsItWas(other) \in record'[c]
    <2>1. CASE other = path
        BY <1>5, <2>1
    <2>2. CASE other # path
        <3>1. At(other) # At(path)
            BY <1>2, <2>2, ConvertersAssumption DEF At, Paths
        <3>2. At(other) \in Inodes \union Entries
            BY DEF At, Paths, Inodes
        <3>3. kept'[At(other)] = kept[At(other)]
            BY <1>1, <1>4, <3>1, <3>2 DEF TypeOK
        <3> QED
            BY <1>3, <1>5, <3>3 DEF RecordInv
    <2> QED
        BY <2>1, <2>2
<1>8. AsItWas(None) \in record'[c]
    <2>1. CASE path = None
        BY <1>5, <2>1
    <2>2. CASE path # None
        BY <1>1, <1>3, <1>5, <2>2 DEF RecordInv, path
    <2> QED
        BY <2>1, <2>2
<1>9. RecordInv(c)'
    BY <1>1, <1>3, <1>6, <1>7, <1>8 DEF RecordInv, At, AsItWas, Everything
<1> QED
    BY <1>1, <1>3, <1>9 DEF SoleState, Walking, AfterWalk

LEMMA SoleLook ==
    ASSUME TypeOK, NEW c \in Converters, Look(c), SoleState(c)
    PROVE  SoleState(c)'
<1>1. PICK path \in Paths \ Processed(c) :
          /\ GoesTo(c, IF path = None THEN "directory" ELSE "entries", "process")
          /\ looking' = [looking EXCEPT ![c] = [path |-> path, as |-> kept[FileAt(c, path)]]]
    BY DEF Look
<1>2. UNCHANGED <<root, raws, kept, manifest, hot, marked, depth, record, created>>
    BY DEF Look, disk
<1>3. pc[c] = (IF path = None THEN "directory" ELSE "entries") /\ pc'[c] = "process"
    BY <1>1 DEF GoesTo, TypeOK
<1>4. root = c /\ raws[c] = <<Orig>> /\ RecordInv(c)
    BY <1>3 DEF SoleState, Walking
<1>5. FileAt(c, path) = At(path)
    BY <1>4, SoleDirectory DEF RecordInv
<1>6. AsItWas(path) \notin record[c]
    BY <1>4 DEF RecordInv, Processed, AsItWas
<1>7. looking'[c] = [path |-> path, as |-> "original"]
    BY <1>1, <1>4, <1>5, <1>6 DEF RecordInv, TypeOK
<1>8. path # None => AsItWas(None) \in record[c]
    BY <1>3, <1>4 DEF RecordInv
<1>9. RecordInv(c)'
    BY <1>2, <1>3, <1>4, <1>7, <1>8 DEF RecordInv, At, AsItWas, Everything
<1> QED
    BY <1>2, <1>3, <1>4, <1>9 DEF SoleState, Walking, AfterWalk

LEMMA SoleEndWalk ==
    ASSUME TypeOK, NEW c \in Converters, EndWalk(c), SoleState(c)
    PROVE  SoleState(c)'
<1>1. /\ pc[c] = "entries" /\ pc'[c] = "create" /\ UNCHANGED <<disk, memory>>
      /\ \A e \in Entries \ Processed(c) : kept[e] = "gone"
    BY DEF EndWalk, GoesTo, TypeOK
<1>2. root = c /\ raws[c] = <<Orig>> /\ RecordInv(c)
    BY <1>1 DEF SoleState, Walking
<1>3. ASSUME NEW e \in Entries PROVE AsItWas(e) \in record[c]
    <2>1. SUFFICES ASSUME kept[At(e)] = "original" PROVE AsItWas(e) \in record[c]
        BY <1>2 DEF RecordInv, Paths
    <2>2. At(e) = e
        BY ConvertersAssumption DEF At
    <2>3. e \in Processed(c)
        BY <1>1, <2>1, <2>2
    <2>4. PICK r \in record[c] : r.depth = depth[c] /\ r.path = e
        BY <2>3 DEF Processed
    <2>5. PICK path \in Paths : r = AsItWas(path)
        BY <1>2 DEF RecordInv, Everything
    <2> QED
        BY <2>4, <2>5 DEF AsItWas
<1>4. AsItWas(None) \in record[c]
    BY <1>1, <1>2 DEF RecordInv
<1>5. record[c] = Everything
    BY <1>2, <1>3, <1>4 DEF RecordInv, Everything, Paths
<1>6. RecordInv(c)'
    BY <1>1, <1>2, <1>5 DEF RecordInv, At, AsItWas, Everything, disk, memory
<1> QED
    BY <1>1, <1>2, <1>6 DEF SoleState, Walking, AfterWalk, disk

LEMMA SoleManifest ==
    ASSUME TypeOK, NEW c \in Converters, CreateManifest(c) \/ WriteManifest(c), SoleState(c)
    PROVE  SoleState(c)'
<1> USE DEF GoesTo, TypeOK
<1>0. c \in Inodes
    BY DEF Inodes
<1>1. CASE CreateManifest(c)
    <2>1. /\ pc[c] = "create" /\ pc'[c] = "write"
          /\ UNCHANGED <<root, raws, kept, hot, marked, depth, record>>
          /\ manifest' = [manifest EXCEPT ![root] = {}] /\ created'[c] = root
        BY <1>1 DEF CreateManifest
    <2>2. root = c /\ raws[c] = <<Orig>> /\ RecordInv(c)
        BY <2>1 DEF SoleState, Walking
    <2>3. manifest'[c] = {}
        BY <1>0, <2>1, <2>2
    <2>4. RecordInv(c)'
        BY <2>1, <2>2, <2>3 DEF RecordInv, At, AsItWas, Everything
    <2> QED
        BY <2>1, <2>2, <2>4 DEF SoleState, Walking, AfterWalk
<1>2. CASE WriteManifest(c)
    <2>1. /\ pc[c] = "write" /\ pc'[c] = "hot" /\ UNCHANGED <<root, raws, hot, marked>>
        BY <1>2 DEF WriteManifest
    <2>2. root = c /\ raws[c] = <<Orig>> /\ RecordInv(c)
        BY <2>1 DEF SoleState, Walking
    <2>3. created[c] = c /\ manifest[c] = {} /\ record[c] = Everything
        BY <2>1, <2>2 DEF RecordInv
    <2>4. manifest'[c] = Everything
        BY <1>0, <1>2, <2>3 DEF WriteManifest
    <2> QED
        BY <2>1, <2>2, <2>4 DEF SoleState, Walking, AfterWalk, AsItWas, Everything
<1> QED
    BY <1>1, <1>2

LEMMA SoleStep ==
    ASSUME TypeOK, NEW c \in Converters, Step(c) \/ Dies(c), ~PivotAway(c), Pivoted(c), PivotInv, SoleState(c)
    PROVE  SoleState(c)'
<1> USE DEF GoesTo, TypeOK
<1>0. pc[c] \notin BeforePivot
    BY DEF PivotInv
<1>1. CASE Look(c)
    BY <1>1, SoleLook
<1>2. CASE ProcessFile(c)
    BY <1>2, SoleProcess
<1>3. CASE EndWalk(c)
    BY <1>3, SoleEndWalk
<1>4. CASE CreateManifest(c) \/ WriteManifest(c)
    BY <1>4, SoleManifest
<1>5. CASE PivotBack(c)
    <2>1. /\ pc[c] = "rename" /\ pc'[c] = "directory" /\ root' = c
          /\ UNCHANGED <<raws, kept, manifest, hot, marked, memory>>
        BY <1>5 DEF PivotBack
    <2>2. RecordInv(c)'
        BY <2>1 DEF SoleState, RecordInv, At, AsItWas, Everything, memory
    <2> QED
        BY <2>1, <2>2 DEF SoleState, Walking, AfterWalk
<1>6. CASE ListDirectory(c)
    <2>1. pc[c] = "list" /\ UNCHANGED <<disk, looking, record, created>>
        BY <1>6 DEF ListDirectory
    <2>2. root = c /\ raws[c] = <<Orig>> /\ RecordInv(c)
        BY <2>1 DEF SoleState, Walking
    <2>3. Directory(c) = Orig
        BY <2>2, SoleDirectory DEF RecordInv, Paths
    <2>4. pc'[c] = "entries" /\ UNCHANGED depth
        BY <1>6, <2>3 DEF ListDirectory
    <2>5. RecordInv(c)'
        BY <2>1, <2>2, <2>4 DEF RecordInv, At, AsItWas, Everything, disk
    <2> QED
        BY <2>1, <2>2, <2>4, <2>5 DEF SoleState, Walking, AfterWalk, disk
<1>7. CASE MarkHot(c) \/ MarkDurable(c)
    <2>1. CASE MarkHot(c)
        BY <2>1 DEF MarkHot, SoleState, Walking, AfterWalk, AsItWas, Everything
    <2>2. CASE MarkDurable(c)
        BY <2>2 DEF MarkDurable, SoleState, Walking, AfterWalk, AsItWas, Everything
    <2> QED
        BY <1>7, <2>1, <2>2
<1>8. CASE PathGone(c) \/ EntryGone(c) \/ Dies(c)
    BY <1>8 DEF PathGone, EntryGone, Dies, GivesUp, SoleState, Walking, AfterWalk, disk
<1> QED
    BY <1>0, <1>1, <1>2, <1>3, <1>4, <1>5, <1>6, <1>7, <1>8
       DEF Step, Stat, Open, Flock, CheckMarker, RefuseDurable, BeforePivot

LEMMA StepSole == TypeOK /\ PivotInv /\ UntouchedInv /\ SoleInv /\ [Next]_vars => SoleInv'
<1>0. SoleInv <=> \A c \in Converters : Sole(c) /\ Pivoted(c) => SoleState(c)
    BY DEF SoleInv, SoleState
<1>1. SUFFICES ASSUME TypeOK, PivotInv, UntouchedInv, SoleInv, [Next]_vars,
                      NEW c \in Converters, Sole(c)', Pivoted(c)'
               PROVE  SoleState(c)'
    BY DEF SoleInv, SoleState
<1>2. CASE UNCHANGED vars
    <2>1. Sole(c) /\ Pivoted(c)
        BY <1>1, <1>2 DEF vars, disk, Sole, Pivoted
    <2>2. SoleState(c)
        BY <1>0, <1>1, <2>1
    <2> QED
        BY <1>2, <2>2 DEF SoleState, RecordInv, At, AsItWas, Everything, vars, disk, memory
<1>3. ASSUME NEW d \in Converters, Step(d) \/ Dies(d) PROVE SoleState(c)'
    <2>1. Sole(c)
        BY <1>1, <1>3, PivotedByPivot DEF Sole
    <2>2. CASE d # c
        <3>1. /\ UNCHANGED disk
              /\ pc'[c] = pc[c] /\ depth'[c] = depth[c] /\ record'[c] = record[c]
              /\ looking'[c] = looking[c] /\ created'[c] = created[c]
            BY <1>1, <1>3, <2>2, OthersLeave DEF Sole
        <3>2. SoleState(c)
            BY <1>0, <1>1, <2>1, <3>1 DEF disk, Pivoted
        <3> QED
            BY <3>1, <3>2 DEF SoleState, RecordInv, At, AsItWas, Everything, disk
    <2>3. CASE d = c /\ PivotAway(c)
        BY <1>1, <2>1, <2>3, SolePivotAway
    <2>4. CASE d = c /\ ~PivotAway(c)
        <3>1. Pivoted(c)
            BY <1>1, <1>3, <2>4, PivotedByPivot DEF Pivoted
        <3> QED
            BY <1>0, <1>1, <1>3, <2>1, <2>4, <3>1, SoleStep
    <2> QED
        BY <2>2, <2>3, <2>4
<1> QED
    BY <1>1, <1>2, <1>3 DEF Next
----------------------------------------------------------------------------
(* The lock of the original                                                *)
Holding == {"check", "pivot"} \union (AfterPivot \ {"done"})

HoldInv ==
    \A c \in Converters :
        /\ pc[c] \in {"start", "open"} => fd[c] = None
        /\ pc[c] = "lock" => fd[c] \in Inodes
        /\ pc[c] \in Holding => fd[c] \in Inodes /\ owner[fd[c]] = c

Guarded == LockedOriginal /\ \A c \in Converters : ~GaveUpHalfWay(c)

\* The first to pivot is the last, and nobody is about to when it has
ExclusionInv ==
    Guarded =>
        /\ \A c, d \in Converters : Pivoted(c) /\ Pivoted(d) => c = d
        /\ \A c \in Converters : pc[c] = "pivot" => \A d \in Converters : ~Pivoted(d)

LEMMA InitExclusion == Init => HoldInv /\ ExclusionInv
<1> SUFFICES ASSUME Init PROVE HoldInv /\ ExclusionInv
    OBVIOUS
<1>1. \A c \in Converters : ~Pivoted(c) /\ pc[c] = "start" /\ fd[c] = None
    BY DEF Init, Pivoted, Inodes
<1> QED
    BY <1>1 DEF HoldInv, ExclusionInv, Holding, AfterPivot, Walking, AfterWalk

LEMMA StepHold == TypeOK /\ HoldInv /\ [Next]_vars => HoldInv'
<1> SUFFICES ASSUME TypeOK, HoldInv, [Next]_vars PROVE HoldInv'
    OBVIOUS
<1>1. CASE UNCHANGED vars
    BY <1>1 DEF vars, HoldInv
<1>2. ASSUME NEW c \in Converters, Step(c) \/ Dies(c) PROVE HoldInv'
    <2> SUFFICES ASSUME NEW d \in Converters
                 PROVE  /\ pc'[d] \in {"start", "open"} => fd'[d] = None
                        /\ pc'[d] = "lock" => fd'[d] \in Inodes
                        /\ pc'[d] \in Holding => fd'[d] \in Inodes /\ owner'[fd'[d]] = d
        BY DEF HoldInv
    <2>0. None \notin Converters
        BY ConvertersAssumption
    <2>1. CASE Open(c)
        BY <2>1 DEF Open, GoesTo, HoldInv, TypeOK, MaybeInode, Holding, AfterPivot, Walking, AfterWalk
    <2>2. CASE Flock(c)
        <3>1. /\ pc[c] = "lock" /\ owner[fd[c]] = None /\ owner' = [owner EXCEPT ![fd[c]] = c] /\ fd' = fd
              /\ \A x \in Converters : pc'[x] = IF x = c THEN "check" ELSE pc[x]
            BY <2>2 DEF Flock, GoesTo, TypeOK
        <3>2. fd[c] \in Inodes
            BY <3>1 DEF HoldInv
        <3>3. CASE d = c
            BY <3>1, <3>2, <3>3 DEF TypeOK
        <3>4. CASE d # c
            <4>1. pc[d] \in Holding => fd[d] # fd[c]
                BY <2>0, <3>1 DEF HoldInv
            <4> QED
                BY <3>1, <3>2, <3>4, <4>1 DEF HoldInv, TypeOK
        <3> QED
            BY <3>3, <3>4
    <2>3. CASE RefuseDurable(c) \/ MarkDurable(c) \/ PathGone(c) \/ EntryGone(c) \/ Dies(c)
        <3>1. /\ fd' = fd
              /\ \A i \in Inodes : owner[i] # c => owner'[i] = owner[i]
            BY <2>3 DEF RefuseDurable, MarkDurable, PathGone, EntryGone, Dies, GivesUp, Release
        <3>2. \A x \in Converters : pc'[x] = IF x = c THEN pc'[c] ELSE pc[x]
            BY <2>3 DEF RefuseDurable, MarkDurable, PathGone, EntryGone, Dies, GivesUp, GoesTo, TypeOK
        <3>3. pc'[c] \in {"done", "failed"}
            BY <2>3 DEF RefuseDurable, MarkDurable, PathGone, EntryGone, Dies, GivesUp, GoesTo, TypeOK
        <3> QED
            BY <3>1, <3>2, <3>3 DEF HoldInv, Holding, AfterPivot, Walking, AfterWalk
    <2>4. CASE Stat(c) \/ CheckMarker(c) \/ PivotAway(c) \/ PivotBack(c) \/ Look(c) \/ ProcessFile(c)
               \/ ListDirectory(c) \/ EndWalk(c) \/ CreateManifest(c) \/ WriteManifest(c) \/ MarkHot(c)
        <3>1. UNCHANGED <<fd, owner>>
            BY <2>4
               DEF Stat, CheckMarker, PivotAway, PivotBack, Look, ProcessFile, Strip, ListDirectory, EndWalk,
                   CreateManifest, WriteManifest, MarkHot
        <3>2. /\ \A x \in Converters : x # c => pc'[x] = pc[x]
              /\ pc'[c] \in {"start", "open"} => pc[c] \in {"start", "open"}
              /\ pc'[c] # "lock"
              /\ pc'[c] \in Holding => pc[c] \in Holding
            BY <2>4
               DEF Stat, CheckMarker, PivotAway, PivotBack, Look, ProcessFile, Strip, ListDirectory, EndWalk,
                   CreateManifest, WriteManifest, MarkHot, GoesTo, TypeOK, Holding, AfterPivot, Walking, AfterWalk
        <3> QED
            BY <3>1, <3>2 DEF HoldInv
    <2> QED
        BY <1>2, <2>1, <2>2, <2>3, <2>4 DEF Step
<1> QED
    BY <1>1, <1>2 DEF Next

\* Who has opened something else, or given up half way, has done so for good
LEMMA GuardedBefore ==
    ASSUME TypeOK, HoldInv, NEW c \in Converters, Step(c) \/ Dies(c), Guarded'
    PROVE  Guarded
<1>1. LockedOriginal
    <2>1. CASE Open(c)
        BY <2>1 DEF Open, GoesTo, HoldInv, Guarded, LockedOriginal, TypeOK
    <2>2. CASE ~Open(c)
        <3>1. fd' = fd
            BY <2>2
               DEF Step, Stat, Flock, CheckMarker, RefuseDurable, PivotAway, PivotBack, Look, ProcessFile, Strip,
                   ListDirectory, EndWalk, CreateManifest, WriteManifest, MarkHot, MarkDurable, PathGone, EntryGone,
                   Dies, GivesUp
        <3> QED
            BY <3>1 DEF Guarded, LockedOriginal
    <2> QED
        BY <2>1, <2>2
<1>2. ASSUME NEW d \in Converters, GaveUpHalfWay(d) PROVE FALSE
    <2>1. Pivoted(d)'
        BY <1>2, PivotedByPivot DEF GaveUpHalfWay
    <2>2. pc[c] # "failed"
        BY DEF Step, Stat, Open, Flock, CheckMarker, RefuseDurable, PivotAway, PivotBack, Look, ProcessFile, Strip,
               ListDirectory, EndWalk, CreateManifest, WriteManifest, MarkHot, MarkDurable, PathGone, EntryGone,
               Dies, GoesTo
    <2>3. pc'[d] = "failed"
        BY <1>2, <2>2, PivotedByPivot DEF GaveUpHalfWay
    <2> QED
        BY <2>1, <2>3 DEF Guarded, GaveUpHalfWay
<1> QED
    BY <1>1, <1>2 DEF Guarded

\* When one has pivoted, all others that hold the lock find the marker
LEMMA CheckExcludes ==
    ASSUME TypeOK, PivotInv, SoleInv, HoldInv, ExclusionInv, Guarded,
           NEW c \in Converters, CheckMarker(c), NEW d \in Converters, Pivoted(d)
    PROVE  FALSE
<1>1. pc[c] = "check" /\ root \notin marked
    BY DEF CheckMarker, GoesTo
<1>2. d # c
    BY <1>1 DEF PivotInv, BeforePivot
<1>3. pc[d] \in AfterPivot
    BY DEF Guarded, GaveUpHalfWay, PivotInv, TypeOK, BeforePivot, AfterPivot, Walking, AfterWalk
<1>4. fd[c] = Orig /\ owner[Orig] = c
    BY <1>1, ConvertersAssumption DEF HoldInv, Holding, Guarded, LockedOriginal, Inodes
<1>5. CASE pc[d] # "done"
    <2>1. fd[d] = Orig /\ owner[Orig] = d
        BY <1>3, <1>5, ConvertersAssumption DEF HoldInv, Holding, Guarded, LockedOriginal, Inodes
    <2> QED
        BY <1>2, <1>4, <2>1
<1>6. CASE pc[d] = "done"
    <2>1. Sole(d)
        BY DEF Sole, ExclusionInv
    <2>2. root = d /\ d \in marked
        BY <1>6, <2>1 DEF SoleInv, AfterWalk
    <2> QED
        BY <1>1, <2>2
<1> QED
    BY <1>5, <1>6

LEMMA StepExclusion ==
    TypeOK /\ PivotInv /\ SoleInv /\ HoldInv /\ ExclusionInv /\ [Next]_vars => ExclusionInv'
<1> SUFFICES ASSUME TypeOK, PivotInv, SoleInv, HoldInv, ExclusionInv, [Next]_vars, Guarded'
             PROVE  /\ \A c, d \in Converters : Pivoted(c)' /\ Pivoted(d)' => c = d
                    /\ \A c \in Converters : pc'[c] = "pivot" => \A d \in Converters : ~Pivoted(d)'
    BY DEF ExclusionInv
<1>1. CASE UNCHANGED vars
    BY <1>1 DEF vars, disk, ExclusionInv, Guarded, LockedOriginal, GaveUpHalfWay, Pivoted
<1>2. ASSUME NEW c \in Converters, Step(c) \/ Dies(c)
      PROVE  /\ \A x, d \in Converters : Pivoted(x)' /\ Pivoted(d)' => x = d
             /\ \A x \in Converters : pc'[x] = "pivot" => \A d \in Converters : ~Pivoted(d)'
    <2>1. Guarded
        BY <1>2, GuardedBefore
    <2>2. CASE PivotAway(c)
        <3>1. pc[c] = "pivot" /\ pc'[c] = "rename"
            BY <2>2 DEF PivotAway, GoesTo, TypeOK
        <3>2. \A d \in Converters : ~Pivoted(d)
            BY <2>1, <3>1 DEF ExclusionInv
        <3>3. \A d \in Converters : Pivoted(d)' => d = c
            BY <1>2, <3>2, PivotedByPivot
        <3>4. ASSUME NEW x \in Converters, pc'[x] = "pivot" PROVE FALSE
            <4>1. x # c /\ pc[x] = "pivot"
                BY <1>2, <3>1, <3>4, PivotedByPivot
            <4>2. owner[Orig] = x /\ owner[Orig] = c
                BY <2>1, <3>1, <4>1, ConvertersAssumption DEF HoldInv, Holding, Guarded, LockedOriginal, Inodes
            <4> QED
                BY <4>1, <4>2
        <3> QED
            BY <3>3, <3>4
    <2>3. CASE ~PivotAway(c)
        <3>1. \A d \in Converters : Pivoted(d)' <=> Pivoted(d)
            BY <1>2, <2>3, PivotedByPivot DEF Pivoted
        <3>2. ASSUME NEW x \in Converters, pc'[x] = "pivot", NEW d \in Converters, Pivoted(d)
              PROVE  FALSE
            <4>1. CASE pc[x] = "pivot"
                BY <2>1, <3>2, <4>1 DEF ExclusionInv
            <4>2. CASE pc[x] # "pivot"
                <5>1. x = c
                    BY <1>2, <3>2, <4>2, PivotedByPivot
                <5>2. CheckMarker(c)
                    BY <1>2, <3>2, <4>2, <5>1
                       DEF Step, Stat, Open, Flock, RefuseDurable, PivotAway, PivotBack, Look, ProcessFile, Strip,
                           ListDirectory, EndWalk, CreateManifest, WriteManifest, MarkHot, MarkDurable, PathGone,
                           EntryGone, Dies, GivesUp, GoesTo, TypeOK
                <5> QED
                    BY <2>1, <3>2, <5>2, CheckExcludes
            <4> QED
                BY <4>1, <4>2
        <3> QED
            BY <2>1, <3>1, <3>2 DEF ExclusionInv
    <2> QED
        BY <2>2, <2>3
<1> QED
    BY <1>1, <1>2 DEF Next
----------------------------------------------------------------------------
ConvertInv ==
    /\ TypeOK /\ NamesInv /\ PivotInv /\ UntouchedInv
    /\ SoleInv /\ HoldInv /\ ExclusionInv

LEMMA ConvertInvHolds == Spec => []ConvertInv
<1>1. Init => ConvertInv
    BY InitTypes, InitNames, InitSole, InitExclusion DEF ConvertInv
<1>2. ConvertInv /\ [Next]_vars => ConvertInv'
    BY StepTypes, StepNames, StepPivot, StepUntouched, StepSole, StepHold, StepExclusion DEF ConvertInv
<1> QED
    BY <1>1, <1>2, PTL DEF Spec

(* However converters race on the path and wherever they die, each         *)
(* directory they made or moved keeps exactly one name (convert.rs:29-51); *)
(* and as long as the lock of the original is between all of them and none *)
(* gives up half way, every mode, symlink and whiteout is on disk, in the  *)
(* memory of the one that walks, or in the manifest (convert.rs:53-135).   *)
THEOREM ContentSurvives == Spec => []NothingIsLost
<1>1. ASSUME ConvertInv, Guarded, NEW path \in Paths
      PROVE  \/ kept[At(path)] = "original"
             \/ \E c \in Converters : raws[c] = <<Orig>> /\ AsItWas(path) \in record[c] \union manifest[c]
    <2>1. CASE \A d \in Converters : ~Pivoted(d)
        BY <1>1, <2>1 DEF ConvertInv, UntouchedInv
    <2>2. ASSUME NEW c \in Converters, Pivoted(c)
          PROVE  \/ kept[At(path)] = "original"
                 \/ raws[c] = <<Orig>> /\ AsItWas(path) \in record[c] \union manifest[c]
        <3>1. Sole(c)
            BY <1>1, <2>2 DEF ConvertInv, ExclusionInv, Sole
        <3>2. SoleState(c)
            BY <1>1, <2>2, <3>1 DEF ConvertInv, SoleInv, SoleState
        <3>3. pc[c] \in AfterPivot
            BY <1>1, <2>2
               DEF ConvertInv, Guarded, GaveUpHalfWay, PivotInv, TypeOK, BeforePivot, AfterPivot, Walking, AfterWalk
        <3>4. CASE pc[c] \in {"rename"} \union Walking
            BY <1>1, <3>2, <3>4 DEF SoleState, RecordInv
        <3>5. CASE pc[c] \in AfterWalk
            BY <1>1, <3>2, <3>5 DEF SoleState, Everything
        <3> QED
            BY <3>3, <3>4, <3>5 DEF AfterPivot
    <2> QED
        BY <2>1, <2>2
<1>2. ConvertInv => NothingIsLost
    BY <1>1, NamesCounted DEF ConvertInv, NothingIsLost, OneNameEach, Guarded
<1> QED
    BY <1>2, ConvertInvHolds, PTL

(* A conversion that returns success, and is the only one that has moved   *)
(* the path, leaves a hot, marked top directory over the original, with a  *)
(* manifest of all modes, symlinks and whiteouts as they were.             *)
THEOREM LoneConversion == Spec => []SoleSuccessIsComplete
<1>1. ASSUME ConvertInv, NEW c \in Converters, pc[c] = "done", \A d \in Converters \ {c} : ~Pivoted(d)
      PROVE  root = c /\ raws[c] = <<Orig>> /\ manifest[c] = Everything /\ c \in hot \intersect marked
    <2>1. Sole(c) /\ Pivoted(c)
        BY <1>1 DEF ConvertInv, PivotInv, Sole, AfterPivot, AfterWalk
    <2> QED
        BY <1>1, <2>1 DEF ConvertInv, SoleInv, AfterWalk
<1>2. ConvertInv => SoleSuccessIsComplete
    BY <1>1 DEF SoleSuccessIsComplete
<1> QED
    BY <1>2, ConvertInvHolds, PTL
----------------------------------------------------------------------------
(* Paths over any names                                                    *)

LEMMA PrefixOf ==
    ASSUME NEW N, NEW p \in Seq(N), NEW n \in 0 .. Len(p)
    PROVE  /\ SubSeq(p, 1, n) \in Seq(N) /\ Len(SubSeq(p, 1, n)) = n
           /\ \A i \in 1 .. n : SubSeq(p, 1, n)[i] = p[i]
<1>1. \A i \in 1 .. n : p[i] \in N
    BY LenProperties
<1>2. /\ SubSeq(p, 1, n) \in Seq(N)
      /\ Len(SubSeq(p, 1, n)) = IF 1 <= n THEN n - 1 + 1 ELSE 0
      /\ \A i \in 1 .. n - 1 + 1 : SubSeq(p, 1, n)[i] = p[1 + i - 1]
    BY <1>1, SubSeqProperties
<1> QED
    BY <1>2, LenProperties

LEMMA UnderIndexed ==
    ASSUME NEW N, NEW p \in Seq(N), NEW d \in Seq(N)
    PROVE  Under(p, d) <=> Len(d) <= Len(p) /\ \A i \in 1 .. Len(d) : p[i] = d[i]
<1> SUFFICES ASSUME Len(d) <= Len(p)
             PROVE  SubSeq(p, 1, Len(d)) = d <=> \A i \in 1 .. Len(d) : p[i] = d[i]
    BY DEF Under
<1>1. Len(d) \in 0 .. Len(p)
    BY LenProperties
<1>2. /\ SubSeq(p, 1, Len(d)) \in Seq(N) /\ Len(SubSeq(p, 1, Len(d))) = Len(d)
      /\ \A i \in 1 .. Len(d) : SubSeq(p, 1, Len(d))[i] = p[i]
    BY <1>1, PrefixOf
<1>3. ASSUME \A i \in 1 .. Len(d) : p[i] = d[i] PROVE SubSeq(p, 1, Len(d)) = d
    BY <1>2, <1>3, SeqEqual
<1> QED
    BY <1>2, <1>3

LEMMA AncestorIsAbove ==
    ASSUME NEW N, NEW p \in Seq(N), NEW d
    PROVE  d \in Ancestors(p) <=> d \in Seq(N) /\ Under(p, d)
<1>1. ASSUME d \in Ancestors(p) PROVE d \in Seq(N) /\ Under(p, d)
    <2>1. PICK n \in 0 .. Len(p) : d = SubSeq(p, 1, n)
        BY <1>1 DEF Ancestors
    <2>2. d \in Seq(N) /\ Len(d) = n
        BY <2>1, PrefixOf
    <2> QED
        BY <2>1, <2>2 DEF Under
<1>2. ASSUME d \in Seq(N), Under(p, d) PROVE d \in Ancestors(p)
    <2>1. Len(d) \in Nat /\ Len(p) \in Nat
        BY <1>2, LenProperties
    <2>2. Len(d) \in 0 .. Len(p) /\ d = SubSeq(p, 1, Len(d))
        BY <1>2, <2>1 DEF Under
    <2> QED
        BY <2>2 DEF Ancestors
<1> QED
    BY <1>1, <1>2

LEMMA UnderItself ==
    ASSUME NEW N, NEW p \in Seq(N) PROVE Under(p, p) /\ Under(p, << >>) /\ << >> \in Seq(N)
<1>1. << >> \in Seq(N) /\ Len(<< >>) = 0
    BY EmptySeq
<1>2. Len(p) \in Nat
    BY LenProperties
<1>3. SubSeq(p, 1, 0) = << >> /\ SubSeq(p, 1, Len(p)) = p
    BY SubSeqEmpty, SubSeqFull
<1> QED
    BY <1>1, <1>2, <1>3 DEF Under

LEMMA UnderTransitive ==
    ASSUME NEW N, NEW p \in Seq(N), NEW d \in Seq(N), NEW e \in Seq(N), Under(p, d), Under(d, e)
    PROVE  Under(p, e)
<1>1. /\ Len(d) <= Len(p) /\ \A i \in 1 .. Len(d) : p[i] = d[i]
      /\ Len(e) <= Len(d) /\ \A i \in 1 .. Len(e) : d[i] = e[i]
    BY UnderIndexed
<1>2. Len(p) \in Nat /\ Len(d) \in Nat /\ Len(e) \in Nat
    BY LenProperties
<1>3. Len(e) <= Len(p) /\ \A i \in 1 .. Len(e) : p[i] = e[i]
    BY <1>1, <1>2
<1> QED
    BY <1>3, UnderIndexed

\* Of two directories above one path, one is above the other
LEMMA UnderBoth ==
    ASSUME NEW N, NEW p \in Seq(N), NEW d \in Seq(N), NEW e \in Seq(N),
           Under(p, d), Under(p, e), Len(e) <= Len(d)
    PROVE  Under(d, e)
<1>1. /\ Len(d) <= Len(p) /\ \A i \in 1 .. Len(d) : p[i] = d[i]
      /\ Len(e) <= Len(p) /\ \A i \in 1 .. Len(e) : p[i] = e[i]
    BY UnderIndexed
<1>2. Len(p) \in Nat /\ Len(d) \in Nat /\ Len(e) \in Nat
    BY LenProperties
<1>3. \A i \in 1 .. Len(e) : d[i] = e[i]
    BY <1>1, <1>2
<1> QED
    BY <1>3, UnderIndexed

LEMMA UnderSameLength ==
    ASSUME NEW N, NEW p \in Seq(N), NEW d \in Seq(N), Under(p, d), Len(p) <= Len(d)
    PROVE  p = d
<1>1. Len(d) <= Len(p) /\ \A i \in 1 .. Len(d) : p[i] = d[i]
    BY UnderIndexed
<1>2. Len(p) = Len(d)
    BY <1>1, LenProperties
<1> QED
    BY <1>1, <1>2, SeqEqual

LEMMA ParentOf ==
    ASSUME NEW N, NEW p \in Seq(N), p # << >>
    PROVE  /\ Parent(p) \in Seq(N) /\ Len(Parent(p)) = Len(p) - 1 /\ Len(p) \in Nat \ {0}
           /\ Under(p, Parent(p))
<1>1. Len(p) \in Nat \ {0}
    BY EmptySeq
<1>2. Len(p) - 1 \in 0 .. Len(p)
    BY <1>1
<1>3. Parent(p) \in Seq(N) /\ Len(Parent(p)) = Len(p) - 1
    BY <1>2, PrefixOf DEF Parent
<1> QED
    BY <1>1, <1>3 DEF Under, Parent

LEMMA ParentIsUnder ==
    ASSUME NEW N, NEW p \in Seq(N), NEW d \in Seq(N), Under(p, d), p # d
    PROVE  p # << >> /\ Under(Parent(p), d)
<1>1. Len(d) < Len(p) /\ Len(d) \in Nat /\ Len(p) \in Nat
    BY UnderSameLength, LenProperties DEF Under
<1>2. p # << >>
    BY <1>1, EmptySeq
<1>3. Parent(p) \in Seq(N) /\ Len(Parent(p)) = Len(p) - 1 /\ Under(p, Parent(p))
    BY <1>2, ParentOf
<1> QED
    BY <1>1, <1>2, <1>3, UnderBoth
----------------------------------------------------------------------------
(* What roots have                                                         *)

\* Names in a root with a VDB entry of these files, and what all such roots have
NamesWith(files) == DOMAIN Rank \union files
Common(files) == Staged(LookupAllowlist) \union {VdbRoot \o <<name>> : name \in files}

LEMMA PathsAreNamed ==
    ASSUME NEW files
    PROVE  /\ Path \subseteq Seq(NamesWith(files))
           /\ \A name \in files : VdbRoot \o <<name>> \in Seq(NamesWith(files))
                                  /\ Len(VdbRoot \o <<name>>) = Len(VdbRoot) + 1
                                  /\ Under(VdbRoot \o <<name>>, VdbRoot)
           /\ VdbRoot \in Path /\ Marker \in Path /\ Mounted \subseteq Path
<1> DEFINE N == NamesWith(files)
<1>1. Path \subseteq Seq(N)
    BY SeqMonotonic DEF Path, NamesWith
<1>2. VdbRoot \in Path /\ Marker \in Path /\ Mounted \subseteq Path
    BY RootsAreFaithful
<1>3. ASSUME NEW name \in files
      PROVE  /\ VdbRoot \o <<name>> \in Seq(N) /\ Len(VdbRoot \o <<name>>) = Len(VdbRoot) + 1
             /\ Under(VdbRoot \o <<name>>, VdbRoot)
    <2>1. <<name>> \in Seq(N) /\ VdbRoot \in Seq(N) /\ Len(<<name>>) = 1 /\ Len(VdbRoot) \in Nat
        BY <1>1, <1>2, LenProperties DEF NamesWith
    <2>2. /\ VdbRoot \o <<name>> \in Seq(N) /\ Len(VdbRoot \o <<name>>) = Len(VdbRoot) + 1
          /\ \A i \in 1 .. Len(VdbRoot) + 1 :
                 (VdbRoot \o <<name>>)[i] = IF i <= Len(VdbRoot) THEN VdbRoot[i] ELSE <<name>>[i - Len(VdbRoot)]
        BY <2>1, ConcatProperties
    <2> DEFINE path == VdbRoot \o <<name>>
    <2> HIDE DEF path
    <2>3. Len(VdbRoot) <= Len(path) /\ \A i \in 1 .. Len(VdbRoot) : path[i] = VdbRoot[i]
        BY <2>1, <2>2 DEF path
    <2>4. path \in Seq(N)
        BY <2>2 DEF path
    <2>5. Under(path, VdbRoot)
        BY <2>1, <2>3, <2>4, UnderIndexed
    <2> QED
        BY <2>2, <2>5 DEF path
<1> QED
    BY <1>1, <1>2, <1>3

LEMMA AllowedPaths ==
    /\ LookupAllowlist \subseteq Path /\ << >> \in LookupAllowlist
    /\ \A dir \in LookupAllowlist : ~Under(dir, Marker)
<1>1. VdbRoot \in Path /\ Marker \in Path
    BY RootsAreFaithful
<1>2. Ancestors(VdbRoot) \subseteq Path
    BY <1>1, AncestorIsAbove DEF Path
<1>3. << >> \in Ancestors(VdbRoot)
    BY <1>1, UnderItself, AncestorIsAbove DEF Path
<1>4. ASSUME NEW dir \in Ancestors(VdbRoot), Under(dir, Marker) PROVE FALSE
    <2>1. dir \in Path /\ Under(VdbRoot, dir)
        BY <1>1, AncestorIsAbove DEF Path
    <2>2. Under(VdbRoot, Marker)
        BY <1>1, <1>4, <2>1, UnderTransitive DEF Path
    <2> QED
        BY <2>2, RootsAreFaithful
<1> QED
    BY <1>2, <1>3, <1>4, RootsAreFaithful DEF LookupAllowlist

LEMMA InStaged ==
    ASSUME NEW dirs, dirs \subseteq Path, NEW p
    PROVE  p \in Staged(dirs) <=> p \in Path /\ \E dir \in dirs : Under(dir, p)
<1>1. \A dir \in dirs : p \in Ancestors(dir) <=> p \in Path /\ Under(dir, p)
    BY AncestorIsAbove DEF Path
<1> QED
    BY <1>1 DEF Staged

LEMMA InRoot ==
    ASSUME NEW files, NEW dirs \in Roots \union {MockDirs}, NEW p
    PROVE  /\ p \in RootWith(dirs, files) <=> p \in Staged(dirs) \/ p \in Common(files)
           /\ p \in Staged(dirs) <=> p \in Path /\ \E dir \in dirs : Under(dir, p)
           /\ p \in Common(files) <=> \/ p \in Path /\ \E dir \in LookupAllowlist : Under(dir, p)
                                      \/ \E name \in files : p = VdbRoot \o <<name>>
           /\ p \in RootWith(dirs, files) => p \in Seq(NamesWith(files))
<1>1. dirs \subseteq Path /\ LookupAllowlist \subseteq Path
    BY RootsAreFaithful, AllowedPaths
<1>2. Staged(dirs \union LookupAllowlist) = Staged(dirs) \union Staged(LookupAllowlist)
    BY DEF Staged
<1>3. /\ p \in Staged(dirs) <=> p \in Path /\ \E dir \in dirs : Under(dir, p)
      /\ p \in Staged(LookupAllowlist) <=> p \in Path /\ \E dir \in LookupAllowlist : Under(dir, p)
    BY <1>1, InStaged
<1> QED
    BY <1>2, <1>3, PathsAreNamed DEF RootWith, Common

LEMMA RootsAreClosed ==
    ASSUME NEW files, NEW dirs \in Roots \union {MockDirs}, NEW p \in RootWith(dirs, files)
    PROVE  /\ << >> \in RootWith(dirs, files)
           /\ p # << >> => Parent(p) \in RootWith(dirs, files)
<1> DEFINE N == NamesWith(files)
<1>0. << >> \in RootWith(dirs, files)
    <2>1. << >> \in Path /\ << >> \in LookupAllowlist
        BY AllowedPaths
    <2> QED
        BY <2>1, InRoot, UnderItself DEF Path
<1>1. SUFFICES ASSUME p # << >> PROVE Parent(p) \in RootWith(dirs, files)
    BY <1>0
<1>2. p \in Seq(N)
    BY InRoot
<1>3. Parent(p) \in Seq(N) /\ Len(Parent(p)) = Len(p) - 1 /\ Len(p) \in Nat \ {0} /\ Under(p, Parent(p))
    BY <1>1, <1>2, ParentOf
<1>4. ASSUME p \in Path, NEW dir \in Path, Under(dir, p) PROVE Parent(p) \in Path /\ Under(dir, Parent(p))
    <2>1. Parent(p) \in Path
        BY <1>1, <1>4, ParentOf DEF Path
    <2> QED
        BY <1>3, <1>4, <2>1, UnderTransitive DEF Path
<1>5. CASE p \in Staged(dirs)
    <2>1. PICK dir \in dirs : p \in Path /\ Under(dir, p)
        BY <1>5, InRoot
    <2> QED
        BY <1>4, <2>1, InRoot, RootsAreFaithful
<1>6. CASE p \in Path /\ \E dir \in LookupAllowlist : Under(dir, p)
    <2>1. PICK dir \in LookupAllowlist : Under(dir, p)
        BY <1>6
    <2> QED
        BY <1>4, <1>6, <2>1, InRoot, AllowedPaths
<1>7. ASSUME NEW name \in files, p = VdbRoot \o <<name>> PROVE Parent(p) \in RootWith(dirs, files)
    <2>1. VdbRoot \in Seq(N) /\ Len(p) = Len(VdbRoot) + 1 /\ Under(p, VdbRoot)
        BY <1>7, PathsAreNamed
    <2>2. Len(VdbRoot) \in Nat
        BY <2>1, LenProperties
    <2>3. Under(Parent(p), VdbRoot) /\ Len(Parent(p)) <= Len(VdbRoot)
        BY <1>2, <1>3, <2>1, <2>2, UnderBoth
    <2>4. Parent(p) = VdbRoot
        BY <1>3, <2>1, <2>3, UnderSameLength
    <2>5. VdbRoot \in Path /\ VdbRoot \in LookupAllowlist /\ Under(VdbRoot, VdbRoot)
        BY PathsAreNamed, UnderItself, AncestorIsAbove DEF Path, LookupAllowlist
    <2> QED
        BY <2>4, <2>5, InRoot
<1> QED
    BY <1>5, <1>6, <1>7, InRoot

(* A path of the VDB entry, of the allowlist or below a mount, and the     *)
(* marker are the same in all roots                                        *)
LEMMA SameInAllRoots ==
    ASSUME NEW files, NEW mock \in Roots \union {MockDirs}, NEW dirs \in Roots \union {MockDirs},
           NEW p,
           \/ p \in LookupAllowlist
           \/ p \in Seq(NamesWith(files)) /\ Under(p, VdbRoot)
           \/ p = Marker
           \/ p \in Seq(NamesWith(files)) /\ \E mount \in Mounted : Under(p, mount) /\ p # mount
    PROVE  /\ p \in RootWith(mock, files) <=> p \in RootWith(dirs, files)
           /\ p # Marker \/ p \notin RootWith(dirs, files)
<1> DEFINE N == NamesWith(files)
<1>a. Path \subseteq Seq(N) /\ VdbRoot \in Path /\ Marker \in Path /\ Mounted \subseteq Path
    BY PathsAreNamed
<1>b. \A some \in Roots \union {MockDirs} : \A dir \in some :
          /\ dir \in Path /\ ~Under(dir, Marker) /\ ~Under(dir, VdbRoot)
          /\ \A mount \in Mounted : Under(dir, mount) => dir = mount
    BY RootsAreFaithful
<1>1. CASE p \in LookupAllowlist
    <2>1. p \in Path /\ Under(p, p) /\ ~Under(p, Marker)
        BY <1>1, AllowedPaths, UnderItself DEF Path
    <2>2. \A some \in Roots \union {MockDirs} : p \in RootWith(some, files)
        BY <1>1, <2>1, InRoot
    <2> QED
        BY <2>1, <2>2
<1>2. ASSUME p \in Seq(N), Under(p, VdbRoot)
      PROVE  \A some \in Roots \union {MockDirs} : p \notin Staged(some)
    <2>1. SUFFICES ASSUME NEW some \in Roots \union {MockDirs}, p \in Staged(some) PROVE FALSE
        OBVIOUS
    <2>2. PICK dir \in some : Under(dir, p)
        BY <2>1, InRoot
    <2>3. Under(dir, VdbRoot)
        BY <1>a, <1>b, <1>2, <2>2, UnderTransitive
    <2> QED
        BY <1>b, <2>3
<1>3. ASSUME p \in Seq(N), NEW mount \in Mounted, Under(p, mount), p # mount
      PROVE  \A some \in Roots \union {MockDirs} : p \notin Staged(some)
    <2>1. SUFFICES ASSUME NEW some \in Roots \union {MockDirs}, p \in Staged(some) PROVE FALSE
        OBVIOUS
    <2>2. PICK dir \in some : Under(dir, p)
        BY <2>1, InRoot
    <2>3. dir \in Seq(N) /\ mount \in Seq(N)
        BY <1>a, <1>b
    <2>4. dir = mount
        BY <1>b, <1>3, <2>2, <2>3, UnderTransitive
    <2>5. p = mount
        BY <1>3, <2>2, <2>3, <2>4, UnderSameLength DEF Under
    <2> QED
        BY <1>3, <2>5
<1>4. ASSUME p = Marker
      PROVE  \A some \in Roots \union {MockDirs} : p \notin RootWith(some, files)
    <2>1. SUFFICES ASSUME NEW some \in Roots \union {MockDirs}, p \in RootWith(some, files) PROVE FALSE
        OBVIOUS
    <2>2. \A dir \in some \union LookupAllowlist : ~Under(dir, p)
        BY <1>4, <1>b, AllowedPaths
    <2>3. PICK name \in files : p = VdbRoot \o <<name>>
        BY <2>1, <2>2, InRoot
    <2>4. Under(Marker, VdbRoot)
        BY <1>4, <2>3, PathsAreNamed
    <2> QED
        BY <2>4, RootsAreFaithful
<1> DEFINE Inside == \A some \in Roots \union {MockDirs} : p \notin Staged(some)
<1>5. ASSUME Inside, p # Marker
      PROVE  p \in RootWith(mock, files) <=> p \in RootWith(dirs, files)
    BY <1>5, InRoot
<1> QED
    BY <1>1, <1>2, <1>3, <1>4, <1>5
----------------------------------------------------------------------------
(* Hooks whose audit is clean                                              *)

(* What tells nothing is the same in all roots: so is, name by name, what  *)
(* was looked up, up to the first that is missing                          *)
LEMMA CleanLookup ==
    ASSUME NEW files, NEW path \in Path, NEW dirs \in Roots, NEW n \in 0 .. Len(path),
           \A mount \in Mounted : ~Under(path, mount),
           \A prefix \in Reported(RootWith(MockDirs, files), path) : ~Tells(<<"lookup", prefix>>)
    PROVE  SubSeq(path, 1, n) \in RootWith(MockDirs, files) <=> SubSeq(path, 1, n) \in RootWith(dirs, files)
<1> DEFINE mock == RootWith(MockDirs, files)
           real == RootWith(dirs, files)
           Bad == {m \in 0 .. Len(path) : ~(SubSeq(path, 1, m) \in mock <=> SubSeq(path, 1, m) \in real)}
<1> SUFFICES ASSUME n \in Bad PROVE FALSE
    OBVIOUS
<1> HIDE DEF mock, real
<1>a. MockDirs \in Roots \union {MockDirs} /\ dirs \in Roots \union {MockDirs}
    OBVIOUS
<1>b. path \in Seq(NamesWith(files)) /\ Len(path) \in Nat /\ Path \subseteq Seq(NamesWith(files))
    BY PathsAreNamed, LenProperties
<1>1. PICK m \in Bad : \A k \in Bad : m <= k
    <2>1. Bad \subseteq Nat /\ Bad # {}
        BY <1>b
    <2> QED
        BY <2>1, LeastNumber
<1> DEFINE prefix == SubSeq(path, 1, m)
<1>2. /\ prefix \in Path /\ Len(prefix) = m /\ Under(path, prefix) /\ prefix \in Seq(NamesWith(files))
      /\ ~(prefix \in mock <=> prefix \in real) /\ m \in Nat /\ m <= Len(path)
    <2>1. m \in 0 .. Len(path) /\ ~(prefix \in mock <=> prefix \in real)
        OBVIOUS
    <2>2. prefix \in Path /\ Len(prefix) = m
        BY <2>1, PrefixOf DEF Path
    <2> QED
        BY <1>b, <2>1, <2>2 DEF Under
<1>3. << >> \in LookupAllowlist
    BY AllowedPaths
<1>4. prefix # << >>
    BY <1>2, <1>3, <1>a, SameInAllRoots DEF mock, real
<1>5. /\ Parent(prefix) = SubSeq(path, 1, m - 1) /\ m - 1 \in 0 .. Len(path) /\ m > 0
    <2>1. Len(Parent(prefix)) = m - 1 /\ m \in Nat \ {0} /\ Parent(prefix) \in Path
          /\ Under(prefix, Parent(prefix))
        BY <1>2, <1>4, ParentOf DEF Path
    <2>2. Under(path, Parent(prefix))
        BY <1>2, <2>1, UnderTransitive DEF Path
    <2> QED
        BY <1>2, <1>b, <2>1, <2>2 DEF Under
<1>6. m - 1 \notin Bad
    BY <1>1, <1>2, <1>5
<1>7. Parent(prefix) \in mock <=> Parent(prefix) \in real
    BY <1>5, <1>6
<1>8. Parent(prefix) \in mock
    BY <1>2, <1>4, <1>7, <1>a, RootsAreClosed DEF mock, real
<1>9. prefix \in Reported(mock, path)
    <2>1. prefix \in Ancestors(path) \ {<< >>}
        BY <1>2, <1>4, AncestorIsAbove DEF Path
    <2>2. ASSUME NEW mount \in Mounted PROVE ~Under(prefix, mount)
        <3>1. mount \in Path
            BY PathsAreNamed
        <3> QED
            BY <1>2, <3>1, UnderTransitive DEF Path
    <2> QED
        BY <1>8, <2>1, <2>2 DEF Reported, LooksUp
<1>10. prefix \in LookupAllowlist \/ Under(prefix, VdbRoot) \/ prefix = Marker
    BY <1>9 DEF Tells, mock
<1> QED
    BY <1>2, <1>10, <1>a, SameInAllRoots DEF mock, real

LEMMA CleanAccess ==
    ASSUME NEW files, NEW access, access.path \in Path, NEW dirs \in Roots,
           \A prefix \in Reported(RootWith(MockDirs, files), access.path) : ~Tells(<<"lookup", prefix>>),
           \A dir \in ReadDirs(RootWith(MockDirs, files), access) : ~Tells(<<"readdir", dir>>)
    PROVE  SeesTheSame(access, RootWith(MockDirs, files), RootWith(dirs, files))
<1> DEFINE mock == RootWith(MockDirs, files)
           real == RootWith(dirs, files)
           path == access.path
           N == NamesWith(files)
<1> HIDE DEF mock, real
<1>a. MockDirs \in Roots \union {MockDirs} /\ dirs \in Roots \union {MockDirs}
    OBVIOUS
<1>b. path \in Seq(N) /\ Len(path) \in Nat /\ Mounted \subseteq Seq(N) /\ VdbRoot \in Seq(N)
    BY PathsAreNamed, LenProperties
<1>c. ASSUME NEW p \in mock \union real
      PROVE  p \in Seq(N) /\ (p # << >> => Under(p, Parent(p)) /\ Len(Parent(p)) = Len(p) - 1 /\ Len(p) \in Nat \ {0})
    <2>1. p \in Seq(N)
        BY <1>a, InRoot DEF mock, real
    <2> QED
        BY <2>1, ParentOf
<1>d. ASSUME NEW p \in mock \union real, Len(p) = Len(path) + 1, Parent(p) = path
      PROVE  p \in Seq(N) /\ Under(p, path) /\ p # path /\ Len(p) = Len(path) + 1 /\ p # << >>
    <2>1. p # << >>
        BY <1>b, <1>d, EmptySeq
    <2> QED
        BY <1>b, <1>c, <1>d, <2>1
<1>1. CASE \E mount \in Mounted : Under(path, mount)
    <2>1. PICK mount \in Mounted : Under(path, mount)
        BY <1>1
    <2>2. ASSUME NEW p \in mock \union real, Len(p) = Len(path) + 1, Parent(p) = path
          PROVE  p \in mock <=> p \in real
        <3>1. p \in Seq(N) /\ Under(p, path) /\ Len(p) = Len(path) + 1
            BY <1>d, <2>2
        <3>2. Under(p, mount)
            BY <1>b, <2>1, <3>1, UnderTransitive
        <3>3. p # mount
            BY <1>b, <2>1, <3>1 DEF Under
        <3> QED
            BY <1>a, <3>1, <3>2, <3>3, SameInAllRoots DEF mock, real
    <2>3. Listed(mock, path) = Listed(real, path)
        BY <2>2 DEF Listed
    <2> QED
        BY <1>1, <2>3 DEF SeesTheSame, Found, mock, real
<1>2. CASE \A mount \in Mounted : ~Under(path, mount)
    <2>1. path \in mock <=> path \in real
        <3>1. Len(path) \in 0 .. Len(path)
            BY <1>b
        <3>2. SubSeq(path, 1, Len(path)) \in mock <=> SubSeq(path, 1, Len(path)) \in real
            BY <1>2, <3>1, CleanLookup DEF mock, real
        <3>3. SubSeq(path, 1, Len(path)) = path
            BY <1>b, SubSeqFull
        <3> QED
            BY <3>2, <3>3
    <2>2. ASSUME path \in mock, access.access = "readdir"
          PROVE  Listed(mock, path) = Listed(real, path)
        <3>1. path \in ReadDirs(mock, access)
            BY <1>2, <2>2 DEF ReadDirs
        <3>2. ~Tells(<<"readdir", path>>)
            BY <3>1 DEF mock
        <3>3. Under(path, VdbRoot) \/ path = Marker
            BY <3>2 DEF Tells
        <3>4. path # Marker
            BY <2>2, <1>a, SameInAllRoots DEF mock, real
        <3>5. ASSUME NEW p \in mock \union real, Len(p) = Len(path) + 1, Parent(p) = path
              PROVE  p \in mock <=> p \in real
            <4>1. p \in Seq(N) /\ Under(p, path)
                BY <1>d, <3>5
            <4>2. Under(p, VdbRoot)
                BY <1>b, <3>3, <3>4, <4>1, UnderTransitive
            <4> QED
                BY <1>a, <4>1, <4>2, SameInAllRoots DEF mock, real
        <3> QED
            BY <3>5 DEF Listed
    <2>3. ASSUME path \notin mock PROVE Listed(mock, path) = Listed(real, path)
        <3>1. ASSUME NEW p \in mock \union real, Len(p) = Len(path) + 1, Parent(p) = path PROVE FALSE
            <4>1. p # << >>
                BY <1>d, <3>1
            <4>2. Parent(p) \in mock \union real
                BY <1>a, <4>1, RootsAreClosed DEF mock, real
            <4> QED
                BY <2>1, <2>3, <3>1, <4>2
        <3> QED
            BY <3>1 DEF Listed
    <2> QED
        BY <1>2, <2>1, <2>2, <2>3 DEF SeesTheSame, Found, mock, real
<1> QED
    BY <1>1, <1>2

(* While the hooks run, the audit has all that they have looked up or      *)
(* listed in a mock root with the files of the VDB entry, and what is      *)
(* written of it afterwards is what tells something                        *)
BeforeAudit == {"extract", "contents", "vdb"}
HooksInv ==
    /\ input \in Inputs /\ hook \in 0 .. Len(input.hooks)
    /\ audit \subseteq {"lookup", "readdir"} \X Path
    /\ step \in BeforeAudit => hook = 0 /\ audit = {} /\ vdb = NoVdb
    /\ step \in {"audit", "requires"} => ~input.sparse /\ vdb.files \intersect LateFiles = {} /\ vdb.requires = {}
    /\ step \in {"rename", "merge", "done"} /\ ~input.sparse => vdb.requires = {entry \in audit : Tells(entry)}
    /\ vdb.requires \subseteq audit
    /\ \A i \in 1 .. hook :
           LET mock == RootWith(MockDirs, vdb.files \ LateFiles)
           IN  /\ \A prefix \in Reported(mock, input.hooks[i].path) : <<"lookup", prefix>> \in audit
               /\ \A dir \in ReadDirs(mock, input.hooks[i]) : <<"readdir", dir>> \in audit

LEMMA InitHooks == ExtractInit => HooksInv
<1>1. ASSUME ExtractInit PROVE HooksInv
    <2>1. input.hooks \in Seq([access : {"lookup", "readdir", "internal"}, path : Path, fatal : BOOLEAN])
        BY <1>1, InputsAreFaithful DEF ExtractInit
    <2>2. Len(input.hooks) \in Nat
        BY <2>1, LenProperties
    <2> QED
        BY <1>1, <2>2 DEF ExtractInit, HooksInv, BeforeAudit, NoVdb
<1> QED
    BY <1>1

LEMMA RunHookKeeps ==
    ASSUME HooksInv, RunHook PROVE HooksInv'
<1> DEFINE access == input.hooks[hook + 1]
<1>1. /\ Len(input.hooks) \in Nat /\ hook + 1 \in 1 .. Len(input.hooks) /\ hook \in Nat
      /\ access \in [access : {"lookup", "readdir", "internal"}, path : Path, fatal : BOOLEAN]
    <2>1. input.hooks \in Seq([access : {"lookup", "readdir", "internal"}, path : Path, fatal : BOOLEAN])
        BY InputsAreFaithful DEF HooksInv
    <2>2. Len(input.hooks) \in Nat
        BY <2>1, LenProperties
    <2>3. hook + 1 \in 1 .. Len(input.hooks) /\ hook \in Nat
        BY <2>2 DEF HooksInv, RunHook
    <2> QED
        BY <2>1, <2>2, <2>3, ElementOfSeq
<1>2. /\ step = "audit" /\ hook' = hook + 1 /\ step' \in {"audit", "requires"}
      /\ UNCHANGED <<input, vdb>>
      /\ audit' = audit \union {<<"lookup", prefix>> : prefix \in Reported(MockRoot, access.path)}
                        \union {<<"readdir", dir>> : dir \in ReadDirs(MockRoot, access)}
    BY DEF RunHook
<1>3. MockRoot = RootWith(MockDirs, vdb.files \ LateFiles)
    <2>1. vdb.files \ LateFiles = vdb.files
        BY <1>2 DEF HooksInv
    <2> QED
        BY <2>1 DEF MockRoot
<1>4. audit' \subseteq {"lookup", "readdir"} \X Path
    <2>1. \A prefix \in Reported(MockRoot, access.path) : prefix \in Path
        BY <1>1, AncestorIsAbove DEF Reported, LooksUp, Path
    <2>2. \A dir \in ReadDirs(MockRoot, access) : dir \in Path
        BY <1>1 DEF ReadDirs
    <2> QED
        BY <1>2, <2>1, <2>2 DEF HooksInv
<1>5. ASSUME NEW i \in 1 .. hook + 1
      PROVE  /\ \A prefix \in Reported(MockRoot, input.hooks[i].path) : <<"lookup", prefix>> \in audit'
             /\ \A dir \in ReadDirs(MockRoot, input.hooks[i]) : <<"readdir", dir>> \in audit'
    <2>1. CASE i = hook + 1
        BY <1>2, <2>1
    <2>2. CASE i \in 1 .. hook
        BY <1>2, <1>3, <2>2 DEF HooksInv
    <2> QED
        BY <1>1, <2>1, <2>2
<1>6. hook' \in 0 .. Len(input.hooks)
    BY <1>1, <1>2
<1>7. input' = input /\ vdb' = vdb /\ hook' = hook + 1
    BY <1>2
<1>8. \A i \in 1 .. hook' :
          LET mock == RootWith(MockDirs, vdb'.files \ LateFiles)
          IN  /\ \A prefix \in Reported(mock, input'.hooks[i].path) : <<"lookup", prefix>> \in audit'
              /\ \A dir \in ReadDirs(mock, input'.hooks[i]) : <<"readdir", dir>> \in audit'
    BY <1>3, <1>5, <1>7
<1>9. /\ input' \in Inputs /\ hook' \in 0 .. Len(input'.hooks)
      /\ step' \in BeforeAudit => hook' = 0 /\ audit' = {} /\ vdb' = NoVdb
      /\ step' \in {"audit", "requires"} =>
             ~input'.sparse /\ vdb'.files \intersect LateFiles = {} /\ vdb'.requires = {}
      /\ step' \in {"rename", "merge", "done"} /\ ~input'.sparse =>
             vdb'.requires = {entry \in audit' : Tells(entry)}
      /\ vdb'.requires \subseteq audit'
    BY <1>2, <1>6 DEF HooksInv, BeforeAudit
<1> QED
    BY <1>4, <1>8, <1>9 DEF HooksInv

LEMMA WriteRequiresKeeps ==
    ASSUME HooksInv, WriteRequires PROVE HooksInv'
<1>1. /\ step = "requires" /\ step' = "rename" /\ UNCHANGED <<input, hook, audit>>
      /\ vdb'.files = vdb.files \union LateFiles /\ vdb'.requires = {entry \in audit : Tells(entry)}
    BY DEF WriteRequires
<1>2. vdb'.files \ LateFiles = vdb.files \ LateFiles
    BY <1>1
<1>3. input' = input /\ hook' = hook /\ audit' = audit
    BY <1>1
<1>4. \A i \in 1 .. hook' :
          LET mock == RootWith(MockDirs, vdb'.files \ LateFiles)
          IN  /\ \A prefix \in Reported(mock, input'.hooks[i].path) : <<"lookup", prefix>> \in audit'
              /\ \A dir \in ReadDirs(mock, input'.hooks[i]) : <<"readdir", dir>> \in audit'
    BY <1>2, <1>3 DEF HooksInv
<1> QED
    BY <1>1, <1>4 DEF HooksInv, BeforeAudit

LEMMA StepHooks == HooksInv /\ [ExtractNext]_extractVars => HooksInv'
<1> SUFFICES ASSUME HooksInv, [ExtractNext]_extractVars PROVE HooksInv'
    OBVIOUS
<1>1. ASSUME UNCHANGED <<input, vdb, hook, audit>>,
             \/ step' \in {"contents", "vdb"} /\ step \in BeforeAudit
             \/ step' = "requires" /\ step = "audit"
             \/ step' = "failed"
             \/ step' \in {"rename", "merge", "done"} /\ step \in {"rename", "merge", "done"}
             \/ step' = step
      PROVE  HooksInv'
    <2>1. input' = input /\ hook' = hook /\ audit' = audit /\ vdb' = vdb
        BY <1>1
    <2>2. \A i \in 1 .. hook' :
          LET mock == RootWith(MockDirs, vdb'.files \ LateFiles)
          IN  /\ \A prefix \in Reported(mock, input'.hooks[i].path) : <<"lookup", prefix>> \in audit'
              /\ \A dir \in ReadDirs(mock, input'.hooks[i]) : <<"readdir", dir>> \in audit'
        BY <2>1 DEF HooksInv
    <2> QED
        BY <1>1, <2>1, <2>2 DEF HooksInv, BeforeAudit
<1>2. CASE UNCHANGED extractVars
    BY <1>1, <1>2 DEF extractVars
<1>3. CASE ExtractImage
    BY <1>1, <1>3 DEF ExtractImage, BeforeAudit
<1>4. CASE GenerateContents
    BY <1>1, <1>4 DEF GenerateContents, BeforeAudit
<1>5. CASE CreateSparseVdb
    <2>1. /\ UNCHANGED <<input, hook, audit>> /\ step' \in {"rename", "failed"} /\ input.sparse
          /\ hook = 0 /\ vdb'.requires = {}
        BY <1>5 DEF CreateSparseVdb, HooksInv, BeforeAudit, NoVdb
    <2> QED
        BY <2>1 DEF HooksInv, BeforeAudit
<1>6. CASE CreateInitialVdb
    <2>1. /\ UNCHANGED <<input, hook, audit>> /\ step' \in {"audit", "failed"} /\ ~input.sparse
          /\ hook = 0 /\ vdb'.requires = {}
          /\ vdb'.files = (input.xpak \ {"environment.bz2"}) \union {"COUNTER", "environment.raw"}
        BY <1>6 DEF CreateInitialVdb, HooksInv, BeforeAudit, NoVdb
    <2>2. vdb'.files \intersect LateFiles = {}
        BY <2>1, InputsAreFaithful DEF HooksInv, LateFiles
    <2> QED
        BY <2>1, <2>2 DEF HooksInv, BeforeAudit
<1>7. CASE RunHook
    BY <1>7, RunHookKeeps
<1>8. CASE HookNotImplemented
    BY <1>1, <1>8 DEF HookNotImplemented
<1>9. CASE HooksReturn
    BY <1>1, <1>9 DEF HooksReturn
<1>10. CASE WriteRequires
    BY <1>10, WriteRequiresKeeps
<1>11. CASE NextRename
    BY <1>1, <1>11 DEF NextRename
<1>12. CASE MoveEntry
    BY <1>1, <1>12 DEF MoveEntry
<1>13. CASE MergeEntry
    BY <1>1, <1>13 DEF MergeEntry
<1>14. CASE LeaveDir
    BY <1>1, <1>14 DEF LeaveDir
<1>15. CASE RemoveSource
    BY <1>1, <1>15 DEF RemoveSource
<1>16. CASE ExtractFails
    BY <1>1, <1>16 DEF ExtractFails
<1> QED
    BY <1>2, <1>3, <1>4, <1>5, <1>6, <1>7, <1>8, <1>9, <1>10, <1>11, <1>12, <1>13, <1>14, <1>15, <1>16
       DEF ExtractNext

(* Hooks with a clean audit find in every real root just what they found   *)
(* in the mock root of audit_hooks, so an installation may skip them       *)
THEOREM HooksCanBeSkipped == ExtractSpec => []CleanHooksCanBeSkipped
<1>1. HooksInv => CleanHooksCanBeSkipped
    <2>1. SUFFICES ASSUME HooksInv, step = "done", ~input.sparse, vdb.requires = {},
                          NEW i \in 1 .. hook, NEW dirs \in Roots
                   PROVE  SeesTheSame(input.hooks[i], RootWith(MockDirs, vdb.files \ LateFiles),
                                      RootWith(dirs, vdb.files \ LateFiles))
        BY DEF CleanHooksCanBeSkipped
    <2> DEFINE mock == RootWith(MockDirs, vdb.files \ LateFiles)
    <2>2. \A entry \in audit : ~Tells(entry)
        BY <2>1 DEF HooksInv
    <2>3. input.hooks[i].path \in Path
        <3>1. input.hooks \in Seq([access : {"lookup", "readdir", "internal"}, path : Path, fatal : BOOLEAN])
            BY <2>1, InputsAreFaithful DEF HooksInv
        <3>2. i \in 1 .. Len(input.hooks)
            BY <2>1, <3>1, LenProperties DEF HooksInv
        <3>3. input.hooks[i] \in [access : {"lookup", "readdir", "internal"}, path : Path, fatal : BOOLEAN]
            BY <3>1, <3>2, ElementOfSeq
        <3> QED
            BY <3>3
    <2>4. /\ \A prefix \in Reported(mock, input.hooks[i].path) : ~Tells(<<"lookup", prefix>>)
          /\ \A dir \in ReadDirs(mock, input.hooks[i]) : ~Tells(<<"readdir", dir>>)
        BY <2>1, <2>2 DEF HooksInv
    <2> QED
        BY <2>3, <2>4, CleanAccess
<1> QED
    BY <1>1, InitHooks, StepHooks, PTL DEF ExtractSpec
----------------------------------------------------------------------------
(* Paths whose first names are replaced by as many others                  *)

LEMMA JoinOf ==
    ASSUME NEW N, NEW d \in Seq(N), NEW r \in Seq(N), NEW p \in Seq(N), Len(d) = Len(r), Under(p, r)
    PROVE  /\ Join(d, p, r) \in Seq(N) /\ Len(Join(d, p, r)) = Len(p)
           /\ \A i \in 1 .. Len(p) : Join(d, p, r)[i] = IF i <= Len(d) THEN d[i] ELSE p[i]
           /\ Under(Join(d, p, r), d)
<1> DEFINE rest == SubSeq(p, Len(r) + 1, Len(p))
<1>1. Len(p) \in Nat /\ Len(r) \in Nat /\ Len(d) \in Nat /\ Len(r) <= Len(p)
    BY LenProperties DEF Under
<1>2. \A i \in Len(r) + 1 .. Len(p) : p[i] \in N
    BY <1>1, LenProperties
<1>3. /\ rest \in Seq(N) /\ Len(rest) = Len(p) - Len(r)
      /\ \A i \in 1 .. Len(p) - Len(r) : rest[i] = p[Len(r) + i]
    <2>1. /\ rest \in Seq(N)
          /\ Len(rest) = IF Len(r) + 1 <= Len(p) THEN Len(p) - (Len(r) + 1) + 1 ELSE 0
          /\ \A i \in 1 .. Len(p) - (Len(r) + 1) + 1 : rest[i] = p[Len(r) + 1 + i - 1]
        <3>1. Len(r) + 1 \in Int /\ Len(p) \in Int
            BY <1>1
        <3> HIDE DEF rest
        <3> QED
            BY <1>2, <3>1, SubSeqProperties DEF rest
    <2>2. Len(p) - (Len(r) + 1) + 1 = Len(p) - Len(r)
        BY <1>1
    <2> HIDE DEF rest
    <2>3. Len(rest) = Len(p) - Len(r)
        BY <1>1, <2>1
    <2>4. ASSUME NEW i \in 1 .. Len(p) - Len(r) PROVE rest[i] = p[Len(r) + i]
        <3>1. Len(r) + 1 + i - 1 = Len(r) + i
            BY <1>1
        <3>2. rest[i] = p[Len(r) + 1 + i - 1]
            BY <2>1, <2>2
        <3> QED
            BY <3>1, <3>2
    <2> QED
        BY <2>1, <2>3, <2>4
<1> HIDE DEF rest
<1>4. /\ d \o rest \in Seq(N) /\ Len(d \o rest) = Len(d) + Len(rest)
      /\ \A i \in 1 .. Len(d) + Len(rest) : (d \o rest)[i] = IF i <= Len(d) THEN d[i] ELSE rest[i - Len(d)]
    BY <1>3, ConcatProperties
<1> DEFINE new == Join(d, p, r)
<1>5. new = d \o rest
    BY DEF Join, rest
<1> HIDE DEF new
<1>6. new \in Seq(N) /\ Len(new) = Len(p)
    <2>1. Len(d) + (Len(p) - Len(r)) = Len(p)
        BY <1>1
    <2> QED
        BY <2>1, <1>3, <1>4, <1>5
<1>7. ASSUME NEW i \in 1 .. Len(p) PROVE new[i] = IF i <= Len(d) THEN d[i] ELSE p[i]
    <2>1. new[i] = IF i <= Len(d) THEN d[i] ELSE rest[i - Len(d)]
        <3>1. Len(d) + Len(rest) = Len(p)
            BY <1>1, <1>3
        <3> QED
            BY <3>1, <1>4, <1>5
    <2>2. ASSUME ~(i <= Len(d)) PROVE rest[i - Len(d)] = p[i]
        <3>1. i - Len(d) \in 1 .. Len(p) - Len(r) /\ Len(r) + (i - Len(d)) = i
            BY <1>1, <2>2
        <3> QED
            BY <1>3, <3>1
    <2> QED
        BY <2>1, <2>2
<1>8. Len(d) <= Len(new) /\ \A i \in 1 .. Len(d) : new[i] = d[i]
    BY <1>1, <1>6, <1>7
<1>9. Under(new, d)
    BY <1>6, <1>8, UnderIndexed
<1> QED
    BY <1>6, <1>7, <1>9 DEF new

IsJoin(new, d, p, r) ==
    /\ new = Join(d, p, r) /\ Len(new) = Len(p) /\ Under(new, d)
    /\ \A i \in 1 .. Len(p) : new[i] = IF i <= Len(d) THEN d[i] ELSE p[i]

LEMMA JoinIs ==
    ASSUME NEW N, NEW d \in Seq(N), NEW r \in Seq(N), NEW p \in Seq(N), Len(d) = Len(r), Under(p, r)
    PROVE  \E new \in Seq(N) : IsJoin(new, d, p, r)
<1>1. /\ Join(d, p, r) \in Seq(N) /\ Len(Join(d, p, r)) = Len(p)
      /\ \A i \in 1 .. Len(p) : Join(d, p, r)[i] = IF i <= Len(d) THEN d[i] ELSE p[i]
      /\ Under(Join(d, p, r), d)
    BY JoinOf
<1> DEFINE new == Join(d, p, r)
<1>2. new \in Seq(N) /\ new = Join(d, p, r) /\ Len(new) = Len(p) /\ Under(new, d)
      /\ \A i \in 1 .. Len(p) : new[i] = IF i <= Len(d) THEN d[i] ELSE p[i]
    BY <1>1
<1> HIDE DEF new
<1>3. new \in Seq(N) /\ IsJoin(new, d, p, r)
    BY <1>2 DEF IsJoin
<1> QED
    BY <1>3

LEMMA JoinBack ==
    ASSUME NEW N, NEW d \in Seq(N), NEW r \in Seq(N), NEW p \in Seq(N), Len(d) = Len(r), Under(p, r)
    PROVE  Join(r, Join(d, p, r), d) = p
<1>1. PICK new \in Seq(N) : IsJoin(new, d, p, r)
    BY JoinIs
<1>2. /\ new = Join(d, p, r) /\ Len(new) = Len(p) /\ Under(new, d)
      /\ \A i \in 1 .. Len(p) : new[i] = IF i <= Len(d) THEN d[i] ELSE p[i]
    BY <1>1 DEF IsJoin
<1>3. PICK old \in Seq(N) : IsJoin(old, r, new, d)
    BY <1>2, JoinIs
<1>4. /\ old = Join(r, new, d) /\ Len(old) = Len(p)
      /\ \A i \in 1 .. Len(p) : old[i] = IF i <= Len(r) THEN r[i] ELSE new[i]
    BY <1>2, <1>3 DEF IsJoin
<1>5. \A i \in 1 .. Len(r) : p[i] = r[i]
    BY UnderIndexed
<1>6. \A i \in 1 .. Len(p) : old[i] = p[i]
    BY <1>2, <1>4, <1>5, LenProperties
<1>7. old = p
    BY <1>4, <1>6, SeqEqual
<1> QED
    BY <1>2, <1>4, <1>7

LEMMA JoinUnder ==
    ASSUME NEW N, NEW d \in Seq(N), NEW r \in Seq(N), NEW p \in Seq(N), NEW q \in Seq(N),
           Len(d) = Len(r), Under(p, r), Under(q, r)
    PROVE  Under(p, q) <=> Under(Join(d, p, r), Join(d, q, r))
<1>1. PICK a \in Seq(N) : IsJoin(a, d, p, r)
    BY JoinIs
<1>2. PICK b \in Seq(N) : IsJoin(b, d, q, r)
    BY JoinIs
<1>3. /\ a = Join(d, p, r) /\ b = Join(d, q, r)
      /\ Len(a) = Len(p) /\ \A i \in 1 .. Len(p) : a[i] = IF i <= Len(d) THEN d[i] ELSE p[i]
      /\ Len(b) = Len(q) /\ \A i \in 1 .. Len(q) : b[i] = IF i <= Len(d) THEN d[i] ELSE q[i]
    BY <1>1, <1>2 DEF IsJoin
<1>4. /\ \A i \in 1 .. Len(r) : p[i] = r[i] /\ q[i] = r[i]
      /\ Len(p) \in Nat /\ Len(q) \in Nat /\ Len(r) \in Nat
    BY UnderIndexed, LenProperties
<1>5. Under(p, q) <=> Len(q) <= Len(p) /\ \A i \in 1 .. Len(q) : p[i] = q[i]
    BY UnderIndexed
<1>6. Under(a, b) <=> Len(b) <= Len(a) /\ \A i \in 1 .. Len(b) : a[i] = b[i]
    BY UnderIndexed
<1>7. ASSUME Len(q) <= Len(p)
      PROVE  (\A i \in 1 .. Len(q) : p[i] = q[i]) <=> (\A i \in 1 .. Len(b) : a[i] = b[i])
    <2>1. ASSUME NEW i \in 1 .. Len(q) PROVE a[i] = b[i] <=> p[i] = q[i]
        <3>1. i \in 1 .. Len(p)
            BY <1>4, <1>7
        <3>2. CASE i <= Len(d)
            BY <1>3, <1>4, <3>1, <3>2
        <3>3. CASE ~(i <= Len(d))
            BY <1>3, <3>1, <3>3
        <3> QED
            BY <3>2, <3>3
    <2> QED
        BY <1>3, <2>1
<1>8. Under(p, q) <=> Under(a, b)
    BY <1>3, <1>5, <1>6, <1>7
<1> QED
    BY <1>3, <1>8

LEMMA JoinParent ==
    ASSUME NEW N, NEW d \in Seq(N), NEW r \in Seq(N), NEW p \in Seq(N), Len(d) = Len(r), Under(p, r), p # r
    PROVE  /\ Parent(Join(d, p, r)) = Join(d, Parent(p), r) /\ Join(d, p, r) # << >>
           /\ Parent(p) \in Seq(N) /\ Under(Parent(p), r)
<1>1. PICK a \in Seq(N) : IsJoin(a, d, p, r)
    BY JoinIs
<1>2. /\ p # << >> /\ Under(Parent(p), r) /\ Parent(p) \in Seq(N)
      /\ Under(p, Parent(p)) /\ Len(Parent(p)) = Len(p) - 1 /\ Len(p) \in Nat \ {0}
    BY ParentIsUnder, ParentOf
<1>3. PICK b \in Seq(N) : IsJoin(b, d, Parent(p), r)
    BY <1>2, JoinIs
<1>4. /\ a = Join(d, p, r) /\ b = Join(d, Parent(p), r)
      /\ Len(b) = Len(p) - 1 /\ Len(a) = Len(p)
    BY <1>1, <1>2, <1>3 DEF IsJoin
<1>5. Under(a, b)
    BY <1>2, <1>4, JoinUnder
<1>6. a # << >>
    BY <1>2, <1>4, EmptySeq
<1>7. SubSeq(a, 1, Len(b)) = b /\ Parent(a) = SubSeq(a, 1, Len(a) - 1)
    BY <1>5 DEF Under, Parent
<1> QED
    BY <1>2, <1>4, <1>6, <1>7

LEMMA JoinSelf ==
    ASSUME NEW N, NEW d \in Seq(N), NEW r \in Seq(N)
    PROVE  Join(d, r, r) = d
<1>1. SubSeq(r, Len(r) + 1, Len(r)) = << >>
    BY SubSeqEmpty, LenProperties
<1> QED
    BY <1>1, ConcatEmptySeq DEF Join
----------------------------------------------------------------------------
(* Renamed directories                                                     *)

LEMMA RenamePaths ==
    ASSUME NEW i \in DOMAIN Renames
    PROVE  /\ Renames[i][1] \in Path \ {<< >>} /\ Renames[i][2] \in Path \ {<< >>}
           /\ Len(Renames[i][1]) = Len(Renames[i][2]) /\ Len(Renames[i][1]) \in Nat \ {0}
           /\ Parent(Renames[i][1]) = Parent(Renames[i][2])
           /\ i \in 1 .. Len(Renames) /\ Len(Renames) \in Nat
<1>1. /\ Renames \in Seq((Path \ {<< >>}) \X (Path \ {<< >>}))
      /\ Parent(Renames[i][1]) = Parent(Renames[i][2])
    BY RenamesAreApart
<1>2. i \in 1 .. Len(Renames) /\ Len(Renames) \in Nat
    BY <1>1, LenProperties
<1>3. Renames[i] \in (Path \ {<< >>}) \X (Path \ {<< >>})
    BY <1>1, <1>2, ElementOfSeq
<1>4. Renames[i][1] \in Path \ {<< >>} /\ Renames[i][2] \in Path \ {<< >>}
    BY <1>3
<1>5. /\ Len(Parent(Renames[i][1])) = Len(Renames[i][1]) - 1 /\ Len(Renames[i][1]) \in Nat \ {0}
      /\ Len(Parent(Renames[i][2])) = Len(Renames[i][2]) - 1 /\ Len(Renames[i][2]) \in Nat \ {0}
    BY <1>4, ParentOf DEF Path
<1> QED
    BY <1>1, <1>2, <1>4, <1>5

LEMMA NotUnderBoth ==
    ASSUME NEW p \in Path, NEW d \in Path, NEW e \in Path, Apart(d, e), Under(p, d), Under(p, e)
    PROVE  FALSE
<1>1. Len(d) \in Nat /\ Len(e) \in Nat
    BY LenProperties DEF Path
<1>2. CASE Len(d) <= Len(e)
    BY <1>2, UnderBoth DEF Path, Apart
<1>3. CASE Len(e) <= Len(d)
    BY <1>3, UnderBoth DEF Path, Apart
<1> QED
    BY <1>1, <1>2, <1>3

\* Only one rename applies to a path, and the others leave it and its new place alone
LEMMA OneRename ==
    ASSUME NEW p \in Path, NEW i \in DOMAIN Renames, NEW j \in DOMAIN Renames
    PROVE  /\ ~(Under(p, Renames[i][1]) /\ Under(p, Renames[j][2]))
           /\ Under(p, Renames[i][1]) /\ Under(p, Renames[j][1]) => i = j
           /\ Under(p, Renames[i][2]) /\ Under(p, Renames[j][2]) => i = j
<1>1. /\ Apart(Renames[i][1], Renames[j][2])
      /\ i # j => Apart(Renames[i][1], Renames[j][1]) /\ Apart(Renames[i][2], Renames[j][2])
    BY RenamesAreApart
<1>2. /\ Renames[i][1] \in Path /\ Renames[i][2] \in Path
      /\ Renames[j][1] \in Path /\ Renames[j][2] \in Path
    BY RenamePaths
<1> QED
    BY <1>1, <1>2, NotUnderBoth

LEMMA VdbIsElsewhere ==
    ASSUME NEW p \in Ancestors(VdbInImage), NEW i \in DOMAIN Renames
    PROVE  p \in Path /\ ~Under(p, Renames[i][1]) /\ ~Under(p, Renames[i][2])
<1>1. p \in Path /\ Under(VdbInImage, p) /\ VdbInImage \in Path
    BY RenamesAreApart, AncestorIsAbove DEF Path
<1>2. Apart(VdbInImage, Renames[i][1]) /\ Apart(VdbInImage, Renames[i][2])
    BY RenamesAreApart
<1>3. Renames[i][1] \in Path /\ Renames[i][2] \in Path
    BY RenamePaths
<1> QED
    BY <1>1, <1>2, <1>3, UnderTransitive DEF Path, Apart

LEMMA NewPathOf ==
    ASSUME NEW p \in Path
    PROVE  /\ \A i \in DOMAIN Renames : IsRenamed(p, i) =>
                  NewPath(p) = Join(Renames[i][2], p, Renames[i][1])
           /\ (\A i \in DOMAIN Renames : ~IsRenamed(p, i)) => NewPath(p) = p
<1>1. ASSUME NEW i \in DOMAIN Renames, IsRenamed(p, i)
      PROVE  NewPath(p) = Join(Renames[i][2], p, Renames[i][1])
    <2>1. \A j \in DOMAIN Renames : IsRenamed(p, j) => j = i
        BY <1>1, OneRename DEF IsRenamed
    <2>2. (CHOOSE j \in DOMAIN Renames : IsRenamed(p, j)) = i
        BY <1>1, <2>1
    <2> QED
        BY <1>1, <2>2 DEF NewPath
<1> QED
    BY <1>1 DEF NewPath
----------------------------------------------------------------------------
(* Entries of walk are in the source, no two of them below one another,    *)
(* and the directories above them have been merged                         *)
Merged(path) ==
    /\ path \in DOMAIN tree /\ tree[path].kind = "dir"
    /\ Target(path) \in DOMAIN tree /\ tree[Target(path)].kind = "dir"
    /\ Equivalent(tree[path], tree[Target(path)])

WalkInv ==
    /\ walk \in Seq(SUBSET Path)
    /\ \A i \in DOMAIN walk : \A path \in walk[i] :
           /\ path \in DOMAIN tree /\ Under(path, From)
           /\ path = From \/ Merged(Parent(path))
    /\ \A i, j \in DOMAIN walk : \A path \in walk[i], other \in walk[j] :
           Under(path, other) => i = j /\ path = other
    /\ \A i \in DOMAIN walk : \A path, other \in walk[i] : Len(path) = Len(other) /\ Parent(path) = Parent(other)

Begun(i) == i < merge \/ (i = merge /\ step = "merge")
Stays(path) == path \in DOMAIN tree /\ tree[path] = input.image[path]
Gone(path) ==
    LET new == NewPath(path)
    IN  /\ path \notin DOMAIN tree /\ new \in DOMAIN tree
        /\ tree[new].kind = input.image[path].kind /\ tree[new].meta = input.image[path].meta
        /\ input.image[path].kind # "dir" => tree[new].from = path
\* every entry of the package is where it was or where it belongs
NothingMissing ==
    \A path \in DOMAIN input.image :
        Stays(path) \/ \E i \in DOMAIN Renames : IsRenamed(path, i) /\ Begun(i) /\ Gone(path)
Finished == \A path \in DOMAIN input.image, i \in DOMAIN Renames :
        (i < merge /\ IsRenamed(path, i)) => path \notin DOMAIN tree
NothingElse ==
    \A path \in DOMAIN tree :
        \/ path \in DOMAIN input.image /\ tree[path] = input.image[path]
        \/ \E old \in DOMAIN input.image, i \in DOMAIN Renames :
               /\ IsRenamed(old, i) /\ Begun(i) /\ path = Join(Renames[i][2], old, Renames[i][1])
               /\ old \notin DOMAIN tree /\ tree[path] = input.image[old]
        \/ path \in Ancestors(VdbInImage) /\ tree[path].from = << >>
Visited ==
    step = "merge" =>
        /\ IsRenamed(From, merge)
        /\ \A path \in DOMAIN tree : Under(path, From) =>
               Merged(path) \/ \E i \in DOMAIN walk : \E other \in walk[i] : Under(path, other)
BeforeVdb == {"extract", "contents", "vdb"}
MergeInv ==
    /\ input \in Inputs /\ IsTree(tree) /\ merge \in 1 .. Len(Renames) + 1 /\ step \in ExtractSteps
    /\ step = "extract" => tree = << >>
    /\ step \in {"contents", "vdb"} => tree = input.image
    /\ step \in {"audit", "requires"} \union BeforeVdb => merge = 1
    /\ step = "done" => ~input.host \/ merge > Len(Renames)
    /\ step = "merge" => merge \in DOMAIN Renames /\ WalkInv
ContentInv ==
    FilesAreLast /\ step \notin BeforeVdb \union {"failed"} =>
        NothingMissing /\ Finished /\ NothingElse /\ Visited
----------------------------------------------------------------------------
(* Trees                                                                   *)

LEMMA TreePaths ==
    ASSUME NEW image, IsTree(image), NEW p \in DOMAIN image, NEW d \in Path, d # << >>, Under(p, d)
    PROVE  /\ p \in Path /\ p # << >> /\ d \in DOMAIN image
           /\ p # d => image[d].kind = "dir"
<1>1. p \in Path \ {<< >>}
    BY DEF IsTree
<1>2. d \in Ancestors(p)
    BY <1>1, AncestorIsAbove DEF Path
<1> QED
    BY <1>1, <1>2 DEF IsTree

LEMMA IsTreeBy ==
    ASSUME NEW image, \A p \in DOMAIN image : p \in Path \ {<< >>} /\ image[p].kind \in Kinds,
           \A p \in DOMAIN image : \A d \in Path \ {<< >>, p} :
               Under(p, d) => d \in DOMAIN image /\ image[d].kind = "dir"
    PROVE  IsTree(image)
<1>1. ASSUME NEW p \in DOMAIN image, NEW d \in Ancestors(p) \ {<< >>, p}
      PROVE  d \in DOMAIN image /\ image[d].kind = "dir"
    <2>1. d \in Path /\ Under(p, d)
        BY AncestorIsAbove DEF Path
    <2> QED
        BY <2>1
<1> QED
    BY <1>1 DEF IsTree

\* Where an entry of the directory that is being renamed goes
LEMMA TargetOf ==
    ASSUME merge \in DOMAIN Renames, NEW p \in Path, Under(p, From)
    PROVE  /\ Target(p) \in Path \ {<< >>} /\ Under(Target(p), To) /\ ~Under(Target(p), From) /\ ~Under(p, To)
           /\ Join(From, Target(p), To) = p /\ Len(Target(p)) = Len(p)
           /\ p = From => Target(p) = To /\ Parent(Target(p)) = Parent(p)
           /\ p # From => /\ Parent(p) \in Path /\ Under(Parent(p), From)
                          /\ Parent(Target(p)) = Target(Parent(p))
           /\ \A q \in Path : Under(q, From) =>
                  /\ Under(p, q) <=> Under(Target(p), Target(q))
                  /\ Target(p) = Target(q) => p = q
           /\ \A x \in Path : Under(x, Target(p)) =>
                  /\ Join(From, x, To) \in Path /\ Under(Join(From, x, To), p)
                  /\ Target(Join(From, x, To)) = x
<1>1. /\ From \in Path \ {<< >>} /\ To \in Path \ {<< >>} /\ Len(From) = Len(To)
      /\ Len(To) \in Nat \ {0} /\ Parent(From) = Parent(To)
    BY RenamePaths DEF From, To
<1>2. /\ Target(p) \in Path /\ Under(Target(p), To) /\ Len(Target(p)) = Len(p)
      /\ Join(From, Target(p), To) = p
    BY <1>1, JoinOf, JoinBack DEF Path, Target
<1>3. Target(p) # << >>
    BY <1>1, <1>2 DEF Under
<1>4. ~Under(Target(p), From) /\ ~Under(p, To)
    BY <1>2, OneRename DEF From, To
<1>5. ASSUME p = From PROVE Target(p) = To /\ Parent(Target(p)) = Parent(p)
    BY <1>1, <1>5, JoinSelf DEF Path, Target
<1>6. ASSUME p # From
      PROVE  Parent(p) \in Path /\ Under(Parent(p), From) /\ Parent(Target(p)) = Target(Parent(p))
    BY <1>1, <1>6, JoinParent DEF Path, Target
<1>7. ASSUME NEW q \in Path, Under(q, From)
      PROVE  (Under(p, q) <=> Under(Target(p), Target(q))) /\ (Target(p) = Target(q) => p = q)
    <2>1. Under(p, q) <=> Under(Target(p), Target(q))
        BY <1>1, <1>7, JoinUnder DEF Path, Target
    <2>2. Join(From, Target(q), To) = q
        BY <1>1, <1>7, JoinBack DEF Path, Target
    <2> QED
        BY <1>2, <2>1, <2>2
<1>8. ASSUME NEW x \in Path, Under(x, Target(p))
      PROVE  /\ Join(From, x, To) \in Path /\ Under(Join(From, x, To), p)
             /\ Target(Join(From, x, To)) = x
    <2>1. Under(x, To)
        BY <1>1, <1>2, <1>8, UnderTransitive DEF Path
    <2>2. Join(From, x, To) \in Path /\ Target(Join(From, x, To)) = x
        BY <1>1, <2>1, JoinOf, JoinBack DEF Path, Target
    <2>3. Under(Join(From, x, To), Join(From, Target(p), To))
        BY <1>1, <1>2, <1>8, <2>1, JoinUnder DEF Path
    <2> QED
        BY <1>2, <2>2, <2>3
<1> QED
    BY <1>2, <1>3, <1>4, <1>5, <1>6, <1>7, <1>8

(* Moving an entry takes what is below it along, and leaves the rest       *)
LEMMA MoveOf ==
    ASSUME IsTree(tree), merge \in DOMAIN Renames,
           NEW p \in DOMAIN tree, Under(p, From), Target(p) \notin DOMAIN tree
    PROVE  /\ \A x \in DOMAIN tree : ~Under(x, p) => x \in DOMAIN Renamed(p) /\ Renamed(p)[x] = tree[x]
           /\ \A x \in DOMAIN tree : Under(x, p) =>
                  /\ x \notin DOMAIN Renamed(p)
                  /\ Target(x) \in DOMAIN Renamed(p) /\ Renamed(p)[Target(x)] = tree[x]
           /\ \A x \in DOMAIN Renamed(p) :
                  \/ x \in DOMAIN tree /\ ~Under(x, p)
                  \/ \E old \in DOMAIN tree : Under(old, p) /\ Under(old, From) /\ x = Target(old)
<1>1. p \in Path /\ From \in Path /\ To \in Path
    BY RenamePaths DEF IsTree, From, To
<1>2. DOMAIN Renamed(p) = (DOMAIN tree \ Moved(p)) \union {Target(below) : below \in Moved(p)}
    BY DEF Renamed
<1>3. \A x \in DOMAIN Renamed(p) :
          Renamed(p)[x] = IF Under(x, Target(p)) THEN tree[Join(From, x, To)] ELSE tree[x]
    BY DEF Renamed
<1>4. ASSUME NEW x \in DOMAIN tree, Under(x, p) PROVE x \in Path /\ Under(x, From) /\ x \in Moved(p)
    <2>1. x \in Path
        BY DEF IsTree
    <2> QED
        BY <1>1, <1>4, <2>1, UnderTransitive DEF Path, Moved
<1>5. ASSUME NEW x \in DOMAIN tree, ~Under(x, p)
      PROVE  x \in DOMAIN Renamed(p) /\ Renamed(p)[x] = tree[x]
    <2>1. ~Under(x, Target(p))
        BY <1>1, TargetOf, TreePaths
    <2>2. x \in DOMAIN Renamed(p)
        BY <1>2, <1>5 DEF Moved
    <2> QED
        BY <1>3, <2>1, <2>2
<1>6. ASSUME NEW x \in DOMAIN tree, Under(x, p)
      PROVE  /\ x \notin DOMAIN Renamed(p)
             /\ Target(x) \in DOMAIN Renamed(p) /\ Renamed(p)[Target(x)] = tree[x]
    <2>1. x \in Path /\ Under(x, From) /\ x \in Moved(p)
        BY <1>4, <1>6
    <2>2. \A below \in Moved(p) : x # Target(below)
        <3>1. \A below \in Moved(p) : below \in Path /\ Under(below, From)
            BY <1>4 DEF Moved
        <3>2. \A below \in Moved(p) : ~Under(Target(below), From)
            BY <3>1, TargetOf
        <3> QED
            BY <2>1, <3>2
    <2>3. x \notin DOMAIN Renamed(p) /\ Target(x) \in DOMAIN Renamed(p)
        BY <1>2, <2>1, <2>2
    <2>4. Under(Target(x), Target(p)) /\ Join(From, Target(x), To) = x
        BY <1>1, <1>6, <2>1, TargetOf
    <2> QED
        BY <1>3, <2>3, <2>4
<1>7. ASSUME NEW x \in DOMAIN Renamed(p)
      PROVE  \/ x \in DOMAIN tree /\ ~Under(x, p)
             \/ \E old \in DOMAIN tree : Under(old, p) /\ Under(old, From) /\ x = Target(old)
    BY <1>2, <1>4 DEF Moved
<1> QED
    BY <1>5, <1>6, <1>7

LEMMA MoveKeepsTree ==
    ASSUME IsTree(tree), merge \in DOMAIN Renames,
           NEW p \in DOMAIN tree, Under(p, From), Target(p) \notin DOMAIN tree,
           p = From \/ Merged(Parent(p))
    PROVE  IsTree(Renamed(p))
<1> DEFINE new == Renamed(p)
<1>a. /\ \A x \in DOMAIN tree : ~Under(x, p) => x \in DOMAIN new /\ new[x] = tree[x]
      /\ \A x \in DOMAIN tree : Under(x, p) => Target(x) \in DOMAIN new /\ new[Target(x)] = tree[x]
      /\ \A x \in DOMAIN new :
             \/ x \in DOMAIN tree /\ ~Under(x, p)
             \/ \E old \in DOMAIN tree : Under(old, p) /\ Under(old, From) /\ x = Target(old)
    BY MoveOf
<1> HIDE DEF new
<1>b. p \in Path \ {<< >>} /\ \A x \in DOMAIN tree : x \in Path \ {<< >>} /\ tree[x].kind \in Kinds
    BY DEF IsTree
<1>c. Target(p) \in Path \ {<< >>} /\ Under(Target(p), To) /\ From \in Path /\ To \in Path
    BY <1>b, TargetOf, RenamePaths DEF From, To
<1>1. ASSUME NEW x \in DOMAIN new
      PROVE  x \in Path \ {<< >>} /\ new[x].kind \in Kinds
    BY <1>a, <1>b, TargetOf
<1>2. ASSUME NEW x \in DOMAIN tree, ~Under(x, p), NEW d \in Path \ {<< >>, x}, Under(x, d)
      PROVE  d \in DOMAIN new /\ new[d].kind = "dir"
    <2>1. d \in DOMAIN tree /\ tree[d].kind = "dir"
        BY <1>2, TreePaths
    <2>2. ~Under(d, p)
        BY <1>2, <1>b, UnderTransitive DEF Path
    <2> QED
        BY <1>a, <2>1, <2>2
<1>3. ASSUME NEW d \in Path \ {<< >>}, Under(Target(p), d), d # Target(p)
      PROVE  d \in DOMAIN new /\ new[d].kind = "dir"
    <2>0. Parent(Target(p)) \in Path /\ Under(Parent(Target(p)), d)
        BY <1>3, <1>c, ParentIsUnder, ParentOf DEF Path
    <2>1. d \in DOMAIN tree /\ tree[d].kind = "dir"
        <3>1. CASE p = From
            <4>1. Under(Parent(p), d) /\ Parent(p) \in Path
                BY <1>b, <2>0, <3>1, TargetOf
            <4>2. Under(p, d) /\ p # d
                <5>1. Under(p, Parent(p)) /\ Len(Parent(p)) = Len(p) - 1 /\ Len(p) \in Nat
                    BY <1>b, ParentOf DEF Path
                <5>2. Under(p, d)
                    BY <1>b, <4>1, <5>1, UnderTransitive DEF Path
                <5>3. Len(d) <= Len(Parent(p)) /\ Len(d) \in Nat
                    BY <4>1, LenProperties DEF Under, Path
                <5> QED
                    BY <5>1, <5>2, <5>3
            <4> QED
                BY <4>2, TreePaths
        <3>2. CASE p # From
            <4>1. Parent(Target(p)) = Target(Parent(p)) /\ Merged(Parent(p))
                BY <1>b, <3>2, TargetOf
            <4>2. Parent(Target(p)) \in DOMAIN tree /\ tree[Parent(Target(p))].kind = "dir"
                BY <4>1 DEF Merged
            <4> QED
                BY <2>0, <4>2, TreePaths
        <3> QED
            BY <3>1, <3>2
    <2>2. ~Under(d, p)
        <3>1. SUFFICES ASSUME Under(d, p) PROVE FALSE
            OBVIOUS
        <3>2. Under(Target(p), From)
            BY <1>b, <1>c, <1>3, <3>1, UnderTransitive DEF Path
        <3> QED
            BY <1>b, <3>2, TargetOf
    <2> QED
        BY <1>a, <2>1, <2>2
<1>4. ASSUME NEW old \in DOMAIN tree, Under(old, p), Under(old, From),
             NEW d \in Path \ {<< >>, Target(old)}, Under(Target(old), d)
      PROVE  d \in DOMAIN new /\ new[d].kind = "dir"
    <2>0. /\ old \in Path /\ Target(old) \in Path /\ Under(Target(old), Target(p))
          /\ Len(d) \in Nat /\ Len(Target(p)) \in Nat
        <3>1. old \in Path /\ d \in Path
            BY <1>b
        <3>2. Target(old) \in Path /\ Under(Target(old), Target(p))
            BY <1>4, <1>b, <3>1, TargetOf
        <3> QED
            BY <1>c, <3>1, <3>2, LenProperties DEF Path
    <2>1. CASE Len(Target(p)) <= Len(d)
        <3>1. Under(d, Target(p))
            BY <1>4, <1>c, <2>0, <2>1, UnderBoth DEF Path
        <3> DEFINE dir == Join(From, d, To)
        <3>2. dir \in Path /\ Under(dir, p) /\ Target(dir) = d
            BY <1>b, <3>1, TargetOf
        <3> HIDE DEF dir
        <3>3. Under(dir, From)
            BY <1>b, <1>c, <3>2, UnderTransitive DEF Path
        <3>4. Under(old, dir) /\ old # dir
            BY <1>4, <2>0, <3>2, <3>3, TargetOf
        <3>5. dir # << >>
            BY <1>b, <3>2, EmptySeq DEF Under, Path
        <3>6. dir \in DOMAIN tree /\ tree[dir].kind = "dir"
            BY <3>2, <3>4, <3>5, TreePaths
        <3> QED
            BY <1>a, <3>2, <3>6
    <2>2. CASE Len(d) < Len(Target(p))
        <3>1. Under(Target(p), d)
            BY <1>4, <1>c, <2>0, <2>2, UnderBoth DEF Path
        <3> QED
            BY <1>3, <2>2, <3>1
    <2> QED
        BY <2>0, <2>1, <2>2
<1>5. \A x \in DOMAIN new : \A d \in Path \ {<< >>, x} : Under(x, d) => d \in DOMAIN new /\ new[d].kind = "dir"
    BY <1>a, <1>2, <1>4
<1>6. IsTree(new)
    BY <1>1, <1>5, IsTreeBy
<1> QED
    BY <1>6 DEF new
----------------------------------------------------------------------------
(* The lists of the walk                                                   *)

LEMMA FrontOf ==
    ASSUME NEW S, NEW w \in Seq(S), w # << >>
    PROVE  /\ Len(w) \in Nat \ {0} /\ DOMAIN w = 1 .. Len(w)
           /\ Last(w) = w[Len(w)] /\ Last(w) \in S
           /\ Front(w) \in Seq(S) /\ DOMAIN Front(w) = 1 .. Len(w) - 1 /\ Len(Front(w)) = Len(w) - 1
           /\ \A i \in 1 .. Len(w) - 1 : Front(w)[i] = w[i]
<1>1. Len(w) \in Nat \ {0} /\ DOMAIN w = 1 .. Len(w)
    BY EmptySeq, LenProperties
<1>2. Len(w) - 1 \in 0 .. Len(w) /\ Len(w) \in 1 .. Len(w)
    BY <1>1
<1>3. Last(w) = w[Len(w)] /\ Last(w) \in S
    BY <1>2, ElementOfSeq DEF Last
<1>4. /\ SubSeq(w, 1, Len(w) - 1) \in Seq(S) /\ Len(SubSeq(w, 1, Len(w) - 1)) = Len(w) - 1
      /\ \A i \in 1 .. Len(w) - 1 : SubSeq(w, 1, Len(w) - 1)[i] = w[i]
    BY <1>2, PrefixOf
<1>5. DOMAIN SubSeq(w, 1, Len(w) - 1) = 1 .. Len(w) - 1
    BY <1>4, LenProperties
<1> QED
    BY <1>1, <1>3, <1>4, <1>5 DEF Front

LEMMA AppendOf ==
    ASSUME NEW S, NEW w \in Seq(S), NEW e \in S
    PROVE  /\ Append(w, e) \in Seq(S) /\ DOMAIN Append(w, e) = 1 .. Len(w) + 1 /\ Len(w) \in Nat
           /\ \A i \in 1 .. Len(w) : Append(w, e)[i] = w[i]
           /\ Append(w, e)[Len(w) + 1] = e
           /\ Front(Append(w, e)) = w
<1> DEFINE v == Append(w, e)
<1>1. /\ v \in Seq(S) /\ v # << >> /\ Len(v) = Len(w) + 1
      /\ \A i \in 1 .. Len(w) : v[i] = w[i]
      /\ v[Len(w) + 1] = e
    BY AppendProperties
<1>2. Len(w) \in Nat
    BY LenProperties
<1> HIDE DEF v
<1>3. /\ DOMAIN v = 1 .. Len(v) /\ Front(v) \in Seq(S) /\ Len(Front(v)) = Len(v) - 1
      /\ \A i \in 1 .. Len(v) - 1 : Front(v)[i] = v[i]
    BY <1>1, FrontOf
<1>4. Len(v) - 1 = Len(w)
    BY <1>1, <1>2
<1>5. Front(v) = w
    BY <1>1, <1>3, <1>4, SeqEqual
<1> QED
    BY <1>1, <1>2, <1>3, <1>5 DEF v

(* What is left of the lists when an entry of the last is taken, and when  *)
(* the entries of a directory are put on top                               *)
LEMMA ListsOf ==
    ASSUME walk \in Seq(SUBSET Path), walk # << >>, NEW p
    PROVE  /\ Len(walk) \in Nat \ {0} /\ DOMAIN walk = 1 .. Len(walk) /\ Last(walk) = walk[Len(walk)]
           /\ Front(walk) \in Seq(SUBSET Path) /\ DOMAIN Front(walk) = 1 .. Len(walk) - 1
           /\ \A i \in 1 .. Len(walk) - 1 : Front(walk)[i] = walk[i]
           /\ Rest(p) \in Seq(SUBSET Path) /\ DOMAIN Rest(p) = 1 .. Len(walk) /\ Len(Rest(p)) = Len(walk)
           /\ \A i \in 1 .. Len(walk) - 1 : Rest(p)[i] = walk[i]
           /\ Rest(p)[Len(walk)] = walk[Len(walk)] \ {p}
           /\ Front(Rest(p)) = Front(walk)
<1>1. /\ Len(walk) \in Nat \ {0} /\ DOMAIN walk = 1 .. Len(walk)
      /\ Last(walk) = walk[Len(walk)] /\ Last(walk) \in SUBSET Path
      /\ Front(walk) \in Seq(SUBSET Path) /\ DOMAIN Front(walk) = 1 .. Len(walk) - 1
      /\ Len(Front(walk)) = Len(walk) - 1
      /\ \A i \in 1 .. Len(walk) - 1 : Front(walk)[i] = walk[i]
    BY FrontOf
<1>2. Last(walk) \ {p} \in SUBSET Path
    BY <1>1
<1>3. /\ Rest(p) \in Seq(SUBSET Path) /\ DOMAIN Rest(p) = 1 .. Len(Front(walk)) + 1
      /\ \A i \in 1 .. Len(Front(walk)) : Rest(p)[i] = Front(walk)[i]
      /\ Rest(p)[Len(Front(walk)) + 1] = Last(walk) \ {p}
      /\ Front(Rest(p)) = Front(walk)
    <2> DEFINE front == Front(walk)
               last == Last(walk) \ {p}
    <2>1. front \in Seq(SUBSET Path) /\ last \in SUBSET Path
        BY <1>1, <1>2
    <2>2. Rest(p) = Append(front, last)
        BY DEF Rest
    <2> HIDE DEF front, last
    <2>3. /\ Append(front, last) \in Seq(SUBSET Path) /\ DOMAIN Append(front, last) = 1 .. Len(front) + 1
          /\ \A i \in 1 .. Len(front) : Append(front, last)[i] = front[i]
          /\ Append(front, last)[Len(front) + 1] = last
          /\ Front(Append(front, last)) = front
        BY <2>1, AppendOf
    <2> QED
        BY <2>2, <2>3 DEF front, last
<1>4. Len(Front(walk)) + 1 = Len(walk)
    BY <1>1
<1>5. Len(Rest(p)) = Len(walk)
    BY <1>1, <1>3, <1>4, LenProperties
<1> QED
    BY <1>1, <1>3, <1>4, <1>5

\* A directory that has been merged stays merged while others are moved
LEMMA MergedStays ==
    ASSUME IsTree(tree), merge \in DOMAIN Renames, UNCHANGED merge,
           NEW p \in DOMAIN tree, Under(p, From), Target(p) \notin DOMAIN tree, tree' = Renamed(p),
           NEW q \in Path, Under(q, From), Merged(q), ~Under(q, p)
    PROVE  Merged(q)'
<1>1. /\ q \in DOMAIN tree /\ tree[q].kind = "dir"
      /\ Target(q) \in DOMAIN tree /\ tree[Target(q)].kind = "dir"
      /\ Equivalent(tree[q], tree[Target(q)])
    BY DEF Merged
<1>2. p \in Path /\ From \in Path /\ Target(q) \in Path /\ ~Under(Target(q), From)
    BY TargetOf, RenamePaths DEF From, IsTree
<1>3. ~Under(Target(q), p)
    BY <1>2, UnderTransitive DEF Path
<1>4. /\ q \in DOMAIN tree' /\ tree'[q] = tree[q]
      /\ Target(q) \in DOMAIN tree' /\ tree'[Target(q)] = tree[Target(q)]
    BY <1>1, <1>3, MoveOf
<1>5. Target(q)' = Target(q)
    BY DEF Target, From, To
<1> QED
    BY <1>1, <1>4, <1>5 DEF Merged, Equivalent

LEMMA WalkShrinks ==
    ASSUME WalkInv, UNCHANGED merge, walk' \in Seq(SUBSET Path),
           \A i \in DOMAIN walk' : i \in DOMAIN walk /\ walk'[i] \subseteq walk[i],
           \A i \in DOMAIN walk' : \A q \in walk'[i] :
               q \in DOMAIN tree' /\ (q = From \/ Merged(Parent(q))')
    PROVE  WalkInv'
<1>1. From' = From
    BY DEF From
<1>2. /\ \A i \in DOMAIN walk' : \A q \in walk'[i] :
             /\ q \in DOMAIN tree' /\ Under(q, From')
             /\ q = From' \/ Merged(Parent(q))'
    BY <1>1 DEF WalkInv
<1>3. /\ \A i, j \in DOMAIN walk' : \A path \in walk'[i], other \in walk'[j] :
             Under(path, other) => i = j /\ path = other
      /\ \A i \in DOMAIN walk' : \A path, other \in walk'[i] :
             Len(path) = Len(other) /\ Parent(path) = Parent(other)
    BY DEF WalkInv
<1> QED
    BY <1>2, <1>3 DEF WalkInv

LEMMA MoveEntryWalk ==
    ASSUME MergeInv, step = "merge", walk # << >>,
           NEW p \in DOMAIN tree, IsFirst(p), Target(p) \notin DOMAIN tree, tree' = Renamed(p),
           walk' = SkipCurrentDir(Yielded(p)), UNCHANGED merge
    PROVE  /\ IsTree(tree') /\ WalkInv'
           /\ Under(p, From) /\ (p = From \/ Merged(Parent(p))) /\ p \in walk[Len(walk)]
           /\ walk' = IF tree[p].kind = "dir" THEN Rest(p) ELSE Front(walk)
<1>1. /\ IsTree(tree) /\ merge \in DOMAIN Renames /\ WalkInv /\ walk \in Seq(SUBSET Path)
    BY DEF MergeInv, WalkInv
<1>2. /\ Len(walk) \in Nat \ {0} /\ DOMAIN walk = 1 .. Len(walk) /\ Last(walk) = walk[Len(walk)]
      /\ Front(walk) \in Seq(SUBSET Path) /\ DOMAIN Front(walk) = 1 .. Len(walk) - 1
      /\ \A i \in 1 .. Len(walk) - 1 : Front(walk)[i] = walk[i]
      /\ Rest(p) \in Seq(SUBSET Path) /\ DOMAIN Rest(p) = 1 .. Len(walk)
      /\ \A i \in 1 .. Len(walk) - 1 : Rest(p)[i] = walk[i]
      /\ Rest(p)[Len(walk)] = walk[Len(walk)] \ {p}
      /\ Front(Rest(p)) = Front(walk)
    BY <1>1, ListsOf
<1>3. p \in walk[Len(walk)] /\ Len(walk) \in DOMAIN walk
    BY <1>2 DEF IsFirst
<1>4. Under(p, From) /\ (p = From \/ Merged(Parent(p))) /\ p \in Path /\ From \in Path
    BY <1>1, <1>3, RenamePaths DEF WalkInv, IsTree, From
<1>5. walk' = IF tree[p].kind = "dir" THEN Rest(p) ELSE Front(walk)
    <2>1. CASE tree[p].kind = "dir"
        <3>1. Children(p) \in SUBSET Path
            BY <1>1 DEF Children, IsTree
        <3>2. Front(Append(Rest(p), Children(p))) = Rest(p)
            BY <1>2, <3>1, AppendOf
        <3> QED
            BY <2>1, <3>2 DEF SkipCurrentDir, Yielded
    <2>2. CASE tree[p].kind # "dir"
        BY <1>2, <2>2 DEF SkipCurrentDir, Yielded
    <2> QED
        BY <2>1, <2>2
<1>6. IsTree(tree')
    BY <1>1, <1>4, MoveKeepsTree
<1>7. walk' \in Seq(SUBSET Path)
    BY <1>2, <1>5
<1>8. ASSUME NEW i \in DOMAIN walk' PROVE i \in DOMAIN walk /\ walk'[i] \subseteq walk[i] /\ p \notin walk'[i]
    <2>1. \A j \in 1 .. Len(walk) - 1 : p \notin walk[j]
        <3>1. Under(p, p)
            BY <1>4, UnderItself DEF Path
        <3> QED
            BY <1>1, <1>2, <1>3, <3>1 DEF WalkInv
    <2>2. CASE tree[p].kind = "dir"
        BY <1>2, <1>5, <2>1, <2>2
    <2>3. CASE tree[p].kind # "dir"
        BY <1>2, <1>5, <2>1, <2>3
    <2> QED
        BY <2>2, <2>3
<1>9. ASSUME NEW i \in DOMAIN walk', NEW q \in walk'[i]
      PROVE  q \in DOMAIN tree' /\ (q = From \/ Merged(Parent(q))')
    <2>1. /\ q \in walk[i] /\ i \in DOMAIN walk /\ q # p
          /\ q \in DOMAIN tree /\ Under(q, From) /\ (q = From \/ Merged(Parent(q)))
        BY <1>1, <1>8 DEF WalkInv
    <2>2. ~Under(q, p) /\ ~Under(p, q)
        BY <1>1, <1>3, <2>1 DEF WalkInv
    <2>3. q \in DOMAIN tree' /\ q \in Path
        BY <1>1, <1>4, <2>1, <2>2, MoveOf DEF IsTree
    <2>4. ASSUME q # From PROVE Merged(Parent(q))'
        <3>1. Parent(q) \in Path /\ Under(Parent(q), From) /\ Under(q, Parent(q))
            BY <1>1, <1>4, <2>1, <2>3, <2>4, TargetOf, TreePaths, ParentOf DEF Path, IsTree
        <3>2. ~Under(Parent(q), p)
            BY <1>4, <2>2, <2>3, <3>1, UnderTransitive DEF Path
        <3> QED
            BY <1>1, <1>4, <2>1, <2>4, <3>1, <3>2, MergedStays
    <2> QED
        BY <2>3, <2>4
<1>10. WalkInv'
    BY <1>1, <1>7, <1>8, <1>9, WalkShrinks
<1> QED
    BY <1>3, <1>4, <1>5, <1>6, <1>10

LEMMA MergeEntryWalk ==
    ASSUME MergeInv, step = "merge", walk # << >>,
           NEW p \in DOMAIN tree, IsFirst(p), Merged(p), walk' = Yielded(p), UNCHANGED <<tree, merge>>
    PROVE  /\ WalkInv' /\ Under(p, From) /\ p \in walk[Len(walk)]
           /\ \A i \in DOMAIN walk : \A q \in walk[i] : q = p \/ (i \in DOMAIN walk' /\ q \in walk'[i])
           /\ \E i \in DOMAIN walk' : walk'[i] = Children(p)
<1>1. /\ IsTree(tree) /\ merge \in DOMAIN Renames /\ WalkInv /\ walk \in Seq(SUBSET Path)
    BY DEF MergeInv, WalkInv
<1>2. /\ Len(walk) \in Nat \ {0} /\ DOMAIN walk = 1 .. Len(walk) /\ Last(walk) = walk[Len(walk)]
      /\ Rest(p) \in Seq(SUBSET Path) /\ DOMAIN Rest(p) = 1 .. Len(walk) /\ Len(Rest(p)) = Len(walk)
      /\ \A i \in 1 .. Len(walk) - 1 : Rest(p)[i] = walk[i]
      /\ Rest(p)[Len(walk)] = walk[Len(walk)] \ {p}
    BY <1>1, ListsOf
<1> DEFINE n == Len(walk)
           children == Children(p)
<1>3. /\ children \in SUBSET Path
      /\ \A c \in children : c \in DOMAIN tree /\ c # << >> /\ Parent(c) = p
    BY <1>1 DEF Children, IsTree
<1>4. walk' = Append(Rest(p), children)
    BY DEF Yielded, Merged
<1> HIDE DEF children
<1>5. /\ walk' \in Seq(SUBSET Path) /\ DOMAIN walk' = 1 .. n + 1
      /\ \A i \in 1 .. n : walk'[i] = Rest(p)[i]
      /\ walk'[n + 1] = children
    BY <1>2, <1>3, <1>4, AppendOf
<1>6. p \in walk[n] /\ n \in DOMAIN walk /\ p \in Path /\ From \in Path
    BY <1>1, <1>2, RenamePaths DEF IsFirst, IsTree, From
<1>7. Under(p, From) /\ (p = From \/ Merged(Parent(p)))
    BY <1>1, <1>6 DEF WalkInv
<1>8. \A j \in 1 .. n - 1 : p \notin walk[j]
    <2>1. Under(p, p)
        BY <1>6, UnderItself DEF Path
    <2> QED
        BY <1>1, <1>2, <1>6, <2>1 DEF WalkInv
<1>9. \A i \in 1 .. n : i \in DOMAIN walk /\ walk'[i] = walk[i] \ {p}
    BY <1>2, <1>5, <1>8
<1>10. ASSUME NEW c \in children
       PROVE  /\ c \in Path /\ Under(c, p) /\ c # p /\ Len(c) = Len(p) + 1 /\ Len(p) \in Nat /\ Under(c, From)
              /\ c # From /\ c \in DOMAIN tree /\ Parent(c) = p
    <2>1. c \in Path /\ c # << >> /\ Parent(c) = p /\ c \in DOMAIN tree
        BY <1>3
    <2>2. Len(p) = Len(c) - 1 /\ Under(c, p) /\ Len(c) \in Nat \ {0} /\ Len(p) \in Nat /\ Len(From) \in Nat
        BY <1>6, <2>1, ParentOf, LenProperties DEF Path
    <2>3. Under(c, From)
        BY <1>6, <1>7, <2>1, <2>2, UnderTransitive DEF Path
    <2>4. Len(From) <= Len(p)
        BY <1>7 DEF Under
    <2> QED
        BY <2>1, <2>2, <2>3, <2>4
<1>11. From' = From /\ \A q : Merged(q)' <=> Merged(q)
    BY DEF From, Merged, Target, To
<1>12. ASSUME NEW i \in DOMAIN walk', NEW q \in walk'[i]
       PROVE  /\ q \in DOMAIN tree /\ Under(q, From) /\ q \in Path
              /\ q = From \/ Merged(Parent(q))
    <2>1. CASE i = n + 1
        BY <1>5, <1>10, <2>1
    <2>2. CASE i \in 1 .. n
        BY <1>1, <1>9, <2>2 DEF WalkInv, IsTree
    <2> QED
        BY <1>2, <1>5, <2>1, <2>2
<1>13. ASSUME NEW i \in 1 .. n, NEW q \in walk'[i], NEW c \in children
       PROVE  ~Under(q, c) /\ ~Under(c, q)
    <2>1. q \in walk[i] /\ q # p /\ i \in DOMAIN walk /\ q \in Path
        BY <1>1, <1>9 DEF WalkInv, IsTree
    <2>2. ~Under(q, p) /\ ~Under(p, q)
        BY <1>1, <1>6, <2>1 DEF WalkInv
    <2>3. ~Under(q, c)
        BY <1>6, <1>10, <2>1, <2>2, UnderTransitive DEF Path
    <2>4. ASSUME Under(c, q) PROVE FALSE
        <3>1. c # q
            BY <1>10, <2>2
        <3>2. Under(Parent(c), q)
            BY <1>10, <2>1, <2>4, <3>1, ParentIsUnder DEF Path
        <3> QED
            BY <1>10, <2>2, <3>2
    <2> QED
        BY <2>3, <2>4
<1>14. ASSUME NEW c \in children, NEW d \in children, Under(c, d) PROVE c = d
    BY <1>10, <1>14, UnderSameLength DEF Path
<1>15. ASSUME NEW i \in DOMAIN walk', NEW j \in DOMAIN walk', NEW q \in walk'[i], NEW r \in walk'[j], Under(q, r)
       PROVE  i = j /\ q = r
    <2>1. CASE i \in 1 .. n /\ j \in 1 .. n
        BY <1>1, <1>9, <1>15, <2>1 DEF WalkInv
    <2>2. CASE i = n + 1 /\ j = n + 1
        BY <1>5, <1>14, <1>15, <2>2
    <2>3. CASE i \in 1 .. n /\ j = n + 1
        BY <1>5, <1>13, <1>15, <2>3
    <2>4. CASE i = n + 1 /\ j \in 1 .. n
        BY <1>5, <1>13, <1>15, <2>4
    <2>5. i \in 1 .. n + 1 /\ j \in 1 .. n + 1 /\ n \in Nat
        BY <1>2, <1>5
    <2>6. (i \in 1 .. n \/ i = n + 1) /\ (j \in 1 .. n \/ j = n + 1)
        BY <2>5
    <2> QED
        BY <2>1, <2>2, <2>3, <2>4, <2>6
<1>16. ASSUME NEW i \in DOMAIN walk', NEW q \in walk'[i], NEW r \in walk'[i]
       PROVE  Len(q) = Len(r) /\ Parent(q) = Parent(r)
    <2>1. CASE i = n + 1
        BY <1>5, <1>10, <2>1
    <2>2. CASE i \in 1 .. n
        BY <1>1, <1>9, <2>2 DEF WalkInv
    <2> QED
        BY <1>2, <1>5, <2>1, <2>2
<1>17. WalkInv'
    BY <1>5, <1>11, <1>12, <1>15, <1>16 DEF WalkInv
<1>18. \A i \in DOMAIN walk : \A q \in walk[i] : q = p \/ (i \in DOMAIN walk' /\ q \in walk'[i])
    BY <1>2, <1>5, <1>9
<1>19. n + 1 \in DOMAIN walk' /\ walk'[n + 1] = Children(p)
    BY <1>2, <1>5 DEF children
<1> QED
    BY <1>6, <1>7, <1>17, <1>18, <1>19

LEMMA VdbDirKeepsTree ==
    ASSUME input \in Inputs, tree = input.image
    PROVE  /\ IsTree(WithVdbDir)
           /\ \A x \in DOMAIN tree : x \in DOMAIN WithVdbDir /\ WithVdbDir[x] = tree[x]
           /\ \A x \in DOMAIN WithVdbDir :
                  \/ x \in DOMAIN tree
                  \/ x \in Ancestors(VdbInImage) /\ WithVdbDir[x].from = << >>
<1> DEFINE more == Ancestors(VdbInImage) \ {<< >>}
           new == Grown(more)
<1>1. /\ IsTree(tree) /\ \A d \in Ancestors(VdbInImage) \intersect DOMAIN tree : tree[d].kind = "dir"
      /\ VdbInImage \in Path
    BY InputsAreFaithful, RenamesAreApart
<1>2. /\ DOMAIN new = DOMAIN tree \union more
      /\ \A x \in DOMAIN tree : x \in DOMAIN new /\ new[x] = tree[x]
      /\ \A x \in more \ DOMAIN tree : new[x].kind = "dir" /\ new[x].from = << >>
    BY DEF Grown, Entry
<1>3. WithVdbDir = new \/ WithVdbDir = tree
    BY DEF WithVdbDir
<1>4. \A x : x \in more <=> x \in Path /\ Under(VdbInImage, x) /\ x # << >>
    BY <1>1, AncestorIsAbove DEF Path
<1>5. \A x \in more : x \in Ancestors(VdbInImage)
    OBVIOUS
<1> HIDE DEF new, more
<1>6. \A x \in more : x \in Path \ {<< >>} /\ new[x].kind = "dir" /\ x \in DOMAIN new
    <2>1. ASSUME NEW x \in more PROVE new[x].kind = "dir"
        BY <1>1, <1>2, <1>5
    <2> QED
        BY <1>2, <1>4, <2>1
<1>7. \A x \in DOMAIN new : x \in Path \ {<< >>} /\ new[x].kind \in Kinds
    BY <1>1, <1>2, <1>6 DEF IsTree, Kinds
<1>8. ASSUME NEW x \in DOMAIN new, NEW d \in Path \ {<< >>, x}, Under(x, d)
      PROVE  d \in DOMAIN new /\ new[d].kind = "dir"
    <2>1. CASE x \in DOMAIN tree
        <3>1. d \in DOMAIN tree /\ tree[d].kind = "dir"
            BY <1>1, <1>8, <2>1, TreePaths
        <3> QED
            BY <1>2, <3>1
    <2>2. CASE x \in more
        <3>1. x \in Path /\ Under(VdbInImage, x)
            BY <1>4, <2>2
        <3>2. Under(VdbInImage, d)
            BY <1>1, <1>8, <3>1, UnderTransitive DEF Path
        <3>3. d \in more
            BY <1>4, <3>2
        <3> QED
            BY <1>6, <3>3
    <2> QED
        BY <1>2, <2>1, <2>2
<1>9. IsTree(new)
    BY <1>7, <1>8, IsTreeBy
<1>10. \A x \in DOMAIN new : x \in DOMAIN tree \/ (x \in Ancestors(VdbInImage) /\ new[x].from = << >>)
    BY <1>2, <1>5
<1>11. CASE WithVdbDir = new
    BY <1>2, <1>9, <1>10, <1>11
<1>12. CASE WithVdbDir = tree
    BY <1>1, <1>12
<1> QED
    BY <1>3, <1>11, <1>12

LEMMA RemovedTree ==
    ASSUME MergeInv, RemoveSource
    PROVE  /\ IsTree(tree') /\ merge \in DOMAIN Renames /\ merge' = merge + 1 /\ step' = "rename"
           /\ \A x \in DOMAIN tree : ~Under(x, From) => x \in DOMAIN tree' /\ tree'[x] = tree[x]
           /\ \A x \in DOMAIN tree' : x \in DOMAIN tree /\ ~Under(x, From) /\ tree'[x] = tree[x]
<1>1. /\ step = "merge" /\ merge \in DOMAIN Renames /\ IsTree(tree) /\ merge' = merge + 1 /\ step' = "rename"
      /\ tree' = [path \in {path \in DOMAIN tree : ~Under(path, From)} |-> tree[path]]
    BY DEF MergeInv, RemoveSource
<1>2. /\ \A x \in DOMAIN tree : ~Under(x, From) => x \in DOMAIN tree' /\ tree'[x] = tree[x]
      /\ \A x \in DOMAIN tree' : x \in DOMAIN tree /\ ~Under(x, From) /\ tree'[x] = tree[x]
    BY <1>1
<1>3. ASSUME NEW x \in DOMAIN tree', NEW d \in Path \ {<< >>, x}, Under(x, d)
      PROVE  d \in DOMAIN tree' /\ tree'[d].kind = "dir"
    <2>1. d \in DOMAIN tree /\ tree[d].kind = "dir" /\ x \in Path
        BY <1>1, <1>2, <1>3, TreePaths
    <2>2. From \in Path
        BY <1>1, RenamePaths DEF From
    <2>3. ~Under(d, From)
        BY <1>2, <1>3, <2>1, <2>2, UnderTransitive DEF Path
    <2> QED
        BY <1>2, <2>1, <2>3
<1>4. \A x \in DOMAIN tree' : x \in Path \ {<< >>} /\ tree'[x].kind \in Kinds
    BY <1>1, <1>2 DEF IsTree
<1>5. IsTree(tree')
    BY <1>3, <1>4, IsTreeBy
<1> QED
    BY <1>1, <1>2, <1>5

LEMMA InitMerge == ExtractInit => MergeInv
<1>1. IsTree(<< >>)
    <2>1. DOMAIN << >> = {}
        OBVIOUS
    <2> QED
        BY <2>1 DEF IsTree
<1>2. Len(Renames) \in Nat
    BY RenamesAreApart, LenProperties
<1> QED
    BY <1>1, <1>2 DEF ExtractInit, MergeInv, ExtractSteps, BeforeVdb

LEMMA NextRenameWalk ==
    ASSUME MergeInv, NextRename, step' = "merge"
    PROVE  /\ merge \in DOMAIN Renames /\ From \in DOMAIN tree /\ tree[From].kind = "dir" /\ input.host
           /\ walk' = <<{From}>> /\ UNCHANGED <<merge, tree, input>> /\ WalkInv'
<1>1. /\ step = "rename" /\ input.host /\ ~(merge > Len(Renames))
      /\ From \in DOMAIN tree /\ tree[From].kind = "dir"
      /\ walk' = <<{From}>> /\ UNCHANGED <<merge, tree, input>>
    BY DEF NextRename
<1>2. merge \in DOMAIN Renames
    <2>1. DOMAIN Renames = 1 .. Len(Renames) /\ Len(Renames) \in Nat
        BY RenamesAreApart, LenProperties
    <2> QED
        BY <1>1, <2>1 DEF MergeInv
<1>3. From \in Path /\ Under(From, From) /\ From' = From
    <2>1. From \in Path
        BY <1>2, RenamePaths DEF From
    <2> QED
        BY <1>1, <2>1, UnderItself DEF Path, From
<1>4. walk' \in Seq(SUBSET Path) /\ DOMAIN walk' = {1} /\ walk'[1] = {From}
    BY <1>1, <1>3
<1>5. WalkInv'
    BY <1>1, <1>3, <1>4 DEF WalkInv
<1> QED
    BY <1>1, <1>2, <1>5

LEMMA LeaveDirWalk ==
    ASSUME MergeInv, LeaveDir
    PROVE  /\ WalkInv'
           /\ \A i \in DOMAIN walk : \A q \in walk[i] : i \in DOMAIN walk' /\ q \in walk'[i]
<1>1. /\ step = "merge" /\ WalkInv /\ walk \in Seq(SUBSET Path) /\ walk # << >> /\ Last(walk) = {}
      /\ walk' = Front(walk) /\ UNCHANGED <<tree, merge>>
    BY DEF MergeInv, LeaveDir, WalkInv
<1>2. /\ Len(walk) \in Nat \ {0} /\ DOMAIN walk = 1 .. Len(walk) /\ Last(walk) = walk[Len(walk)]
      /\ Front(walk) \in Seq(SUBSET Path) /\ DOMAIN Front(walk) = 1 .. Len(walk) - 1
      /\ \A i \in 1 .. Len(walk) - 1 : Front(walk)[i] = walk[i]
    BY <1>1, ListsOf
<1>3. \A i \in DOMAIN walk' : i \in DOMAIN walk /\ walk'[i] \subseteq walk[i]
    BY <1>1, <1>2
<1>4. \A q : Merged(q)' <=> Merged(q)
    BY <1>1 DEF From, Merged, Target, To
<1>5. \A i \in DOMAIN walk' : \A q \in walk'[i] : q \in DOMAIN tree' /\ (q = From \/ Merged(Parent(q))')
    BY <1>1, <1>3, <1>4 DEF WalkInv
<1>6. WalkInv'
    BY <1>1, <1>2, <1>3, <1>5, WalkShrinks
<1>7. ASSUME NEW i \in DOMAIN walk, NEW q \in walk[i] PROVE i \in DOMAIN walk' /\ q \in walk'[i]
    BY <1>1, <1>2
<1> QED
    BY <1>6, <1>7

LEMMA StepMerge == MergeInv /\ [ExtractNext]_extractVars => MergeInv'
<1> SUFFICES ASSUME MergeInv, [ExtractNext]_extractVars PROVE MergeInv'
    OBVIOUS
<1>a. Len(Renames) \in Nat /\ DOMAIN Renames = 1 .. Len(Renames)
    BY RenamesAreApart, LenProperties
<1>1. ASSUME UNCHANGED <<input, tree, merge>>, step' \in ExtractSteps \ {"extract", "merge"},
             \/ step' = "vdb" /\ step = "contents"
             \/ step' = "requires" /\ step = "audit"
             \/ step' = "failed"
             \/ step' = "rename"
             \/ step' = "done" /\ (~input.host \/ merge > Len(Renames))
             \/ step' = "audit" /\ step = "audit"
      PROVE  MergeInv'
    BY <1>1 DEF MergeInv, BeforeVdb
<1>2. CASE UNCHANGED extractVars
    <2>1. WalkInv' <=> WalkInv
        BY <1>2 DEF extractVars, WalkInv, Merged, From, To, Target
    <2> QED
        BY <1>2, <2>1 DEF extractVars, MergeInv
<1>3. CASE ExtractImage
    <2>1. IsTree(input.image)
        BY InputsAreFaithful DEF MergeInv
    <2> QED
        BY <1>3, <2>1 DEF ExtractImage, MergeInv, BeforeVdb, ExtractSteps
<1>4. CASE GenerateContents
    BY <1>1, <1>4 DEF GenerateContents, ExtractSteps
<1>5. CASE CreateSparseVdb \/ CreateInitialVdb
    <2>1. /\ tree' = WithVdbDir /\ UNCHANGED <<input, merge>> /\ step = "vdb"
          /\ step' \in {"rename", "audit", "failed"}
        BY <1>5 DEF CreateSparseVdb, CreateInitialVdb
    <2>2. merge = 1 /\ tree = input.image /\ input \in Inputs
        BY <2>1 DEF MergeInv, BeforeVdb
    <2>3. IsTree(tree')
        BY <2>1, <2>2, VdbDirKeepsTree
    <2> QED
        BY <2>1, <2>2, <2>3 DEF MergeInv, BeforeVdb, ExtractSteps
<1>6. CASE RunHook
    BY <1>1, <1>6 DEF RunHook, ExtractSteps
<1>7. CASE HookNotImplemented
    BY <1>1, <1>7 DEF HookNotImplemented, ExtractSteps
<1>8. CASE HooksReturn
    BY <1>1, <1>8 DEF HooksReturn, ExtractSteps
<1>9. CASE WriteRequires
    BY <1>1, <1>9 DEF WriteRequires, ExtractSteps
<1>10. CASE NextRename
    <2>1. CASE step' = "merge"
        <3>1. merge \in DOMAIN Renames /\ UNCHANGED <<merge, tree, input>> /\ WalkInv'
            BY <1>10, <2>1, NextRenameWalk
        <3> QED
            BY <2>1, <3>1 DEF MergeInv, BeforeVdb, ExtractSteps
    <2>2. CASE step' = "done"
        BY <1>1, <1>10, <2>2 DEF NextRename, ExtractSteps
    <2>3. CASE step' = "rename"
        <3>1. UNCHANGED <<input, tree>> /\ merge' = merge + 1 /\ ~(merge > Len(Renames))
            BY <1>10, <2>3 DEF NextRename
        <3>2. merge' \in 1 .. Len(Renames) + 1
            BY <1>a, <3>1 DEF MergeInv
        <3> QED
            BY <2>3, <3>1, <3>2 DEF MergeInv, BeforeVdb, ExtractSteps
    <2>4. step' \in {"merge", "done", "rename"}
        BY <1>10 DEF NextRename
    <2> QED
        BY <2>1, <2>2, <2>3, <2>4
<1>11. CASE MoveEntry
    <2>1. /\ step = "merge" /\ step' = step /\ walk # << >> /\ UNCHANGED <<input, merge>>
        BY <1>11 DEF MoveEntry
    <2>2. PICK p \in DOMAIN tree : /\ IsFirst(p) /\ Target(p) \notin DOMAIN tree /\ tree' = Renamed(p)
                                   /\ walk' = SkipCurrentDir(Yielded(p))
        BY <1>11 DEF MoveEntry
    <2>3. IsTree(tree') /\ WalkInv'
        BY <2>1, <2>2, MoveEntryWalk
    <2> QED
        BY <2>1, <2>3 DEF MergeInv, BeforeVdb
<1>12. CASE MergeEntry
    <2>1. /\ step = "merge" /\ walk # << >> /\ UNCHANGED <<input, merge, tree>>
        BY <1>12 DEF MergeEntry
    <2>2. PICK p \in DOMAIN tree :
              /\ IsFirst(p) /\ Target(p) \in DOMAIN tree
              /\ IF /\ tree[p].kind = "dir" /\ tree[Target(p)].kind = "dir"
                    /\ Equivalent(tree[p], tree[Target(p)])
                 THEN walk' = Yielded(p) /\ UNCHANGED step
                 ELSE step' = "failed" /\ UNCHANGED walk
        BY <1>12 DEF MergeEntry
    <2>3. CASE Merged(p)
        <3>1. walk' = Yielded(p) /\ step' = step
            BY <2>2, <2>3 DEF Merged
        <3>2. WalkInv'
            BY <2>1, <2>2, <2>3, <3>1, MergeEntryWalk
        <3> QED
            BY <2>1, <3>1, <3>2 DEF MergeInv, BeforeVdb
    <2>4. CASE ~Merged(p)
        <3>1. step' = "failed"
            BY <2>2, <2>4 DEF Merged
        <3> QED
            BY <1>1, <2>1, <3>1 DEF ExtractSteps
    <2> QED
        BY <2>3, <2>4
<1>13. CASE LeaveDir
    <2>1. step = "merge" /\ UNCHANGED <<input, step, tree, merge>>
        BY <1>13 DEF LeaveDir
    <2>2. WalkInv'
        BY <1>13, LeaveDirWalk
    <2> QED
        BY <2>1, <2>2 DEF MergeInv, BeforeVdb
<1>14. CASE RemoveSource
    <2>1. IsTree(tree') /\ merge \in DOMAIN Renames /\ merge' = merge + 1 /\ step' = "rename"
        BY <1>14, RemovedTree
    <2>2. merge' \in 1 .. Len(Renames) + 1 /\ UNCHANGED input
        BY <1>14, <1>a, <2>1 DEF RemoveSource
    <2> QED
        BY <2>1, <2>2 DEF MergeInv, BeforeVdb, ExtractSteps
<1>15. CASE ExtractFails
    BY <1>1, <1>15 DEF ExtractFails, ExtractSteps
<1> QED
    BY <1>2, <1>3, <1>4, <1>5, <1>6, <1>7, <1>8, <1>9, <1>10, <1>11, <1>12, <1>13, <1>14, <1>15
       DEF ExtractNext

(* The image is a tree at every step of do_main, an entry moved by         *)
(* merge_directories always finds the directory it is moved to, and what   *)
(* the walk has still to yield is below the directory that is renamed      *)
THEOREM ExtractTyping == ExtractSpec => []ExtractTypeOK
<1>1. MergeInv /\ HooksInv => ExtractTypeOK
    <2>1. ASSUME MergeInv, HooksInv, step = "merge", NEW i \in DOMAIN walk, NEW path \in walk[i]
          PROVE  Under(path, From)
        BY <2>1 DEF MergeInv, WalkInv
    <2> QED
        BY <2>1 DEF MergeInv, HooksInv, ExtractTypeOK
<1> QED
    BY <1>1, InitHooks, StepHooks, InitMerge, StepMerge, PTL DEF ExtractSpec
----------------------------------------------------------------------------
(* What is in the tree                                                     *)

LEMMA ImagePaths ==
    ASSUME input \in Inputs, NEW q \in DOMAIN input.image
    PROVE  q \in Path \ {<< >>} /\ input.image[q].from = q
<1>1. IsTree(input.image) /\ input.image[q] = Entry(input.image[q].kind, input.image[q].meta, q)
    BY InputsAreFaithful
<1>2. input.image[q].from = q
    BY <1>1 DEF Entry
<1> QED
    BY <1>1, <1>2 DEF IsTree

LEMMA NewPlace ==
    ASSUME NEW q \in Path, NEW i \in DOMAIN Renames, IsRenamed(q, i)
    PROVE  /\ NewPath(q) = Join(Renames[i][2], q, Renames[i][1])
           /\ NewPath(q) \in Path /\ Under(NewPath(q), Renames[i][2]) /\ Under(q, Renames[i][1])
           /\ \A j \in DOMAIN Renames :
                  /\ ~Under(NewPath(q), Renames[j][1]) /\ ~Under(q, Renames[j][2])
                  /\ Under(NewPath(q), Renames[j][2]) => i = j
                  /\ Under(q, Renames[j][1]) => i = j
<1>1. NewPath(q) = Join(Renames[i][2], q, Renames[i][1]) /\ Under(q, Renames[i][1])
    BY NewPathOf DEF IsRenamed
<1>2. /\ Renames[i][1] \in Path /\ Renames[i][2] \in Path
      /\ Len(Renames[i][1]) = Len(Renames[i][2])
    BY RenamePaths
<1>3. NewPath(q) \in Path /\ Under(NewPath(q), Renames[i][2])
    BY <1>1, <1>2, JoinOf DEF Path
<1> QED
    BY <1>1, <1>3, OneRename

\* What is in a directory that is renamed is in it since it was extracted
LEMMA InSource ==
    ASSUME MergeInv, NothingElse, merge \in DOMAIN Renames, NEW x \in DOMAIN tree, Under(x, From)
    PROVE  x \in DOMAIN input.image /\ tree[x] = input.image[x] /\ x \in Path
<1>1. x \in Path /\ input \in Inputs
    BY DEF MergeInv, IsTree
<1>2. ~(x \in Ancestors(VdbInImage))
    BY VdbIsElsewhere DEF From
<1>3. ASSUME NEW old \in DOMAIN input.image, NEW i \in DOMAIN Renames, IsRenamed(old, i),
             x = Join(Renames[i][2], old, Renames[i][1])
      PROVE  FALSE
    <2>1. old \in Path
        BY <1>1, ImagePaths
    <2>2. Under(x, Renames[i][2])
        BY <1>3, <2>1, NewPlace
    <2> QED
        BY <1>1, <2>2, OneRename DEF From
<1> QED
    BY <1>1, <1>2, <1>3 DEF NothingElse

LEMMA SourceIsRenamed ==
    ASSUME MergeInv, IsRenamed(From, merge), merge \in DOMAIN Renames, NEW x \in Path, Under(x, From)
    PROVE  IsRenamed(x, merge) /\ NewPath(x) = Target(x)
<1>1. IsRenamed(x, merge)
    BY DEF IsRenamed, From
<1> QED
    BY <1>1, NewPathOf DEF Target, From, To

LEMMA ContentBy ==
    ASSUME UNCHANGED input,
           FilesAreLast /\ step' \notin BeforeVdb \union {"failed"} =>
               /\ \A q \in DOMAIN input.image :
                      Stays(q)' \/ \E i \in DOMAIN Renames : IsRenamed(q, i) /\ Begun(i)' /\ Gone(q)'
               /\ \A q \in DOMAIN input.image, i \in DOMAIN Renames :
                      i < merge' /\ IsRenamed(q, i) => q \notin DOMAIN tree'
               /\ \A x \in DOMAIN tree' :
                      \/ x \in DOMAIN input.image /\ tree'[x] = input.image[x]
                      \/ \E old \in DOMAIN input.image, i \in DOMAIN Renames :
                             /\ IsRenamed(old, i) /\ Begun(i)' /\ x = Join(Renames[i][2], old, Renames[i][1])
                             /\ old \notin DOMAIN tree' /\ tree'[x] = input.image[old]
                      \/ x \in Ancestors(VdbInImage) /\ tree'[x].from = << >>
               /\ step' = "merge" =>
                      /\ IsRenamed(From', merge')
                      /\ \A x \in DOMAIN tree' : Under(x, From') =>
                             Merged(x)' \/ \E i \in DOMAIN walk' : \E other \in walk'[i] : Under(x, other)
    PROVE  ContentInv'
<1>1. \A q, i : IsRenamed(q, i)' <=> IsRenamed(q, i)
    BY DEF IsRenamed
<1>2. \A q : NewPath(q)' = NewPath(q)
    BY DEF NewPath, IsRenamed
<1>3. FilesAreLast' <=> FilesAreLast
    BY <1>2 DEF FilesAreLast
<1>4. SUFFICES ASSUME FilesAreLast, step' \notin BeforeVdb \union {"failed"}
               PROVE  NothingMissing' /\ Finished' /\ NothingElse' /\ Visited'
    BY <1>3 DEF ContentInv
<1>5. NothingMissing'
    BY <1>1, <1>4 DEF NothingMissing
<1>6. Finished'
    BY <1>1, <1>4 DEF Finished
<1>7. NothingElse'
    BY <1>1, <1>4 DEF NothingElse
<1>8. Visited'
    <2>1. IsRenamed(From, merge)' <=> IsRenamed(From', merge')
        BY DEF IsRenamed, From
    <2> QED
        BY <1>4, <2>1 DEF Visited
<1> QED
    BY <1>5, <1>6, <1>7, <1>8

\* Steps outside of the merge that leave the tree alone
LEMMA SameContent ==
    ASSUME ContentInv, UNCHANGED <<input, tree, merge>>,
           step \notin BeforeVdb \union {"failed", "merge"}, step' # "merge"
    PROVE  ContentInv'
<1>1. \A q : NewPath(q)' = NewPath(q)
    BY DEF NewPath, IsRenamed
<1>2. \A q : (Stays(q)' <=> Stays(q)) /\ (Gone(q)' <=> Gone(q))
    BY <1>1 DEF Stays, Gone
<1>3. \A i : Begun(i)' <=> Begun(i)
    BY DEF Begun
<1>4. ASSUME FilesAreLast
      PROVE  /\ \A q \in DOMAIN input.image :
                    Stays(q)' \/ \E i \in DOMAIN Renames : IsRenamed(q, i) /\ Begun(i)' /\ Gone(q)'
             /\ \A q \in DOMAIN input.image, i \in DOMAIN Renames :
                    i < merge' /\ IsRenamed(q, i) => q \notin DOMAIN tree'
             /\ \A x \in DOMAIN tree' :
                    \/ x \in DOMAIN input.image /\ tree'[x] = input.image[x]
                    \/ \E old \in DOMAIN input.image, i \in DOMAIN Renames :
                           /\ IsRenamed(old, i) /\ Begun(i)' /\ x = Join(Renames[i][2], old, Renames[i][1])
                           /\ old \notin DOMAIN tree' /\ tree'[x] = input.image[old]
                    \/ x \in Ancestors(VdbInImage) /\ tree'[x].from = << >>
    <2>1. NothingMissing /\ Finished /\ NothingElse
        BY <1>4 DEF ContentInv
    <2>2. \A q \in DOMAIN input.image :
              Stays(q)' \/ \E i \in DOMAIN Renames : IsRenamed(q, i) /\ Begun(i)' /\ Gone(q)'
        BY <1>2, <1>3, <2>1 DEF NothingMissing
    <2>3. \A q \in DOMAIN input.image, i \in DOMAIN Renames :
              i < merge' /\ IsRenamed(q, i) => q \notin DOMAIN tree'
        BY <2>1 DEF Finished
    <2>4. \A x \in DOMAIN tree' :
              \/ x \in DOMAIN input.image /\ tree'[x] = input.image[x]
              \/ \E old \in DOMAIN input.image, i \in DOMAIN Renames :
                     /\ IsRenamed(old, i) /\ Begun(i)' /\ x = Join(Renames[i][2], old, Renames[i][1])
                     /\ old \notin DOMAIN tree' /\ tree'[x] = input.image[old]
              \/ x \in Ancestors(VdbInImage) /\ tree'[x].from = << >>
        BY <1>3, <2>1 DEF NothingElse
    <2> QED
        BY <2>2, <2>3, <2>4
<1> QED
    BY <1>4, ContentBy

\* What has been moved stays where it is while another entry, or the last of the source, goes
LEMMA GoneStays ==
    ASSUME MergeInv, UNCHANGED input, merge \in DOMAIN Renames,
           \A x \in DOMAIN tree : ~Under(x, From) => x \in DOMAIN tree' /\ tree'[x] = tree[x],
           \A x \in DOMAIN tree' : x \in DOMAIN tree \/ Under(x, To),
           NEW q \in DOMAIN input.image, NEW i \in DOMAIN Renames, IsRenamed(q, i)
    PROVE  /\ q \notin DOMAIN tree => q \notin DOMAIN tree'
           /\ Gone(q) => Gone(q)'
<1>1. q \in Path
    BY ImagePaths DEF MergeInv
<1>2. ~Under(q, To) /\ ~Under(NewPath(q), From)
    BY <1>1, NewPlace DEF From, To
<1>3. NewPath(q)' = NewPath(q)
    BY DEF NewPath, IsRenamed
<1>4. q \notin DOMAIN tree => q \notin DOMAIN tree'
    BY <1>2
<1>5. ASSUME Gone(q) PROVE Gone(q)'
    <2>1. NewPath(q) \in DOMAIN tree' /\ tree'[NewPath(q)] = tree[NewPath(q)]
        BY <1>2, <1>5 DEF Gone
    <2> QED
        BY <1>3, <1>4, <1>5, <2>1 DEF Gone
<1> QED
    BY <1>4, <1>5

(* A file that is moved is the last of its list, or the first one would    *)
(* not be last in its directory                                            *)
LEMMA NothingSkipped ==
    ASSUME MergeInv, FilesAreLast, NothingMissing, NothingElse, Visited, step = "merge", walk # << >>,
           NEW p \in DOMAIN tree, IsFirst(p), Target(p) \notin DOMAIN tree, tree[p].kind # "dir",
           NEW other \in walk[Len(walk)]
    PROVE  other = p
<1>1. /\ IsTree(tree) /\ merge \in DOMAIN Renames /\ WalkInv /\ IsRenamed(From, merge) /\ input \in Inputs
    BY DEF MergeInv, Visited
<1>2. p \in walk[Len(walk)] /\ Len(walk) \in DOMAIN walk /\ ~Before(other, p)
    <2>1. /\ Len(walk) \in Nat \ {0} /\ DOMAIN walk = 1 .. Len(walk) /\ Last(walk) = walk[Len(walk)]
        BY <1>1, ListsOf DEF WalkInv
    <2> QED
        BY <2>1 DEF IsFirst
<1>3. /\ Under(p, From) /\ (p = From \/ Merged(Parent(p)))
      /\ other \in DOMAIN tree /\ Under(other, From)
      /\ Len(other) = Len(p) /\ Parent(other) = Parent(p)
    BY <1>1, <1>2 DEF WalkInv
<1>4. /\ p \in Path \ {<< >>} /\ other \in Path \ {<< >>}
      /\ p \in DOMAIN input.image /\ tree[p] = input.image[p] /\ other \in DOMAIN input.image
    BY <1>1, <1>3, InSource DEF IsTree
<1>5. p # From
    BY <1>1, <1>4 DEF IsRenamed, From
<1>6. /\ Merged(Parent(p)) /\ Parent(p) \in Path /\ Under(Parent(p), From)
      /\ Parent(p) \in DOMAIN tree /\ Target(Parent(p)) \in DOMAIN tree
    BY <1>1, <1>3, <1>4, <1>5, TargetOf DEF Merged
<1>7. /\ NewPath(p) = Target(p) /\ NewPath(Parent(p)) = Target(Parent(p))
      /\ IsRenamed(Parent(p), merge)
    BY <1>1, <1>3, <1>4, <1>6, SourceIsRenamed
<1>8. NewPath(p) # p /\ Target(p) \in Path /\ Under(Target(p), To)
    BY <1>1, <1>3, <1>4, <1>7, TargetOf
<1>9. NewPath(p) \notin DOMAIN input.image
    <2>1. SUFFICES ASSUME Target(p) \in DOMAIN input.image PROVE FALSE
        BY <1>7
    <2>2. PICK i \in DOMAIN Renames : IsRenamed(Target(p), i)
        BY <2>1 DEF NothingMissing, Stays
    <2> QED
        BY <1>1, <1>8, <2>2, OneRename DEF IsRenamed, To
<1>10. NewPath(Parent(p)) \in DOMAIN input.image
    <2>1. Target(Parent(p)) \in Path /\ Under(Target(Parent(p)), To)
        BY <1>1, <1>6, TargetOf
    <2>2. Target(Parent(p)) \notin Ancestors(VdbInImage)
        BY <1>1, <2>1, VdbIsElsewhere DEF To
    <2>3. ASSUME NEW old \in DOMAIN input.image, NEW i \in DOMAIN Renames, IsRenamed(old, i),
                 Target(Parent(p)) = Join(Renames[i][2], old, Renames[i][1]), old \notin DOMAIN tree
          PROVE  FALSE
        <3>1. old \in Path
            BY <1>1, ImagePaths
        <3>2. i = merge /\ Under(old, From)
            <4>1. /\ NewPath(old) = Target(Parent(p)) /\ Under(old, Renames[i][1])
                  /\ Under(NewPath(old), Renames[merge][2]) => i = merge
                BY <1>1, <2>3, <3>1, NewPlace
            <4>2. i = merge
                BY <2>1, <4>1 DEF To
            <4> QED
                BY <4>1, <4>2 DEF From
        <3>3. Target(old) = Target(Parent(p))
            BY <2>3, <3>2 DEF Target, To, From
        <3>4. old = Parent(p)
            BY <1>1, <1>6, <3>1, <3>2, <3>3, TargetOf
        <3> QED
            BY <1>6, <2>3, <3>4
    <2> QED
        BY <1>6, <1>7, <2>2, <2>3 DEF NothingElse
<1>11. ~Before(p, other)
    BY <1>3, <1>4, <1>8, <1>9, <1>10 DEF FilesAreLast
<1>12. Len(p) \in 1 .. Len(p) /\ Len(p) \in Nat \ {0}
    BY <1>4, ParentOf DEF Path
<1>13. p[Len(p)] \in DOMAIN Rank /\ other[Len(p)] \in DOMAIN Rank
    BY <1>3, <1>4, <1>12, ElementOfSeq DEF Path
<1>14. p[Len(p)] = other[Len(p)]
    <2>1. /\ ~(Rank[p[Len(p)]] < Rank[other[Len(p)]]) /\ ~(Rank[other[Len(p)]] < Rank[p[Len(p)]])
        BY <1>2, <1>3, <1>11 DEF Before
    <2>2. Rank[p[Len(p)]] \in Nat /\ Rank[other[Len(p)]] \in Nat
        BY <1>13, NamesAreRanked
    <2> QED
        BY <1>13, <2>1, <2>2, NamesAreRanked
<1>15. ASSUME NEW i \in 1 .. Len(p) - 1 PROVE other[i] = p[i]
    <2>1. Len(p) - 1 \in 0 .. Len(p) /\ Len(p) - 1 \in 0 .. Len(other)
        BY <1>3, <1>12
    <2>2. Parent(p) = SubSeq(p, 1, Len(p) - 1) /\ Parent(p) = SubSeq(other, 1, Len(p) - 1)
        BY <1>3 DEF Parent
    <2>3. SubSeq(p, 1, Len(p) - 1)[i] = p[i] /\ SubSeq(other, 1, Len(p) - 1)[i] = other[i]
        BY <1>4, <2>1, PrefixOf DEF Path
    <2> QED
        BY <2>2, <2>3
<1>16. \A i \in 1 .. Len(p) : other[i] = p[i]
    BY <1>12, <1>14, <1>15
<1> QED
    BY <1>3, <1>4, <1>16, SeqEqual DEF Path

LEMMA ChildAbove ==
    ASSUME NEW x \in Path, NEW p \in Path, Under(x, p), x # p
    PROVE  \E c \in Path : Under(x, c) /\ c # << >> /\ Parent(c) = p
<1>1. Len(x) \in Nat /\ Len(p) \in Nat /\ Len(p) < Len(x)
    BY UnderSameLength, LenProperties DEF Under, Path
<1>2. Len(p) + 1 \in 0 .. Len(x)
    BY <1>1
<1>3. PICK c \in Path : c = SubSeq(x, 1, Len(p) + 1) /\ Len(c) = Len(p) + 1
    BY <1>2, PrefixOf DEF Path
<1>4. Under(x, c) /\ c # << >>
    BY <1>1, <1>3, EmptySeq DEF Under, Path
<1>5. Under(c, p)
    <2>1. Len(p) <= Len(c)
        BY <1>1, <1>3
    <2>2. c \in Seq(DOMAIN Rank) /\ x \in Seq(DOMAIN Rank) /\ p \in Seq(DOMAIN Rank)
        BY <1>3 DEF Path
    <2> QED
        BY <1>4, <2>1, <2>2, UnderBoth
<1>6. SubSeq(c, 1, Len(p)) = p /\ Len(c) - 1 = Len(p)
    BY <1>1, <1>3, <1>5 DEF Under
<1> QED
    BY <1>4, <1>6 DEF Parent

LEMMA MoveEntryContent ==
    ASSUME MergeInv, ContentInv, MoveEntry PROVE ContentInv'
<1>1. /\ step = "merge" /\ step' = step /\ walk # << >> /\ UNCHANGED <<input, merge>>
      /\ merge \in DOMAIN Renames /\ IsTree(tree) /\ WalkInv /\ input \in Inputs
    BY DEF MoveEntry, MergeInv
<1>2. PICK p \in DOMAIN tree : /\ IsFirst(p) /\ Target(p) \notin DOMAIN tree /\ tree' = Renamed(p)
                               /\ walk' = SkipCurrentDir(Yielded(p))
    BY DEF MoveEntry
<1>3. /\ Under(p, From) /\ p \in walk[Len(walk)] /\ p \in Path /\ From \in Path
      /\ walk' = IF tree[p].kind = "dir" THEN Rest(p) ELSE Front(walk)
    BY <1>1, <1>2, MoveEntryWalk, RenamePaths DEF IsTree, From
<1>4. /\ \A x \in DOMAIN tree : ~Under(x, p) => x \in DOMAIN tree' /\ tree'[x] = tree[x]
      /\ \A x \in DOMAIN tree : Under(x, p) =>
             /\ x \notin DOMAIN tree'
             /\ Target(x) \in DOMAIN tree' /\ tree'[Target(x)] = tree[x]
      /\ \A x \in DOMAIN tree' :
             \/ x \in DOMAIN tree /\ ~Under(x, p)
             \/ \E old \in DOMAIN tree : Under(old, p) /\ Under(old, From) /\ x = Target(old)
    BY <1>1, <1>2, <1>3, MoveOf
<1>5. SUFFICES ASSUME FilesAreLast PROVE ContentInv'
    BY <1>1, ContentBy
<1>6. NothingMissing /\ Finished /\ NothingElse /\ Visited /\ IsRenamed(From, merge)
    BY <1>1, <1>5 DEF ContentInv, Visited, BeforeVdb
<1>7. \A x \in DOMAIN tree : x \in Path
    BY <1>1 DEF IsTree
<1>8. \A x \in DOMAIN tree : ~Under(x, From) => x \in DOMAIN tree' /\ tree'[x] = tree[x]
    BY <1>3, <1>4, <1>7, UnderTransitive DEF Path
<1>9. \A x \in DOMAIN tree' : x \in DOMAIN tree \/ Under(x, To)
    BY <1>1, <1>4, <1>7, TargetOf
<1>10. \A i : Begun(i)' <=> Begun(i)
    BY <1>1 DEF Begun
<1>11. ASSUME NEW q \in DOMAIN input.image, NEW i \in DOMAIN Renames, IsRenamed(q, i), q \notin DOMAIN tree
       PROVE  q \notin DOMAIN tree' /\ (Gone(q) => Gone(q)')
    BY <1>1, <1>8, <1>9, <1>11, GoneStays
<1>12. \A x \in DOMAIN tree : Under(x, From) =>
           /\ x \in DOMAIN input.image /\ tree[x] = input.image[x]
           /\ IsRenamed(x, merge) /\ NewPath(x) = Target(x)
    BY <1>1, <1>6, <1>7, InSource, SourceIsRenamed
<1>13. ASSUME NEW q \in DOMAIN input.image
       PROVE  Stays(q)' \/ \E i \in DOMAIN Renames : IsRenamed(q, i) /\ Begun(i)' /\ Gone(q)'
    <2>1. CASE Stays(q) /\ ~Under(q, p)
        BY <1>1, <1>4, <2>1 DEF Stays
    <2>2. CASE Stays(q) /\ Under(q, p)
        <3>1. q \in DOMAIN tree /\ tree[q] = input.image[q] /\ Under(q, From)
            BY <1>3, <1>7, <2>2, UnderTransitive DEF Stays, Path
        <3>2. /\ IsRenamed(q, merge) /\ NewPath(q) = Target(q)
              /\ q \notin DOMAIN tree' /\ Target(q) \in DOMAIN tree' /\ tree'[Target(q)] = tree[q]
            BY <1>4, <1>12, <2>2, <3>1
        <3>3. input.image[q].from = q
            BY <1>1, ImagePaths
        <3>4. NewPath(q)' = NewPath(q) /\ input' = input
            BY <1>1 DEF NewPath, IsRenamed
        <3>5. Gone(q)'
            BY <3>1, <3>2, <3>3, <3>4 DEF Gone
        <3>6. Begun(merge)'
            BY <1>1 DEF Begun
        <3> QED
            BY <1>1, <3>2, <3>5, <3>6
    <2>3. ASSUME NEW i \in DOMAIN Renames, IsRenamed(q, i), Begun(i), Gone(q)
          PROVE  IsRenamed(q, i) /\ Begun(i)' /\ Gone(q)'
        BY <1>10, <1>11, <2>3 DEF Gone
    <2> QED
        BY <1>6, <2>1, <2>2, <2>3 DEF NothingMissing
<1>14. ASSUME NEW q \in DOMAIN input.image, NEW i \in DOMAIN Renames, i < merge', IsRenamed(q, i)
       PROVE  q \notin DOMAIN tree'
    BY <1>1, <1>6, <1>11, <1>14 DEF Finished
<1>15. ASSUME NEW x \in DOMAIN tree'
       PROVE  \/ x \in DOMAIN input.image /\ tree'[x] = input.image[x]
              \/ \E old \in DOMAIN input.image, i \in DOMAIN Renames :
                     /\ IsRenamed(old, i) /\ Begun(i)' /\ x = Join(Renames[i][2], old, Renames[i][1])
                     /\ old \notin DOMAIN tree' /\ tree'[x] = input.image[old]
              \/ x \in Ancestors(VdbInImage) /\ tree'[x].from = << >>
    <2>1. CASE x \in DOMAIN tree /\ ~Under(x, p)
        <3>1. tree'[x] = tree[x]
            BY <1>4, <2>1
        <3>2. ASSUME NEW old \in DOMAIN input.image, NEW i \in DOMAIN Renames, IsRenamed(old, i), Begun(i),
                     x = Join(Renames[i][2], old, Renames[i][1]), old \notin DOMAIN tree,
                     tree[x] = input.image[old]
              PROVE  /\ IsRenamed(old, i) /\ Begun(i)' /\ x = Join(Renames[i][2], old, Renames[i][1])
                     /\ old \notin DOMAIN tree' /\ tree'[x] = input.image[old]
            BY <1>10, <1>11, <3>1, <3>2
        <3>3. \/ x \in DOMAIN input.image /\ tree[x] = input.image[x]
              \/ \E old \in DOMAIN input.image, i \in DOMAIN Renames :
                     /\ IsRenamed(old, i) /\ Begun(i) /\ x = Join(Renames[i][2], old, Renames[i][1])
                     /\ old \notin DOMAIN tree /\ tree[x] = input.image[old]
              \/ x \in Ancestors(VdbInImage) /\ tree[x].from = << >>
            BY <1>6, <2>1 DEF NothingElse
        <3> QED
            BY <3>1, <3>2, <3>3
    <2>2. CASE \E old \in DOMAIN tree : Under(old, p) /\ Under(old, From) /\ x = Target(old)
        <3>1. PICK old \in DOMAIN tree : Under(old, p) /\ Under(old, From) /\ x = Target(old)
            BY <2>2
        <3>2. x = Join(Renames[merge][2], old, Renames[merge][1])
            BY <3>1 DEF Target, To, From
        <3>3. Begun(merge)'
            BY <1>1 DEF Begun
        <3>4. /\ old \in DOMAIN input.image /\ IsRenamed(old, merge)
              /\ old \notin DOMAIN tree' /\ tree'[x] = input.image[old]
            BY <1>4, <1>12, <3>1
        <3> QED
            BY <1>1, <3>2, <3>3, <3>4
    <2>3. \/ x \in DOMAIN tree /\ ~Under(x, p)
          \/ \E old \in DOMAIN tree : Under(old, p) /\ Under(old, From) /\ x = Target(old)
        BY <1>4
    <2> QED
        BY <2>1, <2>2, <2>3
<1>16. ASSUME NEW i \in DOMAIN walk, NEW other \in walk[i], other # p
       PROVE  i \in DOMAIN walk' /\ other \in walk'[i]
    <2>1. /\ Len(walk) \in Nat \ {0} /\ DOMAIN walk = 1 .. Len(walk)
          /\ DOMAIN Front(walk) = 1 .. Len(walk) - 1
          /\ \A j \in 1 .. Len(walk) - 1 : Front(walk)[j] = walk[j]
          /\ DOMAIN Rest(p) = 1 .. Len(walk)
          /\ \A j \in 1 .. Len(walk) - 1 : Rest(p)[j] = walk[j]
          /\ Rest(p)[Len(walk)] = walk[Len(walk)] \ {p}
        BY <1>1, ListsOf DEF WalkInv
    <2>2. CASE tree[p].kind = "dir"
        BY <1>3, <1>16, <2>1, <2>2
    <2>3. CASE tree[p].kind # "dir"
        <3>1. i # Len(walk)
            BY <1>1, <1>2, <1>5, <1>6, <1>16, <2>3, NothingSkipped
        <3> QED
            BY <1>3, <2>1, <2>3, <3>1
    <2> QED
        BY <2>2, <2>3
<1>17. From' = From /\ merge' = merge
    BY <1>1 DEF From
<1>18. ASSUME NEW x \in DOMAIN tree', Under(x, From)
       PROVE  Merged(x)' \/ \E i \in DOMAIN walk' : \E other \in walk'[i] : Under(x, other)
    <2>1. x \in DOMAIN tree /\ ~Under(x, p) /\ x \in Path
        BY <1>1, <1>4, <1>7, <1>18, TargetOf
    <2>2. CASE Merged(x)
        BY <1>1, <1>2, <1>3, <1>18, <2>1, <2>2, MergedStays
    <2>3. ASSUME NEW i \in DOMAIN walk, NEW other \in walk[i], Under(x, other)
          PROVE  i \in DOMAIN walk' /\ other \in walk'[i]
        BY <1>16, <2>1, <2>3
    <2> QED
        BY <1>1, <1>6, <1>18, <2>1, <2>2, <2>3 DEF Visited
<1> QED
    BY <1>1, <1>6, <1>13, <1>14, <1>15, <1>17, <1>18, ContentBy

LEMMA MergeEntryContent ==
    ASSUME MergeInv, ContentInv, MergeEntry PROVE ContentInv'
<1>1. /\ step = "merge" /\ walk # << >> /\ UNCHANGED <<input, tree, merge>>
      /\ merge \in DOMAIN Renames /\ IsTree(tree) /\ input \in Inputs
    BY DEF MergeEntry, MergeInv
<1>2. PICK p \in DOMAIN tree :
          /\ IsFirst(p) /\ Target(p) \in DOMAIN tree
          /\ IF /\ tree[p].kind = "dir" /\ tree[Target(p)].kind = "dir"
                /\ Equivalent(tree[p], tree[Target(p)])
             THEN walk' = Yielded(p) /\ UNCHANGED step
             ELSE step' = "failed" /\ UNCHANGED walk
    BY DEF MergeEntry
<1>3. CASE ~Merged(p)
    <2>1. step' = "failed"
        BY <1>2, <1>3 DEF Merged
    <2> QED
        BY <1>1, <2>1, ContentBy
<1>4. CASE Merged(p)
    <2>1. walk' = Yielded(p) /\ step' = step
        BY <1>2, <1>4 DEF Merged
    <2>2. /\ \A i \in DOMAIN walk : \A q \in walk[i] : q = p \/ (i \in DOMAIN walk' /\ q \in walk'[i])
          /\ \E i \in DOMAIN walk' : walk'[i] = Children(p)
        BY <1>1, <1>2, <1>4, <2>1, MergeEntryWalk
    <2>3. /\ NothingMissing' <=> NothingMissing
          /\ Finished' <=> Finished
          /\ NothingElse' <=> NothingElse
        BY <1>1, <2>1 DEF NothingMissing, Finished, NothingElse, Stays, Gone, Begun, NewPath, IsRenamed
    <2>4. FilesAreLast' <=> FilesAreLast
        BY <1>1 DEF FilesAreLast, NewPath, IsRenamed
    <2>5. ASSUME Visited PROVE Visited'
        <3>1. From' = From /\ \A x : Merged(x)' <=> Merged(x)
            BY <1>1 DEF Merged, Target, From, To
        <3>2. ASSUME NEW x \in DOMAIN tree', Under(x, From')
              PROVE  Merged(x)' \/ \E i \in DOMAIN walk' : \E other \in walk'[i] : Under(x, other)
            <4>1. x \in DOMAIN tree /\ Under(x, From) /\ x \in Path /\ p \in Path
                BY <1>1, <3>1, <3>2 DEF IsTree
            <4>2. Merged(x) \/ \E i \in DOMAIN walk : \E other \in walk[i] : Under(x, other)
                BY <1>1, <2>5, <4>1 DEF Visited
            <4>3. CASE Under(x, p) /\ x # p
                <5>1. PICK c \in Path : Under(x, c) /\ c # << >> /\ Parent(c) = p
                    BY <4>1, <4>3, ChildAbove
                <5>2. c \in DOMAIN tree /\ Len(c) > 0
                    BY <1>1, <4>1, <5>1, TreePaths, ParentOf DEF Path
                <5>3. c \in Children(p)
                    BY <5>1, <5>2 DEF Children
                <5> QED
                    BY <2>2, <5>1, <5>3
            <4>4. CASE x = p
                BY <1>4, <3>1, <4>4
            <4>5. CASE ~Under(x, p)
                BY <2>2, <3>1, <4>2, <4>5
            <4> QED
                BY <4>3, <4>4, <4>5
        <3>3. IsRenamed(From, merge)' <=> IsRenamed(From, merge)
            BY <1>1 DEF IsRenamed, From
        <3> QED
            BY <1>1, <2>5, <3>2, <3>3 DEF Visited
    <2> QED
        BY <1>1, <2>1, <2>3, <2>4, <2>5 DEF ContentInv, BeforeVdb
<1> QED
    BY <1>3, <1>4

LEMMA LeaveDirContent ==
    ASSUME MergeInv, ContentInv, LeaveDir PROVE ContentInv'
<1>1. step = "merge" /\ UNCHANGED <<input, step, tree, merge>>
    BY DEF LeaveDir
<1>2. /\ NothingMissing' <=> NothingMissing
      /\ Finished' <=> Finished
      /\ NothingElse' <=> NothingElse
    BY <1>1 DEF NothingMissing, Finished, NothingElse, Stays, Gone, Begun, NewPath, IsRenamed
<1>3. FilesAreLast' <=> FilesAreLast
    BY <1>1 DEF FilesAreLast, NewPath, IsRenamed
<1>4. From' = From /\ \A x : Merged(x)' <=> Merged(x)
    BY <1>1 DEF Merged, Target, From, To
<1>5. IsRenamed(From, merge)' <=> IsRenamed(From, merge)
    BY <1>1 DEF IsRenamed, From
<1>6. \A i \in DOMAIN walk : \A q \in walk[i] : i \in DOMAIN walk' /\ q \in walk'[i]
    BY LeaveDirWalk
<1>7. Visited => Visited'
    BY <1>1, <1>4, <1>5, <1>6 DEF Visited
<1> QED
    BY <1>1, <1>2, <1>3, <1>7 DEF ContentInv

LEMMA RemoveSourceContent ==
    ASSUME MergeInv, ContentInv, RemoveSource PROVE ContentInv'
<1>1. /\ step = "merge" /\ merge \in DOMAIN Renames /\ merge' = merge + 1 /\ step' = "rename" /\ UNCHANGED input
      /\ walk = << >> /\ input \in Inputs
      /\ \A x \in DOMAIN tree : ~Under(x, From) => x \in DOMAIN tree' /\ tree'[x] = tree[x]
      /\ \A x \in DOMAIN tree' : x \in DOMAIN tree /\ ~Under(x, From) /\ tree'[x] = tree[x]
    BY RemovedTree DEF RemoveSource, MergeInv
<1>2. SUFFICES ASSUME FilesAreLast PROVE ContentInv'
    BY <1>1, ContentBy
<1>3. NothingMissing /\ Finished /\ NothingElse /\ Visited /\ IsRenamed(From, merge)
    BY <1>1, <1>2 DEF ContentInv, Visited, BeforeVdb
<1>4. \A x \in DOMAIN tree : Under(x, From) => Merged(x)
    <2>1. DOMAIN walk = {}
        BY <1>1
    <2> QED
        BY <1>1, <1>3, <2>1 DEF Visited
<1>5. merge \in Nat /\ \A i \in DOMAIN Renames : i \in Nat
    BY <1>1, RenamePaths
<1>6. \A i \in DOMAIN Renames : Begun(i) => Begun(i)'
    BY <1>1, <1>5 DEF Begun
<1>7. ASSUME NEW q \in DOMAIN input.image
      PROVE  Stays(q)' \/ \E i \in DOMAIN Renames : IsRenamed(q, i) /\ Begun(i)' /\ Gone(q)'
    <2>0. q \in Path
        BY <1>1, ImagePaths
    <2>1. CASE Stays(q) /\ ~Under(q, From)
        BY <1>1, <2>1 DEF Stays
    <2>2. CASE Stays(q) /\ Under(q, From)
        <3>1. q \in DOMAIN tree /\ tree[q] = input.image[q] /\ Merged(q)
            BY <1>4, <2>2 DEF Stays
        <3>2. IsRenamed(q, merge) /\ NewPath(q) = Target(q) /\ ~Under(Target(q), From)
            BY <1>1, <1>3, <2>0, <2>2, SourceIsRenamed, TargetOf
        <3>3. /\ Target(q) \in DOMAIN tree' /\ tree'[Target(q)] = tree[Target(q)] /\ q \notin DOMAIN tree'
            BY <1>1, <2>2, <3>1, <3>2 DEF Merged
        <3>4. NewPath(q)' = NewPath(q) /\ input' = input
            BY <1>1 DEF NewPath, IsRenamed
        <3>5. Gone(q)'
            BY <3>1, <3>2, <3>3, <3>4 DEF Gone, Merged, Equivalent
        <3>6. PICK m \in DOMAIN Renames : m = merge
            BY <1>1
        <3>7. Begun(m)'
            BY <1>1, <1>5, <3>6 DEF Begun
        <3> QED
            BY <3>2, <3>5, <3>6, <3>7
    <2>3. ASSUME NEW i \in DOMAIN Renames, IsRenamed(q, i), Begun(i), Gone(q)
          PROVE  IsRenamed(q, i) /\ Begun(i)' /\ Gone(q)'
        BY <1>1, <1>6, <2>3, GoneStays
    <2> QED
        BY <1>3, <2>1, <2>2, <2>3 DEF NothingMissing
<1>8. ASSUME NEW q \in DOMAIN input.image, NEW i \in DOMAIN Renames, i < merge', IsRenamed(q, i)
      PROVE  q \notin DOMAIN tree'
    <2>1. i < merge \/ i = merge
        BY <1>1, <1>5, <1>8
    <2>2. CASE i < merge
        BY <1>1, <1>3, <1>8, <2>2 DEF Finished
    <2>3. CASE i = merge
        BY <1>1, <1>8, <2>3 DEF IsRenamed, From
    <2> QED
        BY <2>1, <2>2, <2>3
<1>9. ASSUME NEW x \in DOMAIN tree'
      PROVE  \/ x \in DOMAIN input.image /\ tree'[x] = input.image[x]
             \/ \E old \in DOMAIN input.image, i \in DOMAIN Renames :
                    /\ IsRenamed(old, i) /\ Begun(i)' /\ x = Join(Renames[i][2], old, Renames[i][1])
                    /\ old \notin DOMAIN tree' /\ tree'[x] = input.image[old]
             \/ x \in Ancestors(VdbInImage) /\ tree'[x].from = << >>
    <2>1. x \in DOMAIN tree /\ tree'[x] = tree[x] /\ \A y : y \notin DOMAIN tree => y \notin DOMAIN tree'
        BY <1>1
    <2>2. \/ x \in DOMAIN input.image /\ tree[x] = input.image[x]
          \/ \E old \in DOMAIN input.image, i \in DOMAIN Renames :
                 /\ IsRenamed(old, i) /\ Begun(i) /\ x = Join(Renames[i][2], old, Renames[i][1])
                 /\ old \notin DOMAIN tree /\ tree[x] = input.image[old]
          \/ x \in Ancestors(VdbInImage) /\ tree[x].from = << >>
        BY <1>3, <2>1 DEF NothingElse
    <2> QED
        BY <1>6, <2>1, <2>2
<1> QED
    BY <1>1, <1>7, <1>8, <1>9, ContentBy

LEMMA NextRenameContent ==
    ASSUME MergeInv, ContentInv, NextRename PROVE ContentInv'
<1>1. step = "rename" /\ UNCHANGED <<input, tree>> /\ input \in Inputs /\ merge \in 1 .. Len(Renames) + 1
    BY DEF NextRename, MergeInv
<1>2. CASE step' = "done"
    <2>1. UNCHANGED merge
        BY <1>1, <1>2 DEF NextRename
    <2> QED
        BY <1>1, <1>2, <2>1, SameContent DEF BeforeVdb
<1>3. CASE step' = "merge" \/ (step' = "rename" /\ input.host /\ ~(merge > Len(Renames)) /\ merge' = merge + 1
                                /\ ~(From \in DOMAIN tree /\ tree[From].kind = "dir"))
    <2>1. SUFFICES ASSUME FilesAreLast PROVE ContentInv'
        BY <1>1, ContentBy
    <2>2. NothingMissing /\ Finished /\ NothingElse
        BY <1>1, <2>1 DEF ContentInv, BeforeVdb
    <2>3. /\ merge \in DOMAIN Renames /\ merge \in Nat /\ \A i \in DOMAIN Renames : i \in Nat
          /\ input.host
        <3>1. DOMAIN Renames = 1 .. Len(Renames) /\ Len(Renames) \in Nat
            BY RenamesAreApart, LenProperties
        <3> QED
            BY <1>1, <1>3, <3>1 DEF NextRename
    <2>4. merge' = merge \/ (step' = "rename" /\ merge' = merge + 1)
        BY <1>3, NextRenameWalk
    <2>5. \A i \in DOMAIN Renames : Begun(i) => Begun(i)'
        BY <1>1, <2>3, <2>4 DEF Begun
    <2>6. \A q : (Stays(q)' <=> Stays(q)) /\ (Gone(q)' <=> Gone(q))
        BY <1>1 DEF Stays, Gone, NewPath, IsRenamed
    <2>7. \A q \in DOMAIN input.image :
              Stays(q)' \/ \E i \in DOMAIN Renames : IsRenamed(q, i) /\ Begun(i)' /\ Gone(q)'
        BY <2>2, <2>5, <2>6 DEF NothingMissing
    <2>8. ASSUME NEW x \in DOMAIN tree'
          PROVE  \/ x \in DOMAIN input.image /\ tree'[x] = input.image[x]
                 \/ \E old \in DOMAIN input.image, i \in DOMAIN Renames :
                        /\ IsRenamed(old, i) /\ Begun(i)' /\ x = Join(Renames[i][2], old, Renames[i][1])
                        /\ old \notin DOMAIN tree' /\ tree'[x] = input.image[old]
                 \/ x \in Ancestors(VdbInImage) /\ tree'[x].from = << >>
        <3>1. \/ x \in DOMAIN input.image /\ tree[x] = input.image[x]
              \/ \E old \in DOMAIN input.image, i \in DOMAIN Renames :
                     /\ IsRenamed(old, i) /\ Begun(i) /\ x = Join(Renames[i][2], old, Renames[i][1])
                     /\ old \notin DOMAIN tree /\ tree[x] = input.image[old]
              \/ x \in Ancestors(VdbInImage) /\ tree[x].from = << >>
            BY <1>1, <2>2 DEF NothingElse
        <3> QED
            BY <1>1, <2>5, <3>1
    <2>9. From \in Path /\ Under(From, From)
        <3>1. From \in Path
            BY <2>3, RenamePaths DEF From
        <3> QED
            BY <3>1, UnderItself DEF Path
    <2>10. ASSUME step' = "merge"
           PROVE  /\ IsRenamed(From', merge')
                  /\ \A x \in DOMAIN tree' : Under(x, From') =>
                         Merged(x)' \/ \E i \in DOMAIN walk' : \E other \in walk'[i] : Under(x, other)
        <3>1. /\ From \in DOMAIN tree /\ tree[From].kind = "dir" /\ walk' = <<{From}>> /\ merge' = merge
            BY <2>10, NextRenameWalk
        <3>2. From \in DOMAIN input.image /\ input.image[From].kind = "dir"
            BY <2>2, <2>3, <2>9, <3>1, InSource
        <3>3. IsRenamed(From, merge)
            BY <2>3, <2>9, <3>2 DEF IsRenamed, From
        <3>4. From' = From /\ 1 \in DOMAIN walk' /\ From \in walk'[1]
            BY <3>1 DEF From
        <3> QED
            BY <3>1, <3>3, <3>4
    <2>11. ASSUME step' = "rename", NEW q \in DOMAIN input.image, IsRenamed(q, merge) PROVE FALSE
        <3>1. From \in DOMAIN input.image /\ input.image[From].kind = "dir"
            BY <2>11 DEF IsRenamed, From
        <3>2. ~Stays(From)
            BY <1>3, <2>11, <3>1 DEF Stays
        <3>3. PICK i \in DOMAIN Renames : IsRenamed(From, i) /\ Begun(i)
            BY <2>2, <3>1, <3>2 DEF NothingMissing
        <3>4. i = merge
            BY <2>3, <2>9, <3>3, OneRename DEF IsRenamed, From
        <3> QED
            BY <1>1, <2>3, <3>3, <3>4 DEF Begun
    <2>12. ASSUME NEW q \in DOMAIN input.image, NEW i \in DOMAIN Renames, i < merge', IsRenamed(q, i)
           PROVE  q \notin DOMAIN tree'
        <3>1. i < merge \/ (i = merge /\ step' = "rename")
            BY <2>3, <2>4, <2>12
        <3> QED
            BY <1>1, <2>2, <2>11, <2>12, <3>1 DEF Finished
    <2> QED
        BY <1>1, <2>7, <2>8, <2>10, <2>12, ContentBy
<1> QED
    BY <1>1, <1>2, <1>3 DEF NextRename

LEMMA CreateVdbContent ==
    ASSUME MergeInv, CreateSparseVdb \/ CreateInitialVdb PROVE ContentInv'
<1>1. /\ step = "vdb" /\ tree' = WithVdbDir /\ UNCHANGED <<input, merge>> /\ step' \in {"rename", "audit", "failed"}
    BY DEF CreateSparseVdb, CreateInitialVdb
<1>2. merge = 1 /\ tree = input.image /\ input \in Inputs
    BY <1>1 DEF MergeInv, BeforeVdb
<1>3. /\ \A x \in DOMAIN tree : x \in DOMAIN WithVdbDir /\ WithVdbDir[x] = tree[x]
      /\ \A x \in DOMAIN WithVdbDir :
             \/ x \in DOMAIN tree
             \/ x \in Ancestors(VdbInImage) /\ WithVdbDir[x].from = << >>
    BY <1>2, VdbDirKeepsTree
<1>4. \A q \in DOMAIN input.image : Stays(q)'
    BY <1>1, <1>2, <1>3 DEF Stays
<1>5. ASSUME NEW x \in DOMAIN tree'
      PROVE  \/ x \in DOMAIN input.image /\ tree'[x] = input.image[x]
             \/ x \in Ancestors(VdbInImage) /\ tree'[x].from = << >>
    BY <1>1, <1>2, <1>3
<1>6. \A i \in DOMAIN Renames : ~(i < merge')
    <2>1. \A i \in DOMAIN Renames : i \in 1 .. Len(Renames) /\ Len(Renames) \in Nat
        BY RenamePaths
    <2> QED
        BY <1>1, <1>2, <2>1
<1> QED
    BY <1>1, <1>4, <1>5, <1>6, ContentBy

LEMMA StepContent == MergeInv /\ ContentInv /\ [ExtractNext]_extractVars => ContentInv'
<1> SUFFICES ASSUME MergeInv, ContentInv, [ExtractNext]_extractVars PROVE ContentInv'
    OBVIOUS
<1>1. CASE UNCHANGED extractVars
    <2>1. /\ NothingMissing' <=> NothingMissing
          /\ Finished' <=> Finished
          /\ NothingElse' <=> NothingElse
        BY <1>1 DEF extractVars, NothingMissing, Finished, NothingElse, Stays, Gone, Begun, NewPath, IsRenamed
    <2>2. FilesAreLast' <=> FilesAreLast
        BY <1>1 DEF extractVars, FilesAreLast, NewPath, IsRenamed
    <2>3. Visited' <=> Visited
        BY <1>1 DEF extractVars, Visited, IsRenamed, Merged, Target, From, To
    <2> QED
        BY <1>1, <2>1, <2>2, <2>3 DEF extractVars, ContentInv
<1>2. CASE ExtractImage \/ GenerateContents
    <2>1. UNCHANGED input /\ step' \in BeforeVdb
        BY <1>2 DEF ExtractImage, GenerateContents, BeforeVdb
    <2> QED
        BY <2>1, ContentBy
<1>3. CASE CreateSparseVdb \/ CreateInitialVdb
    BY <1>3, CreateVdbContent
<1>4. CASE RunHook \/ HooksReturn \/ WriteRequires
    <2>1. /\ UNCHANGED <<input, tree, merge>> /\ step \in {"audit", "requires"}
          /\ step' \in {"audit", "requires", "rename"}
        BY <1>4 DEF RunHook, HooksReturn, WriteRequires
    <2> QED
        BY <2>1, SameContent DEF BeforeVdb
<1>5. CASE HookNotImplemented \/ ExtractFails
    <2>1. UNCHANGED input /\ step' = "failed"
        BY <1>5 DEF HookNotImplemented, ExtractFails
    <2> QED
        BY <2>1, ContentBy
<1>6. CASE NextRename
    BY <1>6, NextRenameContent
<1>7. CASE MoveEntry
    BY <1>7, MoveEntryContent
<1>8. CASE MergeEntry
    BY <1>8, MergeEntryContent
<1>9. CASE LeaveDir
    BY <1>9, LeaveDirContent
<1>10. CASE RemoveSource
    BY <1>10, RemoveSourceContent
<1> QED
    BY <1>1, <1>2, <1>3, <1>4, <1>5, <1>6, <1>7, <1>8, <1>9, <1>10 DEF ExtractNext

LEMMA DoneIsComplete == MergeInv /\ ContentInv => MergeIsComplete
<1> SUFFICES ASSUME MergeInv, ContentInv, step = "done", FilesAreLast
             PROVE  /\ \A path \in DOMAIN input.image :
                           /\ NewPath(path) \in DOMAIN tree
                           /\ tree[NewPath(path)].kind = input.image[path].kind
                           /\ tree[NewPath(path)].meta = input.image[path].meta
                           /\ input.image[path].kind # "dir" => tree[NewPath(path)].from = path
                    /\ \A path \in DOMAIN tree :
                           tree[path].from # << >> => path \in {NewPath(old) : old \in DOMAIN input.image}
    BY DEF MergeIsComplete
<1>1. NothingMissing /\ Finished /\ NothingElse /\ input \in Inputs /\ (~input.host \/ merge > Len(Renames))
    BY DEF MergeInv, ContentInv, BeforeVdb
<1>2. ASSUME NEW q \in DOMAIN input.image, q \in DOMAIN tree PROVE NewPath(q) = q
    <2>1. ASSUME NEW i \in DOMAIN Renames, IsRenamed(q, i) PROVE FALSE
        <3>1. i \in 1 .. Len(Renames) /\ Len(Renames) \in Nat
            BY RenamePaths
        <3>2. i < merge
            BY <1>1, <2>1, <3>1 DEF IsRenamed, MergeInv
        <3> QED
            BY <1>1, <1>2, <2>1, <3>2 DEF Finished
    <2>2. q \in Path
        BY <1>1, ImagePaths
    <2> QED
        BY <2>1, <2>2, NewPathOf
<1>3. ASSUME NEW q \in DOMAIN input.image
      PROVE  /\ NewPath(q) \in DOMAIN tree
             /\ tree[NewPath(q)].kind = input.image[q].kind
             /\ tree[NewPath(q)].meta = input.image[q].meta
             /\ input.image[q].kind # "dir" => tree[NewPath(q)].from = q
    <2>1. CASE Stays(q)
        BY <1>1, <1>2, <2>1, ImagePaths DEF Stays
    <2>2. CASE Gone(q)
        BY <2>2 DEF Gone
    <2> QED
        BY <1>1, <2>1, <2>2 DEF NothingMissing
<1>4. ASSUME NEW x \in DOMAIN tree, tree[x].from # << >>
      PROVE  x \in {NewPath(old) : old \in DOMAIN input.image}
    <2>1. CASE x \in DOMAIN input.image
        BY <1>2, <2>1
    <2>2. ASSUME NEW old \in DOMAIN input.image, NEW i \in DOMAIN Renames, IsRenamed(old, i),
                 x = Join(Renames[i][2], old, Renames[i][1])
          PROVE  x = NewPath(old)
        BY <1>1, <2>2, ImagePaths, NewPathOf
    <2> QED
        BY <1>1, <1>4, <2>1, <2>2 DEF NothingElse
<1> QED
    BY <1>3, <1>4

(* The output has every entry of the package where it belongs and nothing  *)
(* of the directories of the host that were renamed, as long as no file    *)
(* that is moved comes before another entry of its directory               *)
THEOREM MergesAreComplete == ExtractSpec => []MergeIsComplete
<1>1. ExtractInit => ContentInv
    BY DEF ExtractInit, ContentInv, BeforeVdb
<1> QED
    BY <1>1, InitMerge, StepMerge, StepContent, DoneIsComplete, PTL DEF ExtractSpec
----------------------------------------------------------------------------
(* The wrapper: programs and their traces                                  *)

Tokens == Recorded \union {LeftBracket, RightBracket}

(* What is in the trace of a program: after the [ its events, the first of *)
(* which is the clock_sync, and after a proper end the ], which is in the  *)
(* file with all before it                                                 *)
IsEventOf(p, token, i) ==
    /\ token \in Recorded
    /\ token.pid = p
    /\ token.ts = token.system_time - start[p]
    /\ IsSync(token) <=> i = 2

IsEnd(p, i) ==
    i > 2 /\ i = Len(stream[p]) /\ stream[p][i] = RightBracket /\ state[p] = "ended" /\ flushed[p] = i

TraceShape(p) ==
    /\ state[p] \in {"none", "untraced"} => Len(stream[p]) = 0
    /\ state[p] = "opened" => Len(stream[p]) = 1
    /\ state[p] = "running" => Len(stream[p]) >= 2
    /\ stream[p] # << >> => stream[p][1] = LeftBracket
    /\ \A i \in 2 .. Len(stream[p]) : IsEventOf(p, stream[p][i], i) \/ IsEnd(p, i)
    /\ flushed[p] # 1

TracesInv == \A p \in Programs : TraceShape(p)

LEMMA BracketsAreNoEvents == LeftBracket \notin Recorded /\ RightBracket \notin Recorded
BY OptionsAreTyped

LEMMA InitTraces == WrapperInit => WrapperTypeOK /\ TracesInv
<1> SUFFICES ASSUME WrapperInit PROVE WrapperTypeOK /\ TracesInv
    OBVIOUS
<1>1. WrapperTypeOK
    <2>1. Code(0) \in Statuses
        BY DEF Statuses, Code
    <2>2. \A S : << >> \in Seq(S)
        BY EmptySeq
    <2>3. 0 \in 0 .. MaxClock
        BY OptionsAreTyped
    <2> QED
        BY <2>1, <2>2, <2>3 DEF WrapperInit, WrapperTypeOK, Traced
<1>2. TracesInv
    BY DEF WrapperInit, TracesInv, TraceShape
<1> QED
    BY <1>1, <1>2

\* The wrapper's own steps leave the programs alone
LEMMA SameTraces ==
    ASSUME TracesInv, UNCHANGED <<state, start, stream, flushed>> PROVE TracesInv'
BY DEF TracesInv, TraceShape, IsEventOf, IsEnd, IsSync

LEMMA SayTypes ==
    ASSUME WrapperTypeOK, NEW line \in Lines, Say(line)
    PROVE  log' \in Seq(Lines) /\ stderr' \in Seq(Lines)
<1>1. Append(log, line) \in Seq(Lines) /\ Append(stderr, line) \in Seq(Lines)
    BY AppendProperties DEF WrapperTypeOK
<1> QED
    BY <1>1 DEF WrapperTypeOK, Say

\* The events of a part of a trace
LEMMA BodyOfTrace ==
    ASSUME WrapperTypeOK, TracesInv, NEW p \in Programs, NEW n \in 0 .. Len(stream[p])
    PROVE  LET body == Body(SubSeq(stream[p], 1, n))
           IN  /\ body \in Seq(Recorded)
               /\ n > 1 => Len(body) >= 1
               /\ Len(body) <= n
               /\ Len(body) + 1 <= Len(stream[p]) \/ Len(body) = 0
               /\ \A i \in 1 .. Len(body) :
                      body[i] = stream[p][i + 1] /\ IsEventOf(p, stream[p][i + 1], i + 1)
               /\ n = Len(stream[p]) =>
                      \A i \in 1 .. n - 1 : i > Len(body) => stream[p][i + 1] \notin Recorded
<1> DEFINE t == SubSeq(stream[p], 1, n)
<1>1. stream[p] \in Seq(Tokens) /\ Len(stream[p]) \in Nat /\ n \in Nat
    BY DEF WrapperTypeOK, Tokens
<1>2. t \in Seq(Tokens) /\ Len(t) = n /\ \A i \in 1 .. n : t[i] = stream[p][i]
    BY <1>1, SubSeqProperties
<1> HIDE DEF t
<1>3. TraceShape(p)
    BY DEF TracesInv
<1>4. CASE n = 0
    <2>1. t = << >>
        BY <1>2, <1>4
    <2>2. Body(t) = << >>
        BY <2>1, SubSeqEmpty DEF Body
    <2>3. Body(t) \in Seq(Recorded) /\ Len(Body(t)) = 0
        BY <2>2, EmptySeq
    <2> QED
        BY <1>1, <1>4, <2>3 DEF t
<1>5. CASE n > 0
    <2>1. PICK m \in Nat : m = IF t # << >> /\ Last(t) = RightBracket THEN n - 1 ELSE n
        BY <1>5, <1>1
    <2>2. Body(t) = SubSeq(t, 2, m)
        BY <2>1, <1>2 DEF Body
    <2>3. Last(t) = t[n] /\ t # << >>
        BY <1>2, <1>5 DEF Last
    <2>4. m >= 1 /\ (n > 1 => m >= 2)
        BY <2>1, <2>3, <1>2, <1>3, <1>5, BracketsAreNoEvents, OptionsAreTyped DEF TraceShape, IsEventOf, IsEnd
    <2>5. m <= n
        BY <2>1, <1>1
    <2>6. \A i \in 2 .. m : IsEventOf(p, stream[p][i], i)
        <3> SUFFICES ASSUME NEW i \in 2 .. m, IsEnd(p, i) PROVE FALSE
            BY <1>1, <1>3, <2>5 DEF TraceShape
        <3>1. i = n /\ m = n
            BY <1>1, <2>5 DEF IsEnd
        <3> QED
            BY <3>1, <2>1, <2>3, <1>2, <1>5 DEF IsEnd
    <2>7. /\ Len(Body(t)) = m - 1
          /\ \A i \in 1 .. m - 1 : Body(t)[i] = stream[p][i + 1]
        BY <2>2, <2>4, <2>5, <1>1, <1>2, SubSeqProperties
    <2>8. Body(t) \in Seq(Recorded)
        <3>1. \A i \in 2 .. m : t[i] \in Recorded
            BY <2>5, <2>6, <1>1, <1>2 DEF IsEventOf
        <3> QED
            BY <3>1, <2>2, SubSeqProperties
    <2> QED
        BY <2>1, <2>3, <2>4, <2>5, <2>6, <2>7, <2>8, <1>1, <1>2, BracketsAreNoEvents DEF t
<1> QED
    BY <1>4, <1>5, <1>1

\* The lines that the wrapper writes, and what it returns
LEMMA WrapperLines ==
    /\ \A says \in {"something", "Command", "FATAL", "Finished", "FAILED"} :
           [by |-> "wrapper", says |-> says] \in Lines
    /\ \A n \in Codes \union {0} : Code(n) \in Statuses
    /\ \A n \in Signals : Signal(n) \in Statuses
BY DEF Lines, Statuses, Code, Signal

LEMMA WrapperKeepsTypes ==
    ASSUME WrapperTypeOK, TracesInv, WrapperStep PROVE WrapperTypeOK'
<1> USE DEF WrapperTypeOK, Traced, wrapper, programs, lines, outside
<1>1. CASE RedirectFails
    BY <1>1 DEF RedirectFails
<1>2. CASE SetUp
    BY <1>2 DEF SetUp
<1>3. CASE SetUpFails
    BY <1>3 DEF SetUpFails, Fails
<1>4. CASE RunCommand
    BY <1>4, OptionsAreTyped DEF RunCommand
<1>5. CASE RunFails
    BY <1>5 DEF RunFails, Fails
<1>6. CASE ReportStatus
    <2>1. log' \in Seq(Lines) /\ stderr' \in Seq(Lines)
        BY <1>6, SayTypes, WrapperLines DEF ReportStatus
    <2> QED
        BY <1>6, <2>1 DEF ReportStatus
<1>7. CASE NoChown \/ Chown
    BY <1>7 DEF NoChown, Chown
<1>8. CASE ChownFails
    BY <1>8 DEF ChownFails, Fails
<1>9. CASE NoProfile
    BY <1>9 DEF NoProfile
<1>10. CASE ReadDir
    BY <1>10 DEF ReadDir
<1>11. CASE Load
    <2>1. PICK p \in entries :
              IF Loads(p)
              THEN /\ entries' = entries \ {p} /\ merged' = merged \o Events(p)
                   /\ UNCHANGED <<cli, at, failed, exit, origin, profile>>
              ELSE Fails("load")
        BY <1>11 DEF Load
    <2>2. Events(p) \in Seq(Recorded)
        BY BodyOfTrace DEF Events, Trace, TracesInv, TraceShape
    <2>3. merged \o Events(p) \in Seq(Recorded)
        BY <2>2, ConcatProperties
    <2> QED
        BY <1>11, <2>1, <2>3 DEF Load, Fails
<1>12. CASE Save
    BY <1>12 DEF Save
<1>13. CASE SaveFails
    BY <1>13 DEF SaveFails, Fails
<1>14. CASE Result
    <2>1. log' \in Seq(Lines) /\ stderr' \in Seq(Lines)
        BY <1>14, SayTypes, WrapperLines DEF Result
    <2> QED
        BY <1>14, <2>1 DEF Result
<1>15. CASE Show
    <2>1. log' \in Seq(Lines) /\ stderr' \in Seq(Lines)
        <3>1. stderr \o log \in Seq(Lines)
            BY ConcatProperties
        <3>2. PICK shown \in Seq(Lines) : shown = IF cli.log THEN stderr \o log ELSE stderr
            BY <3>1
        <3>3. Append(shown, [by |-> "wrapper", says |-> "FAILED"]) \in Seq(Lines)
            BY WrapperLines, AppendProperties
        <3> QED
            BY <1>15, <3>2, <3>3, SayTypes, WrapperLines DEF Show
    <2> QED
        BY <1>15, <2>1 DEF Show
<1> QED
    BY <1>1, <1>2, <1>3, <1>4, <1>5, <1>6, <1>7, <1>8, <1>9, <1>10, <1>11, <1>12, <1>13, <1>14, <1>15
       DEF WrapperStep

\* RunCommand is the only one of them that touches a program
LEMMA WrapperKeepsTraces ==
    ASSUME WrapperTypeOK, TracesInv, WrapperStep,
           at = "spawn" => \A p \in Programs : state[p] = "none"
    PROVE  TracesInv'
<1>1. CASE RunCommand
    BY <1>1 DEF RunCommand, WrapperTypeOK, TracesInv, TraceShape, IsEventOf, IsEnd, IsSync
<1>2. CASE ~RunCommand
    <2>1. UNCHANGED <<state, start, stream, flushed>>
        BY <1>2 DEF WrapperStep, RedirectFails, SetUp, SetUpFails, RunFails, ReportStatus,
                    NoChown, Chown, ChownFails, NoProfile, ReadDir, Load, Save, SaveFails, Result, Show, programs, outside
    <2> QED
        BY <2>1, SameTraces
<1> QED
    BY <1>1, <1>2

(* A program adds tokens to its trace, and what is in the file grows       *)
LEMMA WrittenTypes ==
    ASSUME WrapperTypeOK, NEW p \in Programs, NEW tokens \in Seq(Tokens),
           NEW n \in Nat, n <= Len(stream[p]) + Len(tokens),
           stream' = [stream EXCEPT ![p] = @ \o tokens], flushed' = [flushed EXCEPT ![p] = n]
    PROVE  /\ stream' \in [Programs -> Seq(Tokens)]
           /\ flushed' \in [Programs -> Nat] /\ \A q \in Programs : flushed'[q] <= Len(stream'[q])
           /\ Len(stream'[p]) = Len(stream[p]) + Len(tokens)
           /\ \A i \in 1 .. Len(stream[p]) : stream'[p][i] = stream[p][i]
           /\ \A i \in 1 .. Len(tokens) : stream'[p][Len(stream[p]) + i] = tokens[i]
           /\ \A q \in Programs : stream[q] # << >> => stream'[q] # << >>
<1>1. stream \in [Programs -> Seq(Tokens)] /\ flushed \in [Programs -> Nat]
    BY DEF WrapperTypeOK, Tokens
<1>2. stream[p] \o tokens \in Seq(Tokens) /\ Len(stream[p] \o tokens) = Len(stream[p]) + Len(tokens)
    BY <1>1, ConcatProperties
<1>3. /\ \A i \in 1 .. Len(stream[p]) : (stream[p] \o tokens)[i] = stream[p][i]
      /\ \A i \in 1 .. Len(tokens) : (stream[p] \o tokens)[Len(stream[p]) + i] = tokens[i]
    BY <1>1
<1>4. stream[p] # << >> => stream[p] \o tokens # << >>
    BY <1>1, <1>2, EmptySeq
<1> QED
    BY <1>1, <1>2, <1>3, <1>4 DEF WrapperTypeOK

LEMMA OtherTraces ==
    ASSUME TracesInv, NEW p \in Programs, TraceShape(p)',
           \A q \in Programs \ {p} :
               /\ state'[q] = state[q] /\ start'[q] = start[q]
               /\ stream'[q] = stream[q] /\ flushed'[q] = flushed[q]
    PROVE  TracesInv'
<1> SUFFICES ASSUME NEW q \in Programs, q # p PROVE TraceShape(q)'
    BY DEF TracesInv
<1> QED
    BY DEF TracesInv, TraceShape, IsEventOf, IsEnd, IsSync

LEMMA EventTypes ==
    ASSUME WrapperTypeOK, NEW p \in Programs, NEW name \in {"clock_sync", "span"}
    PROVE  /\ Event(p, name) \in Recorded
           /\ Event(p, name).name = name /\ Event(p, name).pid = p
           /\ Event(p, name).ts = Event(p, name).system_time - start[p]
<1>1. clock - start[p] \in 0 .. MaxClock
    BY OptionsAreTyped DEF WrapperTypeOK
<1> QED
    BY <1>1 DEF Event, Recorded, WrapperTypeOK

LEMMA ProgramsKeepTypes ==
    ASSUME WrapperTypeOK, TracesInv, ProgramStep \/ Tick PROVE WrapperTypeOK' /\ TracesInv'
<1> USE DEF wrapper, programs, lines
<1>1. ASSUME NEW p \in Programs, OpenTrace(p) PROVE WrapperTypeOK' /\ TracesInv'
    <2>1. /\ state[p] = "untraced" /\ stream[p] = << >> /\ flushed[p] = 0
        BY <1>1, EmptySeq DEF OpenTrace, TracesInv, TraceShape, WrapperTypeOK
    <2>2. Header \in Seq(Tokens) /\ Len(Header) = 1 /\ Header[1] = LeftBracket
        BY DEF Header, Tokens
    <2>3. stream' \in [Programs -> Seq(Tokens)] /\ stream'[p] = Header
        BY <1>1, <2>2 DEF OpenTrace, WrapperTypeOK, Tokens
    <2>4. WrapperTypeOK'
        BY <1>1, <2>1, <2>2, <2>3, OptionsAreTyped DEF OpenTrace, WrapperTypeOK, Traced, Tokens
    <2>5. TraceShape(p)'
        <3>1. state'[p] = "opened" /\ flushed'[p] = 0
            BY <1>1, <2>1 DEF OpenTrace, WrapperTypeOK
        <3>2. Len(stream'[p]) = 1 /\ stream'[p][1] = LeftBracket
            BY <2>2, <2>3
        <3>3. 2 .. Len(stream'[p]) = {}
            BY <3>2
        <3> HIDE DEF programs, lines, wrapper
        <3> QED
            BY <3>1, <3>2, <3>3 DEF TraceShape
    <2> QED
        BY <1>1, <2>4, <2>5, OtherTraces DEF OpenTrace, WrapperTypeOK
<1>2. ASSUME NEW p \in Programs, EmitClockSync(p) PROVE WrapperTypeOK' /\ TracesInv'
    <2>1. PICK event \in Recorded : event = Event(p, "clock_sync") /\ IsEventOf(p, event, 2)
        BY EventTypes DEF IsEventOf, IsSync
    <2>2. PICK tokens \in Seq(Tokens) : tokens = <<event>> /\ Len(tokens) = 1 /\ tokens[1] = event
        <3>1. <<event>> \in Seq(Tokens) /\ Len(<<event>>) = 1 /\ <<event>>[1] = event
            BY DEF Tokens
        <3> QED
            BY <3>1
    <2>3. stream[p] \in Seq(Tokens) /\ flushed[p] \in Nat /\ flushed[p] <= Len(stream[p]) /\ Len(stream[p]) = 1
        BY <1>2 DEF EmitClockSync, WrapperTypeOK, Tokens, TracesInv, TraceShape
    <2>4. Append(stream[p], event) = stream[p] \o tokens
        BY <2>2, <2>3, AppendIsConcat DEF Tokens
    <2>5. stream' = [stream EXCEPT ![p] = @ \o tokens]
        BY <1>2, <2>1, <2>2, <2>4 DEF EmitClockSync, WrapperTypeOK
    <2>6. PICK n \in Nat : /\ n = flushed[p] /\ n <= Len(stream[p]) + Len(tokens)
                           /\ flushed' = [flushed EXCEPT ![p] = n]
        BY <1>2, <2>2, <2>3 DEF EmitClockSync, WrapperTypeOK
    <2>7. /\ stream' \in [Programs -> Seq(Tokens)]
          /\ flushed' \in [Programs -> Nat] /\ \A q \in Programs : flushed'[q] <= Len(stream'[q])
          /\ Len(stream'[p]) = 2 /\ stream'[p][1] = stream[p][1] /\ stream'[p][2] = event
          /\ \A q \in Programs : stream[q] # << >> => stream'[q] # << >>
        <3>1. /\ stream' \in [Programs -> Seq(Tokens)]
              /\ flushed' \in [Programs -> Nat] /\ \A q \in Programs : flushed'[q] <= Len(stream'[q])
              /\ Len(stream'[p]) = Len(stream[p]) + Len(tokens)
              /\ \A i \in 1 .. Len(stream[p]) : stream'[p][i] = stream[p][i]
              /\ \A i \in 1 .. Len(tokens) : stream'[p][Len(stream[p]) + i] = tokens[i]
              /\ \A q \in Programs : stream[q] # << >> => stream'[q] # << >>
            BY <2>2, <2>3, <2>5, <2>6, WrittenTypes
        <3> QED
            BY <2>2, <2>3, <3>1
    <2>8. WrapperTypeOK'
        BY <1>2, <2>7 DEF EmitClockSync, WrapperTypeOK, Traced, Tokens
    <2>9. TraceShape(p)'
        BY <1>2, <2>1, <2>3, <2>5, <2>7, EmptySeq
           DEF EmitClockSync, TraceShape, TracesInv, WrapperTypeOK, IsEventOf, IsSync
    <2> QED
        BY <1>2, <2>5, <2>8, <2>9, OtherTraces DEF EmitClockSync, WrapperTypeOK
<1>3. ASSUME NEW p \in Programs, WriteEvent(p) PROVE WrapperTypeOK' /\ TracesInv'
    <2>1. PICK event \in Recorded : event = Event(p, "span") /\ \A i \in Nat : i > 2 => IsEventOf(p, event, i)
        BY EventTypes DEF IsEventOf, IsSync
    <2>2. PICK tokens \in Seq(Tokens) : tokens = <<event>> /\ Len(tokens) = 1 /\ tokens[1] = event
        <3>1. <<event>> \in Seq(Tokens) /\ Len(<<event>>) = 1 /\ <<event>>[1] = event
            BY DEF Tokens
        <3> QED
            BY <3>1
    <2>3. /\ stream[p] \in Seq(Tokens) /\ flushed[p] \in Nat /\ flushed[p] <= Len(stream[p])
          /\ Len(stream[p]) \in Nat /\ Len(stream[p]) >= 2 /\ flushed[p] # 1 /\ state[p] = "running"
        BY <1>3 DEF WriteEvent, WrapperTypeOK, Tokens, TracesInv, TraceShape
    <2>4. PICK n \in Nat : /\ n <= Len(stream[p]) + Len(tokens) /\ n # 1
                           /\ flushed' = [flushed EXCEPT ![p] = n]
        <3>1. PICK n \in {flushed[p]} \union Len(stream[p]) .. Len(stream[p]) + Len(tokens) :
                  flushed' = [flushed EXCEPT ![p] = n]
            BY <1>3, <2>1, <2>2 DEF WriteEvent, Written
        <3>2. n \in Nat /\ n <= Len(stream[p]) + Len(tokens) /\ n # 1
            BY <2>2, <2>3
        <3> QED
            BY <3>1, <3>2
    <2>5. stream' = [stream EXCEPT ![p] = @ \o tokens]
        BY <1>3, <2>1, <2>2 DEF WriteEvent, Written
    <2>6. /\ stream' \in [Programs -> Seq(Tokens)]
          /\ flushed' \in [Programs -> Nat] /\ \A q \in Programs : flushed'[q] <= Len(stream'[q])
          /\ Len(stream'[p]) = Len(stream[p]) + 1
          /\ \A i \in 1 .. Len(stream[p]) : stream'[p][i] = stream[p][i]
          /\ stream'[p][Len(stream[p]) + 1] = event
          /\ \A q \in Programs : stream[q] # << >> => stream'[q] # << >>
        <3>1. /\ stream' \in [Programs -> Seq(Tokens)]
              /\ flushed' \in [Programs -> Nat] /\ \A q \in Programs : flushed'[q] <= Len(stream'[q])
              /\ Len(stream'[p]) = Len(stream[p]) + Len(tokens)
              /\ \A i \in 1 .. Len(stream[p]) : stream'[p][i] = stream[p][i]
              /\ \A i \in 1 .. Len(tokens) : stream'[p][Len(stream[p]) + i] = tokens[i]
              /\ \A q \in Programs : stream[q] # << >> => stream'[q] # << >>
            BY <2>2, <2>4, <2>5, WrittenTypes
        <3> QED
            BY <2>2, <2>3, <3>1
    <2>7. WrapperTypeOK'
        BY <1>3, <2>6 DEF WriteEvent, WrapperTypeOK, Traced, Tokens
    <2>8. TraceShape(p)'
        <3>1. \A i \in 2 .. Len(stream[p]) : IsEventOf(p, stream[p][i], i)
            BY <2>3 DEF TracesInv, TraceShape, IsEnd
        <3>2. \A i \in 2 .. Len(stream'[p]) : IsEventOf(p, stream'[p][i], i)
            BY <2>1, <2>3, <2>6, <3>1
        <3>3. stream[p] # << >> /\ stream'[p][1] = stream[p][1]
            BY <2>3, <2>6, EmptySeq
        <3>4. UNCHANGED <<state, start>> /\ flushed'[p] = n
            BY <1>3, <2>4 DEF WriteEvent, WrapperTypeOK
        <3>5. \A i \in 2 .. Len(stream'[p]) : IsEventOf(p, stream[p][i], i)'
            BY <3>2, <3>4 DEF IsEventOf, IsSync
        <3> QED
            BY <2>3, <2>4, <2>6, <3>3, <3>4, <3>5 DEF TraceShape, TracesInv
    <2> QED
        BY <1>3, <2>4, <2>5, <2>7, <2>8, OtherTraces DEF WriteEvent, WrapperTypeOK
<1>4. ASSUME NEW p \in Programs, Start(p) PROVE WrapperTypeOK' /\ TracesInv'
    BY <1>4 DEF Start, WrapperTypeOK, Traced, TracesInv, TraceShape, IsEventOf, IsEnd, IsSync
<1>5. ASSUME NEW p \in Programs, Says(p) PROVE WrapperTypeOK' /\ TracesInv'
    <2>1. [by |-> p, says |-> "something"] \in Lines
        BY DEF Lines
    <2>2. log' \in Seq(Lines) /\ stderr' \in Seq(Lines)
        BY <1>5, <2>1, SayTypes DEF Says
    <2>3. WrapperTypeOK'
        BY <1>5, <2>2 DEF Says, WrapperTypeOK, Traced
    <2> QED
        BY <1>5, <2>3, SameTraces DEF Says
<1>6. ASSUME NEW file \in Files, Makes(file) PROVE WrapperTypeOK' /\ TracesInv'
    <2>1. WrapperTypeOK'
        BY <1>6 DEF Makes, WrapperTypeOK, Traced
    <2> QED
        BY <1>6, <2>1, SameTraces DEF Makes
<1>7. ASSUME NEW p \in Programs, NEW how \in Statuses, Ends(p, how), state[p] # "none", state[p] # "ended",
             UNCHANGED <<start, stream, flushed, wrapper, lines, outputs, clock>>
      PROVE  WrapperTypeOK' /\ TracesInv'
    <2>1. WrapperTypeOK'
        BY <1>7 DEF Ends, WrapperTypeOK, Traced
    <2>2. TraceShape(p)'
        BY <1>7 DEF Ends, WrapperTypeOK, TracesInv, TraceShape, IsEventOf, IsEnd, IsSync
    <2> QED
        BY <1>7, <2>1, <2>2, OtherTraces DEF Ends, WrapperTypeOK
<1>8. ASSUME NEW p \in Programs, Return(p) PROVE WrapperTypeOK' /\ TracesInv'
    <2>1. PICK how \in Statuses : Ends(p, how)
        BY <1>8, WrapperLines DEF Return
    <2>2. CASE state[p] # "running"
        BY <1>7, <1>8, <2>1, <2>2 DEF Return
    <2>3. CASE state[p] = "running"
        <3>1. Footer \in Seq(Tokens) /\ Len(Footer) = 1 /\ Footer[1] = RightBracket
            BY DEF Footer, Tokens
        <3>2. /\ stream[p] \in Seq(Tokens) /\ flushed[p] \in Nat /\ flushed[p] <= Len(stream[p])
              /\ Len(stream[p]) \in Nat /\ Len(stream[p]) >= 2
              /\ stream \in [Programs -> Seq(Tokens)]
            BY <2>3 DEF WrapperTypeOK, Tokens, TracesInv, TraceShape
        <3>3. /\ stream' = [stream EXCEPT ![p] = @ \o Footer]
              /\ flushed' = [flushed EXCEPT ![p] = Len(stream'[p])]
              /\ UNCHANGED <<start, wrapper, lines, outputs, clock>>
            BY <1>8, <2>3 DEF Return, DropFlushGuard
        <3>4. stream'[p] = stream[p] \o Footer /\ Len(stream'[p]) = Len(stream[p]) + Len(Footer)
            BY <3>1, <3>2, <3>3, ConcatProperties
        <3>5. PICK n \in Nat : n = Len(stream[p]) + Len(Footer)
            BY <3>1, <3>2
        <3>6. n <= Len(stream[p]) + Len(Footer) /\ n = Len(stream[p]) + 1
            BY <3>1, <3>2, <3>5
        <3>10. flushed' = [flushed EXCEPT ![p] = n]
            BY <3>3, <3>4, <3>5
        <3>7. /\ stream' \in [Programs -> Seq(Tokens)]
              /\ flushed' \in [Programs -> Nat] /\ \A q \in Programs : flushed'[q] <= Len(stream'[q])
              /\ Len(stream'[p]) = Len(stream[p]) + 1 /\ flushed'[p] = n
              /\ \A i \in 1 .. Len(stream[p]) : stream'[p][i] = stream[p][i]
              /\ stream'[p][Len(stream[p]) + 1] = RightBracket
              /\ \A q \in Programs : stream[q] # << >> => stream'[q] # << >>
            BY <3>1, <3>2, <3>3, <3>6, <3>10, WrittenTypes DEF WrapperTypeOK
        <3>8. WrapperTypeOK'
            BY <2>1, <3>3, <3>7 DEF Ends, WrapperTypeOK, Traced, Tokens
        <3>9. TraceShape(p)'
            <4>1. \A i \in 2 .. Len(stream[p]) : IsEventOf(p, stream[p][i], i)
                BY <2>3, <3>2 DEF TracesInv, TraceShape, IsEnd
            <4>2. state'[p] = "ended"
                BY <2>1 DEF Ends, WrapperTypeOK
            <4>3. \A i \in 2 .. Len(stream[p]) : IsEventOf(p, stream[p][i], i)'
                BY <3>2, <3>3, <3>7, <4>1 DEF IsEventOf, IsSync
            <4>4. IsEnd(p, n)'
                BY <3>2, <3>6, <3>7, <4>2 DEF IsEnd
            <4>5. stream[p] # << >> /\ stream'[p][1] = stream[p][1]
                BY <3>2, <3>7, EmptySeq
            <4>6. \A i \in 2 .. Len(stream'[p]) : (IsEventOf(p, stream[p][i], i) \/ IsEnd(p, i))'
                <5>1. SUFFICES ASSUME NEW i \in 2 .. Len(stream'[p]), i # n PROVE IsEventOf(p, stream[p][i], i)'
                    BY <4>4
                <5>2. i \in 2 .. Len(stream[p])
                    BY <3>2, <3>6, <3>7, <5>1
                <5> QED
                    BY <4>3, <5>2
            <4>7. stream'[p][1] = LeftBracket /\ Len(stream'[p]) # 0 /\ flushed'[p] # 1
                BY <3>2, <3>6, <3>7, <4>5 DEF TraceShape, TracesInv
            <4> QED
                BY <4>2, <4>6, <4>7 DEF TraceShape
        <3> QED
            BY <2>1, <3>3, <3>8, <3>9, OtherTraces DEF Ends, WrapperTypeOK
    <2> QED
        BY <2>2, <2>3
<1>9. ASSUME NEW p \in Programs, IsKilled(p) PROVE WrapperTypeOK' /\ TracesInv'
    <2>1. PICK how \in Statuses : Ends(p, how)
        BY <1>9, WrapperLines DEF IsKilled
    <2> QED
        BY <1>7, <1>9, <2>1 DEF IsKilled, Running
<1>10. CASE Tick
    <2>1. WrapperTypeOK'
        <3>1. clock' \in 0 .. MaxClock /\ start' \in [Programs -> 0 .. clock']
            BY <1>10, OptionsAreTyped DEF Tick, WrapperTypeOK
        <3> QED
            BY <1>10, <3>1 DEF Tick, WrapperTypeOK, Traced
    <2> QED
        BY <1>10, <2>1, SameTraces DEF Tick
<1> QED
    BY <1>1, <1>2, <1>3, <1>4, <1>5, <1>6, <1>8, <1>9, <1>10 DEF ProgramStep
----------------------------------------------------------------------------
(* What the wrapper knows of the command at each of its steps, and where   *)
(* it returns what                                                         *)
Over == {"result", "show", "exited"}
ControlInv ==
    /\ at \in {"start", "spawn"} => \A p \in Programs : state[p] = "none"
    /\ at \in {"chown", "merge", "load"} => state[Root] = "ended"
    /\ at \in Over => state[Root] \in {"none", "ended"} /\ (failed = "nothing" => state[Root] = "ended")
    /\ at \notin Over => failed = "nothing"
    /\ failed = "redirect" => at = "exited" /\ exit = 101
    /\ at \in {"show", "exited"} /\ failed # "redirect" =>
           exit = IF failed = "nothing" THEN ExitCode(status) ELSE 1

(* A command that has ended, or was never started, does nothing any more:  *)
(* whoever was left behind only adds lines to the log                      *)
LEMMA RootIsStill ==
    ASSUME WrapperTypeOK, ProgramStep, state[Root] \in {"none", "ended"}
    PROVE  /\ state'[Root] = state[Root]
           /\ stream'[Root] = stream[Root] /\ flushed'[Root] = flushed[Root]
           /\ UNCHANGED <<wrapper, status, outputs>>
           /\ (\A p \in Programs : state[p] = "none") => UNCHANGED state
           /\ cli.log => UNCHANGED stderr
           /\ log' = log \/ \E line \in Lines : line.by \notin {Root, "wrapper"} /\ log' = Append(log, line)
<1> USE OptionsAreTyped DEF WrapperTypeOK, programs, lines
<1>1. ASSUME NEW p \in Programs, OpenTrace(p) \/ EmitClockSync(p) \/ WriteEvent(p) \/ Start(p) \/ IsKilled(p)
      PROVE  /\ p # Root /\ state' = [state EXCEPT ![p] = state'[p]]
             /\ stream' = [stream EXCEPT ![p] = stream'[p]] /\ flushed' = [flushed EXCEPT ![p] = flushed'[p]]
             /\ UNCHANGED <<wrapper, lines, outputs, status>>
             /\ \E q \in Programs : state[q] # "none"
    BY <1>1 DEF OpenTrace, EmitClockSync, WriteEvent, Written, Start, IsKilled, Ends, Running
<1>2. ASSUME NEW p \in Programs, Return(p)
      PROVE  /\ p # Root /\ state' = [state EXCEPT ![p] = state'[p]]
             /\ stream' = [stream EXCEPT ![p] = stream'[p]] /\ flushed' = [flushed EXCEPT ![p] = flushed'[p]]
             /\ UNCHANGED <<wrapper, lines, outputs, status>>
             /\ \E q \in Programs : state[q] # "none"
    BY <1>2 DEF Return, Ends, DropFlushGuard
<1>3. ASSUME NEW p \in Programs, Says(p)
      PROVE  /\ UNCHANGED <<programs, wrapper, outputs>>
             /\ cli.log => UNCHANGED stderr
             /\ log' = log \/ \E line \in Lines : line.by \notin {Root, "wrapper"} /\ log' = Append(log, line)
    <2>1. p # Root /\ p # "wrapper"
        BY <1>3 DEF Says, Running
    <2>2. [by |-> p, says |-> "something"] \in Lines
        BY DEF Lines
    <2> QED
        BY <1>3, <2>1, <2>2 DEF Says, Say
<1>4. ASSUME NEW file \in Files, Makes(file) PROVE FALSE
    BY <1>4 DEF Makes, Running
<1> QED
    BY <1>1, <1>2, <1>3, <1>4 DEF ProgramStep

LEMMA InitControl == WrapperInit => ControlInv
BY DEF WrapperInit, ControlInv, Over

LEMMA StepControl ==
    ASSUME WrapperTypeOK, ControlInv, [WrapperNext]_wrapperVars PROVE ControlInv'
<1> USE OptionsAreTyped DEF WrapperTypeOK, ControlInv, Over, ExitCode
<1>1. CASE WrapperStep
    BY <1>1 DEF WrapperStep, RedirectFails, SetUp, SetUpFails, RunCommand, RunFails, ReportStatus,
                NoChown, Chown, ChownFails, NoProfile, ReadDir, Load, Save, SaveFails, Result, Show, Fails, programs, outside
<1>2. CASE ProgramStep
    <2>1. at = "wait" => UNCHANGED wrapper
        BY <1>2 DEF ProgramStep, OpenTrace, EmitClockSync, WriteEvent, Start, Says, Return, IsKilled, Makes
    <2>2. CASE at = "wait"
        BY <2>1, <2>2 DEF wrapper
    <2>3. CASE at # "wait"
        BY <1>2, <2>3, RootIsStill DEF wrapper
    <2> QED
        BY <2>2, <2>3
<1>3. CASE Tick \/ UNCHANGED wrapperVars
    BY <1>3 DEF Tick, wrapperVars, wrapper, programs, lines, outside
<1> QED
    BY <1>1, <1>2, <1>3 DEF WrapperNext

WrapperInv == WrapperTypeOK /\ TracesInv /\ ControlInv

LEMMA WrapperInvHolds == WrapperSpec => []WrapperInv
<1>1. WrapperInit => WrapperInv
    BY InitTraces, InitControl DEF WrapperInv
<1>2. WrapperInv /\ [WrapperNext]_wrapperVars => WrapperInv'
    <2> SUFFICES ASSUME WrapperInv, [WrapperNext]_wrapperVars PROVE WrapperTypeOK' /\ TracesInv'
        BY StepControl DEF WrapperInv
    <2>1. CASE WrapperStep
        BY <2>1, WrapperKeepsTypes, WrapperKeepsTraces DEF WrapperInv, ControlInv
    <2>2. CASE ProgramStep \/ Tick
        BY <2>2, ProgramsKeepTypes DEF WrapperInv
    <2>3. CASE UNCHANGED wrapperVars
        BY <2>3, SameTraces DEF WrapperInv, WrapperTypeOK, Traced, wrapperVars, wrapper, programs, lines, outside
    <2> QED
        BY <2>1, <2>2, <2>3 DEF WrapperNext
<1> QED
    BY <1>1, <1>2, PTL DEF WrapperSpec

(* Type correctness of the wrapper and of the programs it starts; with it, *)
(* what their traces look like at every moment is proved, which the types  *)
(* of what is merged rest on                                               *)
THEOREM WrapperTyping == WrapperSpec => []WrapperTypeOK
BY WrapperInvHolds, PTL DEF WrapperInv
----------------------------------------------------------------------------
(* What is done by the time the wrapper has passed a step                  *)
OutputsInv ==
    /\ ~cli.privileged => \A file \in DOMAIN outputs : outputs[file] = "user"
    /\ at \in {"merge", "load"} \/ (at \in Over /\ failed = "nothing") =>
           \A file \in DOMAIN outputs : outputs[file] # "root"
    /\ at = "load" => cli.profile
    /\ at \in Over /\ failed = "nothing" /\ cli.profile => profile # << >>

LEMMA StepOutputs ==
    ASSUME WrapperInv, OutputsInv, [WrapperNext]_wrapperVars PROVE OutputsInv'
<1> USE DEF WrapperInv, OutputsInv, Over
<1>1. CASE WrapperStep
    <2>1. CASE Chown
        BY <2>1 DEF Chown, WrapperTypeOK
    <2>2. CASE NoChown
        <3>1. UNCHANGED <<cli, outputs, failed, profile>> /\ at' = "merge" /\ ~(cli.privileged /\ Files # {})
            BY <2>2 DEF NoChown, outside
        <3>2. \A file \in DOMAIN outputs : outputs[file] = "user"
            BY <3>1 DEF WrapperTypeOK
        <3> QED
            BY <3>1, <3>2
    <2>3. CASE Save
        BY <2>3 DEF Save, outside
    <2>4. CASE ~Chown /\ ~NoChown /\ ~Save
        BY <1>1, <2>4
           DEF WrapperStep, RedirectFails, SetUp, SetUpFails, RunCommand, RunFails, ReportStatus,
               ChownFails, NoProfile, ReadDir, Load, SaveFails, Result, Show, Fails, outside, ControlInv
    <2> QED
        BY <2>1, <2>2, <2>3, <2>4
<1>2. CASE ProgramStep
    <2>1. CASE at \notin {"merge", "load"} \union Over
        BY <1>2, <2>1
           DEF ProgramStep, OpenTrace, EmitClockSync, WriteEvent, Start, Says, Return, IsKilled, Makes, wrapper
    <2>2. CASE at \in {"merge", "load"} \union Over
        BY <1>2, <2>2, RootIsStill DEF ControlInv, wrapper
    <2> QED
        BY <2>1, <2>2
<1>3. CASE Tick \/ UNCHANGED wrapperVars
    BY <1>3 DEF Tick, wrapperVars, wrapper, outside
<1> QED
    BY <1>1, <1>2, <1>3 DEF WrapperNext

(* Bazel sees an exit code of 0 only of an action that is complete: the    *)
(* command has ended with 0, the profile that was asked for is written,    *)
(* and chown has been called with every output that root had; one that     *)
(* chown could not give to the user may stay with root                     *)
THEOREM SuccessMeansComplete == WrapperSpec => []SuccessIsComplete
<1>1. WrapperInit => OutputsInv
    BY DEF WrapperInit, OutputsInv, Over
<1>2. WrapperInv /\ OutputsInv => SuccessIsComplete
    <2> SUFFICES ASSUME WrapperInv, OutputsInv, at = "exited", exit = 0
                 PROVE  /\ state[Root] = "ended" /\ status = Code(0)
                        /\ cli.profile => profile # << >>
                        /\ \A file \in DOMAIN outputs : outputs[file] # "root"
        BY DEF SuccessIsComplete
    <2>1. failed = "nothing" /\ ExitCode(status) = 0
        BY DEF WrapperInv, ControlInv
    <2>2. status = Code(0)
        <3>1. CASE status \in [kind : {"code"}, n : Codes \union {0}]
            BY <2>1, <3>1 DEF ExitCode, Code
        <3>2. CASE status \in [kind : {"signal"}, n : Signals]
            <4>1. status.n \in 1 .. 64
                BY <3>2, OptionsAreTyped
            <4> QED
                BY <2>1, <3>2, <4>1 DEF ExitCode
        <3> QED
            BY <3>1, <3>2 DEF WrapperInv, WrapperTypeOK, Statuses
    <2> QED
        BY <2>1, <2>2 DEF WrapperInv, ControlInv, OutputsInv, Over
<1> QED
    BY <1>1, <1>2, WrapperInvHolds, StepOutputs, PTL DEF WrapperSpec
----------------------------------------------------------------------------
FatalLine == [by |-> "wrapper", says |-> "FATAL"]
FailedLine == [by |-> "wrapper", says |-> "FAILED"]

(* While the wrapper runs everything is said to the log; and what it       *)
(* showed of it is all that matters                                        *)
Shown(n) ==
    /\ stderr = Append(SubSeq(log, 1, n), FailedLine)
    /\ \A i \in n + 1 .. Len(log) : log[i].by \notin {Root, "wrapper"}
    /\ failed # "nothing" => \E i \in 1 .. n : log[i] = FatalLine
LogInv ==
    cli.log =>
        /\ at # "exited" => stderr = << >>
        /\ at = "show" /\ failed # "nothing" => \E i \in 1 .. Len(log) : log[i] = FatalLine
        /\ at = "exited" /\ failed # "redirect" =>
               IF exit = 0 THEN stderr = << >> ELSE \E n \in 0 .. Len(log) : Shown(n)

LEMMA LogGrows ==
    ASSUME WrapperTypeOK, LogInv, cli.log, UNCHANGED <<wrapper, stderr>>,
           log' = log \/ \E line \in Lines : line.by \notin {Root, "wrapper"} /\ log' = Append(log, line)
    PROVE  LogInv'
<1> SUFFICES ASSUME NEW line \in Lines, line.by \notin {Root, "wrapper"}, log' = Append(log, line)
             PROVE  LogInv'
    BY DEF LogInv, Shown, wrapper
<1>1. /\ Len(log) \in Nat /\ Len(log') = Len(log) + 1 /\ log'[Len(log) + 1] = line
      /\ \A i \in 1 .. Len(log) : log'[i] = log[i]
    BY AppendProperties DEF WrapperTypeOK
<1>2. ASSUME NEW n \in 0 .. Len(log), Shown(n) PROVE n \in 0 .. Len(log') /\ Shown(n)'
    <2>1. SubSeq(log', 1, n) = SubSeq(log, 1, n)
        <3>1. /\ \A i \in 1 .. n : log[i] \in Lines /\ log'[i] \in Lines /\ log'[i] = log[i]
              /\ n \in Int
            BY <1>1 DEF WrapperTypeOK
        <3>2. /\ SubSeq(log, 1, n) \in Seq(Lines) /\ SubSeq(log', 1, n) \in Seq(Lines)
              /\ Len(SubSeq(log, 1, n)) = n /\ Len(SubSeq(log', 1, n)) = n
              /\ \A i \in 1 .. n : SubSeq(log, 1, n)[i] = log[i] /\ SubSeq(log', 1, n)[i] = log'[i]
            BY <1>1, <3>1, SubSeqProperties
        <3> QED
            BY <3>1, <3>2, SeqEqual
    <2>2. \A i \in n + 1 .. Len(log') : log'[i].by \notin {Root, "wrapper"}
        BY <1>1, <1>2 DEF Shown
    <2>3. failed' # "nothing" => \E i \in 1 .. n : log'[i] = FatalLine
        BY <1>1, <1>2 DEF Shown, wrapper
    <2> QED
        BY <1>1, <1>2, <2>1, <2>2, <2>3 DEF Shown
<1> QED
    BY <1>1, <1>2 DEF LogInv, wrapper

LEMMA StepLog ==
    ASSUME WrapperInv, LogInv, [WrapperNext]_wrapperVars PROVE LogInv'
<1> SUFFICES ASSUME cli'.log PROVE LogInv'
    BY DEF LogInv
<1> USE DEF WrapperInv
<1>1. CASE WrapperStep
    <2> USE DEF LogInv, ControlInv, Over, outside
    <2>1. CASE Result
        <3>1. cli.log /\ stderr = << >> /\ at' = "show" /\ UNCHANGED <<failed, stderr>>
            BY <2>1 DEF Result, lines, Say
        <3>2. CASE failed = "nothing"
            BY <3>1, <3>2
        <3>3. CASE failed # "nothing"
            <4>1. log' = Append(log, FatalLine)
                BY <2>1, <3>1, <3>3 DEF Result, Say, FatalLine
            <4>2. Len(log') \in Nat \ {0} /\ log'[Len(log')] = FatalLine
                BY <4>1, WrapperLines, AppendProperties DEF WrapperTypeOK, FatalLine
            <4>3. \E i \in 1 .. Len(log') : log'[i] = FatalLine
                BY <4>2
            <4> QED
                BY <3>1, <4>3
        <3> QED
            BY <3>2, <3>3
    <2>2. CASE Show /\ Success
        BY <2>2 DEF Show, Success, Say
    <2>3. CASE Show /\ ~Success
        <3>1. /\ cli.log /\ stderr = << >> /\ stderr' = Append(stderr \o log, FailedLine)
              /\ UNCHANGED <<log, failed, exit>> /\ at' = "exited" /\ at = "show"
            BY <2>3 DEF Show, FailedLine
        <3>2. stderr \o log = SubSeq(log, 1, Len(log))
            BY <3>1, SubSeqFull, ConcatEmptySeq DEF WrapperTypeOK
        <3>3. Len(log) \in 0 .. Len(log) /\ \A i \in Len(log) + 1 .. Len(log) : FALSE
            BY DEF WrapperTypeOK
        <3>4. failed # "nothing" => \E i \in 1 .. Len(log) : log[i] = FatalLine
            BY <3>1
        <3>5. PICK n \in 0 .. Len(log) : n = Len(log)
            BY <3>3
        <3>6. Shown(n)'
            BY <3>1, <3>2, <3>3, <3>4, <3>5 DEF Shown
        <3>7. exit # 0
            BY <2>3, <3>1 DEF Success
        <3> QED
            BY <3>1, <3>6, <3>7
    <2>4. CASE ~Result /\ ~Show
        BY <1>1, <2>4
           DEF WrapperStep, RedirectFails, SetUp, SetUpFails, RunCommand, RunFails, ReportStatus,
               NoChown, Chown, ChownFails, NoProfile, ReadDir, Load, Save, SaveFails, Fails, Say, lines
    <2> QED
        BY <2>1, <2>2, <2>3, <2>4
<1>2. CASE ProgramStep
    <2>1. CASE at \notin Over
        BY <1>2, <2>1
           DEF ProgramStep, OpenTrace, EmitClockSync, WriteEvent, Start, Says, Say, Return, IsKilled, Makes,
               LogInv, Over, wrapper, lines, ControlInv
    <2>2. CASE at \in Over
        <3>1. /\ UNCHANGED wrapper /\ (cli.log => UNCHANGED stderr)
              /\ log' = log \/ \E line \in Lines : line.by \notin {Root, "wrapper"} /\ log' = Append(log, line)
            BY <1>2, <2>2, RootIsStill DEF ControlInv
        <3> QED
            BY <3>1, LogGrows DEF wrapper
    <2> QED
        BY <2>1, <2>2
<1>3. CASE Tick \/ UNCHANGED wrapperVars
    BY <1>3 DEF Tick, wrapperVars, wrapper, lines, LogInv, Shown
<1> QED
    BY <1>1, <1>2, <1>3 DEF WrapperNext

(* The log that hides the output is shown with the wrapper's own error     *)
(* whenever the action fails, and only then                                *)
THEOREM FailureMeansShown == WrapperSpec => []FailureIsShown
<1>1. WrapperInit => LogInv
    BY DEF WrapperInit, LogInv
<1>2. LogInv => FailureIsShown
    BY DEF LogInv, FailureIsShown, Shown, FailedLine, FatalLine
<1> QED
    BY <1>1, <1>2, WrapperInvHolds, StepLog, PTL DEF WrapperSpec
----------------------------------------------------------------------------
(* Traces only grow, those of the command no more when it has ended        *)
LEMMA StreamsGrow ==
    ASSUME WrapperTypeOK, TracesInv, ProgramStep, NEW p \in Programs
    PROVE  /\ Len(stream[p]) <= Len(stream'[p])
           /\ \A i \in 1 .. Len(stream[p]) : stream'[p][i] = stream[p][i]
           /\ Len(stream[p]) > 0 => start'[p] = start[p]
<1> USE DEF programs, lines
<1>1. stream \in [Programs -> Seq(Tokens)] /\ Len(stream[p]) \in Nat
    BY DEF WrapperTypeOK, Tokens
<1>2. ASSUME NEW q \in Programs, NEW tokens \in Seq(Tokens), stream' = [stream EXCEPT ![q] = @ \o tokens]
      PROVE  /\ Len(stream[p]) <= Len(stream'[p])
             /\ \A i \in 1 .. Len(stream[p]) : stream'[p][i] = stream[p][i]
    <2>1. CASE p # q
        BY <1>1, <1>2, <2>1
    <2>2. CASE p = q
        BY <1>1, <1>2, <2>2
    <2> QED
        BY <2>1, <2>2
<1>3. ASSUME NEW q \in Programs, OpenTrace(q)
      PROVE  (p # q => stream'[p] = stream[p] /\ start'[p] = start[p]) /\ (p = q => Len(stream[p]) = 0)
    BY <1>3 DEF OpenTrace, WrapperTypeOK, TracesInv, TraceShape
<1>4. ASSUME NEW q \in Programs, EmitClockSync(q) \/ WriteEvent(q)
      PROVE  /\ UNCHANGED start
             /\ \E tokens \in Seq(Tokens) : stream' = [stream EXCEPT ![q] = @ \o tokens]
    <2>1. PICK name \in {"clock_sync", "span"} : stream' = [stream EXCEPT ![q] = @ \o <<Event(q, name)>>]
        <3>1. Append(stream[q], Event(q, "clock_sync")) = stream[q] \o <<Event(q, "clock_sync")>>
            BY <1>1, EventTypes, AppendIsConcat DEF Tokens
        <3> QED
            BY <1>1, <1>4, <3>1 DEF EmitClockSync, WriteEvent, Written
    <2>2. <<Event(q, name)>> \in Seq(Tokens)
        BY EventTypes DEF Tokens
    <2> QED
        BY <1>4, <2>1, <2>2 DEF EmitClockSync, WriteEvent
<1>5. ASSUME NEW q \in Programs, Return(q)
      PROVE  /\ UNCHANGED start
             /\ \/ UNCHANGED stream
                \/ \E tokens \in Seq(Tokens) : stream' = [stream EXCEPT ![q] = @ \o tokens]
    <2>1. Footer \in Seq(Tokens)
        BY DEF Footer, Tokens
    <2> QED
        BY <1>5, <2>1 DEF Return, DropFlushGuard
<1>6. ASSUME NEW q \in Programs, Start(q) \/ Says(q) \/ IsKilled(q) PROVE UNCHANGED <<stream, start>>
    BY <1>6 DEF Start, Says, IsKilled
<1>7. ASSUME NEW file \in Files, Makes(file) PROVE UNCHANGED <<stream, start>>
    BY <1>7 DEF Makes
<1>8. UNCHANGED <<stream, start>> => /\ Len(stream[p]) <= Len(stream'[p])
                                    /\ \A i \in 1 .. Len(stream[p]) : stream'[p][i] = stream[p][i]
                                    /\ start'[p] = start[p]
    BY <1>1
<1> QED
    BY <1>1, <1>2, <1>3, <1>4, <1>5, <1>6, <1>7, <1>8 DEF ProgramStep

(* A command that ended by itself has its whole trace in the file          *)
FlushedInv == state[Root] = "ended" /\ status.kind = "code" => flushed[Root] = Len(stream[Root])

LEMMA StepFlushed ==
    ASSUME WrapperInv, FlushedInv, [WrapperNext]_wrapperVars PROVE FlushedInv'
<1> USE OptionsAreTyped DEF WrapperInv, FlushedInv, programs, lines
<1>1. CASE WrapperStep
    <2>1. (state'[Root] = "ended" => state[Root] = "ended") /\ UNCHANGED <<status, stream, flushed>>
        BY <1>1
           DEF WrapperStep, RedirectFails, SetUp, SetUpFails, RunCommand, RunFails, ReportStatus,
               NoChown, Chown, ChownFails, NoProfile, ReadDir, Load, Save, SaveFails, Result, Show, outside, WrapperTypeOK
    <2> QED
        BY <2>1
<1>2. CASE ProgramStep
    <2>1. CASE state[Root] \in {"none", "ended"}
        BY <1>2, <2>1, RootIsStill
    <2>2. CASE state[Root] \notin {"none", "ended"}
        <3>1. CASE Return(Root)
            <4>1. state[Root] = "untraced" => Len(stream[Root]) = 0 /\ flushed[Root] = 0
                BY DEF TracesInv, TraceShape, WrapperTypeOK
            <4> QED
                BY <3>1, <4>1 DEF Return, DropFlushGuard, WrapperTypeOK
        <3>2. CASE IsKilled(Root)
            <4>1. status'.kind = "signal"
                BY <3>2 DEF IsKilled, Ends, Signal
            <4> QED
                BY <4>1
        <3>3. CASE ~Return(Root) /\ ~IsKilled(Root)
            <4>1. state'[Root] # "ended"
                BY <1>2, <2>2, <3>3
                   DEF ProgramStep, OpenTrace, EmitClockSync, WriteEvent, Start, Says, Return, IsKilled, Ends,
                       Makes, WrapperTypeOK
            <4> QED
                BY <4>1
        <3> QED
            BY <3>1, <3>2, <3>3
    <2> QED
        BY <2>1, <2>2
<1>3. CASE Tick \/ UNCHANGED wrapperVars
    BY <1>3 DEF Tick, wrapperVars, outside
<1> QED
    BY <1>1, <1>2, <1>3 DEF WrapperNext

(* The events loaded of each program: they are in one place, and are the   *)
(* first of its trace, or none when it is still to load; of the command    *)
(* they are all                                                            *)
Place(p, before, count) ==
    \A i \in 1 .. Len(merged) : merged[i].pid = p <=> i \in before + 1 .. before + count

First(p, before, count) ==
    /\ count > 0 => count + 1 <= Len(stream[p])
    /\ \A i \in 1 .. count :
           merged[before + i] = stream[p][i + 1] /\ IsEventOf(p, stream[p][i + 1], i + 1)

AllOfTheCommand(p, count) ==
    p = Root /\ p \notin entries /\ status.kind = "code" =>
        \A i \in 1 .. Len(stream[p]) - 1 : i > count => stream[p][i + 1] \notin Recorded

Kept(p) ==
    \E before, count \in 0 .. Len(merged) :
        /\ before + count <= Len(merged)
        /\ Place(p, before, count) /\ First(p, before, count) /\ AllOfTheCommand(p, count)
        /\ p \in entries => count = 0

MergedInv ==
    /\ at \notin {"load"} \union Over => merged = << >>
    /\ at \notin Over => profile = << >>
    /\ at = "load" => \A p \in Programs : Kept(p)
    /\ profile # << >> =>
           /\ \A p \in Programs : Kept(p)
           /\ entries = {} /\ at \in Over
           /\ profile = <<[events |-> [i \in DOMAIN merged |-> Adjusted(merged[i])], order |-> SortIndex]>>

\* The traces are read, none of them is loaded
LEMMA ReadDirKeeps ==
    ASSUME WrapperInv, MergedInv, ReadDir PROVE \A p \in Programs : Kept(p)'
<1> SUFFICES ASSUME NEW p \in Programs PROVE Kept(p)'
    OBVIOUS
<1>1. /\ merged' = << >> /\ entries' = Traced
      /\ UNCHANGED <<stream, start, status>>
    BY DEF ReadDir, MergedInv, Over, outside, programs
<1>2. Len(merged') = 0
    BY <1>1, EmptySeq
<1>3. p \notin entries' => Len(stream[p]) = 0
    BY <1>1, EmptySeq DEF Traced
<1>4. Place(p, 0, 0)' /\ First(p, 0, 0)'
    BY <1>2 DEF Place, First
<1>5. AllOfTheCommand(p, 0)'
    BY <1>1, <1>3 DEF AllOfTheCommand
<1> QED
    BY <1>2, <1>4, <1>5 DEF Kept

\* One more trace is loaded, of q
LEMMA LoadKeeps ==
    ASSUME WrapperInv, FlushedInv, MergedInv, at = "load", NEW q \in entries, Loads(q),
           entries' = entries \ {q}, merged' = merged \o Events(q),
           UNCHANGED <<stream, start, status>>
    PROVE  \A p \in Programs : Kept(p)'
<1> USE DEF WrapperInv
<1>1. SUFFICES ASSUME NEW p \in Programs PROVE Kept(p)'
    OBVIOUS
<1>2. q \in Programs /\ \A o \in Programs : Kept(o)
    BY DEF MergedInv, WrapperTypeOK, Traced
<1>3. PICK n \in 0 .. Len(stream[q]) : n = flushed[q]
    BY <1>2 DEF WrapperTypeOK
<1>4. PICK body \in Seq(Recorded) : body = Events(q)
    BY <1>2, <1>3, BodyOfTrace DEF Events, Trace
<1>5. /\ Len(body) \in Nat
      /\ Len(body) + 1 <= Len(stream[q]) \/ Len(body) = 0
      /\ \A i \in 1 .. Len(body) : body[i] = stream[q][i + 1] /\ IsEventOf(q, stream[q][i + 1], i + 1)
      /\ n = Len(stream[q]) => \A i \in 1 .. n - 1 : i > Len(body) => stream[q][i + 1] \notin Recorded
    <2>1. body = Body(SubSeq(stream[q], 1, n))
        BY <1>3, <1>4 DEF Events, Trace
    <2>2. /\ Len(Body(SubSeq(stream[q], 1, n))) + 1 <= Len(stream[q]) \/ Len(Body(SubSeq(stream[q], 1, n))) = 0
          /\ \A i \in 1 .. Len(Body(SubSeq(stream[q], 1, n))) :
                 /\ Body(SubSeq(stream[q], 1, n))[i] = stream[q][i + 1]
                 /\ IsEventOf(q, stream[q][i + 1], i + 1)
          /\ n = Len(stream[q]) =>
                 \A i \in 1 .. n - 1 :
                     i > Len(Body(SubSeq(stream[q], 1, n))) => stream[q][i + 1] \notin Recorded
        BY <1>2, BodyOfTrace, Zenon
    <2>3. Len(body) \in Nat
        BY <1>4
    <2> QED
        BY <2>1, <2>2, <2>3, Zenon
<1>6. /\ merged \in Seq(Recorded) /\ Len(merged) \in Nat
      /\ Len(merged') = Len(merged) + Len(body)
      /\ \A i \in 1 .. Len(merged) : merged'[i] = merged[i]
      /\ \A i \in 1 .. Len(body) : merged'[Len(merged) + i] = body[i]
    <2>1. merged' = merged \o body /\ merged \in Seq(Recorded)
        BY <1>4 DEF WrapperTypeOK
    <2> QED
        BY <2>1
<1>7. CASE p = q
    <2>1. \A i \in 1 .. Len(merged) : merged[i].pid # p
        BY <1>2, <1>7 DEF Kept, Place
    <2>2. PICK before, count \in 0 .. Len(merged') : before = Len(merged) /\ count = Len(body)
        BY <1>5, <1>6
    <2>3. \A i \in 1 .. count : merged'[before + i] = stream[p][i + 1] /\ IsEventOf(p, stream[p][i + 1], i + 1)
        BY <1>5, <1>6, <1>7, <2>2
    <2>4. Place(p, before, count)'
        <3>1. ASSUME NEW i \in 1 .. Len(merged'), i > Len(merged) PROVE merged'[i].pid = p
            <4>1. i - before \in 1 .. count /\ i = before + (i - before)
                BY <1>5, <1>6, <2>2, <3>1
            <4>2. PICK j \in 1 .. count : i = before + j
                BY <4>1
            <4> QED
                BY <2>3, <4>2 DEF IsEventOf
        <3> QED
            BY <1>5, <1>6, <2>1, <2>2, <3>1 DEF Place
    <2>5. First(p, before, count)'
        <3>1. count > 0 => count + 1 <= Len(stream'[p])
            BY <1>5, <1>7, <2>2
        <3>2. \A i \in 1 .. count : merged'[before + i] = stream'[p][i + 1] /\ IsEventOf(p, stream[p][i + 1], i + 1)'
            BY <2>3 DEF IsEventOf, IsSync
        <3> QED
            BY <3>1, <3>2 DEF First
    <2>6. AllOfTheCommand(p, count)'
        <3>1. p = Root => state[Root] = "ended"
            BY DEF ControlInv
        <3> QED
            BY <1>3, <1>5, <1>7, <2>2, <3>1 DEF AllOfTheCommand, FlushedInv
    <2> QED
        BY <1>6, <1>7, <2>2, <2>4, <2>5, <2>6 DEF Kept
<1>8. CASE p # q
    <2>1. PICK before, count \in 0 .. Len(merged) :
              /\ before + count <= Len(merged)
              /\ Place(p, before, count) /\ First(p, before, count) /\ AllOfTheCommand(p, count)
              /\ p \in entries => count = 0
        BY <1>2 DEF Kept
    <2>2. before \in 0 .. Len(merged') /\ count \in 0 .. Len(merged') /\ before + count <= Len(merged')
        BY <1>5, <1>6, <2>1
    <2>3. Place(p, before, count)'
        <3>1. ASSUME NEW i \in 1 .. Len(merged'), i > Len(merged) PROVE merged'[i].pid # p
            <4> DEFINE old == Len(merged)
                       new == Len(body)
            <4>1. old \in Nat /\ new \in Nat /\ i \in 1 .. old + new /\ i > old
                BY <1>5, <1>6, <3>1
            <4>2. i - old \in 1 .. new /\ i = old + (i - old)
                <5> HIDE DEF old, new
                <5> QED
                    BY <4>1
            <4>3. PICK j \in 1 .. Len(body) : i = Len(merged) + j
                BY <4>2
            <4>4. merged'[i] = stream[q][j + 1] /\ IsEventOf(q, stream[q][j + 1], j + 1)
                BY <1>5, <1>6, <4>3
            <4> QED
                BY <1>8, <4>4 DEF IsEventOf
        <3> QED
            BY <1>5, <1>6, <2>1, <3>1 DEF Place
    <2>4. First(p, before, count)'
        BY <1>6, <2>1 DEF First, IsEventOf, IsSync
    <2>5. AllOfTheCommand(p, count)'
        BY <1>8, <2>1 DEF AllOfTheCommand
    <2> QED
        BY <1>8, <2>1, <2>2, <2>3, <2>4, <2>5 DEF Kept
<1> QED
    BY <1>7, <1>8

\* Programs that were left behind add to what is not loaded any more
LEMMA LaterKeeps ==
    ASSUME WrapperInv, ProgramStep, at \in {"load"} \union Over, \A p \in Programs : Kept(p)
    PROVE  \A p \in Programs : Kept(p)'
<1> USE DEF WrapperInv
<1>1. SUFFICES ASSUME NEW p \in Programs PROVE Kept(p)'
    OBVIOUS
<1>2. state[Root] \in {"none", "ended"}
    BY DEF ControlInv
<1>3. UNCHANGED <<merged, entries, status>> /\ stream'[Root] = stream[Root]
    BY <1>2, RootIsStill DEF wrapper
<1>4. PICK before, count \in 0 .. Len(merged) :
          /\ before + count <= Len(merged)
          /\ Place(p, before, count) /\ First(p, before, count) /\ AllOfTheCommand(p, count)
          /\ p \in entries => count = 0
    BY DEF Kept
<1>5. /\ Len(stream[p]) <= Len(stream'[p])
      /\ \A i \in 1 .. Len(stream[p]) : stream'[p][i] = stream[p][i]
      /\ Len(stream[p]) > 0 => start'[p] = start[p]
    BY StreamsGrow
<1>6. /\ stream[p] \in Seq(Tokens) /\ Len(stream[p]) \in Nat
      /\ merged \in Seq(Recorded) /\ Len(merged) \in Nat
    BY DEF WrapperTypeOK, Tokens
<1>7. Place(p, before, count)'
    BY <1>3, <1>4 DEF Place
<1>8. First(p, before, count)'
    <2>1. count > 0 => count + 1 <= Len(stream'[p])
        <3>1. WrapperTypeOK'
            BY ProgramsKeepTypes
        <3>2. Len(stream'[p]) \in Nat
            BY <3>1 DEF WrapperTypeOK
        <3> QED
            BY <1>4, <1>5, <1>6, <3>2 DEF First
    <2>2. ASSUME NEW i \in 1 .. count
          PROVE  /\ stream'[p][i + 1] = stream[p][i + 1] /\ merged[before + i] = stream[p][i + 1]
                 /\ start'[p] = start[p] /\ IsEventOf(p, stream[p][i + 1], i + 1)
        <3>1. i + 1 \in 1 .. Len(stream[p]) /\ Len(stream[p]) > 0
            BY <1>4, <1>6 DEF First
        <3> QED
            BY <1>4, <1>5, <3>1 DEF First
    <2>3. ASSUME NEW i \in 1 .. count
          PROVE  merged'[before + i] = stream'[p][i + 1] /\ IsEventOf(p, stream[p][i + 1], i + 1)'
        BY <1>3, <2>2 DEF IsEventOf, IsSync
    <2> QED
        BY <2>1, <2>3 DEF First
<1>9. AllOfTheCommand(p, count)'
    BY <1>3, <1>4 DEF AllOfTheCommand
<1> QED
    BY <1>3, <1>4, <1>7, <1>8, <1>9 DEF Kept

LEMMA StepMerged ==
    ASSUME WrapperInv, FlushedInv, MergedInv, [WrapperNext]_wrapperVars PROVE MergedInv'
<1> USE DEF WrapperInv, Over
<1>1. CASE ReadDir
    <2>1. /\ at' = "load" /\ at = "merge" /\ UNCHANGED profile
        BY <1>1 DEF ReadDir
    <2> QED
        BY <1>1, <2>1, ReadDirKeeps DEF MergedInv
<1>2. CASE Load
    <2>1. PICK q \in entries :
              IF Loads(q)
              THEN /\ entries' = entries \ {q} /\ merged' = merged \o Events(q)
                   /\ UNCHANGED <<cli, at, failed, exit, origin, profile>>
              ELSE Fails("load")
        BY <1>2 DEF Load
    <2>2. at = "load" /\ profile = << >> /\ UNCHANGED <<stream, start, status>>
        BY <1>2 DEF Load, MergedInv, outside, programs
    <2>3. CASE Loads(q)
        BY <2>1, <2>2, <2>3, LoadKeeps DEF MergedInv
    <2>4. CASE ~Loads(q)
        BY <2>1, <2>2, <2>4 DEF MergedInv, Fails
    <2> QED
        BY <2>3, <2>4
<1>3. CASE Save
    <2>1. /\ at = "load" /\ at' = "result" /\ entries = {}
          /\ UNCHANGED <<entries, merged, origin, stream, start, status>>
          /\ profile' = <<[events |-> [i \in DOMAIN merged |-> Adjusted(merged[i])], order |-> SortIndex]>>
        BY <1>3 DEF Save, outside, programs
    <2>2. \A p \in Programs : Kept(p)'
        <3>1. SUFFICES ASSUME NEW p \in Programs PROVE Kept(p)'
            OBVIOUS
        <3>2. PICK before, count \in 0 .. Len(merged) :
                  /\ before + count <= Len(merged)
                  /\ Place(p, before, count) /\ First(p, before, count) /\ AllOfTheCommand(p, count)
                  /\ p \in entries => count = 0
            BY <2>1 DEF MergedInv, Kept
        <3>3. Place(p, before, count)'
            BY <2>1, <3>2 DEF Place
        <3>4. First(p, before, count)'
            BY <2>1, <3>2 DEF First, IsEventOf, IsSync
        <3>5. AllOfTheCommand(p, count)'
            BY <2>1, <3>2 DEF AllOfTheCommand
        <3> QED
            BY <2>1, <3>2, <3>3, <3>4, <3>5 DEF Kept
    <2>3. profile' = <<[events |-> [i \in DOMAIN merged |-> Adjusted(merged[i])], order |-> SortIndex]>>'
        BY <2>1 DEF Adjusted, SortIndex, Base, Synced, IsSync
    <2> QED
        BY <2>1, <2>2, <2>3 DEF MergedInv
<1>4. CASE WrapperStep /\ ~ReadDir /\ ~Load /\ ~Save
    <2>1. /\ UNCHANGED <<entries, merged, profile, stream, start, status>>
          /\ profile # << >> => UNCHANGED origin
          /\ at' = "load" => at = "load"
          /\ at' \notin {"load"} \union Over => at \notin {"load"} \union Over
          /\ at' \notin Over => at \notin Over
          /\ at \in Over => at' \in Over
        BY <1>4
           DEF WrapperStep, RedirectFails, SetUp, SetUpFails, RunCommand, RunFails, ReportStatus,
               NoChown, Chown, ChownFails, NoProfile, SaveFails, Result, Show, Fails, outside, programs, MergedInv
    <2>2. ASSUME NEW p \in Programs, Kept(p) PROVE Kept(p)'
        BY <2>1, <2>2 DEF Kept, Place, First, AllOfTheCommand, IsEventOf, IsSync
    <2>3. profile # << >> /\ profile = <<[events |-> [i \in DOMAIN merged |-> Adjusted(merged[i])], order |-> SortIndex]>>
          => profile' = <<[events |-> [i \in DOMAIN merged |-> Adjusted(merged[i])], order |-> SortIndex]>>'
        BY <2>1 DEF Adjusted, SortIndex, Base, Synced, IsSync
    <2> QED
        BY <2>1, <2>2, <2>3 DEF MergedInv
<1>5. CASE ProgramStep
    <2>1. UNCHANGED wrapper
        BY <1>5
           DEF ProgramStep, OpenTrace, EmitClockSync, WriteEvent, Start, Says, Return, IsKilled, Makes
    <2>2. at \in {"load"} \union Over /\ (\A p \in Programs : Kept(p)) => \A p \in Programs : Kept(p)'
        BY <1>5, LaterKeeps
    <2>3. profile = <<[events |-> [i \in DOMAIN merged |-> Adjusted(merged[i])], order |-> SortIndex]>>
          => profile' = <<[events |-> [i \in DOMAIN merged |-> Adjusted(merged[i])], order |-> SortIndex]>>'
        BY <2>1 DEF wrapper, Adjusted, SortIndex, Base, Synced, IsSync
    <2> QED
        BY <2>1, <2>2, <2>3 DEF MergedInv, wrapper
<1>6. CASE Tick \/ UNCHANGED wrapperVars
    <2>1. UNCHANGED <<wrapper, programs>>
        BY <1>6 DEF Tick, wrapperVars, outside
    <2>2. ASSUME NEW p \in Programs, Kept(p) PROVE Kept(p)'
        BY <2>1, <2>2 DEF wrapper, programs, Kept, Place, First, AllOfTheCommand, IsEventOf, IsSync
    <2>3. profile = <<[events |-> [i \in DOMAIN merged |-> Adjusted(merged[i])], order |-> SortIndex]>>
          => profile' = <<[events |-> [i \in DOMAIN merged |-> Adjusted(merged[i])], order |-> SortIndex]>>'
        BY <2>1 DEF wrapper, Adjusted, SortIndex, Base, Synced, IsSync
    <2> QED
        BY <2>1, <2>2, <2>3 DEF MergedInv, wrapper
<1> QED
    BY <1>1, <1>2, <1>3, <1>4, <1>5, <1>6 DEF WrapperNext

ProfileInv == WrapperInv /\ FlushedInv /\ MergedInv

LEMMA ProfileInvHolds == WrapperSpec => []ProfileInv
<1>1. WrapperInit => FlushedInv /\ MergedInv
    BY OptionsAreTyped DEF WrapperInit, FlushedInv, MergedInv, Over
<1> QED
    BY <1>1, WrapperInvHolds, StepFlushed, StepMerged, PTL DEF WrapperSpec, ProfileInv

\* Adjusting an event changes its timestamp only
LEMMA AdjustedEvent ==
    ASSUME NEW event \in Recorded
    PROVE  /\ Adjusted(event).name = event.name
           /\ Adjusted(event).pid = event.pid
           /\ Adjusted(event).system_time = event.system_time
           /\ event.pid \in Synced => Adjusted(event).ts = event.ts + Base(event.pid) - origin
BY DEF Adjusted, Recorded

(* The profile has the first events of every program, once and in order,   *)
(* and all of a command that ended by itself                               *)
THEOREM TracesAreInTheProfile == WrapperSpec => []TracesAreKept
<1>1. ASSUME ProfileInv, profile # << >>, NEW p \in Programs
      PROVE  \E before, count \in 0 .. Len(profile[1].events) :
                LET events == profile[1].events
                    written == Body(stream[p])
                    same(one, other) == one.name = other.name /\ one.system_time = other.system_time
                IN  /\ \A i \in DOMAIN events : events[i].pid = p <=> i \in before + 1 .. before + count
                    /\ count <= Len(written)
                    /\ \A i \in 1 .. count : same(events[before + i], written[i])
                    /\ p = Root /\ status.kind = "code" => count = Len(written)
    <2> USE <1>1 DEF ProfileInv, WrapperInv
    <2>1. PICK events : events = [i \in DOMAIN merged |-> Adjusted(merged[i])] /\ profile[1].events = events
        BY DEF MergedInv
    <2>2. /\ merged \in Seq(Recorded) /\ Len(merged) \in Nat /\ DOMAIN merged = 1 .. Len(merged)
          /\ Len(events) = Len(merged) /\ DOMAIN events = 1 .. Len(merged)
          /\ \A i \in 1 .. Len(merged) : merged[i] \in Recorded /\ events[i] = Adjusted(merged[i])
        BY <2>1 DEF WrapperTypeOK
    <2>3. PICK before, count \in 0 .. Len(merged) :
              /\ before + count <= Len(merged)
              /\ Place(p, before, count) /\ First(p, before, count) /\ AllOfTheCommand(p, count)
        BY DEF MergedInv, Kept
    <2>4. PICK body : body = Body(stream[p])
        OBVIOUS
    <2>5. /\ stream[p] \in Seq(Tokens) /\ Len(stream[p]) \in Nat /\ SubSeq(stream[p], 1, Len(stream[p])) = stream[p]
          /\ Len(stream[p]) \in 0 .. Len(stream[p])
        BY SubSeqFull DEF WrapperTypeOK, Tokens
    <2>6. /\ Len(body) \in Nat /\ (Len(body) + 1 <= Len(stream[p]) \/ Len(body) = 0)
          /\ \A i \in 1 .. Len(body) : body[i] = stream[p][i + 1] /\ IsEventOf(p, stream[p][i + 1], i + 1)
          /\ \A i \in 1 .. Len(stream[p]) - 1 : i > Len(body) => stream[p][i + 1] \notin Recorded
        <3>1. Body(SubSeq(stream[p], 1, Len(stream[p]))) = body
            BY <2>4, <2>5
        <3>2. body \in Seq(Recorded)
            BY <2>5, <3>1, BodyOfTrace
        <3>3. /\ Len(body) + 1 <= Len(stream[p]) \/ Len(body) = 0
              /\ \A i \in 1 .. Len(body) : body[i] = stream[p][i + 1] /\ IsEventOf(p, stream[p][i + 1], i + 1)
              /\ \A i \in 1 .. Len(stream[p]) - 1 : i > Len(body) => stream[p][i + 1] \notin Recorded
            BY <2>5, <3>1, BodyOfTrace
        <3> QED
            BY <3>2, <3>3
    <2>7. /\ count > 0 => count + 1 <= Len(stream[p])
          /\ \A i \in 1 .. count : merged[before + i] = stream[p][i + 1] /\ stream[p][i + 1] \in Recorded
        BY <2>3 DEF First, IsEventOf
    <2>8. count <= Len(body)
        <3>1. SUFFICES ASSUME count > Len(body) PROVE FALSE
            BY <2>2, <2>6
        <3>2. /\ Len(body) + 1 \in 1 .. Len(stream[p]) - 1 /\ Len(body) + 1 > Len(body)
              /\ Len(body) + 1 \in 1 .. count
            BY <2>5, <2>6, <2>7, <3>1
        <3> QED
            BY <2>6, <2>7, <3>2
    <2>9. p = Root /\ status.kind = "code" => count = Len(body)
        <3>1. SUFFICES ASSUME p = Root, status.kind = "code", count < Len(body) PROVE FALSE
            BY <2>6, <2>8
        <3>2. p \notin entries
            BY DEF MergedInv
        <3>3. \A i \in 1 .. Len(stream[p]) - 1 : i > count => stream[p][i + 1] \notin Recorded
            BY <2>3, <3>1, <3>2 DEF AllOfTheCommand
        <3>4. count + 1 \in 1 .. Len(stream[p]) - 1 /\ count + 1 > count /\ count + 1 \in 1 .. Len(body)
            BY <2>5, <2>6, <3>1
        <3>5. stream[p][count + 1 + 1] \in Recorded
            BY <2>6, <3>4 DEF IsEventOf
        <3> QED
            BY <3>3, <3>4, <3>5
    <2>10. \A i \in DOMAIN events : events[i].pid = p <=> i \in before + 1 .. before + count
        BY <2>2, <2>3, AdjustedEvent DEF Place
    <2>11. ASSUME NEW i \in 1 .. count
           PROVE  /\ events[before + i].name = body[i].name
                  /\ events[before + i].system_time = body[i].system_time
        <3>1. before + i \in 1 .. Len(merged) /\ i \in 1 .. Len(body)
            BY <2>2, <2>3, <2>6, <2>8
        <3>2. merged[before + i] = body[i] /\ merged[before + i] \in Recorded
            BY <2>2, <2>6, <2>7, <3>1
        <3> QED
            BY <2>2, <3>1, <3>2, AdjustedEvent
    <2>12. before \in 0 .. Len(profile[1].events) /\ count \in 0 .. Len(profile[1].events)
        BY <2>1, <2>2
    <2> USE <2>12
    <2> WITNESS before \in 0 .. Len(profile[1].events), count \in 0 .. Len(profile[1].events)
    <2> QED
        BY <2>1, <2>4, <2>8, <2>9, <2>10, <2>11
<1>2. ProfileInv => TracesAreKept
    BY <1>1 DEF TracesAreKept
<1> QED
    BY <1>2, ProfileInvHolds, PTL
----------------------------------------------------------------------------
(* A finite set whose elements have numbers can be listed in their order   *)
Sorted(order, value) == \A i, j \in DOMAIN order : i < j => value[order[i]] <= value[order[j]]

LEMMA LastOf ==
    ASSUME NEW S, S # {}, NEW bound \in Nat, NEW value, \A x \in S : value[x] \in 0 .. bound
    PROVE  \E x \in S : \A y \in S : value[y] <= value[x]
<1>1. {bound - value[x] : x \in S} \subseteq Nat /\ {bound - value[x] : x \in S} # {}
    OBVIOUS
<1>2. PICK n \in {bound - value[x] : x \in S} : \A m \in {bound - value[x] : x \in S} : n <= m
    BY <1>1, LeastNumber
<1>3. PICK x \in S : n = bound - value[x]
    BY <1>2
<1>4. ASSUME NEW y \in S PROVE value[y] <= value[x]
    <2>1. bound - value[x] <= bound - value[y]
        BY <1>2, <1>3
    <2> QED
        BY <2>1
<1> QED
    BY <1>4

LEMMA SortedOrderExists ==
    ASSUME NEW S, IsFiniteSet(S), NEW bound \in Nat, NEW value, \A x \in S : value[x] \in 0 .. bound
    PROVE  \E order \in Bijection(1 .. Cardinality(S), S) : Sorted(order, value)
<1> DEFINE HasOrder(T) == \E order \in Bijection(1 .. Cardinality(T), T) : Sorted(order, value)
<1> DEFINE Bad == {n \in Nat : \E T \in SUBSET S : Cardinality(T) = n /\ ~HasOrder(T)}
<1>1. SUFFICES ASSUME ~HasOrder(S) PROVE FALSE
    OBVIOUS
<1>2. Cardinality(S) \in Bad
    BY <1>1, FS_CardinalityType
<1>3. PICK n \in Bad : \A m \in Bad : n <= m
    BY <1>2, LeastNumber
<1>4. PICK T \in SUBSET S : Cardinality(T) = n /\ ~HasOrder(T)
    BY <1>3
<1> HIDE DEF Bad
<1>5. IsFiniteSet(T) /\ n \in Nat
    BY <1>3, <1>4, FS_Subset DEF Bad
<1>6. T # {}
    <2>1. SUFFICES ASSUME T = {} PROVE FALSE
        OBVIOUS
    <2>2. Cardinality(T) = 0
        BY <2>1, FS_EmptySet
    <2>3. [i \in {} |-> i] \in Bijection(1 .. 0, {}) /\ Sorted([i \in {} |-> i], value)
        BY DEF Bijection, Injection, IsInjective, Surjection, Sorted
    <2> QED
        BY <1>4, <2>1, <2>2, <2>3
<1>7. PICK x \in T : \A y \in T : value[y] <= value[x]
    BY <1>6, LastOf
<1>8. IsFiniteSet(T \ {x}) /\ Cardinality(T \ {x}) = n - 1 /\ n - 1 \in Nat
    <2>1. IsFiniteSet(T \ {x}) /\ Cardinality(T \ {x}) = n - 1
        BY <1>4, <1>5, <1>7, FS_RemoveElement
    <2> QED
        BY <2>1, FS_CardinalityType
<1>9. HasOrder(T \ {x})
    <2>1. SUFFICES ASSUME ~HasOrder(T \ {x}) PROVE FALSE
        OBVIOUS
    <2>2. n - 1 \in Bad
        BY <1>8, <2>1 DEF Bad
    <2> QED
        BY <1>3, <1>5, <2>2
<1>10. PICK order \in Bijection(1 .. n - 1, T \ {x}) : Sorted(order, value)
    BY <1>8, <1>9
<1>11. PICK longer : longer = [i \in 1 .. n |-> IF i = n THEN x ELSE order[i]]
    OBVIOUS
<1>12. /\ order \in [1 .. n - 1 -> T \ {x}]
       /\ \A i, j \in 1 .. n - 1 : order[i] = order[j] => i = j
       /\ \A y \in T \ {x} : \E i \in 1 .. n - 1 : order[i] = y
    BY DEF Bijection, Injection, IsInjective, Surjection
<1>13. longer \in [1 .. n -> T]
    BY <1>5, <1>11, <1>12
<1>14. \A i, j \in 1 .. n : longer[i] = longer[j] => i = j
    BY <1>5, <1>11, <1>12
<1>15. \A y \in T : \E i \in 1 .. n : longer[i] = y
    <2> SUFFICES ASSUME NEW y \in T PROVE \E i \in 1 .. n : longer[i] = y
        OBVIOUS
    <2>1. CASE y = x
        BY <1>5, <1>8, <1>11, <2>1
    <2>2. CASE y # x
        <3>1. PICK i \in 1 .. n - 1 : order[i] = y
            BY <1>12, <2>2
        <3> QED
            BY <1>5, <1>11, <3>1
    <2> QED
        BY <2>1, <2>2
<1>16. longer \in Bijection(1 .. n, T)
    BY <1>13, <1>14, <1>15 DEF Bijection, Injection, IsInjective, Surjection
<1>17. Sorted(longer, value)
    <2> SUFFICES ASSUME NEW i \in 1 .. n, NEW j \in 1 .. n, i < j PROVE value[longer[i]] <= value[longer[j]]
        BY <1>13 DEF Sorted
    <2>1. i \in 1 .. n - 1 /\ longer[i] = order[i] /\ longer[i] \in T
        BY <1>5, <1>11, <1>12
    <2>2. CASE j = n
        BY <1>7, <1>11, <2>1, <2>2
    <2>3. CASE j # n
        <3>1. j \in 1 .. n - 1 /\ longer[j] = order[j]
            BY <1>5, <1>11, <2>3
        <3> QED
            BY <1>10, <1>12, <2>1, <3>1 DEF Sorted
    <2> QED
        BY <2>2, <2>3
<1> QED
    BY <1>4, <1>16, <1>17

LEMMA TimesAreNumbers ==
    ASSUME WrapperTypeOK
    PROVE  /\ origin \in Int /\ \A p \in Programs : start[p] \in Int
           /\ \A event \in Recorded : event.ts \in Int /\ event.system_time \in Int /\ event.pid \in Programs
<1>1. origin \in Int /\ clock \in Nat
    BY OptionsAreTyped DEF WrapperTypeOK
<1>2. \A p \in Programs : start[p] \in Int
    BY <1>1 DEF WrapperTypeOK
<1>3. \A event \in Recorded : event.ts \in Int /\ event.system_time \in Int /\ event.pid \in Programs
    BY OptionsAreTyped DEF Recorded
<1> QED
    BY <1>1, <1>2, <1>3

\* The time at which a program started its trace can be told from any of its events
LEMMA BaseIsStart ==
    ASSUME ProfileInv, profile # << >>, NEW i \in 1 .. Len(merged)
    PROVE  /\ merged[i] \in Recorded
           /\ merged[i].pid \in Synced
           /\ Base(merged[i].pid) = start[merged[i].pid]
           /\ merged[i].ts = merged[i].system_time - start[merged[i].pid]
<1> USE DEF ProfileInv, WrapperInv
<1>1. merged[i] \in Recorded /\ Len(merged) \in Nat /\ DOMAIN merged = 1 .. Len(merged)
    BY DEF WrapperTypeOK
<1>2. PICK p \in Programs : p = merged[i].pid
    BY <1>1 DEF Recorded
<1>3. PICK before, count \in 0 .. Len(merged) :
          before + count <= Len(merged) /\ Place(p, before, count) /\ First(p, before, count)
    BY DEF MergedInv, Kept
<1>4. ASSUME NEW j \in 1 .. Len(merged), merged[j].pid = p
      PROVE  IsEventOf(p, merged[j], j - before + 1) /\ j - before >= 1 /\ count >= 1
    <2>1. j \in before + 1 .. before + count
        BY <1>3, <1>4 DEF Place
    <2>2. j - before \in 1 .. count /\ before + (j - before) = j
        BY <2>1
    <2>3. PICK k \in 1 .. count : k = j - before /\ before + k = j
        BY <2>2
    <2>4. merged[j] = stream[p][k + 1] /\ IsEventOf(p, stream[p][k + 1], k + 1)
        BY <1>3, <2>3 DEF First
    <2> QED
        BY <2>3, <2>4
<1>5. before + 1 \in 1 .. Len(merged) /\ merged[before + 1].pid = p /\ IsSync(merged[before + 1])
    <2>1. count >= 1
        BY <1>2, <1>4
    <2>2. 1 \in 1 .. count /\ before + 1 \in 1 .. Len(merged)
        BY <1>1, <1>3, <2>1
    <2>3. merged[before + 1] = stream[p][1 + 1] /\ IsEventOf(p, stream[p][1 + 1], 1 + 1)
        BY <1>3, <2>2 DEF First
    <2> QED
        BY <2>2, <2>3 DEF IsEventOf
<1>6. p \in Synced
    BY <1>1, <1>5 DEF Synced
<1>7. Base(p) = start[p]
    <2>1. PICK j \in DOMAIN merged : /\ IsSync(merged[j]) /\ merged[j].pid = p
                                     /\ Base(p) = merged[j].system_time - merged[j].ts
        BY <1>1, <1>5 DEF Base
    <2>2. merged[j].ts = merged[j].system_time - start[p]
        BY <1>1, <1>4, <2>1 DEF IsEventOf
    <2>3. merged[j].system_time \in Int /\ start[p] \in Int
        BY <1>1, <1>4, <2>1, TimesAreNumbers DEF IsEventOf
    <2> QED
        BY <2>1, <2>2, <2>3
<1>8. merged[i].ts = merged[i].system_time - start[p]
    BY <1>2, <1>4 DEF IsEventOf
<1> QED
    BY <1>1, <1>2, <1>6, <1>7, <1>8

\* The list of programs in the order of their start
LEMMA SortIndexOrder ==
    ASSUME ProfileInv, profile # << >>
    PROVE  /\ SortIndex \in Bijection(1 .. Cardinality(Synced), Synced)
           /\ \A i, j \in DOMAIN SortIndex : i < j => Base(SortIndex[i]) <= Base(SortIndex[j])
<1> USE DEF ProfileInv, WrapperInv
<1>1. Len(merged) \in Nat /\ DOMAIN merged = 1 .. Len(merged)
    BY DEF WrapperTypeOK
<1>2. IsFiniteSet(Synced)
    <2>1. PICK S : S = {j \in 1 .. Len(merged) : IsSync(merged[j])}
        OBVIOUS
    <2>2. IsFiniteSet(S)
        <3>1. IsFiniteSet(1 .. Len(merged))
            BY <1>1, FS_Interval
        <3> QED
            BY <2>1, <3>1, FS_Subset
    <2>3. [j \in S |-> merged[j].pid] \in Surjection(S, Synced)
        BY <1>1, <2>1 DEF Surjection, Synced
    <2> QED
        BY <2>2, <2>3, FS_Surjection
<1>3. PICK value : value = [p \in Synced |-> Base(p)]
    OBVIOUS
<1>4. \A p \in Synced : value[p] \in 0 .. MaxClock
    <2> SUFFICES ASSUME NEW p \in Synced PROVE Base(p) \in 0 .. MaxClock
        BY <1>3
    <2>1. PICK i \in 1 .. Len(merged) : p = merged[i].pid
        BY <1>1 DEF Synced
    <2>2. Base(p) = start[p] /\ p \in Programs
        BY <2>1, BaseIsStart DEF Recorded
    <2> QED
        BY <2>2, OptionsAreTyped DEF WrapperTypeOK
<1>5. PICK order \in Bijection(1 .. Cardinality(Synced), Synced) : Sorted(order, value)
    BY <1>2, <1>4, SortedOrderExists, OptionsAreTyped
<1>6. \A i, j \in DOMAIN order : i < j => Base(order[i]) <= Base(order[j])
    <2>1. \A i \in DOMAIN order : value[order[i]] = Base(order[i])
        BY <1>3, <1>5 DEF Bijection, Injection
    <2> QED
        BY <1>5, <2>1 DEF Sorted
<1> QED
    BY <1>5, <1>6 DEF SortIndex

(* Whenever programs were started, the profile has one clock for all their *)
(* events, and lists them in the order of their start                      *)
THEOREM OneClock == WrapperSpec => []ProfileHasOneClock
<1>1. ASSUME ProfileInv, profile # << >>
      PROVE  LET events == ToSet(profile[1].events)
                 order == profile[1].order
             IN  /\ \A event \in events : event.ts = event.system_time - origin
                 /\ ToSet(order) = {event.pid : event \in events}
                 /\ \A i, j \in DOMAIN order :
                        i < j => order[i] # order[j] /\ start[order[i]] <= start[order[j]]
    <2> USE <1>1 DEF ProfileInv, WrapperInv
    <2>1. PICK events, order : /\ events = [i \in DOMAIN merged |-> Adjusted(merged[i])] /\ order = SortIndex
                               /\ profile[1].events = events /\ profile[1].order = order
        BY DEF MergedInv
    <2>2. Len(merged) \in Nat /\ DOMAIN merged = 1 .. Len(merged)
        BY DEF WrapperTypeOK
    <2>3. ASSUME NEW i \in 1 .. Len(merged)
          PROVE  /\ events[i].pid = merged[i].pid
                 /\ events[i].ts = events[i].system_time - origin
        <3>1. /\ merged[i] \in Recorded /\ merged[i].pid \in Synced /\ Base(merged[i].pid) = start[merged[i].pid]
              /\ merged[i].ts = merged[i].system_time - start[merged[i].pid]
            BY BaseIsStart
        <3>2. /\ Adjusted(merged[i]).pid = merged[i].pid
              /\ Adjusted(merged[i]).system_time = merged[i].system_time
              /\ Adjusted(merged[i]).ts = merged[i].ts + Base(merged[i].pid) - origin
            BY <3>1, AdjustedEvent
        <3>3. merged[i].system_time \in Int /\ start[merged[i].pid] \in Int /\ origin \in Int
            BY <3>1, TimesAreNumbers
        <3> QED
            BY <2>1, <2>2, <3>1, <3>2, <3>3
    <2>4. ToSet(events) = {events[i] : i \in 1 .. Len(merged)}
        BY <2>1, <2>2 DEF ToSet
    <2>5. \A event \in ToSet(events) : event.ts = event.system_time - origin
        BY <2>3, <2>4
    <2>6. /\ order \in Bijection(1 .. Cardinality(Synced), Synced)
          /\ \A i, j \in DOMAIN order : i < j => Base(order[i]) <= Base(order[j])
        BY <2>1, SortIndexOrder
    <2>7. /\ order \in [1 .. Cardinality(Synced) -> Synced]
          /\ \A i, j \in DOMAIN order : order[i] = order[j] => i = j
          /\ \A p \in Synced : \E i \in DOMAIN order : order[i] = p
        BY <2>6 DEF Bijection, Injection, IsInjective, Surjection
    <2>8. ToSet(order) = Synced
        BY <2>7 DEF ToSet
    <2>9. Synced = {merged[i].pid : i \in 1 .. Len(merged)}
        BY <2>2, BaseIsStart DEF Synced
    <2>10. {event.pid : event \in ToSet(events)} = Synced
        BY <2>3, <2>4, <2>9
    <2>11. ASSUME NEW i \in DOMAIN order, NEW j \in DOMAIN order, i < j
           PROVE  order[i] # order[j] /\ start[order[i]] <= start[order[j]]
        <3>1. order[i] \in Synced /\ order[j] \in Synced /\ i # j
            BY <2>7, <2>11
        <3>2. Base(order[i]) = start[order[i]] /\ Base(order[j]) = start[order[j]]
            BY <2>9, <3>1, BaseIsStart
        <3> QED
            BY <2>6, <2>7, <2>11, <3>1, <3>2
    <2> QED
        BY <2>1, <2>5, <2>8, <2>10, <2>11
<1>2. ProfileInv => ProfileHasOneClock
    BY <1>1 DEF ProfileHasOneClock
<1> QED
    BY <1>2, ProfileInvHolds, PTL
----------------------------------------------------------------------------
(* The three programs side by side                                         *)

LEMMA LayerIsAll == LayerSpec => Spec /\ ExtractSpec /\ WrapperSpec
<1>1. LayerInit => Init /\ ExtractInit /\ WrapperInit
    BY DEF LayerInit
<1>2. [LayerNext]_layerVars => [Next]_vars /\ [ExtractNext]_extractVars /\ [WrapperNext]_wrapperVars
    BY DEF LayerNext, layerVars
<1> QED
    BY <1>1, <1>2, PTL DEF LayerSpec, Spec, ExtractSpec, WrapperSpec

(* Every variable of the conversion, of extract_package and of the wrapper *)
(* keeps its type                                                          *)
THEOREM LayerTyping == LayerSpec => []TypesAreKept
<1>1. TypeOK /\ ExtractTypeOK /\ WrapperTypeOK => TypesAreKept
    BY DEF TypesAreKept
<1> QED
    BY <1>1, LayerIsAll, ConvertTyping, ExtractTyping, WrapperTyping, PTL

(* An action of a layer keeps all that its three programs promise: no      *)
(* directory is lost to converters, and no mode, symlink or whiteout       *)
(* either, as far as their locks go; the package is complete in its new    *)
(* place, hooks are skipped only where they would do nothing else, and the *)
(* wrapper shows every failure and keeps every trace                       *)
THEOREM LayerKeepsPromises ==
    LayerSpec => []( /\ NothingIsLost /\ SoleSuccessIsComplete
                     /\ MergeIsComplete /\ CleanHooksCanBeSkipped
                     /\ FailureIsShown /\ SuccessIsComplete /\ TracesAreKept /\ ProfileHasOneClock )
BY LayerIsAll, ContentSurvives, LoneConversion, MergesAreComplete, HooksCanBeSkipped,
   FailureMeansShown, SuccessMeansComplete, TracesAreInTheProfile, OneClock, PTL
===============================================================================
