------------------------- MODULE DurableTreeProofs -------------------------
(***************************************************************************)
(* Safety of durable trees, for every set of paths, of directories to      *)
(* convert and of expanders: the types, that a hot tree is left alone,     *)
(* that a restored tree is the original one, and that a restoration never  *)
(* runs under somebody's mount.  What the layers of an expanded tree show  *)
(* is then the tree the action made, and durable trees implement the store *)
(* of TreeStore.                                                           *)
(*                                                                         *)
(* The invariants come in layers, each proved from the ones before it.     *)
(***************************************************************************)
EXTENDS DurableTree, SequenceTheorems, WellFoundedInduction, TLAPS

----------------------------------------------------------------------------
(* The inductive invariants                                                *)

\* An expander restores recorded files and directories
LocalsInv ==
    \A p \in Expanders :
        /\ todo[p] \subseteq {e \in Recorded : manifest[e].kind \in Storable}
        /\ pc[p] \in {"xattrs", "mode"} => cur[p] \in todo[p]
        /\ pc[p] \notin {"restore", "xattrs", "mode"} => todo[p] = {}

\* Nobody gets past the marker before the conversion is complete, and then
\* the tree stays hot until Bazel cools it down
HotInv ==
    /\ phase = "published" => cpc = "done"
    /\ "marker" \in topFiles => cpc = "done"
    /\ phase = "action" /\ cpc \in {"mark", "done"} => topMode = "hot"
    /\ \A p \in Expanders : pc[p] # "idle" => cpc = "done"
    /\ HotTreeIsLeftAlone

\* From the marker on the path names the top directory, and whoever is
\* between its flock and the end of expand_impl owns that lock
LockInv ==
    /\ cpc \in {"walk", "hot", "mark", "done"} => named = "top"
    /\ \A p \in Expanders :
        pc[p] \in {"locked", "restore", "xattrs", "mode", "mark", "close", "extra"}
            => owner["top"] = p

Present == {e \in Entries : tree.kind[e] # "absent"}
Stored == {e \in Entries : tree.kind[e] \in Storable}

\* The manifest describes the original, and is complete when the walk ends
ManifestInv ==
    /\ \A e \in Recorded :
        /\ manifest[e] = Original(tree, e)
        /\ tree.kind[e] \in Storable \union Special
    /\ cpc \in {"start", "pivot", "rename"} => Recorded = {}
    /\ cpc \in {"start", "pivot", "rename", "walk"} =>
        \A e \in Entries \ Recorded : raw[e] = Original(tree, e)
    /\ cpc = "walk" => \A e \in Recorded \ Stored : raw[e] = Absent
    /\ cpc \in {"hot", "mark", "done"} =>
        /\ Recorded = Present
        /\ \A e \in Entries \ Stored : raw[e] = Absent

\* What a restoration has done so far stays done until the tree is restored
RestoreInv ==
    /\ restored => RawIsOriginal
    /\ \A p \in Expanders :
        /\ pc[p] \in {"restore", "xattrs", "mode"} =>
            \A e \in Stored \ todo[p] : raw[e] = Original(tree, e)
        /\ pc[p] \in {"xattrs", "mode"} => raw[cur[p]].kind = tree.kind[cur[p]]
        /\ pc[p] = "mode" => raw[cur[p]].xattrs
        /\ pc[p] \in {"mark", "close"} => RawIsOriginal
        /\ pc[p] \in {"restore", "xattrs", "mode", "mark"} => ~restored
        /\ pc[p] \in {"close", "extra", "list", "mounted"} => restored
----------------------------------------------------------------------------
(* Types                                                                   *)

\* The entries of a tree, and of the directory the action made, are nodes.
LEMMA OriginalIsNode ==
    ASSUME NEW t \in Trees
    PROVE  /\ OriginalTree(t) \in [Entries -> Node]
           /\ \A e \in Entries : Original(t, e) = OriginalTree(t)[e]
           /\ \A e \in Entries : Original(t, e).kind = t.kind[e]
<1>1. ASSUME NEW e \in Entries
      PROVE  Original(t, e) \in Node /\ Original(t, e).kind = t.kind[e]
    <2>1. t.kind[e] \in Kinds
        BY TreesAssumption DEF Tree
    <2>2. CASE t.kind[e] \in Storable
        BY <2>2, <2>1 DEF Original, Node, Modes, Kinds, Storable
    <2>3. CASE t.kind[e] \notin Storable
        BY <2>3, <2>1 DEF Original, Node, Modes, Kinds, Storable, Absent
    <2>. QED BY <2>2, <2>3
<1>. QED BY <1>1 DEF OriginalTree

\* A file or directory has a mode and its user xattrs.
LEMMA OriginalOfStored ==
    ASSUME NEW e \in Stored
    PROVE  Original(tree, e) = [kind |-> tree.kind[e], mode |-> "orig", xattrs |-> TRUE]
BY DEF Original, Stored, Storable

\* Recording an entry extends the manifest by it and changes nothing else.
LEMMA RecordAdds ==
    ASSUME NEW e \in Entries, NEW n \in Node, e \notin Recorded,
           Recorded \subseteq Entries, manifest \in [Recorded -> Node],
           manifest' = Record(e, n)
    PROVE  /\ Recorded' = Recorded \union {e}
           /\ manifest' \in [Recorded' -> Node]
           /\ manifest'[e] = n
           /\ \A x \in Recorded : manifest'[x] = manifest[x]
BY DEF Record, Recorded

LEMMA InitTyped == Init => TypeOK /\ LocalsInv
<1>. SUFFICES ASSUME Init PROVE TypeOK /\ LocalsInv
    OBVIOUS
<1>1. raw \in [Entries -> Node]
    BY OriginalIsNode DEF Init
<1>2. Recorded = {}
    BY DEF Init, Recorded, NoEntries
<1>. QED
    BY <1>1, <1>2, EntriesAssumption
    DEF NoEntries, Init, TypeOK, LocalsInv, Procs, Modes

\* Steps of convert keep the types.
LEMMA ConvertTyped ==
    TypeOK /\ LocalsInv /\ (ConvertStep \/ ConvertDies) => TypeOK' /\ LocalsInv'
<1>. SUFFICES ASSUME TypeOK, LocalsInv, ConvertStep \/ ConvertDies
              PROVE  TypeOK' /\ LocalsInv'
    OBVIOUS
<1>. USE DEF TypeOK, LocalsInv, ConvertGoesTo, bazelVars, diskVars, localVars, Procs
<1>1. CASE ConvertRefuse
    BY <1>1 DEF ConvertRefuse, Recorded
<1>2. CASE ConvertLock
    BY <1>2 DEF ConvertLock, Recorded
<1>3. CASE PivotAway
    BY <1>3 DEF PivotAway, Recorded
<1>4. CASE PivotBack
    BY <1>4 DEF PivotBack, Recorded, Modes
<1>5. ASSUME NEW e \in Entries, ProcessFile(e)
      PROVE  TypeOK' /\ LocalsInv'
    <2>1. raw[e] \in Node /\ e \notin Recorded /\ manifest' = Record(e, raw[e])
        BY <1>5 DEF ProcessFile, Unvisited
    <2>2. raw' \in [Entries -> Node]
        BY <1>5, <2>1 DEF ProcessFile, Node, Absent, Kinds, Modes
    <2>. QED BY <1>5, <2>1, <2>2, RecordAdds DEF ProcessFile
<1>6. ASSUME NEW e \in Entries, ProcessUnsupported(e)
      PROVE  TypeOK' /\ LocalsInv'
    BY <1>6 DEF ProcessUnsupported, Recorded
<1>7. CASE WriteManifest
    BY <1>7 DEF WriteManifest, Recorded
<1>8. CASE MarkHot
    BY <1>8 DEF MarkHot, Recorded, Modes
<1>9. CASE MarkDurable
    BY <1>9 DEF MarkDurable, Recorded
<1>10. CASE ConvertDies
    BY <1>10 DEF ConvertDies, Recorded
<1>. QED
    BY <1>1, <1>2, <1>3, <1>4, <1>5, <1>6, <1>7, <1>8, <1>9, <1>10 DEF ConvertStep

\* Steps of expand keep the types.
LEMMA ExpandTyped ==
    ASSUME TypeOK, LocalsInv, NEW p \in Expanders,
           ExpanderStep(p)
    PROVE  TypeOK' /\ LocalsInv'
<1>. USE DEF TypeOK, LocalsInv, GoesTo, bazelVars, convertVars, diskVars, localVars, Procs
<1>1. CASE CheckMarker(p)
    BY <1>1 DEF CheckMarker, Recorded
<1>2. CASE Acquire(p)
    BY <1>2 DEF Acquire, Recorded
<1>3. CASE RefuseHot(p)
    BY <1>3 DEF RefuseHot, Release, Recorded
<1>4. CASE SkipRestore(p)
    BY <1>4 DEF SkipRestore, Recorded
<1>5. CASE StartRestore(p)
    BY <1>5 DEF StartRestore, Recorded
<1>6. ASSUME NEW e \in Entries, RestoreOpen(p, e)
      PROVE  TypeOK' /\ LocalsInv'
    <2>1. e \in Recorded /\ manifest[e] \in Node
        BY <1>6 DEF RestoreOpen
    <2>2. raw' \in [Entries -> Node]
        BY <1>6, <2>1 DEF RestoreOpen, Node, Kinds, Modes
    <2>. QED BY <1>6, <2>1, <2>2 DEF RestoreOpen, Recorded
<1>7. CASE RestoreXattrs(p)
    <2>1. raw' \in [Entries -> Node]
        BY <1>7 DEF RestoreXattrs, Node
    <2>. QED BY <1>7, <2>1 DEF RestoreXattrs, Recorded
<1>8. CASE RestoreMode(p)
    <2>1. cur[p] \in Recorded /\ manifest[cur[p]] \in Node
        BY <1>8 DEF RestoreMode
    <2>2. raw' \in [Entries -> Node]
        BY <1>8, <2>1 DEF RestoreMode, Node
    <2>. QED BY <1>8, <2>1, <2>2 DEF RestoreMode, Recorded
<1>9. CASE OpenTop(p)
    BY <1>9 DEF OpenTop, Recorded, Modes
<1>10. CASE MarkRestored(p)
    BY <1>10 DEF MarkRestored, Recorded
<1>11. CASE CloseTop(p)
    BY <1>11 DEF CloseTop, Recorded
<1>12. CASE MakeExtra(p)
    BY <1>12 DEF MakeExtra, Release, Recorded
<1>13. CASE ListLayers(p)
    <2>1. LayerDirs \in {<< >>, <<"raw">>, <<"extra", "raw">>}
        BY DEF LayerDirs
    <2>. QED BY <1>13, <2>1 DEF ListLayers, Recorded
<1>14. CASE Unmount(p)
    BY <1>14, EntriesAssumption DEF Unmount, ForgetLocals, Recorded, Modes
<1>15. CASE ExpandDies(p)
    BY <1>15, EntriesAssumption DEF ExpandDies, Release, ForgetLocals, Recorded, Modes
<1>16. CASE MarkFails(p)
    BY <1>16, EntriesAssumption DEF MarkFails, Release, ForgetLocals, Recorded, Modes
<1>. QED
    BY <1>1, <1>2, <1>3, <1>4, <1>5, <1>6, <1>7, <1>8, <1>9, <1>10, <1>11, <1>12,
       <1>13, <1>14, <1>15, <1>16
    DEF ExpanderStep, ExpandStep

\* What Bazel does to the tree keeps the types.
LEMMA BazelTyped ==
    TypeOK /\ LocalsInv /\ (CoolDown \/ RemoteRoundTrip \/ Rerun) => TypeOK' /\ LocalsInv'
<1>. SUFFICES ASSUME TypeOK, LocalsInv, CoolDown \/ RemoteRoundTrip \/ Rerun
              PROVE  TypeOK' /\ LocalsInv'
    OBVIOUS
<1>. USE DEF TypeOK, LocalsInv, bazelVars, convertVars, localVars, Procs, Modes
<1>1. CASE CoolDown
    <2>1. raw' \in [Entries -> Node]
        BY <1>1 DEF CoolDown, Node, Absent, Kinds
    <2>. QED BY <1>1, <2>1 DEF CoolDown, Recorded
<1>2. CASE RemoteRoundTrip
    <2>1. raw' \in [Entries -> Node]
        BY <1>2 DEF RemoteRoundTrip, Node, Absent, Kinds
    <2>. QED BY <1>2, <2>1 DEF RemoteRoundTrip, Recorded
<1>3. CASE Rerun
    <2>1. raw' \in [Entries -> Node]
        BY <1>3, OriginalIsNode DEF Rerun
    <2>2. Recorded' = {} /\ manifest' \in [Recorded' -> Node]
        BY <1>3 DEF Rerun, Recorded, NoEntries
    <2>3. \A p \in Expanders : todo[p] = {} /\ pc[p] = "idle"
        BY <1>3 DEF Rerun, NobodyExpands
    <2>. QED BY <1>3, <2>1, <2>2, <2>3 DEF Rerun
<1>. QED BY <1>1, <1>2, <1>3

\* Steps that change nothing but the clock.
LEMMA StutterTyped ==
    TypeOK /\ LocalsInv /\ UNCHANGED vars => TypeOK' /\ LocalsInv'
BY DEF TypeOK, LocalsInv, vars, bazelVars, convertVars, diskVars, localVars, Recorded

\* Every variable has its type in every reachable state, and a restoration
\* only ever holds entries that the manifest records as files or directories
\* (expand.rs:78-95), although a rerun of the action empties the manifest.
THEOREM Typing == Spec => [](TypeOK /\ LocalsInv)
<1>1. TypeOK /\ LocalsInv /\ [Next]_vars => TypeOK' /\ LocalsInv'
    BY ConvertTyped, ExpandTyped, BazelTyped, StutterTyped DEF Next
<1>. QED
    BY InitTyped, <1>1, PTL DEF Spec
----------------------------------------------------------------------------
(* Who may touch the tree, and when                                        *)

LEMMA InitGuarded == Init => HotInv /\ LockInv
BY DEF Init, HotInv, LockInv, HotTreeIsLeftAlone

\* Steps of convert: until the last of them nobody is past the marker check.
LEMMA ConvertGuarded ==
    TypeOK /\ HotInv /\ LockInv /\ (ConvertStep \/ ConvertDies) => HotInv' /\ LockInv'
<1>. SUFFICES ASSUME TypeOK, HotInv, LockInv, ConvertStep \/ ConvertDies
              PROVE  HotInv' /\ LockInv'
    OBVIOUS
<1>. USE DEF HotInv, LockInv, HotTreeIsLeftAlone, ConvertGoesTo, bazelVars, diskVars, localVars
<1>1. CASE ConvertRefuse
    BY <1>1 DEF ConvertRefuse
<1>2. CASE ConvertLock
    BY <1>2 DEF ConvertLock
<1>3. CASE PivotAway
    BY <1>3 DEF PivotAway
<1>4. CASE PivotBack
    BY <1>4 DEF PivotBack
<1>5. ASSUME NEW e \in Entries, ProcessFile(e) \/ ProcessUnsupported(e)
      PROVE  HotInv' /\ LockInv'
    BY <1>5 DEF ProcessFile, ProcessUnsupported
<1>6. CASE WriteManifest
    BY <1>6 DEF WriteManifest
<1>7. CASE MarkHot
    BY <1>7 DEF MarkHot
<1>8. CASE MarkDurable
    BY <1>8 DEF MarkDurable
<1>9. CASE ConvertDies
    BY <1>9 DEF ConvertDies
<1>. QED
    BY <1>1, <1>2, <1>3, <1>4, <1>5, <1>6, <1>7, <1>8, <1>9 DEF ConvertStep

\* Steps of expand: they start behind the marker, and while the tree is hot
\* none of them gets further than the lock.
LEMMA ExpandGuarded ==
    ASSUME TypeOK, HotInv, LockInv, NEW p \in Expanders,
           ExpanderStep(p)
    PROVE  HotInv' /\ LockInv'
<1>. USE ProcsAssumption
     DEF TypeOK, HotInv, LockInv, HotTreeIsLeftAlone, GoesTo, Release,
         bazelVars, convertVars, diskVars, localVars, Procs
<1>1. CASE CheckMarker(p)
    BY <1>1 DEF CheckMarker
<1>2. CASE Acquire(p)
    BY <1>2 DEF Acquire
<1>3. CASE RefuseHot(p)
    BY <1>3 DEF RefuseHot
<1>4. CASE SkipRestore(p)
    BY <1>4 DEF SkipRestore
<1>5. CASE StartRestore(p)
    BY <1>5 DEF StartRestore
<1>6. ASSUME NEW e \in Entries, RestoreOpen(p, e)
      PROVE  HotInv' /\ LockInv'
    BY <1>6 DEF RestoreOpen
<1>7. CASE RestoreXattrs(p)
    BY <1>7 DEF RestoreXattrs
<1>8. CASE RestoreMode(p)
    BY <1>8 DEF RestoreMode
<1>9. CASE OpenTop(p)
    BY <1>9 DEF OpenTop
<1>10. CASE MarkRestored(p)
    BY <1>10 DEF MarkRestored
<1>11. CASE CloseTop(p)
    BY <1>11 DEF CloseTop
<1>12. CASE MakeExtra(p)
    BY <1>12 DEF MakeExtra
<1>13. CASE ListLayers(p)
    BY <1>13 DEF ListLayers
<1>14. CASE Unmount(p)
    BY <1>14 DEF Unmount, ForgetLocals
<1>15. CASE ExpandDies(p)
    BY <1>15 DEF ExpandDies, ForgetLocals
<1>16. CASE MarkFails(p)
    BY <1>16 DEF MarkFails, ForgetLocals
<1>. QED
    BY <1>1, <1>2, <1>3, <1>4, <1>5, <1>6, <1>7, <1>8, <1>9, <1>10, <1>11, <1>12,
       <1>13, <1>14, <1>15, <1>16
    DEF ExpanderStep, ExpandStep

LEMMA BazelGuarded ==
    TypeOK /\ HotInv /\ LockInv /\ (CoolDown \/ RemoteRoundTrip \/ Rerun) => HotInv' /\ LockInv'
<1>. SUFFICES ASSUME TypeOK, HotInv, LockInv, CoolDown \/ RemoteRoundTrip \/ Rerun
              PROVE  HotInv' /\ LockInv'
    OBVIOUS
<1>. USE DEF TypeOK, HotInv, LockInv, HotTreeIsLeftAlone, NobodyExpands,
             bazelVars, convertVars, localVars
<1>1. CASE CoolDown
    BY <1>1 DEF CoolDown
<1>2. CASE RemoteRoundTrip
    BY <1>2 DEF RemoteRoundTrip
<1>3. CASE Rerun
    BY <1>3 DEF Rerun
<1>. QED BY <1>1, <1>2, <1>3

LEMMA StutterGuarded == HotInv /\ LockInv /\ UNCHANGED vars => HotInv' /\ LockInv'
BY DEF HotInv, LockInv, HotTreeIsLeftAlone, vars, bazelVars, convertVars, diskVars, localVars

\* A producing action cannot get its own tree expanded: while the action
\* runs, nothing is restored and nobody gets past the lock (expand.rs:162-173).
\* From the marker on, whoever works on the tree owns the flock of the
\* directory the path names.
THEOREM HotTreeSafety == Spec => [](HotTreeIsLeftAlone /\ HotInv /\ LockInv)
<1>1. TypeOK /\ HotInv /\ LockInv /\ [Next]_vars => HotInv' /\ LockInv'
    BY ConvertGuarded, ExpandGuarded, BazelGuarded, StutterGuarded DEF Next
<1>2. HotInv => HotTreeIsLeftAlone
    BY DEF HotInv
<1>. QED
    BY Typing, InitGuarded, <1>1, <1>2, PTL DEF Spec
----------------------------------------------------------------------------
(* The manifest                                                            *)

\* A parent is shorter than its child.
LEMMA ParentIsShorter ==
    ASSUME NEW e \in Seq(STRING), e # Root
    PROVE  Len(Parent(e)) < Len(e)
BY DEF Parent, Front, Root

\* Of a set of paths there is one that has no parent in the set.
LEMMA ShallowestMember ==
    ASSUME NEW S, S \subseteq Entries, S # {}
    PROVE  \E e \in S : e = Root \/ Parent(e) \notin S
<1>. DEFINE Lens == {Len(e) : e \in S}
<1>1. \A e \in S : e \in Seq(STRING) /\ Len(e) \in Nat
    BY EntriesAssumption
<1>2. Lens \subseteq Nat /\ Lens # {}
    BY <1>1
<1>. HIDE DEF Lens
<1>3. PICK n \in Lens : \A m \in Lens : ~(<<m, n>> \in OpToRel(<, Nat))
    BY <1>2, WFMin, NatLessThanWellFounded
<1>4. \A m \in Lens : ~(m < n)
    BY <1>2, <1>3 DEF OpToRel
<1>5. PICK e \in S : Len(e) = n
    BY DEF Lens
<1>6. e = Root \/ Parent(e) \notin S
    <2>. SUFFICES ASSUME e # Root, Parent(e) \in S PROVE FALSE
        OBVIOUS
    <2>1. Len(Parent(e)) \in Lens
        BY DEF Lens
    <2>2. Len(Parent(e)) < n
        BY <1>1, <1>5, ParentIsShorter
    <2>. QED BY <2>1, <2>2, <1>4
<1>. QED BY <1>6

LEMMA InitManifest == Init => ManifestInv
<1>. SUFFICES ASSUME Init PROVE ManifestInv
    OBVIOUS
<1>1. Recorded = {}
    BY DEF Init, Recorded, NoEntries
<1>. QED BY <1>1, OriginalIsNode DEF Init, ManifestInv

\* A walk with nothing left to visit has recorded every entry of the tree.
LEMMA WalkIsComplete ==
    ASSUME TypeOK, ManifestInv, cpc = "walk", \A e \in Entries : ~Unvisited(e)
    PROVE  Recorded = Present
<1>1. tree \in Trees /\ Recorded \subseteq Present
    BY DEF TypeOK, ManifestInv, Present, Storable, Special
<1>2. ASSUME Present \ Recorded # {}
      PROVE  FALSE
    <2>1. PICK e \in Present \ Recorded : e = Root \/ Parent(e) \notin Present \ Recorded
        BY <1>2, ShallowestMember DEF Present
    <2>2. raw[e].kind # "absent"
        BY <1>1, OriginalIsNode DEF ManifestInv, Present
    <2>3. e # Root /\ Parent(e) \notin Recorded
        BY <2>2 DEF Unvisited, Present
    <2>4. Parent(e) \in Present
        BY <1>1, <2>3, TreesAssumption, EntriesAssumption DEF Present
    <2>. QED BY <2>1, <2>3, <2>4
<1>. QED BY <1>1, <1>2

\* Steps of convert: an entry goes from the disk to the manifest as it is.
LEMMA ConvertManifest ==
    TypeOK /\ ManifestInv /\ (ConvertStep \/ ConvertDies) => ManifestInv'
<1>. SUFFICES ASSUME TypeOK, ManifestInv, ConvertStep \/ ConvertDies
              PROVE  ManifestInv'
    OBVIOUS
<1>. USE DEF ManifestInv, ConvertGoesTo, bazelVars, diskVars
<1>1. CASE ConvertRefuse
    BY <1>1 DEF ConvertRefuse, Recorded, Present, Stored
<1>2. CASE ConvertLock
    BY <1>2 DEF ConvertLock, Recorded, Present, Stored
<1>3. CASE PivotAway
    BY <1>3 DEF PivotAway, Recorded, Present, Stored
<1>4. CASE PivotBack
    BY <1>4 DEF PivotBack, Recorded, Present, Stored
<1>5. ASSUME NEW e \in Entries, ProcessFile(e)
      PROVE  ManifestInv'
    <2>1. /\ cpc = "walk" /\ cpc' = "walk" /\ tree' = tree /\ tree \in Trees
          /\ e \notin Recorded /\ raw[e].kind \notin {"absent", "other"}
          /\ manifest' = Record(e, raw[e])
        BY <1>5 DEF ProcessFile, Unvisited, TypeOK
    <2>2. raw[e] = Original(tree, e) /\ raw[e] \in Node /\ raw[e].kind = tree.kind[e]
        BY <2>1, OriginalIsNode DEF TypeOK
    <2>3. /\ Recorded' = Recorded \union {e}
          /\ manifest'[e] = raw[e]
          /\ \A x \in Recorded : manifest'[x] = manifest[x]
        BY <2>1, <2>2, RecordAdds DEF TypeOK
    <2>4. \A x \in Recorded' :
            manifest'[x] = Original(tree', x) /\ tree'.kind[x] \in Storable \union Special
        BY <2>1, <2>2, <2>3 DEF Node, Kinds, Storable, Special
    <2>5. \A x \in Entries \ {e} : raw'[x] = raw[x]
        BY <1>5 DEF ProcessFile, TypeOK
    <2>6. e \notin Stored => raw'[e] = Absent
        BY <1>5, <2>1, <2>2 DEF ProcessFile, TypeOK, Stored, Storable, Special, Node, Kinds
    <2>7. \A x \in Entries \ Recorded' : raw'[x] = Original(tree', x)
        BY <2>1, <2>3, <2>5
    <2>8. \A x \in Recorded' \ Stored' : raw'[x] = Absent
        BY <2>1, <2>3, <2>5, <2>6 DEF Stored, TypeOK
    <2>. QED BY <2>1, <2>4, <2>7, <2>8
<1>6. ASSUME NEW e \in Entries, ProcessUnsupported(e)
      PROVE  ManifestInv'
    BY <1>6 DEF ProcessUnsupported, Recorded, Present, Stored
<1>7. CASE WriteManifest
    <2>1. /\ cpc = "walk" /\ cpc' = "hot" /\ tree' = tree /\ raw' = raw
          /\ manifest' = manifest /\ tree \in Trees
        BY <1>7 DEF WriteManifest, TypeOK
    <2>2. Recorded = Present
        BY <1>7, <2>1, WalkIsComplete DEF WriteManifest
    <2>3. ASSUME NEW e \in Entries \ Stored
          PROVE  raw[e] = Absent
        <3>1. CASE e \in Recorded
            BY <2>1, <3>1
        <3>2. CASE e \notin Recorded
            BY <2>1, <2>2, <3>2 DEF Present, Original, Storable
        <3>. QED BY <3>1, <3>2
    <2>. QED BY <2>1, <2>2, <2>3 DEF Recorded, Present, Stored
<1>8. CASE MarkHot
    BY <1>8 DEF MarkHot, Recorded, Present, Stored
<1>9. CASE MarkDurable
    BY <1>9 DEF MarkDurable, Recorded, Present, Stored
<1>10. CASE ConvertDies
    BY <1>10 DEF ConvertDies, Recorded, Present, Stored
<1>. QED
    BY <1>1, <1>2, <1>3, <1>4, <1>5, <1>6, <1>7, <1>8, <1>9, <1>10 DEF ConvertStep

\* Steps of expand leave the manifest alone, and with it the entries that are
\* not stored: what a restoration touches is recorded as a file or directory.
LEMMA ExpandManifest ==
    ASSUME TypeOK, LocalsInv, HotInv, ManifestInv, NEW p \in Expanders,
           ExpanderStep(p)
    PROVE  ManifestInv'
<1>1. UNCHANGED <<tree, manifest, cpc>>
    BY DEF ExpanderStep, ExpandStep, CheckMarker, Acquire, RefuseHot, SkipRestore,
           StartRestore, RestoreOpen, RestoreXattrs, RestoreMode, OpenTop, MarkRestored, CloseTop, MakeExtra, ListLayers,
           Unmount, MarkFails, ExpandDies, bazelVars, convertVars
<1>2. \A e \in todo[p] : e \in Stored
    BY OriginalIsNode DEF LocalsInv, ManifestInv, TypeOK, Stored
<1>3. /\ cpc = "done" \/ raw' = raw
      /\ \A e \in Entries \ Stored : raw'[e] = raw[e]
    <2>1. ASSUME NEW e \in Entries, RestoreOpen(p, e)
          PROVE  cpc = "done" /\ \A x \in Entries \ Stored : raw'[x] = raw[x]
        BY <1>2, <2>1 DEF RestoreOpen, GoesTo, HotInv, TypeOK
    <2>2. CASE RestoreXattrs(p) \/ RestoreMode(p)
        BY <1>2, <2>2 DEF RestoreXattrs, RestoreMode, GoesTo, HotInv, TypeOK, LocalsInv
    <2>3. CASE ~(RestoreXattrs(p) \/ RestoreMode(p) \/ \E e \in Entries : RestoreOpen(p, e))
        <3>1. raw' = raw
            BY <2>3 DEF ExpanderStep, ExpandStep, CheckMarker, Acquire, RefuseHot,
                        SkipRestore, StartRestore, OpenTop, MarkRestored, CloseTop, MakeExtra, ListLayers, Unmount,
                        MarkFails, ExpandDies, diskVars
        <3>. QED BY <3>1
    <2>. QED BY <2>1, <2>2, <2>3
<1>. QED BY <1>1, <1>3 DEF ManifestInv, Recorded, Present, Stored

LEMMA BazelManifest ==
    TypeOK /\ HotInv /\ ManifestInv /\ (CoolDown \/ RemoteRoundTrip \/ Rerun) => ManifestInv'
<1>. SUFFICES ASSUME TypeOK, HotInv, ManifestInv, CoolDown \/ RemoteRoundTrip \/ Rerun
              PROVE  ManifestInv'
    OBVIOUS
<1>1. CASE CoolDown \/ RemoteRoundTrip
    <2>1. UNCHANGED <<tree, manifest, cpc>> /\ cpc = "done"
        BY <1>1 DEF CoolDown, RemoteRoundTrip, HotInv, bazelVars, convertVars
    <2>2. ASSUME NEW e \in Entries, raw[e] = Absent
          PROVE  raw'[e] = Absent
        <3>1. raw[e].kind = "absent"
            BY <2>2 DEF Absent
        <3>2. CASE CoolDown
            BY <3>1, <3>2 DEF CoolDown
        <3>3. CASE RemoteRoundTrip
            BY <3>1, <3>3 DEF RemoteRoundTrip
        <3>. QED BY <1>1, <3>2, <3>3
    <2>. QED BY <2>1, <2>2 DEF ManifestInv, Recorded, Present, Stored
<1>2. CASE Rerun
    <2>1. Recorded' = {} /\ cpc' = "start" /\ tree' \in Trees /\ raw' = OriginalTree(tree')
        BY <1>2 DEF Rerun, Recorded, NoEntries
    <2>2. \A e \in Entries : raw'[e] = Original(tree', e)
        BY <2>1, OriginalIsNode
    <2>. QED BY <2>1, <2>2 DEF ManifestInv
<1>. QED BY <1>1, <1>2

LEMMA StutterManifest == ManifestInv /\ UNCHANGED vars => ManifestInv'
BY DEF ManifestInv, Recorded, Present, Stored, vars, bazelVars, convertVars, diskVars

\* The manifest never records anything but the original entries, whenever
\* convert dies or starts again, and it is complete from the end of the walk
\* on: nothing a later expansion needs is only in the raw directory
\* (convert.rs:53-135).
THEOREM ManifestSafety == Spec => []ManifestInv
<1>1. TypeOK /\ LocalsInv /\ HotInv /\ ManifestInv /\ [Next]_vars => ManifestInv'
    BY ConvertManifest, ExpandManifest, BazelManifest, StutterManifest DEF Next
<1>. QED
    BY Typing, HotTreeSafety, InitManifest, <1>1, PTL DEF Spec
----------------------------------------------------------------------------
(* The restoration                                                         *)

\* What the invariants of the sections above say of a tree that is expanded.
Settled ==
    /\ tree \in Trees
    /\ cpc = "done"
    /\ \A e \in Stored : e \in Recorded /\ manifest[e] = Original(tree, e)
    /\ \A e \in Entries \ Stored : raw[e] = Absent

LEMMA ExpandedIsSettled ==
    ASSUME TypeOK, HotInv, ManifestInv, \E p \in Expanders : pc[p] # "idle"
    PROVE  Settled
BY DEF TypeOK, HotInv, ManifestInv, Settled, Present, Stored, Storable

\* Nobody else is at work while one process holds the lock.
Exclusive(p) ==
    \A q \in Expanders \ {p} :
        pc[q] \notin {"locked", "restore", "xattrs", "mode", "mark", "close", "extra"}

LEMMA LockIsExclusive ==
    ASSUME LockInv, NEW p \in Expanders,
           pc[p] \in {"locked", "restore", "xattrs", "mode", "mark", "close", "extra"}
    PROVE  Exclusive(p)
BY DEF LockInv, Exclusive

LEMMA InitRestore == Init => RestoreInv
BY DEF Init, RestoreInv

\* Steps of convert: they are over before anything is restored.
LEMMA ConvertRestore ==
    TypeOK /\ HotInv /\ RestoreInv /\ (ConvertStep \/ ConvertDies) => RestoreInv'
<1>. SUFFICES ASSUME TypeOK, HotInv, RestoreInv, ConvertStep \/ ConvertDies
              PROVE  RestoreInv'
    OBVIOUS
<1>1. cpc # "done" /\ pc' = pc /\ restored' = restored
    BY DEF ConvertStep, ConvertDies, ConvertGoesTo, ConvertRefuse, ConvertLock, PivotAway,
           PivotBack, ProcessFile, ProcessUnsupported, WriteManifest, MarkHot, MarkDurable,
           diskVars
<1>2. \A p \in Expanders : pc[p] = "idle"
    BY <1>1 DEF HotInv
<1>3. ~restored
    BY <1>1 DEF HotInv, HotTreeIsLeftAlone, TypeOK
<1>. QED BY <1>1, <1>2, <1>3 DEF RestoreInv

\* The four steps that write to the disk, each under the lock.
LEMMA RestoreOpenRestores ==
    ASSUME TypeOK, LocalsInv, HotInv, LockInv, ManifestInv, RestoreInv,
           NEW p \in Expanders, NEW e \in Entries, RestoreOpen(p, e)
    PROVE  RestoreInv'
<1>1. /\ pc[p] = "restore" /\ pc' = [pc EXCEPT ![p] = "xattrs"] /\ e \in todo[p]
      /\ cur' = [cur EXCEPT ![p] = e] /\ todo' = todo /\ restored' = restored /\ tree' = tree
      /\ raw' = [raw EXCEPT ![e] = [kind |-> manifest[e].kind, mode |-> "rwx", xattrs |-> @.xattrs]]
    BY DEF RestoreOpen, GoesTo, bazelVars
<1>2. Settled /\ Exclusive(p) /\ ~restored
    BY <1>1, ExpandedIsSettled, LockIsExclusive DEF RestoreInv
<1>3. e \in Stored /\ manifest[e].kind = tree.kind[e]
    BY <1>1, OriginalIsNode DEF LocalsInv, ManifestInv, TypeOK, Stored
<1>4. \A x \in Entries \ {e} : raw'[x] = raw[x]
    BY <1>1 DEF TypeOK
<1>5. raw'[e].kind = tree.kind[e]
    BY <1>1, <1>3 DEF TypeOK
<1>. QED
    BY <1>1, <1>2, <1>3, <1>4, <1>5 DEF RestoreInv, Exclusive, Stored, TypeOK

LEMMA RestoreXattrsRestores ==
    ASSUME TypeOK, LocalsInv, HotInv, LockInv, ManifestInv, RestoreInv,
           NEW p \in Expanders, RestoreXattrs(p)
    PROVE  RestoreInv'
<1>1. /\ pc[p] = "xattrs" /\ pc' = [pc EXCEPT ![p] = "mode"] /\ cur' = cur /\ todo' = todo
      /\ restored' = restored /\ tree' = tree
      /\ raw' = [raw EXCEPT ![cur[p]].xattrs = @ \/ manifest[cur[p]].xattrs]
    BY DEF RestoreXattrs, GoesTo, bazelVars, localVars
<1>2. Settled /\ Exclusive(p) /\ ~restored /\ cur[p] \in todo[p] /\ cur[p] \in Entries
    BY <1>1, ExpandedIsSettled, LockIsExclusive DEF RestoreInv, LocalsInv, TypeOK
<1>3. cur[p] \in Stored
    BY <1>2, OriginalIsNode DEF LocalsInv, ManifestInv, TypeOK, Stored
<1>4. manifest[cur[p]] = [kind |-> tree.kind[cur[p]], mode |-> "orig", xattrs |-> TRUE]
    BY <1>2, <1>3, OriginalOfStored DEF Settled
<1>5. \A x \in Entries \ {cur[p]} : raw'[x] = raw[x]
    BY <1>1 DEF TypeOK
<1>6. raw'[cur[p]].kind = tree.kind[cur[p]] /\ raw'[cur[p]].xattrs
    <2>1. raw[cur[p]] \in Node /\ raw[cur[p]].kind = tree.kind[cur[p]]
        BY <1>1, <1>2 DEF RestoreInv, TypeOK
    <2>2. manifest[cur[p]].xattrs
        BY <1>4
    <2>3. raw' = [raw EXCEPT ![cur[p]].xattrs = TRUE]
        BY <1>1, <2>2
    <2>. QED BY <1>2, <2>1, <2>3 DEF TypeOK, Node
<1>. QED
    BY <1>1, <1>2, <1>3, <1>5, <1>6 DEF RestoreInv, Exclusive, Stored, TypeOK

LEMMA RestoreModeRestores ==
    ASSUME TypeOK, LocalsInv, HotInv, LockInv, ManifestInv, RestoreInv,
           NEW p \in Expanders, RestoreMode(p)
    PROVE  RestoreInv'
<1>1. /\ pc[p] = "mode" /\ pc' = [pc EXCEPT ![p] = "restore"] /\ cur' = cur
      /\ todo' = [todo EXCEPT ![p] = @ \ {cur[p]}] /\ restored' = restored /\ tree' = tree
      /\ raw' = [raw EXCEPT ![cur[p]].mode = manifest[cur[p]].mode]
    BY DEF RestoreMode, GoesTo, bazelVars
<1>2. Settled /\ Exclusive(p) /\ ~restored /\ cur[p] \in todo[p] /\ cur[p] \in Entries
    BY <1>1, ExpandedIsSettled, LockIsExclusive DEF RestoreInv, LocalsInv, TypeOK
<1>3. cur[p] \in Stored
    BY <1>2, OriginalIsNode DEF LocalsInv, ManifestInv, TypeOK, Stored
<1>4. manifest[cur[p]].mode = "orig"
    BY <1>2, <1>3, OriginalOfStored DEF Settled
<1>5. \A x \in Entries \ {cur[p]} : raw'[x] = raw[x]
    BY <1>1 DEF TypeOK
<1>6. raw'[cur[p]] = Original(tree, cur[p])
    <2>1. raw[cur[p]] \in Node /\ raw[cur[p]].kind = tree.kind[cur[p]] /\ raw[cur[p]].xattrs
        BY <1>1, <1>2 DEF RestoreInv, TypeOK
    <2>2. raw'[cur[p]] = [kind |-> tree.kind[cur[p]], mode |-> "orig", xattrs |-> TRUE]
        BY <1>1, <1>2, <1>4, <2>1 DEF TypeOK, Node
    <2>. QED BY <2>2, <1>3, OriginalOfStored
<1>. QED
    BY <1>1, <1>2, <1>3, <1>5, <1>6 DEF RestoreInv, Exclusive, Stored, TypeOK

\* An empty list of entries to restore means that all are.
LEMMA OpenTopRestores ==
    ASSUME TypeOK, LocalsInv, HotInv, LockInv, ManifestInv, RestoreInv,
           NEW p \in Expanders, OpenTop(p)
    PROVE  RestoreInv'
<1>1. /\ pc[p] = "restore" /\ pc' = [pc EXCEPT ![p] = "mark"] /\ cur' = cur /\ todo[p] = {}
      /\ UNCHANGED <<todo, restored, tree, raw>>
    BY DEF OpenTop, GoesTo, bazelVars
<1>2. Settled /\ Exclusive(p) /\ ~restored
    BY <1>1, ExpandedIsSettled, LockIsExclusive DEF RestoreInv
<1>3. RawIsOriginal
    BY <1>1, <1>2 DEF RestoreInv, Settled, RawIsOriginal, Stored
<1>. QED
    BY <1>1, <1>2, <1>3 DEF RestoreInv, RawIsOriginal, Stored, TypeOK

\* Steps of expand: one restores, under the lock and while nobody uses the
\* tree, and the others see a restored tree or none.
LEMMA ExpandRestore ==
    ASSUME TypeOK, LocalsInv, HotInv, LockInv, ManifestInv, RestoreInv, NEW p \in Expanders,
           ExpanderStep(p)
    PROVE  RestoreInv'
<1>. USE DEF RestoreInv, RawIsOriginal, Stored, TypeOK, GoesTo, bazelVars, diskVars, localVars
<1>1. CASE CheckMarker(p)
    BY <1>1 DEF CheckMarker
<1>2. CASE Acquire(p)
    BY <1>2 DEF Acquire
<1>3. CASE RefuseHot(p)
    BY <1>3 DEF RefuseHot
<1>4. CASE SkipRestore(p)
    BY <1>4 DEF SkipRestore
<1>5. CASE StartRestore(p)
    <2>1. Settled
        BY <1>5, ExpandedIsSettled DEF StartRestore
    <2>2. Stored \subseteq todo'[p]
        BY <1>5, <2>1, OriginalIsNode DEF StartRestore, Settled
    <2>. QED BY <1>5, <2>2 DEF StartRestore
<1>6. ASSUME NEW e \in Entries, RestoreOpen(p, e)
      PROVE  RestoreInv'
    BY <1>6, RestoreOpenRestores
<1>7. CASE RestoreXattrs(p)
    BY <1>7, RestoreXattrsRestores
<1>8. CASE RestoreMode(p)
    BY <1>8, RestoreModeRestores
<1>9. CASE OpenTop(p)
    BY <1>9, OpenTopRestores
<1>10. CASE MarkRestored(p)
    <2>1. Exclusive(p)
        BY <1>10, LockIsExclusive DEF MarkRestored
    <2>. QED BY <1>10, <2>1 DEF MarkRestored, Exclusive
<1>11. CASE CloseTop(p)
    BY <1>11 DEF CloseTop
<1>12. CASE MakeExtra(p)
    BY <1>12 DEF MakeExtra
<1>13. CASE ListLayers(p)
    BY <1>13 DEF ListLayers
<1>14. CASE Unmount(p)
    BY <1>14 DEF Unmount, ForgetLocals
<1>15. CASE ExpandDies(p)
    BY <1>15 DEF ExpandDies, ForgetLocals
<1>16. CASE MarkFails(p)
    BY <1>16 DEF MarkFails, ForgetLocals
<1>. QED
    BY <1>1, <1>2, <1>3, <1>4, <1>5, <1>6, <1>7, <1>8, <1>9, <1>10, <1>11, <1>12,
       <1>13, <1>14, <1>15, <1>16
    DEF ExpanderStep, ExpandStep

\* Bazel changes files only while nobody expands, and never keeps the mark of
\* a restored tree on files it has changed.
LEMMA BazelRestore ==
    TypeOK /\ HotInv /\ RestoreInv /\ (CoolDown \/ RemoteRoundTrip \/ Rerun) => RestoreInv'
<1>. SUFFICES ASSUME TypeOK, HotInv, RestoreInv, CoolDown \/ RemoteRoundTrip \/ Rerun
              PROVE  RestoreInv'
    OBVIOUS
<1>1. \A p \in Expanders : pc'[p] = "idle"
    BY DEF CoolDown, RemoteRoundTrip, Rerun, NobodyExpands
<1>2. ~restored'
    BY DEF CoolDown, RemoteRoundTrip, Rerun, HotInv, HotTreeIsLeftAlone
<1>. QED BY <1>1, <1>2 DEF RestoreInv

LEMMA StutterRestore == RestoreInv /\ UNCHANGED vars => RestoreInv'
BY DEF RestoreInv, RawIsOriginal, Stored, vars, bazelVars, convertVars, diskVars, localVars

\* The restored xattr is never set on a tree with an entry still missing or
\* stripped, whoever dies where and whatever the cache does
\* (expand.rs:69-74, 97-101).
THEOREM RestorationSafety == Spec => [](RestoredMeansOriginal /\ RestoreInv)
<1>1. TypeOK /\ LocalsInv /\ HotInv /\ LockInv /\ ManifestInv /\ RestoreInv /\ [Next]_vars
        => RestoreInv'
    BY ConvertRestore, ExpandRestore, BazelRestore, StutterRestore DEF Next
<1>2. RestoreInv => RestoredMeansOriginal
    BY DEF RestoreInv, RestoredMeansOriginal
<1>. QED
    BY Typing, HotTreeSafety, ManifestSafety, InitRestore, <1>1, <1>2, PTL DEF Spec

\* While somebody lists or uses the layers of the tree, neither a file in the
\* raw directory nor the manifest nor the tree to bring back changes.
InUse == \E p \in Expanders : pc[p] \in {"list", "mounted"}

LEMMA InUseStandsStill ==
    ASSUME TypeOK, LocalsInv, HotInv, RestoreInv, [Next]_vars, InUse
    PROVE  UNCHANGED <<tree, raw, manifest>>
<1>1. restored /\ cpc = "done" /\ ~NobodyExpands
    BY DEF RestoreInv, HotInv, NobodyExpands, InUse
<1>2. CASE ConvertStep \/ ConvertDies
    BY <1>1, <1>2 DEF ConvertStep, ConvertDies, ConvertGoesTo, ConvertRefuse, ConvertLock,
        PivotAway, PivotBack, ProcessFile, ProcessUnsupported, WriteManifest, MarkHot,
        MarkDurable
<1>3. ASSUME NEW p \in Expanders, ExpanderStep(p)
      PROVE  UNCHANGED <<tree, raw, manifest>>
    <2>1. pc[p] \notin {"restore", "xattrs", "mode"}
        BY <1>1 DEF RestoreInv
    <2>. QED
        BY <1>3, <2>1 DEF ExpanderStep, ExpandStep, GoesTo, CheckMarker, Acquire, RefuseHot,
            SkipRestore, StartRestore, RestoreOpen, RestoreXattrs, RestoreMode, OpenTop,
            MarkRestored, CloseTop, MakeExtra, ListLayers, Unmount, MarkFails, ExpandDies,
            diskVars, bazelVars, convertVars
<1>4. CASE CoolDown \/ RemoteRoundTrip \/ Rerun
    BY <1>1, <1>4 DEF CoolDown, RemoteRoundTrip, Rerun
<1>5. CASE UNCHANGED vars
    BY <1>5 DEF vars, diskVars, bazelVars, convertVars
<1>. QED BY <1>2, <1>3, <1>4, <1>5 DEF Next

\* While somebody lists or uses the layers of the tree, no file in the raw
\* directory changes, although restorations change files in place
\* (lib.rs:135-138).
THEOREM MountsAreUndisturbed == Spec => NothingMovesUnderAMount
<1>1. TypeOK /\ LocalsInv /\ HotInv /\ RestoreInv /\ [Next]_vars => [InUse => raw' = raw]_vars
    BY InUseStandsStill
<1>. QED
    BY Typing, HotTreeSafety, RestorationSafety, <1>1, PTL DEF Spec, NothingMovesUnderAMount, InUse
----------------------------------------------------------------------------
(* Paths                                                                   *)

\* A parent is all of a path but its last component.
LEMMA ParentIsFront ==
    ASSUME NEW x \in Seq(STRING), x # Root
    PROVE  /\ Parent(x) \in Seq(STRING)
           /\ Len(Parent(x)) = Len(x) - 1
           /\ \A i \in 1 .. Len(x) - 1 : Parent(x)[i] = x[i]
<1>. DEFINE n == Len(x) - 1
<1>1. n \in Nat /\ n <= Len(x)
    <2>1. Len(x) \in Nat
        OBVIOUS
    <2>2. Len(x) # 0
        BY EmptySeq DEF Root
    <2>. QED BY <2>1, <2>2
<1>2. Parent(x) = SubSeq(x, 1, n)
    BY DEF Parent, Front
<1>3. Parent(x) = [i \in 1 .. n |-> x[i]]
    BY <1>1, <1>2
<1>4. \A i \in 1 .. n : x[i] \in STRING
    BY <1>1
<1>. HIDE DEF n
<1>5. Parent(x) \in Seq(STRING) /\ Len(Parent(x)) = n
    BY <1>1, <1>3, <1>4
<1>6. \A i \in 1 .. n : Parent(x)[i] = x[i]
    BY <1>3
<1>. QED BY <1>5, <1>6 DEF n

\* A proper prefix of a path is its parent or a prefix of its parent.
LEMMA PrefixOfParent ==
    ASSUME NEW e \in Seq(STRING), NEW x \in Seq(STRING), IsPrefix(e, x), e # x
    PROVE  x # Root /\ IsPrefix(e, Parent(x))
<1>1. Len(e) \in Nat /\ Len(x) \in Nat /\ Len(e) <= Len(x)
    BY DEF IsPrefix
<1>2. \A i \in 1 .. Len(e) : e[i] = x[i]
    <2>. SUFFICES ASSUME NEW i \in 1 .. Len(e) PROVE e[i] = x[i]
        OBVIOUS
    <2>1. SubSeq(e, 1, Len(e))[i] = e[i] /\ SubSeq(x, 1, Len(e))[i] = x[i]
        BY <1>1
    <2>. QED BY <2>1 DEF IsPrefix
<1>3. Len(e) # Len(x)
    BY <1>1, <1>2
<1>4. /\ Parent(x) \in Seq(STRING)
      /\ Len(Parent(x)) = Len(x) - 1
      /\ \A i \in 1 .. Len(x) - 1 : Parent(x)[i] = x[i]
    <2>1. x # Root
        BY <1>1, <1>3 DEF Root
    <2>. QED BY <2>1, ParentIsFront
<1>5. SubSeq(e, 1, Len(e)) = SubSeq(Parent(x), 1, Len(e))
    <2>1. Len(e) <= Len(Parent(x))
        BY <1>1, <1>3, <1>4
    <2>2. \A i \in 1 .. Len(e) : e[i] = Parent(x)[i]
        BY <1>1, <1>2, <1>3, <1>4
    <2>3. /\ SubSeq(e, 1, Len(e)) = [i \in 1 .. Len(e) |-> e[i]]
          /\ SubSeq(Parent(x), 1, Len(e)) = [i \in 1 .. Len(e) |-> Parent(x)[i]]
        BY <1>1, <1>4, <2>1
    <2>. QED BY <2>2, <2>3
<1>. QED BY <1>1, <1>3, <1>4, <1>5 DEF IsPrefix, Root

\* Everything on the way to an entry of a tree is a directory.
LEMMA AncestorsAreDirs ==
    ASSUME NEW t \in Trees, NEW e \in Entries, NEW s \in Entries,
           t.kind[s] # "absent", IsPrefix(e, s), e # s
    PROVE  t.kind[e] = "dir"
<1>. DEFINE Below == {x \in Entries : t.kind[x] # "absent" /\ IsPrefix(e, x) /\ e # x}
<1>1. PICK x \in Below : x = Root \/ Parent(x) \notin Below
    <2>1. s \in Below
        OBVIOUS
    <2>. QED BY <2>1, ShallowestMember
<1>2. x # Root /\ IsPrefix(e, Parent(x))
    BY <1>1, PrefixOfParent, EntriesAssumption
<1>3. Parent(x) \in Entries /\ t.kind[Parent(x)] = "dir"
    BY <1>1, <1>2, EntriesAssumption, TreesAssumption
<1>. QED BY <1>1, <1>2, <1>3

\* A tree with anything in it has something right under its root.
LEMMA TreesHaveChildren ==
    ASSUME NEW t \in Trees, ~IsEmpty(t)
    PROVE  \E e \in Entries \ {Root} : t.kind[e] # "absent" /\ Parent(e) = Root
<1>. DEFINE Rest == {x \in Entries \ {Root} : t.kind[x] # "absent"}
<1>1. PICK x \in Rest : x = Root \/ Parent(x) \notin Rest
    BY ShallowestMember DEF IsEmpty
<1>2. Parent(x) \in Entries /\ t.kind[Parent(x)] = "dir"
    BY <1>1, EntriesAssumption, TreesAssumption
<1>. QED BY <1>1, <1>2
----------------------------------------------------------------------------
(* The layers                                                              *)

\* A restored tree nobody changes.
Whole ==
    /\ tree \in Trees
    /\ RawIsOriginal
    /\ Recorded = Present
    /\ \A e \in Recorded :
        manifest[e] = Original(tree, e) /\ tree.kind[e] \in Storable \union Special

LEMMA UsedIsWhole ==
    ASSUME TypeOK, HotInv, ManifestInv, RestoreInv, InUse
    PROVE  Whole
BY DEF TypeOK, HotInv, ManifestInv, RestoreInv, InUse, Whole

\* What each of the two layers has of an entry.
LEMMA LayersOfWhole ==
    ASSUME Whole, NEW e \in Entries
    PROVE  /\ e \in Stored => raw[e] = Original(tree, e) /\ raw[e].kind # "absent"
           /\ e \notin Stored => raw[e] = Absent
           /\ e \in SpecialEntries => ExtraEntry(e) = Original(tree, e)
                                       /\ Original(tree, e).kind # "absent"
           /\ e \notin Stored \union SpecialEntries =>
                ExtraEntry(e) = Absent /\ Original(tree, e) = Absent
<1>1. Original(tree, e).kind = tree.kind[e]
    BY OriginalIsNode DEF Whole
<1>2. e \in Stored => raw[e] = Original(tree, e) /\ raw[e].kind # "absent"
    BY <1>1 DEF Whole, RawIsOriginal, Stored, Storable
<1>3. e \notin Stored => raw[e] = Absent
    BY DEF Whole, RawIsOriginal, Stored
<1>4. ASSUME e \in SpecialEntries
      PROVE  ExtraEntry(e) = Original(tree, e) /\ Original(tree, e).kind # "absent"
    BY <1>1, <1>4 DEF ExtraEntry, SpecialEntries, Special, Whole
<1>5. ASSUME e \notin Stored \union SpecialEntries
      PROVE  ExtraEntry(e) = Absent /\ Original(tree, e) = Absent
    <2>1. tree.kind[e] = "absent"
        BY <1>1, <1>5 DEF Whole, Present, Stored, SpecialEntries
    <2>2. ASSUME NEW s \in SpecialEntries, IsPrefix(e, s), e # s
          PROVE  FALSE
        <3>1. s \in Entries /\ tree.kind[s] # "absent"
            BY DEF SpecialEntries, Whole, Present
        <3>. QED BY <2>1, <2>2, <3>1, AncestorsAreDirs DEF Whole
    <2>3. ExtraEntry(e) = Absent
        BY <1>5, <2>2 DEF ExtraEntry
    <2>. QED BY <2>1, <2>3 DEF Original, Storable
<1>. QED BY <1>2, <1>3, <1>4, <1>5

\* The upper of two layers wins.
LEMMA MergeOfTwo ==
    ASSUME NEW e \in Entries
    PROVE  Merged(<<"extra", "raw">>, e) =
             IF raw[e].kind # "absent" THEN raw[e]
             ELSE IF ExtraEntry(e).kind # "absent" THEN ExtraEntry(e) ELSE Absent
<1>. DEFINE stack == <<"extra", "raw">>
            on == Provides(stack, e)
<1>1. /\ 1 \in on <=> ExtraEntry(e).kind # "absent"
      /\ 2 \in on <=> raw[e].kind # "absent"
      /\ on \subseteq {1, 2}
    BY DEF Provides, LayerEntry
<1>2. LayerEntry(stack[1], e) = ExtraEntry(e) /\ LayerEntry(stack[2], e) = raw[e]
    BY DEF LayerEntry
<1>3. Merged(stack, e) =
        IF on = {} THEN Absent
        ELSE LayerEntry(stack[CHOOSE i \in on : \A j \in on : j <= i], e)
    BY DEF Merged
<1>. HIDE DEF on, stack
<1>4. CASE 2 \in on
    <2>1. on = {2} \/ on = {1, 2}
        BY <1>1, <1>4
    <2>2. \A i \in on : (\A j \in on : j <= i) <=> i = 2
        BY <2>1
    <2>3. (CHOOSE i \in on : \A j \in on : j <= i) = 2
        BY <1>4, <2>2
    <2>. QED BY <1>1, <1>2, <1>3, <1>4, <2>3 DEF stack
<1>5. CASE 2 \notin on /\ 1 \in on
    <2>1. on = {1}
        BY <1>1, <1>5
    <2>2. (CHOOSE i \in on : \A j \in on : j <= i) = 1
        BY <2>1
    <2>. QED BY <1>1, <1>2, <1>3, <1>5, <2>2 DEF stack
<1>6. CASE on = {}
    BY <1>1, <1>3, <1>6 DEF stack
<1>. QED BY <1>1, <1>4, <1>5, <1>6

LEMMA MergeOfOne ==
    ASSUME NEW e \in Entries
    PROVE  Merged(<<"raw">>, e) = IF raw[e].kind # "absent" THEN raw[e] ELSE Absent
<1>. DEFINE stack == <<"raw">>
            on == Provides(stack, e)
<1>1. on = IF raw[e].kind # "absent" THEN {1} ELSE {}
    BY DEF Provides, LayerEntry
<1>2. Merged(stack, e) =
        IF on = {} THEN Absent
        ELSE LayerEntry(stack[CHOOSE i \in on : \A j \in on : j <= i], e)
    BY DEF Merged
<1>3. LayerEntry(stack[1], e) = raw[e]
    BY DEF LayerEntry
<1>. HIDE DEF on, stack
<1>4. CASE on = {1}
    <2>1. (CHOOSE i \in on : \A j \in on : j <= i) = 1
        BY <1>4
    <2>. QED BY <1>1, <1>2, <1>3, <1>4, <2>1 DEF stack
<1>. QED BY <1>1, <1>2, <1>4 DEF stack

\* Mounting the layers of a restored tree gives the original back.
LEMMA MergeOfWhole ==
    ASSUME Whole
    PROVE  MergedTree(LayerDirs) \in Promised(tree)
<1>1. OriginalTree(tree) \in Promised(tree)
    BY DEF Promised
<1>2. CASE SpecialEntries # {}
    <2>1. LayerDirs = <<"extra", "raw">>
        BY <1>2 DEF LayerDirs
    <2>2. ASSUME NEW e \in Entries
          PROVE  Merged(<<"extra", "raw">>, e) = Original(tree, e)
        <3>1. e \in SpecialEntries => e \notin Stored
            BY OriginalIsNode DEF SpecialEntries, Stored, Storable, Special, Whole
        <3>2. Absent.kind = "absent"
            BY DEF Absent
        <3>. QED BY <3>1, <3>2, LayersOfWhole, MergeOfTwo
    <2>3. MergedTree(LayerDirs) = OriginalTree(tree)
        BY <2>1, <2>2 DEF MergedTree, OriginalTree
    <2>. QED BY <1>1, <2>3
<1>3. CASE SpecialEntries = {} /\ RawHasChild
    <2>1. LayerDirs = <<"raw">>
        BY <1>3 DEF LayerDirs
    <2>2. ASSUME NEW e \in Entries
          PROVE  Merged(<<"raw">>, e) = Original(tree, e)
        <3>1. Absent.kind = "absent"
            BY DEF Absent
        <3>. QED BY <1>3, <3>1, LayersOfWhole, MergeOfOne
    <2>3. MergedTree(LayerDirs) = OriginalTree(tree)
        BY <2>1, <2>2 DEF MergedTree, OriginalTree
    <2>. QED BY <1>1, <2>3
<1>4. CASE SpecialEntries = {} /\ ~RawHasChild
    <2>1. LayerDirs = << >>
        BY <1>4 DEF LayerDirs
    <2>2. MergedTree(<< >>) = Nothing
        BY DEF MergedTree, Merged, Provides, Nothing
    <2>3. IsEmpty(tree)
        <3>1. ASSUME NEW e \in Entries \ {Root}, tree.kind[e] # "absent", Parent(e) = Root
              PROVE  FALSE
            <4>1. e \in Stored
                BY <1>4, <3>1, LayersOfWhole, OriginalIsNode DEF Whole, Absent
            <4>. QED BY <1>4, <3>1, <4>1, LayersOfWhole DEF RawHasChild
        <3>. QED BY <3>1, TreesHaveChildren DEF Whole
    <2>. QED BY <2>1, <2>2, <2>3 DEF Promised
<1>. QED BY <1>2, <1>3, <1>4
----------------------------------------------------------------------------
(* Mounted trees                                                           *)

\* An expander mounts the layers that the tree has now.
LayersInv == \A p \in Expanders : pc[p] = "mounted" => layers[p] = LayerDirs

\* The layers of a tree, and what they show, depend on its raw directory and
\* its manifest only.
LEMMA LayersStandStill ==
    ASSUME UNCHANGED <<raw, manifest>>
    PROVE  /\ LayerDirs' = LayerDirs
           /\ \A p \in Expanders :
                layers'[p] = layers[p] => MergedTree(layers[p])' = MergedTree(layers[p])
<1>1. LayerDirs' = LayerDirs
    BY DEF LayerDirs, SpecialEntries, RawHasChild, Recorded
<1>2. ASSUME NEW p \in Expanders, layers'[p] = layers[p]
      PROVE  MergedTree(layers[p])' = MergedTree(layers[p])
    BY <1>2 DEF MergedTree, Merged, Provides, LayerEntry, ExtraEntry, SpecialEntries, Recorded
<1>. QED BY <1>1, <1>2

\* An expander gets layers by listing them and keeps them while it is mounted.
LEMMA LayersAreKept ==
    ASSUME TypeOK, HotInv, [Next]_vars, NEW p \in Expanders, pc'[p] = "mounted"
    PROVE  \/ pc[p] = "mounted" /\ layers'[p] = layers[p]
           \/ ListLayers(p)
<1>. USE DEF TypeOK
<1>1. CASE ConvertStep \/ ConvertDies
    BY <1>1 DEF ConvertStep, ConvertDies, ConvertRefuse, ConvertLock, PivotAway, PivotBack,
        ProcessFile, ProcessUnsupported, WriteManifest, MarkHot, MarkDurable, localVars
<1>2. ASSUME NEW q \in Expanders, ExpanderStep(q), q # p
      PROVE  pc[p] = "mounted" /\ layers'[p] = layers[p]
    BY <1>2 DEF ExpanderStep, ExpandStep, GoesTo, CheckMarker, Acquire, RefuseHot,
        SkipRestore, StartRestore, RestoreOpen, RestoreXattrs, RestoreMode, OpenTop,
        MarkRestored, CloseTop, MakeExtra, ListLayers, Unmount, MarkFails, ExpandDies,
        ForgetLocals, localVars
<1>3. CASE ExpanderStep(p)
    BY <1>3 DEF ExpanderStep, ExpandStep, GoesTo, CheckMarker, Acquire, RefuseHot,
        SkipRestore, StartRestore, RestoreOpen, RestoreXattrs, RestoreMode, OpenTop,
        MarkRestored, CloseTop, MakeExtra, Unmount, MarkFails, ExpandDies
<1>4. CASE CoolDown \/ RemoteRoundTrip \/ Rerun
    BY <1>4 DEF CoolDown, RemoteRoundTrip, Rerun, localVars
<1>5. CASE UNCHANGED vars
    BY <1>5 DEF vars, localVars
<1>. QED BY <1>1, <1>2, <1>3, <1>4, <1>5 DEF Next

\* Whatever an expanded tree is mounted from gives back the tree the action
\* made, in every state in which a process uses it (lib.rs:28-38).
THEOREM MountsAreFaithful == Spec => [](MountedIsOriginal /\ LayersInv)
<1>1. Init => LayersInv
    BY DEF Init, LayersInv
<1>2. TypeOK /\ LocalsInv /\ HotInv /\ RestoreInv /\ LayersInv /\ [Next]_vars => LayersInv'
    <2>. SUFFICES ASSUME TypeOK, LocalsInv, HotInv, RestoreInv, LayersInv, [Next]_vars,
                         NEW p \in Expanders, pc'[p] = "mounted"
                  PROVE  layers'[p] = LayerDirs'
        BY DEF LayersInv
    <2>1. (pc[p] = "mounted" /\ layers'[p] = layers[p]) \/ ListLayers(p)
        BY LayersAreKept
    <2>2. InUse
        BY <2>1 DEF InUse, ListLayers, GoesTo
    <2>3. LayerDirs' = LayerDirs
        BY <2>2, InUseStandsStill, LayersStandStill
    <2>. QED BY <2>1, <2>3 DEF LayersInv, ListLayers, TypeOK
<1>3. TypeOK /\ HotInv /\ ManifestInv /\ RestoreInv /\ LayersInv => MountedIsOriginal
    <2>. SUFFICES ASSUME TypeOK, HotInv, ManifestInv, RestoreInv, LayersInv,
                         NEW p \in Expanders, pc[p] = "mounted"
                  PROVE  MergedTree(layers[p]) \in Promised(tree)
        BY DEF MountedIsOriginal
    <2>. QED BY UsedIsWhole, MergeOfWhole DEF LayersInv, InUse
<1>. QED
    BY Typing, HotTreeSafety, ManifestSafety, RestorationSafety, <1>1, <1>2, <1>3, PTL DEF Spec
----------------------------------------------------------------------------
(* Durable trees implement the store                                       *)

View(p) == IF pc[p] = "mounted" THEN MergedTree(layers[p]) ELSE NoProc

\* What a user of the tree sees stands still as long as it uses it.
LEMMA ViewsAreKept ==
    ASSUME TypeOK, LocalsInv, HotInv, RestoreInv, [Next]_vars, NEW p \in Expanders,
           pc'[p] = pc[p] \/ {pc[p], pc'[p]} \cap {"mounted"} = {}
    PROVE  View(p)' = View(p)
<1>1. CASE pc'[p] = "mounted"
    <2>1. pc[p] = "mounted" /\ layers'[p] = layers[p]
        BY <1>1, LayersAreKept DEF ListLayers, GoesTo, TypeOK
    <2>2. UNCHANGED <<raw, manifest>>
        BY <2>1, InUseStandsStill DEF InUse
    <2>. QED BY <1>1, <2>1, <2>2, LayersStandStill DEF View
<1>2. CASE pc'[p] # "mounted"
    BY <1>2 DEF View
<1>. QED BY <1>1, <1>2

\* Listing the layers of a published tree opens it in the store.
LEMMA ListLayersOpens ==
    ASSUME TypeOK, LocalsInv, HotInv, ManifestInv, RestoreInv, NEW p \in Expanders,
           ListLayers(p)
    PROVE  Promise!Open(p)
<1>. DEFINE view == [q \in Expanders |-> View(q)]
<1>1. pc[p] = "list" /\ pc' = [pc EXCEPT ![p] = "mounted"] /\ layers'[p] = LayerDirs
      /\ tree' = tree /\ phase' = phase /\ raw' = raw /\ manifest' = manifest
    BY DEF ListLayers, GoesTo, TypeOK, bazelVars, convertVars, diskVars
<1>2. phase = "published"
    BY <1>1 DEF HotInv, HotTreeIsLeftAlone, TypeOK
<1>3. MergedTree(LayerDirs) \in Promised(tree)
    BY <1>1, UsedIsWhole, MergeOfWhole DEF InUse
<1>4. View(p) = NoProc
    BY <1>1 DEF View
<1>5. View(p)' = MergedTree(LayerDirs)
    <2>1. MergedTree(layers[p])' = MergedTree(LayerDirs)
        BY <1>1 DEF MergedTree, Merged, Provides, LayerEntry, ExtraEntry, SpecialEntries, Recorded
    <2>2. pc'[p] = "mounted"
        BY <1>1 DEF TypeOK
    <2>. QED BY <2>1, <2>2 DEF View
<1>6. ASSUME NEW q \in Expanders \ {p} PROVE View(q)' = View(q)
    <2>1. pc'[q] = pc[q]
        BY <1>1 DEF TypeOK
    <2>2. [Next]_vars
        BY DEF Next, ExpanderStep, ExpandStep
    <2>. QED BY <2>1, <2>2, ViewsAreKept
<1>7. view' = [view EXCEPT ![p] = MergedTree(LayerDirs)]
    BY <1>5, <1>6
<1>. QED BY <1>1, <1>2, <1>3, <1>4, <1>7 DEF Promise!Open, View

\* Dropping an expanded tree closes it, and nothing else can be seen.
LEMMA UnmountCloses ==
    ASSUME TypeOK, LocalsInv, HotInv, RestoreInv, NEW p \in Expanders, Unmount(p)
    PROVE  Promise!Close(p) \/ UNCHANGED Promise!vars
<1>. DEFINE view == [q \in Expanders |-> View(q)]
<1>1. pc' = [pc EXCEPT ![p] = "idle"] /\ tree' = tree /\ phase' = phase
    BY DEF Unmount, GoesTo, bazelVars
<1>2. View(p)' = NoProc
    BY <1>1 DEF View, TypeOK
<1>3. ASSUME NEW q \in Expanders \ {p} PROVE View(q)' = View(q)
    <2>1. pc'[q] = pc[q]
        BY <1>1 DEF TypeOK
    <2>2. [Next]_vars
        BY DEF Next, ExpanderStep
    <2>. QED BY <2>1, <2>2, ViewsAreKept
<1>4. CASE View(p) = NoProc
    <2>1. view' = view
        BY <1>2, <1>3, <1>4
    <2>. QED BY <1>1, <2>1 DEF Promise!vars, View
<1>5. CASE View(p) # NoProc
    <2>1. view' = [view EXCEPT ![p] = NoProc]
        BY <1>2, <1>3
    <2>. QED BY <1>1, <1>5, <2>1 DEF Promise!Close, View
<1>. QED BY <1>4, <1>5

\* Every other step of an expander, and every step of the converter, is
\* invisible.
LEMMA OthersAreInvisible ==
    ASSUME TypeOK, LocalsInv, HotInv, RestoreInv,
           \/ ConvertStep \/ ConvertDies \/ RemoteRoundTrip \/ UNCHANGED vars
           \/ \E p \in Expanders : ExpanderStep(p) /\ ~ListLayers(p) /\ ~Unmount(p)
    PROVE  UNCHANGED Promise!vars
<1>. DEFINE view == [q \in Expanders |-> View(q)]
<1>1. tree' = tree /\ phase' = phase
    BY DEF ConvertStep, ConvertDies, ConvertRefuse, ConvertLock, PivotAway, PivotBack,
        ProcessFile, ProcessUnsupported, WriteManifest, MarkHot, MarkDurable,
        RemoteRoundTrip, vars, ExpanderStep, ExpandStep, CheckMarker, Acquire, RefuseHot,
        SkipRestore, StartRestore, RestoreOpen, RestoreXattrs, RestoreMode, OpenTop,
        MarkRestored, CloseTop, MakeExtra, MarkFails, ExpandDies, bazelVars
<1>2. ASSUME NEW q \in Expanders
      PROVE  pc'[q] = pc[q] \/ {pc[q], pc'[q]} \cap {"mounted"} = {}
    <2>1. CASE ConvertStep \/ ConvertDies \/ RemoteRoundTrip \/ UNCHANGED vars
        BY <2>1 DEF ConvertStep, ConvertDies, ConvertRefuse, ConvertLock, PivotAway,
            PivotBack, ProcessFile, ProcessUnsupported, WriteManifest, MarkHot, MarkDurable,
            RemoteRoundTrip, vars
    <2>2. ASSUME NEW p \in Expanders, ExpanderStep(p), ~ListLayers(p), ~Unmount(p)
          PROVE  /\ p # q => pc'[q] = pc[q]
                 /\ pc[p] # "mounted" /\ pc'[p] # "mounted"
        BY <2>2 DEF ExpanderStep, ExpandStep, GoesTo, CheckMarker, Acquire, RefuseHot,
            SkipRestore, StartRestore, RestoreOpen, RestoreXattrs, RestoreMode, OpenTop,
            MarkRestored, CloseTop, MakeExtra, MarkFails, ExpandDies, TypeOK
    <2>. QED BY <2>1, <2>2
<1>3. [Next]_vars
    BY DEF Next
<1>4. view' = view
    BY <1>2, <1>3, ViewsAreKept
<1>. QED BY <1>1, <1>4 DEF Promise!vars, View

\* Bazel publishes a tree or replaces it while nobody looks.
LEMMA BazelKeepsPromise ==
    ASSUME TypeOK, HotInv, CoolDown \/ Rerun
    PROVE  Promise!Publish \/ Promise!Replace
<1>. DEFINE view == [q \in Expanders |-> View(q)]
<1>1. view' = view
    <2>1. \A q \in Expanders : pc[q] = "idle" /\ pc'[q] = "idle"
        BY DEF CoolDown, Rerun, NobodyExpands
    <2>. QED BY <2>1 DEF View
<1>2. CASE CoolDown
    <2>1. tree' = tree /\ phase = "action" /\ phase' = "published"
        BY <1>2 DEF CoolDown
    <2>. QED BY <1>1, <2>1 DEF Promise!Publish, View
<1>3. CASE Rerun
    <2>1. tree' \in Trees /\ phase' = phase /\ phase # "published"
        BY <1>3 DEF Rerun, HotInv
    <2>2. Promised(tree)' \in {Promised(t) : t \in Trees}
        <3>1. Promised(tree)' = Promised(tree')
            BY DEF Promised, OriginalTree, Original, IsEmpty, Nothing
        <3>. QED BY <2>1, <3>1
    <2>. QED BY <1>1, <2>1, <2>2 DEF Promise!Replace, View
<1>. QED BY <1>2, <1>3

\* Durable trees implement the store: expansions of an unpublished tree give
\* nothing, those of a published tree its content, and what a user holds does
\* not change until the user drops it (lib.rs:26-40, 127-138).
THEOREM Refinement == Spec => KeepsPromise
<1>1. Init => Promise!Init
    <2>. SUFFICES ASSUME Init PROVE Promise!Init
        OBVIOUS
    <2>1. Promised(tree) \in {Promised(t) : t \in Trees}
        BY DEF Init
    <2>2. phase = "action" /\ \A p \in Expanders : pc[p] = "idle"
        BY DEF Init
    <2>. QED BY <2>1, <2>2 DEF Promise!Init
<1>2. TypeOK /\ LocalsInv /\ HotInv /\ ManifestInv /\ RestoreInv /\ [Next]_vars
        => [Promise!Next]_(Promise!vars)
    <2>. SUFFICES ASSUME TypeOK, LocalsInv, HotInv, ManifestInv, RestoreInv, [Next]_vars
                  PROVE  Promise!Next \/ UNCHANGED Promise!vars
        OBVIOUS
    <2>1. ASSUME NEW p \in Expanders, ListLayers(p)
          PROVE  Promise!Next
        BY <2>1, ListLayersOpens DEF Promise!Next
    <2>2. ASSUME NEW p \in Expanders, Unmount(p)
          PROVE  Promise!Next \/ UNCHANGED Promise!vars
        BY <2>2, UnmountCloses DEF Promise!Next
    <2>3. CASE CoolDown \/ Rerun
        BY <2>3, BazelKeepsPromise DEF Promise!Next
    <2>. QED BY <2>1, <2>2, <2>3, OthersAreInvisible DEF Next
<1>. QED
    BY Typing, HotTreeSafety, ManifestSafety, RestorationSafety, <1>1, <1>2, PTL
    DEF Spec, KeepsPromise, Promise!Spec
============================================================================
