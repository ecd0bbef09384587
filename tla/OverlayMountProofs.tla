-------------------------- MODULE OverlayMountProofs --------------------------
(***************************************************************************)
(* Theorems about mount_overlayfs, for any number of layers one overlay    *)
(* may have and any stacks of layers.                                      *)
(***************************************************************************)
EXTENDS OverlayMount, WellFoundedInduction, TLAPS

(* What is mounted, and which guards are held, at each point               *)
MountsInv ==
    /\ pc = "start" => mounts = {} /\ guards = {}
    /\ pc \in {"bind", "chunk", "mount"} =>
           /\ LowersDir \in mounts
           /\ OverlayMountPoint \notin mounts
           /\ guards = {LowersDir}
    /\ pc = "mounted" => mounts = {OverlayMountPoint} /\ guards = {OverlayMountPoint}
    /\ pc \in {"failed", "unmounted"} => mounts = {} /\ guards = {}

LEMMA MountPoints ==
    /\ LowersDir # OverlayMountPoint
    /\ \A i : LayerMount(i) # OverlayMountPoint /\ ChunkMount(i) # OverlayMountPoint
BY DEF LowersDir, OverlayMountPoint, LayerMount, ChunkMount

LEMMA InitMounts == Init => MountsInv
BY DEF Init, MountsInv

\* Dropping the guard of the lowers directory leaves nothing but the overlay
LEMMA BailMounts == MountsInv /\ pc \in {"start", "bind", "chunk", "mount"} /\ Bail => MountsInv'
BY DEF MountsInv, Bail, Detached

LEMMA StepMounts == MountsInv /\ [Next]_vars => MountsInv'
<1> SUFFICES ASSUME MountsInv, [Next]_vars PROVE MountsInv'
    OBVIOUS
<1> USE MountPoints DEF MountsInv, Goes
<1>1. CASE UNCHANGED vars
    BY <1>1 DEF vars
<1>2. CASE Refuse \/ TooMany \/ Fails
    BY <1>2, BailMounts DEF Refuse, TooMany, Fails
<1>3. CASE BindLowersDir
    BY <1>3 DEF BindLowersDir
<1>4. CASE BindLayer
    BY <1>4 DEF BindLayer
<1>5. CASE SkipStacking \/ StartStacking \/ KeepLayer \/ ChunksDone
    BY <1>5 DEF SkipStacking, StartStacking, KeepLayer, ChunksDone
<1>6. CASE MountChunk
    BY <1>6 DEF MountChunk
<1>7. CASE MountTop
    BY <1>7 DEF MountTop, Detached
<1>8. CASE Unmount
    BY <1>8 DEF Unmount, Detached
<1> QED
    BY <1>1, <1>2, <1>3, <1>4, <1>5, <1>6, <1>7, <1>8 DEF Next

(* On every way out of mount_overlayfs, a failure of any call included, at *)
(* most the overlay is mounted, and nothing once its guard is dropped      *)
(* (mounts.rs:127-146).                                                    *)
THEOREM NothingStaysMounted == Spec => [](NoMountLeaks /\ MountsInv)
<1>1. MountsInv => NoMountLeaks
    BY DEF MountsInv, NoMountLeaks
<1> QED
    BY <1>1, InitMounts, StepMounts, PTL DEF Spec
----------------------------------------------------------------------------
(* The chunks: they hold every layer once, in the order of the container   *)
Chunks == Seq(Seq(DOMAIN layers))

OrderInv ==
    /\ layers \in Seq(Layer)
    /\ lowers \in Chunks
    /\ \A k \in DOMAIN lowers : lowers[k] # << >>
    /\ \A k \in DOMAIN lowers : \A i, j \in DOMAIN lowers[k] :
           i < j => lowers[k][i] < lowers[k][j]
    /\ \A k, m \in DOMAIN lowers : k < m =>
           \A i \in DOMAIN lowers[k], j \in DOMAIN lowers[m] : lowers[k][i] < lowers[m][j]

Holds(x) == \E k \in DOMAIN lowers : \E i \in DOMAIN lowers[k] : lowers[k][i] = x

CoverInv ==
    /\ pc \in {"start", "bind"} => lowers = << >>
    /\ pc = "chunk" =>
           /\ \A k \in DOMAIN lowers : \A i \in DOMAIN lowers[k] : lowers[k][i] <= Chunked
           /\ \A x \in DOMAIN layers : x <= Chunked => Holds(x)
    /\ pc \in {"mount", "mounted"} => \A x \in DOMAIN layers : Holds(x)

LEMMA InitChunks == Init => OrderInv /\ CoverInv
BY LayersAssumption DEF Init, OrderInv, CoverInv, Chunks

LEMMA SameChunks ==
    ASSUME OrderInv, CoverInv, UNCHANGED <<layers, lowers>>,
           \/ pc' = pc
           \/ pc = "start" /\ pc' = "bind"
           \/ pc' \in {"failed", "unmounted"}
           \/ pc = "mount" /\ pc' = "mounted"
    PROVE  OrderInv' /\ CoverInv'
BY DEF OrderInv, CoverInv, Chunks, Holds, Chunked

\* A chunk holds the layers that come after those in chunks already
LEMMA NextChunkIs ==
    ASSUME OrderInv, Chunked < Len(layers)
    PROVE  /\ Chunked \in Nat
           /\ NextChunk \in Seq(DOMAIN layers)
           /\ NextChunk # << >>
           /\ \A i \in DOMAIN NextChunk : NextChunk[i] = Chunked + i
           /\ \A x \in DOMAIN layers :
                  x > Chunked /\ x <= Chunked + MaxLowers => x - Chunked \in DOMAIN NextChunk
           /\ \A i \in DOMAIN NextChunk : i \in 1 .. MaxLowers
<1> DEFINE n == IF Chunked + MaxLowers <= Len(layers) THEN MaxLowers ELSE Len(layers) - Chunked
<1>1. Len(layers) \in Nat /\ Len(lowers) \in Nat /\ DOMAIN layers = 1 .. Len(layers)
    BY DEF OrderInv, Chunks
<1>2. Chunked \in Nat /\ MaxLowers \in Nat \ {0, 1}
    BY <1>1, MaxLowersAssumption DEF Chunked
<1>3. n \in Nat /\ n >= 1 /\ n <= MaxLowers /\ Chunked + n <= Len(layers)
    BY <1>1, <1>2
<1>4. NextChunk = [i \in 1 .. n |-> Chunked + i]
    BY DEF NextChunk
<1>5. \A x \in DOMAIN layers :
          x > Chunked /\ x <= Chunked + MaxLowers => x - Chunked \in 1 .. n
    BY <1>1, <1>2
<1> HIDE DEF n
<1>6. NextChunk \in Seq(DOMAIN layers) /\ DOMAIN NextChunk = 1 .. n
    BY <1>1, <1>2, <1>3, <1>4
<1> QED
    BY <1>2, <1>3, <1>4, <1>5, <1>6

LEMMA AppendChunk ==
    ASSUME OrderInv, CoverInv, pc = "chunk", Chunked < Len(layers),
           lowers' = Append(lowers, NextChunk), layers' = layers, pc' = "chunk"
    PROVE  OrderInv' /\ CoverInv'
<1>1. /\ Len(lowers) \in Nat
      /\ DOMAIN lowers = 1 .. Len(lowers)
      /\ DOMAIN lowers' = 1 .. Len(lowers) + 1
      /\ Len(lowers') = Len(lowers) + 1
      /\ \A k \in DOMAIN lowers : lowers'[k] = lowers[k]
      /\ lowers'[Len(lowers) + 1] = NextChunk
      /\ lowers' \in Seq(Seq(DOMAIN layers))
    BY NextChunkIs DEF OrderInv, Chunks
<1>2. Chunked' = Chunked + MaxLowers /\ Chunked \in Nat /\ MaxLowers \in Nat \ {0, 1}
    BY <1>1, MaxLowersAssumption DEF Chunked
<1>3. \A k \in DOMAIN lowers' : k \in DOMAIN lowers \/ k = Len(lowers) + 1
    BY <1>1
<1>4. OrderInv'
    <2>1. \A k \in DOMAIN lowers' : lowers'[k] # << >>
        BY <1>1, <1>3, NextChunkIs DEF OrderInv
    <2>2. \A k \in DOMAIN lowers' : \A i, j \in DOMAIN lowers'[k] :
              i < j => lowers'[k][i] < lowers'[k][j]
        <3>1. \A i, j \in DOMAIN NextChunk : i < j => NextChunk[i] < NextChunk[j]
            BY NextChunkIs, <1>2
        <3> QED
            BY <3>1, <1>1, <1>3 DEF OrderInv
    <2>3. \A k, m \in DOMAIN lowers' : k < m =>
              \A i \in DOMAIN lowers'[k], j \in DOMAIN lowers'[m] : lowers'[k][i] < lowers'[m][j]
        <3>1. SUFFICES ASSUME NEW k \in DOMAIN lowers', NEW m \in DOMAIN lowers', k < m,
                              NEW i \in DOMAIN lowers'[k], NEW j \in DOMAIN lowers'[m]
                       PROVE  lowers'[k][i] < lowers'[m][j]
            OBVIOUS
        <3>2. k \in DOMAIN lowers
            BY <3>1, <1>1
        <3>3. CASE m \in DOMAIN lowers
            BY <3>1, <3>2, <3>3, <1>1 DEF OrderInv
        <3>4. CASE m = Len(lowers) + 1
            <4>1. lowers'[k][i] <= Chunked /\ lowers'[k][i] \in Nat
                BY <3>1, <3>2, <1>1 DEF CoverInv, OrderInv, Chunks
            <4>2. lowers'[m][j] = Chunked + j /\ j \in 1 .. MaxLowers
                BY <3>1, <3>4, <1>1, NextChunkIs
            <4> QED
                BY <4>1, <4>2, <1>2
        <3> QED
            BY <1>3, <3>3, <3>4
    <2> QED
        BY <1>1, <2>1, <2>2, <2>3 DEF OrderInv, Chunks
<1>5. \A k \in DOMAIN lowers' : \A i \in DOMAIN lowers'[k] : lowers'[k][i] <= Chunked'
    <2>1. ASSUME NEW k \in DOMAIN lowers, NEW i \in DOMAIN lowers[k]
          PROVE  lowers[k][i] <= Chunked + MaxLowers
        <3>1. lowers[k][i] <= Chunked /\ lowers[k][i] \in Nat
            BY <2>1, <1>1 DEF CoverInv, OrderInv, Chunks
        <3> QED
            BY <3>1, <1>2
    <2>2. ASSUME NEW i \in DOMAIN NextChunk PROVE NextChunk[i] <= Chunked + MaxLowers
        BY <2>2, NextChunkIs, <1>2
    <2> QED
        BY <1>1, <1>2, <1>3, <2>1, <2>2
<1>6. ASSUME NEW x \in DOMAIN layers, x <= Chunked' PROVE Holds(x)'
    <2>1. CASE x <= Chunked
        BY <2>1, <1>1 DEF CoverInv, Holds
    <2>2. CASE x > Chunked
        <3>1. x \in Nat
            BY DEF OrderInv
        <3>2. x > Chunked /\ x <= Chunked + MaxLowers
            BY <2>2, <1>2, <1>6
        <3>3. PICK i \in DOMAIN NextChunk : i = x - Chunked
            BY <3>2, NextChunkIs
        <3>4. NextChunk[i] = Chunked + i
            BY NextChunkIs
        <3>5. NextChunk[i] = x
            BY <3>1, <3>3, <3>4, <1>2
        <3>6. PICK k \in DOMAIN lowers' : lowers'[k] = NextChunk
            BY <1>1
        <3>7. i \in DOMAIN lowers'[k] /\ lowers'[k][i] = x
            BY <3>5, <3>6
        <3> QED
            BY <3>7 DEF Holds
    <2> QED
        BY <1>2, <2>1, <2>2 DEF OrderInv
<1> QED
    BY <1>4, <1>5, <1>6 DEF CoverInv

LEMMA StepChunks == OrderInv /\ CoverInv /\ [Next]_vars => OrderInv' /\ CoverInv'
<1> SUFFICES ASSUME OrderInv, CoverInv, [Next]_vars PROVE OrderInv' /\ CoverInv'
    OBVIOUS
<1>1. CASE UNCHANGED vars
    BY <1>1, SameChunks DEF vars
<1>2. CASE Refuse \/ TooMany \/ Fails \/ BindLowersDir \/ BindLayer \/ MountTop \/ Unmount
    BY <1>2, SameChunks
       DEF Refuse, TooMany, Fails, BindLowersDir, BindLayer, MountTop, Unmount, Bail, Goes
<1>3. CASE SkipStacking
    <2>1. /\ layers' = layers /\ layers \in Seq(Layer)
          /\ lowers' = [i \in 1 .. Len(layers) |-> <<i>>]
          /\ pc' = "mount"
        BY <1>3 DEF SkipStacking, Goes, OrderInv
    <2>2. lowers' \in Seq(Seq(DOMAIN layers)) /\ DOMAIN lowers' = DOMAIN layers
        BY <2>1
    <2>3. \A k \in DOMAIN lowers' : lowers'[k] = <<k>> /\ DOMAIN lowers'[k] = {1}
        BY <2>1
    <2>4. DOMAIN layers \subseteq Nat
        BY <2>1
    <2>5. OrderInv'
        BY <2>1, <2>2, <2>3, <2>4 DEF OrderInv, Chunks
    <2>6. \A x \in DOMAIN layers : Holds(x)'
        BY <2>1, <2>2, <2>3 DEF Holds
    <2> QED
        BY <2>1, <2>5, <2>6 DEF CoverInv
<1>4. CASE StartStacking
    <2>1. lowers = << >> /\ UNCHANGED <<layers, lowers>> /\ pc' = "chunk"
        BY <1>4 DEF StartStacking, Goes, CoverInv
    <2>2. Chunked' = 0
        BY <2>1, MaxLowersAssumption DEF Chunked
    <2> QED
        BY <2>1, <2>2 DEF OrderInv, CoverInv, Chunks, Holds
<1>5. CASE KeepLayer \/ MountChunk
    BY <1>5, AppendChunk DEF KeepLayer, MountChunk, ChunkToMount, Goes
<1>6. CASE ChunksDone
    <2>1. Len(layers) \in Nat /\ Chunked \in Nat
        BY MaxLowersAssumption DEF OrderInv, Chunks, Chunked
    <2>2. \A x \in DOMAIN layers : Holds(x)
        BY <1>6, <2>1 DEF ChunksDone, Goes, CoverInv, OrderInv
    <2> QED
        BY <1>6, <2>2 DEF ChunksDone, Goes, OrderInv, CoverInv, Chunks, Holds
<1> QED
    BY <1>1, <1>2, <1>3, <1>4, <1>5, <1>6 DEF Next
----------------------------------------------------------------------------
(* What an overlay shows, in terms of a list with the lowest layer first   *)
Bare(list, S, p) == \A j \in S : list[j][p].kind = "absent"

Highest(list, S, p, i) ==
    /\ i \in S
    /\ list[i][p].kind # "absent"
    /\ \A j \in S : j > i => list[j][p].kind = "absent"

Hidden(x) == IF x.kind = "whiteout" THEN Absent ELSE x

IsTop(list, S, p, v) ==
    \/ Bare(list, S, p) /\ v = Absent
    \/ \E i \in S : Highest(list, S, p, i) /\ v = Hidden(list[i][p])

MergedUp(list) ==
    {i \in DOMAIN list :
        /\ list[i][D].kind = "dir"
        /\ \A j \in DOMAIN list : j >= i => list[j][D].kind \in {"dir", "absent"}}

LEMMA Least ==
    ASSUME NEW S, S \subseteq Nat, S # {}
    PROVE  \E m \in S : \A n \in S : m <= n
<1>1. PICK m \in S : \A n \in S : ~(<<n, m>> \in OpToRel(<, Nat))
    BY WFMin, NatLessThanWellFounded
<1>2. \A n \in S : ~(n < m)
    BY <1>1 DEF OpToRel
<1> QED
    BY <1>2

\* Of a list there is only one top
LEMMA TopIsUnique ==
    ASSUME NEW list, NEW S, S \subseteq Nat, NEW p, NEW v, NEW w,
           IsTop(list, S, p, v), IsTop(list, S, p, w)
    PROVE  v = w
<1>1. ASSUME NEW i \in S, NEW j \in S, Highest(list, S, p, i), Highest(list, S, p, j)
      PROVE  i = j
    <2>1. i \in Nat /\ j \in Nat
        OBVIOUS
    <2>2. ~(i > j) /\ ~(j > i)
        BY <1>1 DEF Highest
    <2> QED
        BY <2>1, <2>2
<1> QED
    BY <1>1 DEF IsTop, Bare, Highest

\* What TopMost finds from above is the top of the list
LEMMA TopMostIsTop ==
    ASSUME NEW X, NEW list \in Seq(X), NEW p,
           NEW S, S \subseteq DOMAIN list,
           NEW T, T \subseteq DOMAIN list,
           \A i \in DOMAIN list : i \in S <=> Len(list) + 1 - i \in T
    PROVE  IsTop(list, S, p, TopMost(Reverse(list), T, p))
<1> DEFINE n == Len(list)
           stack == Reverse(list)
           has == {i \in T : stack[i][p].kind # "absent"}
           top == CHOOSE i \in has : \A j \in has : i <= j
<1>1. n \in Nat /\ DOMAIN list = 1 .. n /\ DOMAIN stack = 1 .. n
    BY DEF Reverse
<1>2. \A i \in 1 .. n : /\ n + 1 - i \in 1 .. n
                         /\ n + 1 - (n + 1 - i) = i
                         /\ n - i + 1 = n + 1 - i
    BY <1>1
<1>3. \A i \in 1 .. n : stack[i] = list[n + 1 - i]
    BY <1>1, <1>2 DEF Reverse
<1>4. \A i \in 1 .. n : i \in T <=> n + 1 - i \in S
    BY <1>1, <1>2
<1> HIDE DEF n, stack
<1>5. CASE has = {}
    <2>1. Bare(list, S, p)
        <3> SUFFICES ASSUME NEW j \in S PROVE list[j][p].kind = "absent"
            BY DEF Bare
        <3>1. j \in 1 .. n /\ n + 1 - j \in T /\ stack[n + 1 - j] = list[j]
            BY <1>1, <1>2, <1>3, <1>4
        <3> QED
            BY <3>1, <1>5
    <2>2. TopMost(stack, T, p) = Absent
        BY <1>5 DEF TopMost
    <2> QED
        BY <2>1, <2>2 DEF IsTop, stack
<1>6. CASE has # {}
    <2>1. has \subseteq Nat
        BY <1>1
    <2>2. \E m \in has : \A j \in has : m <= j
        BY <1>6, <2>1, Least
    <2>3. top \in has /\ \A j \in has : top <= j
        BY <2>2
    <2>4. top \in 1 .. n /\ n + 1 - top \in S
        BY <2>3, <1>1, <1>4
    <2>5. Highest(list, S, p, n + 1 - top)
        <3>1. list[n + 1 - top][p].kind # "absent"
            BY <2>3, <2>4, <1>3
        <3>2. ASSUME NEW j \in S, j > n + 1 - top PROVE list[j][p].kind = "absent"
            <4>1. j \in 1 .. n /\ n + 1 - j \in T /\ stack[n + 1 - j] = list[j]
                BY <1>1, <1>2, <1>3, <1>4
            <4>2. n + 1 - j < top
                BY <4>1, <3>2, <2>4, <1>1
            <4>3. ~(top <= n + 1 - j)
                BY <4>1, <4>2, <2>4, <1>1
            <4> QED
                BY <4>1, <4>3, <2>3
        <3> QED
            BY <2>4, <3>1, <3>2 DEF Highest
    <2>6. TopMost(stack, T, p) = Hidden(stack[top][p])
        BY <1>6 DEF TopMost, Hidden
    <2> HIDE DEF top, has
    <2>7. TopMost(stack, T, p) = Hidden(list[n + 1 - top][p])
        BY <2>4, <2>6, <1>3
    <2> QED
        BY <2>4, <2>5, <2>7 DEF IsTop, stack
<1> QED
    BY <1>5, <1>6

\* An overlay merges the directories that nothing above them hides
LEMMA MergedFromAbove ==
    ASSUME NEW X, NEW list \in Seq(X), NEW i \in DOMAIN list
    PROVE  i \in MergedUp(list) <=> Len(list) + 1 - i \in MergedD(Reverse(list))
<1> DEFINE n == Len(list)
           stack == Reverse(list)
<1>1. n \in Nat /\ DOMAIN list = 1 .. n /\ DOMAIN stack = 1 .. n
    BY DEF Reverse
<1>2. \A j \in 1 .. n : n + 1 - j \in 1 .. n /\ stack[n + 1 - j] = list[j]
    <2> SUFFICES ASSUME NEW j \in 1 .. n
                 PROVE  n + 1 - j \in 1 .. n /\ stack[n + 1 - j] = list[j]
        OBVIOUS
    <2>1. n + 1 - j \in 1 .. n /\ (n - (n + 1 - j)) + 1 = j
        BY <1>1
    <2> QED
        BY <2>1, <1>1 DEF Reverse
<1>3. \A j \in 1 .. n : j \in 1 .. n + 1 - i <=> n + 1 - j >= i
    BY <1>1
<1>4. \A j \in 1 .. n : n + 1 - (n + 1 - j) = j
    BY <1>1
<1> HIDE DEF n, stack
<1>5. ASSUME i \in MergedUp(list) PROVE n + 1 - i \in MergedD(stack)
    <2>1. ASSUME NEW j \in 1 .. n + 1 - i PROVE stack[j][D].kind \in {"dir", "absent"}
        <3>1. j \in 1 .. n /\ n + 1 - j \in 1 .. n /\ n + 1 - j >= i
            BY <1>1
        <3>2. list[n + 1 - j][D].kind \in {"dir", "absent"}
            BY <3>1, <1>1, <1>5 DEF MergedUp
        <3> QED
            BY <3>1, <3>2, <1>2, <1>4
    <2> QED
        BY <2>1, <1>1, <1>2, <1>5 DEF MergedUp, MergedD
<1>6. ASSUME n + 1 - i \in MergedD(stack) PROVE i \in MergedUp(list)
    <2>1. ASSUME NEW j \in DOMAIN list, j >= i PROVE list[j][D].kind \in {"dir", "absent"}
        <3>1. j \in 1 .. n /\ n + 1 - j \in 1 .. n + 1 - i
            BY <1>1, <2>1
        <3> QED
            BY <3>1, <1>2, <1>6 DEF MergedD
    <2> QED
        BY <2>1, <1>1, <1>2, <1>6 DEF MergedUp, MergedD
<1> QED
    BY <1>5, <1>6 DEF n, stack

LEMMA OverlayIsTop ==
    ASSUME NEW X, NEW list \in Seq(X)
    PROVE  /\ IsTop(list, DOMAIN list, D, Overlay(Lowerdir(list))[D])
           /\ IsTop(list, MergedUp(list), F, Overlay(Lowerdir(list))[F])
<1>1. /\ Len(list) \in Nat
      /\ DOMAIN list = 1 .. Len(list)
      /\ DOMAIN Reverse(list) = DOMAIN list
      /\ \A i \in DOMAIN list : Len(list) + 1 - i \in DOMAIN list
    BY DEF Reverse
<1>2. D \in Paths /\ F \in Paths /\ D # F
    BY DEF Paths, D, F
<1>3. IsTop(list, DOMAIN list, D, TopMost(Reverse(list), DOMAIN Reverse(list), D))
    BY <1>1, TopMostIsTop
<1>4. MergedUp(list) \subseteq DOMAIN list /\ MergedD(Reverse(list)) \subseteq DOMAIN list
    BY <1>1 DEF MergedUp, MergedD
<1>5. IsTop(list, MergedUp(list), F, TopMost(Reverse(list), MergedD(Reverse(list)), F))
    BY <1>4, MergedFromAbove, TopMostIsTop
<1> QED
    BY <1>2, <1>3, <1>5 DEF Overlay, Lowerdir
----------------------------------------------------------------------------
(* The layers of a chunk, what the chunks give to the top overlay, and     *)
(* when a chunk k gives at path p what is on top of its layers in S        *)
Part(k) == [i \in DOMAIN lowers[k] |-> layers[lowers[k][i]]]
Tops == [k \in DOMAIN lowers |-> Lower(lowers[k])]
NoCuts == \A k \in DOMAIN lowers : k > 1 => ~Cuts(lowers[k])

Gives(k, S, p) ==
    /\ Bare(Part(k), S, p) => Tops[k][p].kind = "absent"
    /\ \A i \in S : Highest(Part(k), S, p, i) =>
           \/ Tops[k][p] = Part(k)[i][p]
           \/ k = 1 /\ Part(k)[i][p].kind = "whiteout" /\ Tops[k][p] = Absent

LEMMA PartIs ==
    ASSUME OrderInv, NEW k \in DOMAIN lowers
    PROVE  /\ Len(lowers[k]) \in Nat \ {0}
           /\ DOMAIN lowers[k] = 1 .. Len(lowers[k])
           /\ Part(k) \in Seq(Layer)
           /\ DOMAIN Part(k) = DOMAIN lowers[k]
           /\ \A i \in DOMAIN lowers[k] :
                  lowers[k][i] \in DOMAIN layers /\ Part(k)[i] = layers[lowers[k][i]]
           /\ k \in Nat \ {0}
<1>1. lowers[k] \in Seq(DOMAIN layers) /\ lowers[k] # << >> /\ k \in Nat \ {0}
    BY DEF OrderInv, Chunks
<1>2. \A i \in DOMAIN lowers[k] : lowers[k][i] \in DOMAIN layers
    BY <1>1
<1>3. \A x \in DOMAIN layers : layers[x] \in Layer
    BY DEF OrderInv
<1>4. Len(lowers[k]) \in Nat \ {0} /\ DOMAIN lowers[k] = 1 .. Len(lowers[k])
    BY <1>1
<1> QED
    BY <1>1, <1>2, <1>3, <1>4 DEF Part

\* A whiteout on top of a chunk of its own overlay is there in the first only
LEMMA TopGives ==
    ASSUME OrderInv, NoCuts, NEW k \in DOMAIN lowers, Len(lowers[k]) # 1, NEW p \in Paths,
           NEW S, S \subseteq DOMAIN lowers[k], IsTop(Part(k), S, p, Tops[k][p])
    PROVE  Gives(k, S, p)
<1>1. S \subseteq Nat
    BY PartIs
<1>2. ASSUME Bare(Part(k), S, p) PROVE Tops[k][p].kind = "absent"
    BY <1>2 DEF IsTop, Highest, Bare, Absent
<1>3. ASSUME NEW i \in S, Highest(Part(k), S, p, i)
      PROVE  \/ Tops[k][p] = Part(k)[i][p]
             \/ k = 1 /\ Part(k)[i][p].kind = "whiteout" /\ Tops[k][p] = Absent
    <2>1. IsTop(Part(k), S, p, Hidden(Part(k)[i][p]))
        BY <1>3 DEF IsTop
    <2>2. Tops[k][p] = Hidden(Part(k)[i][p])
        BY <1>1, <2>1, TopIsUnique
    <2>3. CASE k = 1
        BY <2>2, <2>3 DEF Hidden
    <2>4. CASE k # 1
        <3>1. k \in Nat \ {0} /\ Len(lowers[k]) \in Nat \ {0}
            BY PartIs
        <3>2. \A n \in Nat \ {0} : n # 1 => n > 1
            OBVIOUS
        <3>3. k > 1 /\ Len(lowers[k]) > 1
            BY <2>4, <3>1, <3>2
        <3>4. ~Cuts(lowers[k])
            BY <3>3 DEF NoCuts
        <3>5. layers[lowers[k][i]][p].kind # "whiteout"
            BY <3>3, <3>4, PartIs DEF Cuts
        <3> QED
            BY <2>2, <3>5, PartIs DEF Hidden
    <2> QED
        BY <2>3, <2>4
<1> QED
    BY <1>2, <1>3 DEF Gives

\* A chunk gives its top thing at D, and, if it is a directory, at F
LEMMA PartsGive ==
    ASSUME OrderInv, NoCuts, NEW k \in DOMAIN lowers
    PROVE  /\ Gives(k, DOMAIN Part(k), D)
           /\ Tops[k][D].kind = "dir" => Gives(k, MergedUp(Part(k)), F)
<1>1. D \in Paths /\ F \in Paths
    BY DEF Paths
<1>2. CASE Len(lowers[k]) = 1
    <2>1. DOMAIN Part(k) = {1} /\ Tops[k] = Part(k)[1]
        BY <1>2, PartIs DEF Tops, Lower, StandsAlone
    <2>2. Tops[k][D].kind = "dir" => MergedUp(Part(k)) = {1}
        BY <2>1 DEF MergedUp
    <2> QED
        BY <2>1, <2>2 DEF Gives, Bare, Highest
<1>3. CASE Len(lowers[k]) # 1
    <2>1. Tops[k] = Overlay(Lowerdir(Part(k)))
        BY <1>3 DEF Tops, Lower, StandsAlone, Part
    <2>2. /\ IsTop(Part(k), DOMAIN Part(k), D, Tops[k][D])
          /\ IsTop(Part(k), MergedUp(Part(k)), F, Tops[k][F])
        BY <2>1, PartIs, OverlayIsTop
    <2>3. MergedUp(Part(k)) \subseteq DOMAIN lowers[k]
        BY PartIs DEF MergedUp
    <2> QED
        BY <1>1, <1>3, <2>2, <2>3, PartIs, TopGives
<1> QED
    BY <1>2, <1>3

\* The order of layers is that of their chunks, and within one that of the chunk
LEMMA Above ==
    ASSUME OrderInv, NEW k \in DOMAIN lowers, NEW i \in DOMAIN lowers[k],
           NEW m \in DOMAIN lowers, NEW j \in DOMAIN lowers[m]
    PROVE  lowers[m][j] > lowers[k][i] <=> m > k \/ (m = k /\ j > i)
<1>1. /\ lowers[k][i] \in Nat /\ lowers[m][j] \in Nat
      /\ k \in Nat /\ m \in Nat /\ i \in Nat /\ j \in Nat
    BY PartIs DEF OrderInv
<1>2. /\ m > k => lowers[m][j] > lowers[k][i]
      /\ m < k => lowers[m][j] < lowers[k][i]
    BY <1>1 DEF OrderInv
<1>3. m = k => /\ j > i => lowers[m][j] > lowers[k][i]
               /\ j < i => lowers[m][j] < lowers[k][i]
    BY <1>1 DEF OrderInv
<1>4. m = k /\ j = i => lowers[m][j] = lowers[k][i]
    OBVIOUS
<1> QED
    BY <1>1, <1>2, <1>3, <1>4

(* If the layers in S are those that chunks of H give, then what is on top *)
(* of S is on top of H                                                     *)
LEMMA TopOfTops ==
    ASSUME OrderInv, \A x \in DOMAIN layers : Holds(x), NEW p, NEW v,
           NEW S, S \subseteq DOMAIN layers,
           NEW H, H \subseteq DOMAIN lowers,
           NEW P, \A k \in H : P[k] \subseteq DOMAIN lowers[k],
           \A k \in DOMAIN lowers : \A i \in DOMAIN lowers[k] :
               lowers[k][i] \in S <=> k \in H /\ i \in P[k],
           \A k \in H : Gives(k, P[k], p),
           IsTop(layers, S, p, v)
    PROVE  IsTop(Tops, H, p, v)
<1>1. CASE Bare(layers, S, p) /\ v = Absent
    <2>1. ASSUME NEW k \in H PROVE Tops[k][p].kind = "absent"
        <3>1. ASSUME NEW i \in P[k] PROVE Part(k)[i][p].kind = "absent"
            <4>1. k \in DOMAIN lowers /\ i \in DOMAIN lowers[k]
                OBVIOUS
            <4>2. lowers[k][i] \in S
                BY <4>1
            <4> QED
                BY <1>1, <4>1, <4>2, PartIs DEF Bare
        <3> QED
            BY <3>1 DEF Gives, Bare
    <2> QED
        BY <1>1, <2>1 DEF IsTop, Bare
<1>2. ASSUME NEW x \in S, Highest(layers, S, p, x), v = Hidden(layers[x][p])
      PROVE  IsTop(Tops, H, p, v)
    <2>1. PICK k \in DOMAIN lowers : \E i \in DOMAIN lowers[k] : lowers[k][i] = x
        BY DEF Holds
    <2>2. PICK i \in DOMAIN lowers[k] : lowers[k][i] = x
        BY <2>1
    <2>3. k \in H /\ i \in P[k] /\ Part(k)[i] = layers[x]
        BY <2>2, PartIs
    <2>4. \A m \in H : \A j \in P[m] : m > k \/ (m = k /\ j > i) => Part(m)[j][p].kind = "absent"
        <3> SUFFICES ASSUME NEW m \in H, NEW j \in P[m], m > k \/ (m = k /\ j > i)
                     PROVE  Part(m)[j][p].kind = "absent"
            OBVIOUS
        <3>1. m \in DOMAIN lowers /\ j \in DOMAIN lowers[m]
            OBVIOUS
        <3>2. lowers[m][j] \in S /\ lowers[m][j] > x
            BY <2>2, <3>1, Above
        <3> QED
            BY <1>2, <3>1, <3>2, PartIs DEF Highest
    <2>5. Highest(Part(k), P[k], p, i)
        BY <1>2, <2>3, <2>4 DEF Highest
    <2>6. \A m \in H : m > k => Tops[m][p].kind = "absent"
        BY <2>4 DEF Gives, Bare
    <2>7. CASE Tops[k][p] = layers[x][p]
        <3>1. Highest(Tops, H, p, k)
            BY <1>2, <2>3, <2>6, <2>7 DEF Highest
        <3> QED
            BY <1>2, <2>3, <2>7, <3>1 DEF IsTop
    <2>8. CASE k = 1 /\ layers[x][p].kind = "whiteout" /\ Tops[k][p] = Absent
        <3>1. \A m \in H : m = 1 \/ m > 1
            BY PartIs
        <3>2. Bare(Tops, H, p)
            BY <2>6, <2>8, <3>1 DEF Bare, Absent
        <3> QED
            BY <1>2, <2>8, <3>2 DEF IsTop, Hidden
    <2> QED
        BY <2>3, <2>5, <2>7, <2>8 DEF Gives
<1> QED
    BY <1>1, <1>2 DEF IsTop

\* What a chunk gives at D tells what its layers have there
LEMMA ChunkTells ==
    ASSUME OrderInv, NoCuts, NEW k \in DOMAIN lowers
    PROVE  /\ (\E i \in DOMAIN Part(k) : i \in MergedUp(Part(k))) => Tops[k][D].kind = "dir"
           /\ (\A i \in DOMAIN Part(k) : Part(k)[i][D].kind \in {"dir", "absent"})
                  => Tops[k][D].kind \in {"dir", "absent"}
           /\ k > 1 /\ Tops[k][D].kind \in {"dir", "absent"}
                  => \A i \in DOMAIN Part(k) : Part(k)[i][D].kind \in {"dir", "absent"}
<1> DEFINE part == Part(k)
<1>1. part \in Seq(Layer) /\ DOMAIN part = DOMAIN lowers[k] /\ DOMAIN part \subseteq Nat
    BY PartIs
<1>2. Gives(k, DOMAIN part, D)
    BY PartsGive
<1> HIDE DEF part
<1>3. Bare(part, DOMAIN part, D) \/ \E h \in DOMAIN part : Highest(part, DOMAIN part, D, h)
    BY <1>1, OverlayIsTop DEF IsTop
<1>4. Bare(part, DOMAIN part, D) => Tops[k][D].kind = "absent"
    BY <1>2 DEF Gives, part
<1>5. ASSUME NEW h \in DOMAIN part, Highest(part, DOMAIN part, D, h)
      PROVE  \/ Tops[k][D] = part[h][D]
             \/ k = 1 /\ part[h][D].kind = "whiteout" /\ Tops[k][D] = Absent
    BY <1>2, <1>5 DEF Gives, part
<1>6. ASSUME NEW i \in DOMAIN part, i \in MergedUp(part) PROVE Tops[k][D].kind = "dir"
    <2>1. part[i][D].kind = "dir"
        BY <1>6 DEF MergedUp
    <2>2. PICK h \in DOMAIN part : Highest(part, DOMAIN part, D, h)
        BY <1>3, <2>1 DEF Bare
    <2>3. ~(i > h)
        BY <2>1, <2>2 DEF Highest
    <2>4. h >= i
        BY <2>3, <1>1
    <2>5. part[h][D].kind = "dir"
        BY <1>6, <2>2, <2>4 DEF MergedUp, Highest
    <2> QED
        BY <1>5, <2>2, <2>5
<1>7. ASSUME \A i \in DOMAIN part : part[i][D].kind \in {"dir", "absent"}
      PROVE  Tops[k][D].kind \in {"dir", "absent"}
    BY <1>3, <1>4, <1>5, <1>7
<1>8. ASSUME k > 1, Tops[k][D].kind \in {"dir", "absent"}, NEW i \in DOMAIN part
      PROVE  part[i][D].kind \in {"dir", "absent"}
    <2>1. CASE Bare(part, DOMAIN part, D)
        BY <2>1 DEF Bare
    <2>2. ASSUME NEW h \in DOMAIN part, Highest(part, DOMAIN part, D, h)
          PROVE  part[i][D].kind \in {"dir", "absent"}
        <3>1. Tops[k][D] = part[h][D] /\ part[h][D].kind = "dir"
            BY <1>5, <1>8, <2>2 DEF Highest
        <3>2. i > h \/ i = h \/ i < h
            BY <1>1
        <3>3. CASE i > h
            BY <2>2, <3>3 DEF Highest
        <3>4. CASE i < h
            <4>1. ~Cuts(lowers[k])
                BY <1>8 DEF NoCuts
            <4>2. /\ i \in 1 .. Len(lowers[k])
                  /\ h \in i .. Len(lowers[k])
                  /\ Len(lowers[k]) > 1
                BY <1>1, <3>4, PartIs
            <4>3. /\ part[i] = layers[lowers[k][i]]
                  /\ part[h] = layers[lowers[k][h]]
                BY <1>1, PartIs DEF part
            <4>4. D \in Paths
                BY DEF Paths
            <4>5. part[i][D].kind # "whiteout" /\ part[i][D].kind # "file"
                BY <3>1, <4>1, <4>2, <4>3, <4>4 DEF Cuts
            <4>6. part[i][D].kind \in Kinds
                BY <1>1, <4>4 DEF Layer
            <4> QED
                BY <4>5, <4>6 DEF Kinds
        <3> QED
            BY <3>1, <3>2, <3>3, <3>4
    <2> QED
        BY <1>3, <2>1, <2>2
<1> QED
    BY <1>6, <1>7, <1>8 DEF part

\* A directory is merged if it is merged in its chunk, and its chunk in the top overlay
LEMMA MergedInTops ==
    ASSUME OrderInv, NoCuts, \A x \in DOMAIN layers : Holds(x),
           NEW k \in DOMAIN lowers, NEW i \in DOMAIN lowers[k]
    PROVE  lowers[k][i] \in MergedUp(layers) <=>
               k \in MergedUp(Tops) /\ i \in MergedUp(Part(k))
<1> DEFINE x == lowers[k][i]
<1>1. x \in DOMAIN layers /\ Part(k)[i] = layers[x] /\ DOMAIN Tops = DOMAIN lowers
    BY PartIs DEF Tops
<1>2. DOMAIN layers \subseteq Nat /\ DOMAIN lowers \subseteq Nat /\ DOMAIN lowers[k] \subseteq Nat
    BY PartIs DEF OrderInv
<1>3. ASSUME x \in MergedUp(layers) PROVE k \in MergedUp(Tops) /\ i \in MergedUp(Part(k))
    <2>1. ASSUME NEW m \in DOMAIN lowers, NEW j \in DOMAIN lowers[m], m > k \/ (m = k /\ j >= i)
          PROVE  Part(m)[j][D].kind \in {"dir", "absent"}
        <3>1. lowers[m][j] \in DOMAIN layers /\ Part(m)[j] = layers[lowers[m][j]] /\ j \in Nat
            BY PartIs
        <3>2. lowers[m][j] > x \/ (m = k /\ j = i)
            BY <1>2, <2>1, <3>1, Above
        <3>3. lowers[m][j] >= x
            BY <1>1, <1>2, <3>1, <3>2
        <3> QED
            BY <1>3, <3>1, <3>3 DEF MergedUp
    <2>2. i \in MergedUp(Part(k))
        BY <1>1, <1>3, <2>1, PartIs DEF MergedUp
    <2>3. Tops[k][D].kind = "dir"
        BY <2>2, PartIs, ChunkTells
    <2>4. ASSUME NEW m \in DOMAIN lowers, m >= k PROVE Tops[m][D].kind \in {"dir", "absent"}
        <3>1. CASE m = k
            BY <2>3, <3>1
        <3>2. CASE m > k
            <4>1. \A j \in DOMAIN Part(m) : Part(m)[j][D].kind \in {"dir", "absent"}
                BY <2>1, <3>2, PartIs
            <4> QED
                BY <4>1, ChunkTells
        <3> QED
            BY <1>2, <2>4, <3>1, <3>2
    <2> QED
        BY <1>1, <2>2, <2>3, <2>4 DEF MergedUp
<1>4. ASSUME k \in MergedUp(Tops), i \in MergedUp(Part(k)) PROVE x \in MergedUp(layers)
    <2>1. layers[x][D].kind = "dir"
        BY <1>1, <1>4 DEF MergedUp
    <2>2. ASSUME NEW y \in DOMAIN layers, y >= x PROVE layers[y][D].kind \in {"dir", "absent"}
        <3>1. PICK m \in DOMAIN lowers : \E j \in DOMAIN lowers[m] : lowers[m][j] = y
            BY DEF Holds
        <3>2. PICK j \in DOMAIN lowers[m] : lowers[m][j] = y
            BY <3>1
        <3>3. Part(m)[j] = layers[y] /\ DOMAIN Part(m) = DOMAIN lowers[m] /\ m \in Nat \ {0}
            BY <3>2, PartIs
        <3>4. y = x \/ y > x
            BY <1>1, <1>2, <2>2
        <3>5. CASE y > x
            <4>1. m > k \/ (m = k /\ j > i)
                BY <3>2, <3>5, Above
            <4>2. CASE m = k /\ j > i
                BY <1>4, <3>2, <3>3, <4>2, <1>2 DEF MergedUp
            <4>3. CASE m > k
                <5>1. Tops[m][D].kind \in {"dir", "absent"}
                    BY <1>1, <1>2, <1>4, <4>3 DEF MergedUp
                <5>2. m > 1
                    BY <3>3, <4>3, PartIs
                <5> QED
                    BY <3>2, <3>3, <5>1, <5>2, ChunkTells
            <4> QED
                BY <4>1, <4>2, <4>3
        <3> QED
            BY <2>1, <3>4, <3>5
    <2> QED
        BY <1>1, <2>1, <2>2 DEF MergedUp
<1> QED
    BY <1>3, <1>4

(* Two levels of overlays show what one would                              *)
LEMMA TwoLevels ==
    ASSUME OrderInv, NoCuts, \A x \in DOMAIN layers : Holds(x)
    PROVE  Overlay(Lowerdir(Tops)) = Flat
<1> DEFINE all == [k \in DOMAIN lowers |-> DOMAIN Part(k)]
           merged == [k \in DOMAIN lowers |-> MergedUp(Part(k))]
<1>1. Tops \in Seq({Tops[k] : k \in DOMAIN lowers}) /\ DOMAIN Tops = DOMAIN lowers
    <2>1. Len(lowers) \in Nat /\ DOMAIN lowers = 1 .. Len(lowers)
        BY DEF OrderInv, Chunks
    <2>2. DOMAIN Tops = 1 .. Len(lowers) /\ Tops = [k \in 1 .. Len(lowers) |-> Tops[k]]
        BY <2>1 DEF Tops
    <2> HIDE DEF Tops
    <2> QED
        BY <2>1, <2>2
<1>2. layers \in Seq(Layer) /\ DOMAIN layers \subseteq Nat /\ DOMAIN lowers \subseteq Nat
    BY DEF OrderInv, Chunks
<1>3. \A k \in DOMAIN lowers : all[k] = DOMAIN lowers[k] /\ merged[k] \subseteq DOMAIN lowers[k]
    BY PartIs DEF MergedUp
<1>4. IsTop(Tops, DOMAIN Tops, D, Flat[D])
    <2>1. IsTop(layers, DOMAIN layers, D, Flat[D])
        BY <1>2, OverlayIsTop DEF Flat
    <2>2. \A k \in DOMAIN lowers : \A i \in DOMAIN lowers[k] :
              lowers[k][i] \in DOMAIN layers <=> k \in DOMAIN lowers /\ i \in all[k]
        BY <1>3, PartIs
    <2>3. \A k \in DOMAIN lowers : Gives(k, all[k], D)
        BY PartsGive
    <2> HIDE DEF all
    <2> QED
        BY <1>1, <1>3, <2>1, <2>2, <2>3, TopOfTops
<1>5. IsTop(Tops, MergedUp(Tops), F, Flat[F])
    <2>1. IsTop(layers, MergedUp(layers), F, Flat[F])
        BY <1>2, OverlayIsTop DEF Flat
    <2>2. \A k \in DOMAIN lowers : \A i \in DOMAIN lowers[k] :
              lowers[k][i] \in MergedUp(layers) <=> k \in MergedUp(Tops) /\ i \in merged[k]
        BY MergedInTops
    <2>3. \A k \in MergedUp(Tops) : Gives(k, merged[k], F)
        BY <1>1, PartsGive DEF MergedUp
    <2>4. MergedUp(Tops) \subseteq DOMAIN lowers /\ MergedUp(layers) \subseteq DOMAIN layers
        BY <1>1 DEF MergedUp
    <2> HIDE DEF merged
    <2> QED
        BY <1>3, <2>1, <2>2, <2>3, <2>4, TopOfTops
<1>6. /\ Overlay(Lowerdir(Tops))[D] = Flat[D]
      /\ Overlay(Lowerdir(Tops))[F] = Flat[F]
    <2>1. /\ IsTop(Tops, DOMAIN Tops, D, Overlay(Lowerdir(Tops))[D])
          /\ IsTop(Tops, MergedUp(Tops), F, Overlay(Lowerdir(Tops))[F])
        BY <1>1, OverlayIsTop
    <2>2. DOMAIN Tops \subseteq Nat /\ MergedUp(Tops) \subseteq Nat
        BY <1>1, <1>2 DEF MergedUp
    <2> QED
        BY <1>4, <1>5, <2>1, <2>2, TopIsUnique
<1> QED
    BY <1>6 DEF Overlay, Flat, Paths
----------------------------------------------------------------------------
ViewInv == pc = "mounted" => view = Overlay(Lowerdir(Tops))

LEMMA InitView == Init => ViewInv
BY DEF Init, ViewInv

LEMMA StepView == ViewInv /\ [Next]_vars => ViewInv'
<1> SUFFICES ASSUME ViewInv, [Next]_vars, pc' = "mounted" PROVE view' = Overlay(Lowerdir(Tops))'
    BY DEF ViewInv
<1>1. CASE UNCHANGED vars
    BY <1>1 DEF vars, ViewInv, Tops, Lower
<1>2. CASE MountTop
    BY <1>2 DEF MountTop, Tops, Lower
<1> QED
    BY <1>1, <1>2
       DEF Next, Refuse, BindLowersDir, BindLayer, TooMany, SkipStacking, StartStacking, KeepLayer,
           MountChunk, ChunksDone, Fails, Unmount, Bail, Goes

(* What a container shows is the merge of all of its layers in one         *)
(* overlay, however many there are and wherever the stack is cut into      *)
(* chunks (mounts.rs:155-243), as long as no chunk but the lowest cuts a   *)
(* search short.                                                           *)
THEOREM StackingIsFaithful == Spec => [](StackingIsInvisible /\ OrderInv /\ CoverInv /\ ViewInv)
<1>1. OrderInv /\ CoverInv /\ ViewInv => StackingIsInvisible
    BY TwoLevels DEF CoverInv, ViewInv, StackingIsInvisible, NoCuts
<1> QED
    BY <1>1, InitChunks, StepChunks, InitView, StepView, PTL DEF Spec
----------------------------------------------------------------------------
BoundInv == bound \in 0 .. Len(layers) /\ scratch \in BOOLEAN
            /\ pc \in {"start", "bind", "chunk", "mount", "mounted", "unmounted", "failed"}

LEMMA InitBound == Init => BoundInv
BY LayersAssumption DEF Init, BoundInv

LEMMA StepBound == OrderInv /\ BoundInv /\ [Next]_vars => BoundInv'
<1> SUFFICES ASSUME OrderInv, BoundInv, [Next]_vars PROVE BoundInv'
    OBVIOUS
<1>1. CASE BindLayer
    <2>1. Len(layers) \in Nat
        BY DEF OrderInv
    <2> QED
        BY <1>1, <2>1 DEF BindLayer, Goes, BoundInv
<1>2. CASE ~BindLayer
    BY <1>2
       DEF BoundInv, Next, vars, Refuse, BindLowersDir, TooMany, SkipStacking, StartStacking,
           KeepLayer, MountChunk, ChunksDone, MountTop, Fails, Unmount, Bail, Goes
<1> QED
    BY <1>1, <1>2

(* Every variable of mount_overlayfs keeps its type: chunks hold numbers   *)
(* of layers, and a guard is only held of what is mounted.                 *)
THEOREM MountTyping == Spec => []TypeOK
<1>1. BoundInv /\ OrderInv /\ MountsInv => TypeOK
    BY DEF BoundInv, OrderInv, Chunks, MountsInv, TypeOK
<1> QED
    BY <1>1, InitBound, StepBound, NothingStaysMounted, StackingIsFaithful, PTL DEF Spec
===============================================================================
