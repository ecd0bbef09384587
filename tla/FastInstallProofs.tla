-------------------------- MODULE FastInstallProofs --------------------------
(***************************************************************************)
(* Theorems about fast_install_packages, for any packages, files and       *)
(* contents of images, and any hooks that run.                             *)
(***************************************************************************)
EXTENDS FastInstall, WellFoundedInduction, TLAPS

(* Paths and what can be there                                             *)
LEMMA PathKinds ==
    /\ Image \in Paths
    /\ \A f \in Files : InImage(f) \in Paths /\ InRoot(f) \in Paths
    /\ \A p \in Packages : Env(p) \in Paths /\ Contents(p) \in Paths
    /\ \A f \in Files : InImage(f) \in ImageFiles /\ InRoot(f) \in RootFiles
BY DEF Paths, ImageFiles, RootFiles, Vdb

LEMMA PathsDiffer ==
    /\ \A f : InImage(f) # Image /\ InRoot(f) # Image
    /\ \A p : Env(p) # Image /\ Contents(p) # Image
    /\ \A f, g : /\ InImage(f) # InRoot(g)
                 /\ InImage(f) = InImage(g) => f = g
                 /\ InRoot(f) = InRoot(g) => f = g
    /\ \A f, p : /\ Env(p) \notin {InImage(f), InRoot(f)}
                 /\ Contents(p) \notin {InImage(f), InRoot(f)}
    /\ \A p, q : Env(p) # Contents(q)
    /\ Image \notin ImageFiles /\ Image \notin RootFiles
    /\ \A f : InRoot(f) \notin ImageFiles /\ InImage(f) \notin RootFiles
    /\ \A p : /\ Env(p) \notin ImageFiles \union RootFiles
              /\ Contents(p) \notin ImageFiles \union RootFiles
BY DEF Image, InImage, InRoot, Env, Contents, ImageFiles, RootFiles

LEMMA MarksDiffer ==
    /\ Absent # Whiteout /\ Absent # Dir /\ Absent # EmptyFile
    /\ Whiteout # Dir /\ Whiteout # EmptyFile /\ Dir # EmptyFile
    /\ \A who, p : By(who, p) \notin {Absent, Whiteout, Dir, EmptyFile}
    /\ \A c : <<"list", c>> \notin {Absent, Whiteout, Dir, EmptyFile}
BY DEF Absent, Whiteout, Dir, EmptyFile, By
-----------------------------------------------------------------------------
(* The top layer that has something                                        *)
LEMMA Greatest ==
    ASSUME NEW m \in Nat, NEW S, S \subseteq 1 .. m, S # {}
    PROVE  /\ Max(S) \in S
           /\ \A k \in S : Max(S) >= k
<1> DEFINE T == {m - k : k \in S}
<1>1. T \subseteq Nat /\ T # {}
    <2>1. \A k \in S : k \in 1 .. m /\ m - k \in Nat
        OBVIOUS
    <2> QED
        BY <2>1
<1>2. PICK t \in T : \A u \in T : ~(<<u, t>> \in OpToRel(<, Nat))
    BY <1>1, WFMin, NatLessThanWellFounded
<1>3. PICK g \in S : t = m - g
    OBVIOUS
<1>4. \A k \in S : ~(m - k < m - g)
    BY <1>1, <1>2, <1>3 DEF OpToRel
<1>5. \A k \in S : k \in Nat /\ g \in Nat /\ g >= k
    BY <1>4
<1> QED
    BY <1>5 DEF Max

LEMMA GreatestIs ==
    ASSUME NEW S, S \subseteq Nat, NEW g \in S, \A k \in S : g >= k
    PROVE  Max(S) = g
<1>1. Max(S) \in S /\ \A k \in S : Max(S) >= k
    BY DEF Max
<1>2. g >= Max(S) /\ Max(S) >= g /\ g \in Nat /\ Max(S) \in Nat
    BY <1>1
<1> QED
    BY <1>2

IsCut(layer) == layer[Image] \notin {Absent, Dir}

Shows(stack, x) ==
    {i \in DOMAIN stack :
        /\ stack[i][x] # Absent
        /\ x \in ImageFiles => \A j \in DOMAIN stack : IsCut(stack[j]) => i > j}

Shown(layer, x, below) ==
    IF layer[x] = Absent THEN below ELSE IF layer[x] = Whiteout THEN Absent ELSE layer[x]

LEMMA SeenIsTop ==
    ASSUME NEW stack, NEW x
    PROVE  Seen(stack, x) =
               IF Shows(stack, x) = {} THEN Absent
               ELSE Shown(stack[Max(Shows(stack, x))], x, Absent)
<1> DEFINE cuts == {i \in DOMAIN stack : stack[i][Image] \notin {Absent, Dir}}
           reach == IF x \in ImageFiles THEN {i \in DOMAIN stack : \A j \in cuts : i > j}
                    ELSE DOMAIN stack
           has == {i \in reach : stack[i][x] # Absent}
<1>1. has = Shows(stack, x)
    BY DEF Shows, IsCut
<1>2. Seen(stack, x) = IF has = {} \/ stack[Max(has)][x] = Whiteout THEN Absent
                       ELSE stack[Max(has)][x]
    BY DEF Seen
<1> HIDE DEF has
<1> QED
    BY <1>1, <1>2 DEF Shown

\* stack is made of below and one more layer
OnTop(stack, below, layer) ==
    \E m \in Nat : /\ DOMAIN below = 1 .. m
                   /\ DOMAIN stack = 1 .. m + 1
                   /\ \A i \in 1 .. m : stack[i] = below[i]
                   /\ stack[m + 1] = layer

LEMMA SeenOnTop ==
    ASSUME NEW stack, NEW below, NEW layer, OnTop(stack, below, layer), NEW x,
           x \notin ImageFiles \/ ~IsCut(layer)
    PROVE  Seen(stack, x) = Shown(layer, x, Seen(below, x))
<1>1. PICK m \in Nat : /\ DOMAIN below = 1 .. m
                       /\ DOMAIN stack = 1 .. m + 1
                       /\ \A i \in 1 .. m : stack[i] = below[i]
                       /\ stack[m + 1] = layer
    BY DEF OnTop
<1>2. 1 .. m + 1 = 1 .. m \union {m + 1} /\ \A i \in 1 .. m : m + 1 > i /\ i \in Nat
    OBVIOUS
<1>3. \A i \in 1 .. m : i \in Shows(stack, x) <=> i \in Shows(below, x)
    BY <1>1, <1>2 DEF Shows
<1>4. m + 1 \in Shows(stack, x) <=> layer[x] # Absent
    BY <1>1, <1>2 DEF Shows
<1>5. Shows(stack, x) \subseteq 1 .. m + 1 /\ Shows(below, x) \subseteq 1 .. m
    BY <1>1 DEF Shows
<1>6. CASE layer[x] = Absent
    <2>1. Shows(stack, x) = Shows(below, x)
        BY <1>2, <1>3, <1>4, <1>5, <1>6
    <2>2. Shows(below, x) # {} => Max(Shows(below, x)) \in 1 .. m
        BY <1>5, Greatest
    <2>3. Seen(stack, x) = Seen(below, x)
        BY <1>1, <2>1, <2>2, SeenIsTop
    <2> QED
        BY <1>6, <2>3 DEF Shown
<1>7. CASE layer[x] # Absent
    <2>1. Max(Shows(stack, x)) = m + 1
        BY <1>2, <1>4, <1>5, <1>7, GreatestIs
    <2> QED
        BY <1>1, <1>4, <1>7, <2>1, SeenIsTop DEF Shown
<1> QED
    BY <1>6, <1>7

\* Off the image what is seen at a path depends on that path alone
LEMMA SeenAlone ==
    ASSUME NEW m \in Nat, NEW s, NEW t, DOMAIN s = 1 .. m, DOMAIN t = 1 .. m, NEW x,
           x \notin ImageFiles, \A i \in 1 .. m : t[i][x] = s[i][x]
    PROVE  Seen(t, x) = Seen(s, x)
<1>1. Shows(t, x) = Shows(s, x) /\ Shows(s, x) \subseteq 1 .. m
    BY DEF Shows
<1>2. Shows(s, x) # {} => Max(Shows(s, x)) \in 1 .. m
    BY <1>1, Greatest
<1> QED
    BY <1>1, <1>2, SeenIsTop DEF Shown

\* No image is left in sight of a stack
NoImage(stack) == \A x \in ImageFiles : Shows(stack, x) = {}

LEMMA NoImageSeen ==
    ASSUME NEW stack, NoImage(stack), NEW x \in ImageFiles
    PROVE  Seen(stack, x) = Absent
BY SeenIsTop DEF NoImage

LEMMA NoImageOnTop ==
    ASSUME NEW stack, NEW below, NEW layer, OnTop(stack, below, layer), NoImage(below),
           \A x \in ImageFiles : layer[x] = Absent
    PROVE  NoImage(stack)
<1>1. PICK m \in Nat : /\ DOMAIN below = 1 .. m
                       /\ DOMAIN stack = 1 .. m + 1
                       /\ \A i \in 1 .. m : stack[i] = below[i]
                       /\ stack[m + 1] = layer
    BY DEF OnTop
<1>2. 1 .. m + 1 = 1 .. m \union {m + 1}
    OBVIOUS
<1> QED
    BY <1>1, <1>2 DEF NoImage, Shows

LEMMA CutHidesImages ==
    ASSUME NEW stack, NEW below, NEW layer, OnTop(stack, below, layer), IsCut(layer)
    PROVE  NoImage(stack)
<1>1. PICK m \in Nat : /\ DOMAIN stack = 1 .. m + 1
                       /\ stack[m + 1] = layer
    BY DEF OnTop
<1>2. m + 1 \in 1 .. m + 1 /\ \A i \in 1 .. m + 1 : ~(i > m + 1)
    OBVIOUS
<1> QED
    BY <1>1, <1>2 DEF NoImage, Shows
-----------------------------------------------------------------------------
(* The shape of the state: what is pushed when                             *)
Names == {<<"base", 0>>} \union ({"staged", "installed", "preinst", "postinst"} \X Packages)

HookPhases == {"preinst", "ran", "mangle", "move", "vdb", "hide", "merge", "postinst", "strip", "push"}

ShapeInv ==
    /\ pc \in HookPhases \union {"install", "postprocess", "done", "failed"}
    /\ n \in Nat
    /\ input.sparse \in BOOLEAN
    /\ pc \in HookPhases => n \in Packages
    /\ output = [o \in Outputs |-> output[o]]
    /\ upper = [x \in Paths |-> upper[x]]
    /\ image = [p \in Packages |-> image[p]]
    /\ layers \in Seq(Names)
    /\ pc = "install" => \A i \in DOMAIN layers : layers[i][2] < n
    /\ pc \in HookPhases => \A i \in DOMAIN layers : layers[i][2] <= n
    /\ pc \in {"preinst", "ran"} => \A i \in DOMAIN layers : layers[i] # <<"preinst", n>>
    /\ pc \in HookPhases => \A i \in DOMAIN layers : layers[i] # <<"postinst", n>>

LEMMA PackagesAreNumbers == Packages \subseteq Nat \ {0}
BY ShipsAssumption DEF Packages

LEMMA NamesOfPackages ==
    ASSUME NEW p \in Packages
    PROVE  /\ <<"staged", p>> \in Names /\ <<"installed", p>> \in Names
           /\ <<"preinst", p>> \in Names /\ <<"postinst", p>> \in Names
           /\ \A kind : <<kind, p>>[1] = kind /\ <<kind, p>>[2] = p
BY DEF Names

LEMMA NamesAreNumbered == \A name \in Names : name[2] \in Nat
<1>1. <<"base", 0>>[2] \in Nat
    OBVIOUS
<1>2. \A name \in {"staged", "installed", "preinst", "postinst"} \X Packages : name[2] \in Nat
    BY PackagesAreNumbers
<1> QED
    BY <1>1, <1>2 DEF Names

LEMMA InitShape == Init => ShapeInv
<1> SUFFICES ASSUME Init PROVE ShapeInv
    OBVIOUS
<1>1. layers \in Seq(Names) /\ layers = << <<"base", 0>> >>
    BY DEF Init, Names
<1> QED
    BY <1>1 DEF Init, ShapeInv, HookPhases, Empty, Outputs

LEMMA Pushed ==
    ASSUME layers \in Seq(Names), NEW name \in Names, layers' = Append(layers, name)
    PROVE  /\ layers' \in Seq(Names)
           /\ \A i \in DOMAIN layers' :
                  layers'[i] = name \/ (i \in DOMAIN layers /\ layers'[i] = layers[i])
           /\ \A i \in DOMAIN layers : layers[i][2] \in Nat
<1>1. /\ layers' \in Seq(Names)
      /\ \A i \in 1 .. Len(layers) : layers'[i] = layers[i]
      /\ layers'[Len(layers) + 1] = name
      /\ \A i \in DOMAIN layers' : i = Len(layers) + 1 \/ i \in 1 .. Len(layers)
    OBVIOUS
<1>2. DOMAIN layers = 1 .. Len(layers) /\ \A i \in DOMAIN layers : layers[i] \in Names
    OBVIOUS
<1> QED
    BY <1>1, <1>2, NamesAreNumbered

LEMMA PushedName ==
    ASSUME layers \in Seq(Names), n \in Packages, NEW kind, <<kind, n>> \in Names,
           layers' = Append(layers, <<kind, n>>),
           \A i \in DOMAIN layers : layers[i][2] <= n
    PROVE  /\ layers' \in Seq(Names)
           /\ \A i \in DOMAIN layers' : layers'[i][2] <= n /\ layers'[i][2] < n + 1
           /\ \A k : k # kind /\ (\A i \in DOMAIN layers : layers[i] # <<k, n>>)
                     => \A i \in DOMAIN layers' : layers'[i] # <<k, n>>
<1>1. /\ layers' \in Seq(Names)
      /\ \A i \in DOMAIN layers' :
             layers'[i] = <<kind, n>> \/ (i \in DOMAIN layers /\ layers'[i] = layers[i])
      /\ \A i \in DOMAIN layers : layers[i][2] \in Nat
    BY Pushed
<1>2. <<kind, n>>[2] = n /\ \A k : k # kind => <<k, n>> # <<kind, n>>
    OBVIOUS
<1>3. n \in Nat
    BY PackagesAreNumbers
<1> QED
    BY <1>1, <1>2, <1>3

\* A name that is older is another
LEMMA OlderNames ==
    ASSUME layers \in Seq(Names), n \in Nat, \A i \in DOMAIN layers : layers[i][2] < n
    PROVE  /\ \A i \in DOMAIN layers : layers[i][2] <= n
           /\ \A kind : \A i \in DOMAIN layers : layers[i] # <<kind, n>>
<1>1. \A i \in DOMAIN layers : layers[i][2] \in Nat
    BY NamesAreNumbered
<1>2. \A kind : <<kind, n>>[2] = n
    OBVIOUS
<1> QED
    BY <1>1, <1>2

LEMMA StepShape == ShapeInv /\ [Next]_vars => ShapeInv'
<1> SUFFICES ASSUME ShapeInv, [Next]_vars PROVE ShapeInv'
    OBVIOUS
<1> USE DEF ShapeInv, HookPhases, Goes
<1>1. CASE UNCHANGED vars
    BY <1>1 DEF vars
<1>2. CASE SkipHooks
    <2>1. /\ layers' = Append(layers, <<"installed", n>>)
          /\ n \in Packages
          /\ \A i \in DOMAIN layers : layers[i][2] <= n
          /\ <<"installed", n>> \in Names
        BY <1>2, NamesOfPackages, OlderNames DEF SkipHooks, Installing
    <2>2. /\ layers' \in Seq(Names)
          /\ \A i \in DOMAIN layers' : layers'[i][2] <= n /\ layers'[i][2] < n + 1
          /\ \A k : k # "installed" /\ (\A i \in DOMAIN layers : layers[i] # <<k, n>>)
                    => \A i \in DOMAIN layers' : layers'[i] # <<k, n>>
        BY <2>1, PushedName
    <2> QED
        BY <1>2, <2>1, <2>2, OlderNames DEF SkipHooks, Installing, Empty
<1>3. CASE RefuseHooks \/ Fails
    BY <1>3 DEF RefuseHooks, Fails
<1>4. CASE PushStaged
    <2>1. /\ layers' = Append(layers, <<"staged", n>>)
          /\ n \in Packages
          /\ \A i \in DOMAIN layers : layers[i][2] <= n
          /\ <<"staged", n>> \in Names
        BY <1>4, NamesOfPackages, OlderNames DEF PushStaged, Installing
    <2>2. /\ layers' \in Seq(Names)
          /\ \A i \in DOMAIN layers' : layers'[i][2] <= n /\ layers'[i][2] < n + 1
          /\ \A k : k # "staged" /\ (\A i \in DOMAIN layers : layers[i] # <<k, n>>)
                    => \A i \in DOMAIN layers' : layers'[i] # <<k, n>>
        BY <2>1, PushedName
    <2> QED
        BY <1>4, <2>1, <2>2, OlderNames DEF PushStaged, Installing, Empty
<1>5. CASE RunPreinst
    BY <1>5 DEF RunPreinst, Empty
<1>6. CASE PushPreinst
    <2>1. /\ layers' = Append(layers, <<"preinst", n>>)
          /\ n \in Packages
          /\ \A i \in DOMAIN layers : layers[i][2] <= n
          /\ <<"preinst", n>> \in Names
        BY <1>6, NamesOfPackages DEF PushPreinst
    <2>2. /\ layers' \in Seq(Names)
          /\ \A i \in DOMAIN layers' : layers'[i][2] <= n /\ layers'[i][2] < n + 1
          /\ \A k : k # "preinst" /\ (\A i \in DOMAIN layers : layers[i] # <<k, n>>)
                    => \A i \in DOMAIN layers' : layers'[i] # <<k, n>>
        BY <2>1, PushedName
    <2> QED
        BY <1>6, <2>1, <2>2 DEF PushPreinst
<1>7. CASE RecomputeContents \/ SkipImage
    BY <1>7 DEF RecomputeContents, SkipImage
<1>8. CASE MoveImage
    BY <1>8 DEF MoveImage, ImageAsRoot
<1>9. CASE MoveVdb
    BY <1>9 DEF MoveVdb
<1>10. CASE HideImage
    BY <1>10 DEF HideImage
<1>11. CASE PushInstalled
    <2>1. /\ layers' = Append(layers, <<"installed", n>>)
          /\ n \in Packages
          /\ \A i \in DOMAIN layers : layers[i][2] <= n
          /\ <<"installed", n>> \in Names
        BY <1>11, NamesOfPackages DEF PushInstalled
    <2>2. /\ layers' \in Seq(Names)
          /\ \A i \in DOMAIN layers' : layers'[i][2] <= n /\ layers'[i][2] < n + 1
          /\ \A k : k # "installed" /\ (\A i \in DOMAIN layers : layers[i] # <<k, n>>)
                    => \A i \in DOMAIN layers' : layers'[i] # <<k, n>>
        BY <2>1, PushedName
    <2> QED
        BY <1>11, <2>1, <2>2 DEF PushInstalled
<1>12. CASE RunPostinst
    BY <1>12 DEF RunPostinst, Empty
<1>13. CASE StripVdb
    BY <1>13 DEF StripVdb
<1>14. CASE PushPostinst
    <2>1. /\ layers' = Append(layers, <<"postinst", n>>)
          /\ n \in Packages
          /\ \A i \in DOMAIN layers : layers[i][2] <= n
          /\ <<"postinst", n>> \in Names
        BY <1>14, NamesOfPackages DEF PushPostinst
    <2>2. /\ layers' \in Seq(Names)
          /\ \A i \in DOMAIN layers' : layers'[i][2] <= n /\ layers'[i][2] < n + 1
          /\ \A k : k # "postinst" /\ (\A i \in DOMAIN layers : layers[i] # <<k, n>>)
                    => \A i \in DOMAIN layers' : layers'[i] # <<k, n>>
        BY <2>1, PushedName
    <2> QED
        BY <1>14, <2>1, <2>2 DEF PushPostinst
<1>15. CASE EndInstall
    BY <1>15 DEF EndInstall
<1>16. CASE Postprocess
    <2>1. output' = [output EXCEPT ![OutputAt(n)] = Cleaned(Without(@, {Image}))]
        BY <1>16 DEF Postprocess
    <2> HIDE DEF ShapeInv
    <2>2. output' = [o \in Outputs |-> output'[o]]
        <3> DEFINE new == Cleaned(Without(output[OutputAt(n)], {Image}))
                   at == OutputAt(n)
        <3>1. output = [o \in Outputs |-> output[o]]
            BY DEF ShapeInv
        <3>2. output' = [output EXCEPT ![at] = new]
            BY <2>1
        <3> HIDE DEF new, at
        <3> QED
            BY <3>1, <3>2
    <2> QED
        BY <1>16, <2>2 DEF Postprocess, ShapeInv
<1>17. CASE Done
    BY <1>17 DEF Done
<1> QED
    BY <1>1, <1>2, <1>3, <1>4, <1>5, <1>6, <1>7, <1>8, <1>9, <1>10, <1>11, <1>12, <1>13,
       <1>14, <1>15, <1>16, <1>17 DEF Next, Progress
-----------------------------------------------------------------------------
(* Layers and stacks                                                       *)
LEMMA StagedHas ==
    ASSUME NEW p \in Packages
    PROVE  /\ LayerAt(<<"staged", p>>)[Image] = Dir
           /\ \A f \in Files : /\ LayerAt(<<"staged", p>>)[InImage(f)] = Shipped(p)[f]
                                /\ LayerAt(<<"staged", p>>)[InRoot(f)] = Absent
<1>1. LayerAt(<<"staged", p>>) = Staged[p]
    BY DEF LayerAt
<1>2. Ships[p] \subseteq Files
    BY ShipsAssumption DEF Packages
<1>3. \A f \in Files : InImage(f) \in {InImage(g) : g \in Ships[p]} \union {Env(p)} <=> f \in Ships[p]
    BY PathsDiffer
<1>4. \A x \in Paths : Staged[p][x] =
          CASE x = Image -> Dir
            [] x \in {InImage(f) : f \in Ships[p]} \union {Env(p)} -> By("shipped", p)
            [] x = Contents(p) -> <<"list", Shipped(p)>>
            [] OTHER -> Absent
    BY DEF Staged
<1>5. Staged[p][Image] = Dir
    BY <1>4, PathKinds, PathsDiffer
<1>6. \A f \in Files : Staged[p][InImage(f)] = Shipped(p)[f]
    <2> SUFFICES ASSUME NEW f \in Files PROVE Staged[p][InImage(f)] = Shipped(p)[f]
        OBVIOUS
    <2>1. InImage(f) \in Paths /\ InImage(f) # Image /\ InImage(f) # Contents(p)
        BY PathKinds, PathsDiffer
    <2>2. Shipped(p)[f] = IF f \in Ships[p] THEN By("shipped", p) ELSE Absent
        BY DEF Shipped
    <2> QED
        BY <1>3, <1>4, <2>1, <2>2
<1>7. \A f \in Files : Staged[p][InRoot(f)] = Absent
    BY <1>4, PathKinds, PathsDiffer
<1> QED
    BY <1>1, <1>5, <1>6, <1>7

LEMMA InstalledHas ==
    ASSUME NEW p \in Packages, input.sparse \in BOOLEAN
    PROVE  /\ LayerAt(<<"installed", p>>)[Image] = Absent
           /\ \A f \in Files : /\ LayerAt(<<"installed", p>>)[InImage(f)] = Absent
                                /\ LayerAt(<<"installed", p>>)[InRoot(f)] = Shipped(p)[f]
           /\ LayerAt(<<"installed", p>>)[Contents(p)] =
                  IF input.sparse THEN Absent ELSE <<"list", Shipped(p)>>
<1>1. LayerAt(<<"installed", p>>) = Installed[input.sparse][p]
    BY DEF LayerAt
<1>2. Ships[p] \subseteq Files
    BY ShipsAssumption DEF Packages
<1>3. \A f \in Files : InRoot(f) \in {InRoot(g) : g \in Ships[p]} <=> f \in Ships[p]
    BY PathsDiffer
<1>4. \A x \in Paths : Installed[input.sparse][p][x] =
          CASE x \in {InRoot(f) : f \in Ships[p]} -> By("shipped", p)
            [] x = Env(p) /\ ~input.sparse -> By("shipped", p)
            [] x = Contents(p) /\ ~input.sparse -> <<"list", Shipped(p)>>
            [] OTHER -> Absent
    BY DEF Installed
<1> DEFINE layer == Installed[input.sparse][p]
<1> HIDE DEF layer
<1>5. layer[Image] = Absent
    BY <1>4, PathKinds, PathsDiffer DEF layer
<1>6. \A f \in Files : layer[InImage(f)] = Absent
    BY <1>4, PathKinds, PathsDiffer DEF layer
<1>7. \A f \in Files : layer[InRoot(f)] = Shipped(p)[f]
    BY <1>3, <1>4, PathKinds, PathsDiffer DEF layer, Shipped
<1>8. layer[Contents(p)] = IF input.sparse THEN Absent ELSE <<"list", Shipped(p)>>
    <2>1. /\ Contents(p) \in Paths
          /\ Contents(p) # Env(p)
          /\ Contents(p) \notin {InRoot(f) : f \in Ships[p]}
        BY PathKinds, PathsDiffer
    <2> QED
        BY <1>4, <2>1 DEF layer
<1> QED
    BY <1>1, <1>5, <1>6, <1>7, <1>8 DEF layer

LEMMA OutputsAsLayers ==
    \A p : /\ LayerAt(<<"preinst", p>>) = output[<<"preinst", p>>]
           /\ LayerAt(<<"postinst", p>>) = output[<<"postinst", p>>]
BY DEF LayerAt

LEMMA ContainerIsOnTop ==
    ASSUME layers \in Seq(Names), NEW layer
    PROVE  OnTop(Append(Stack(layers), layer), Stack(layers), layer)
<1> DEFINE S == {LayerAt(layers[i]) : i \in DOMAIN layers} \union {layer}
<1>1. DOMAIN layers = 1 .. Len(layers) /\ Len(layers) \in Nat
    OBVIOUS
<1>2. Stack(layers) \in [1 .. Len(layers) -> S]
    BY <1>1 DEF Stack
<1>3. Stack(layers) \in Seq(S) /\ Len(Stack(layers)) = Len(layers)
    BY <1>1, <1>2
<1> QED
    BY <1>1, <1>3 DEF OnTop

LEMMA StackPushed ==
    ASSUME layers \in Seq(Names), NEW name \in Names, layers' = Append(layers, name),
           UNCHANGED <<input, output>>
    PROVE  OnTop(Stack(layers)', Stack(layers), LayerAt(name))
<1>1. /\ DOMAIN layers = 1 .. Len(layers) /\ Len(layers) \in Nat
      /\ DOMAIN layers' = 1 .. Len(layers) + 1
      /\ \A i \in 1 .. Len(layers) : layers'[i] = layers[i] /\ i \in 1 .. Len(layers) + 1
      /\ layers'[Len(layers) + 1] = name
    OBVIOUS
<1>2. Stack(layers)' = [i \in DOMAIN layers' |-> LayerAt(layers'[i])]
    BY DEF Stack, LayerAt
<1>3. Stack(layers) = [i \in DOMAIN layers |-> LayerAt(layers[i])]
    BY DEF Stack
<1>4. /\ DOMAIN Stack(layers) = 1 .. Len(layers)
      /\ DOMAIN Stack(layers)' = 1 .. Len(layers) + 1
    BY <1>1, <1>2, <1>3
<1>5. Len(layers) + 1 \in DOMAIN layers'
    BY <1>1
<1>6. /\ \A i \in 1 .. Len(layers) : Stack(layers)'[i] = Stack(layers)[i]
      /\ Stack(layers)'[Len(layers) + 1] = LayerAt(name)
    BY <1>1, <1>2, <1>3, <1>5
<1> QED
    BY <1>1, <1>4, <1>6 DEF OnTop

LEMMA OtherLayersStay ==
    ASSUME UNCHANGED input, NEW name \in Names, name \notin Outputs
    PROVE  LayerAt(name)' = LayerAt(name)
<1>1. name[1] \in {"base", "staged", "installed"}
    BY DEF Names, Outputs
<1> QED
    BY <1>1 DEF LayerAt

\* A change of outputs that have not been pushed, or of nothing
LEMMA StackKept ==
    ASSUME layers \in Seq(Names), UNCHANGED <<input, layers>>,
           \A i \in DOMAIN layers : layers[i] \in Outputs => output'[layers[i]] = output[layers[i]]
    PROVE  Stack(layers)' = Stack(layers)
<1>1. \A i \in DOMAIN layers : LayerAt(layers[i])' = LayerAt(layers[i])
    <2> SUFFICES ASSUME NEW i \in DOMAIN layers PROVE LayerAt(layers[i])' = LayerAt(layers[i])
        OBVIOUS
    <2>1. layers[i] \in Names /\ layers'[i] = layers[i]
        OBVIOUS
    <2>2. CASE layers[i] \in Outputs
        BY <2>1, <2>2 DEF LayerAt
    <2>3. CASE layers[i] \notin Outputs
        BY <2>1, <2>3, OtherLayersStay
    <2> QED
        BY <2>2, <2>3
<1> QED
    BY <1>1 DEF Stack

\* A change that leaves what each output has at x
LEMMA SeenKept ==
    ASSUME layers \in Seq(Names), UNCHANGED <<input, layers>>, NEW x, x \notin ImageFiles,
           \A i \in DOMAIN layers :
               layers[i] \in Outputs => output'[layers[i]][x] = output[layers[i]][x]
    PROVE  Seen(Stack(layers)', x) = Seen(Stack(layers), x)
<1>1. DOMAIN layers = 1 .. Len(layers) /\ Len(layers) \in Nat
    OBVIOUS
<1>2. DOMAIN Stack(layers) = 1 .. Len(layers) /\ DOMAIN Stack(layers)' = 1 .. Len(layers)
    BY <1>1 DEF Stack
<1>3. \A i \in DOMAIN layers : LayerAt(layers[i])'[x] = LayerAt(layers[i])[x]
    <2> SUFFICES ASSUME NEW i \in DOMAIN layers PROVE LayerAt(layers[i])'[x] = LayerAt(layers[i])[x]
        OBVIOUS
    <2>1. layers[i] \in Names /\ layers'[i] = layers[i]
        OBVIOUS
    <2>2. CASE layers[i] \in Outputs
        BY <2>1, <2>2 DEF LayerAt
    <2>3. CASE layers[i] \notin Outputs
        BY <2>1, <2>3, OtherLayersStay
    <2> QED
        BY <2>2, <2>3
<1>4. \A i \in 1 .. Len(layers) : Stack(layers)'[i][x] = Stack(layers)[i][x]
    BY <1>1, <1>3 DEF Stack
<1> QED
    BY <1>1, <1>2, <1>4, SeenAlone
-----------------------------------------------------------------------------
(* What a run of hooks leaves                                              *)
LEMMA HookWrites ==
    ASSUME NEW places, NEW who, NEW p, NEW c \in HookChanges(places, By(who, p)),
           Env(p) \notin UNION places
    PROVE  /\ DOMAIN c \subseteq UNION places
           /\ \A x \in DOMAIN c : WithEnv(c, who, p)[x] = c[x] /\ c[x] \in {By(who, p), Absent}
<1>1. c \in UNION {[S -> {By(who, p), Absent}] : S \in UNION {SUBSET P : P \in places}}
    BY DEF HookChanges
<1>2. PICK S \in UNION {SUBSET P : P \in places} : c \in [S -> {By(who, p), Absent}]
    BY <1>1
<1>3. S \subseteq UNION places
    BY <1>2
<1> QED
    BY <1>2, <1>3 DEF WithEnv

LEMMA PreinstLeaves ==
    ASSUME NEW p, NEW stack, NEW up, up = Empty,
           NEW c \in HookChanges({{InImage(f), InRoot(f)} : f \in Files}, By("preinst", p)),
           p \in Packages
    PROVE  LET P == Changed(stack, up, WithEnv(c, "preinst", p))
           IN  /\ P[Image] \in {Absent, Dir}
               /\ P[Image] = Absent => \A f \in Files : P[InImage(f)] = Absent
               /\ \A f \in Files :
                      P[InImage(f)] = Whiteout => Seen(stack, InImage(f)) # Absent
               /\ P[Env(p)] = By("preinst", p)
               /\ P[Contents(p)] = Absent
               /\ P = [x \in Paths |-> P[x]]
<1> DEFINE places == {{InImage(f), InRoot(f)} : f \in Files}
           ch == WithEnv(c, "preinst", p)
           P == Changed(stack, up, ch)
<1>1. /\ UNION places \subseteq ImageFiles \union RootFiles
      /\ Env(p) \notin UNION places
    BY PathKinds, PathsDiffer
<1>2. /\ DOMAIN ch = DOMAIN c \union {Env(p)}
      /\ DOMAIN c \subseteq ImageFiles \union RootFiles
      /\ \A x \in DOMAIN c : ch[x] \in {By("preinst", p), Absent}
      /\ ch[Env(p)] = By("preinst", p)
    <2>1. c \in HookChanges(places, By("preinst", p))
        OBVIOUS
    <2> HIDE DEF places
    <2>2. /\ DOMAIN ch = DOMAIN c \union {Env(p)}
          /\ DOMAIN c \subseteq UNION places
          /\ \A x \in DOMAIN c : ch[x] = c[x] /\ c[x] \in {By("preinst", p), Absent}
          /\ ch[Env(p)] = By("preinst", p)
        <3>1. /\ DOMAIN c \subseteq UNION places
              /\ \A x \in DOMAIN c : ch[x] = c[x] /\ c[x] \in {By("preinst", p), Absent}
            BY <1>1, <2>1, HookWrites
        <3> QED
            BY <3>1 DEF WithEnv
    <2> QED
        BY <1>1, <2>2
<1> HIDE DEF ch
<1>3. P = [x \in Paths |->
        IF x \in DOMAIN ch
        THEN IF ch[x] = Absent /\ Seen(stack, x) # Absent THEN Whiteout ELSE ch[x]
        ELSE IF x = Image /\ DOMAIN ch \intersect ImageFiles # {} THEN Dir
        ELSE Absent]
    BY DEF Changed, Empty
<1>4. \A x \in Paths : P[x] =
        IF x \in DOMAIN ch
        THEN IF ch[x] = Absent /\ Seen(stack, x) # Absent THEN Whiteout ELSE ch[x]
        ELSE IF x = Image /\ DOMAIN ch \intersect ImageFiles # {} THEN Dir
        ELSE Absent
    BY <1>3
<1> HIDE DEF P
<1>5. P[Image] = IF DOMAIN ch \intersect ImageFiles # {} THEN Dir ELSE Absent
    BY <1>2, <1>4, PathKinds, PathsDiffer
<1>6. P[Image] = Absent => \A f \in Files : P[InImage(f)] = Absent
    BY <1>4, <1>5, PathKinds, PathsDiffer, MarksDiffer
<1>7. ASSUME NEW f \in Files, P[InImage(f)] = Whiteout PROVE Seen(stack, InImage(f)) # Absent
    BY <1>2, <1>4, <1>7, PathKinds, PathsDiffer, MarksDiffer
<1>8. P[Env(p)] = By("preinst", p)
    BY <1>2, <1>4, PathKinds, MarksDiffer
<1>9. P[Contents(p)] = Absent
    BY <1>2, <1>4, PathKinds, PathsDiffer
<1> QED
    BY <1>3, <1>4, <1>5, <1>6, <1>7, <1>8, <1>9 DEF P, ch

LEMMA PostinstLeaves ==
    ASSUME NEW p, NEW stack, NEW up,
           NEW c \in HookChanges({{x} : x \in RootFiles}, By("postinst", p)), p \in Packages
    PROVE  LET P == Changed(stack, up, WithEnv(c, "postinst", p))
           IN  /\ P[Image] = up[Image]
               /\ \A f \in Files : P[InRoot(f)] =
                      IF InRoot(f) \in DOMAIN c
                      THEN IF c[InRoot(f)] = Absent /\ Seen(stack, InRoot(f)) # Absent
                           THEN Whiteout ELSE c[InRoot(f)]
                      ELSE up[InRoot(f)]
               /\ \A f \in Files : InRoot(f) \in DOMAIN c => c[InRoot(f)] \in {By("postinst", p), Absent}
<1> DEFINE places == {{x} : x \in RootFiles}
           ch == WithEnv(c, "postinst", p)
           P == Changed(stack, up, ch)
<1>1. UNION places \subseteq RootFiles /\ Env(p) \notin UNION places
    BY PathsDiffer
<1>2. /\ DOMAIN ch = DOMAIN c \union {Env(p)}
      /\ DOMAIN c \subseteq RootFiles
      /\ \A x \in DOMAIN c : ch[x] = c[x] /\ c[x] \in {By("postinst", p), Absent}
    <2>1. c \in HookChanges(places, By("postinst", p))
        OBVIOUS
    <2> HIDE DEF places
    <2>2. /\ DOMAIN ch = DOMAIN c \union {Env(p)}
          /\ DOMAIN c \subseteq UNION places
          /\ \A x \in DOMAIN c : ch[x] = c[x] /\ c[x] \in {By("postinst", p), Absent}
        <3>1. /\ DOMAIN c \subseteq UNION places
              /\ \A x \in DOMAIN c : ch[x] = c[x] /\ c[x] \in {By("postinst", p), Absent}
            BY <1>1, <2>1, HookWrites
        <3> QED
            BY <3>1 DEF WithEnv
    <2> QED
        BY <1>1, <2>2
<1> HIDE DEF ch
<1>3. \A x \in Paths : P[x] =
        IF x \in DOMAIN ch
        THEN IF ch[x] = Absent /\ Seen(stack, x) # Absent THEN Whiteout ELSE ch[x]
        ELSE IF x = Image /\ DOMAIN ch \intersect ImageFiles # {} THEN Dir
        ELSE up[x]
    BY DEF Changed
<1> HIDE DEF P
<1>4. DOMAIN ch \intersect ImageFiles = {} /\ Image \notin DOMAIN ch
    <2>1. \A x \in RootFiles : x \notin ImageFiles
        BY PathsDiffer DEF RootFiles
    <2> QED
        BY <1>2, <2>1, PathsDiffer
<1>5. \A f \in Files : /\ InRoot(f) \in Paths
                       /\ InRoot(f) # Image
                       /\ InRoot(f) \in DOMAIN ch <=> InRoot(f) \in DOMAIN c
    BY <1>2, PathKinds, PathsDiffer
<1>6. P[Image] = up[Image]
    BY <1>3, <1>4, PathKinds
<1>7. \A f \in Files : P[InRoot(f)] =
          IF InRoot(f) \in DOMAIN c
          THEN IF c[InRoot(f)] = Absent /\ Seen(stack, InRoot(f)) # Absent
               THEN Whiteout ELSE c[InRoot(f)]
          ELSE up[InRoot(f)]
    BY <1>2, <1>3, <1>5
<1> QED
    BY <1>2, <1>6, <1>7 DEF P, ch
-----------------------------------------------------------------------------
(* Images: who sees them, and where the changes of preinst are             *)
Over(g, f) == IF g = Absent THEN Shipped(n)[f] ELSE IF g = Whiteout THEN Absent ELSE g

\* The image of the package is the one it ships, with the changes in g
ImageIs(g) == image[n] = [f \in Files |-> Over(g[f], f)]

InPreinst == [f \in Files |-> Preinst[InImage(f)]]
InUpper == [f \in Files |-> upper[InRoot(f)]]
Postinst == output[<<"postinst", n>>]

ContentsAt(value) ==
    \/ value = <<"list", image[n]>>
    \/ value = Absent /\ (input.sparse \/ image[n] = Shipped(n))

ImageInv ==
    /\ pc = "install" => NoImage(Stack(layers))
    /\ pc \in {"preinst", "ran"} => SeenImage(Stack(layers)) = Shipped(n)
    /\ pc = "mangle" => SeenImage(Stack(layers)) = image[n]
    /\ pc \in {"preinst", "ran", "mangle", "move"} => upper = Empty
    /\ pc \in {"ran", "mangle", "move"} =>
           /\ Preinst[Image] \in {Absent, Dir}
           /\ Preinst[Image] = Absent => \A f \in Files : Preinst[InImage(f)] = Absent
           /\ ImageIs(InPreinst)
    /\ pc \in {"ran", "mangle", "move", "vdb"} =>
           /\ Preinst[Env(n)] = By("preinst", n)
           /\ Preinst[Contents(n)] = Absent
    /\ pc \in {"vdb", "hide", "merge"} => ImageIs(InUpper)
    /\ pc = "move" => updated = <<"list", image[n]>>
    /\ pc = "vdb" => ContentsAt(updated)
    /\ pc \notin {"move", "vdb", "failed"} => updated = Absent
    /\ pc \in {"hide", "merge", "postinst"} =>
           /\ upper[Env(n)] = By("preinst", n)
           /\ ContentsAt(upper[Contents(n)])
    /\ pc \in {"merge", "postinst"} => upper[Image] = EmptyFile
    /\ pc = "postinst" /\ ~input.sparse =>
           Seen(Stack(layers), Contents(n)) = <<"list", Shipped(n)>>
    /\ pc \in {"strip", "push"} => Postinst[Image] = EmptyFile

LEMMA InitImages == Init => ImageInv
<1> SUFFICES ASSUME Init PROVE ImageInv
    OBVIOUS
<1>1. layers = << <<"base", 0>> >> /\ pc = "install" /\ updated = Absent
    BY DEF Init
<1>2. LayerAt(<<"base", 0>>) = Base
    BY DEF LayerAt
<1>3. \A x \in ImageFiles : Base[x] = Absent
    BY PathsDiffer DEF Base, Paths
<1>4. \A i \in DOMAIN Stack(layers) : Stack(layers)[i] = Base
    BY <1>1, <1>2 DEF Stack
<1>5. NoImage(Stack(layers))
    BY <1>3, <1>4 DEF NoImage, Shows
<1> QED
    BY <1>1, <1>5 DEF ImageInv

\* What depends on the package and its image alone
LEMMA ImageStays ==
    ASSUME UNCHANGED <<n, image>>
    PROVE  /\ Shipped(n)' = Shipped(n)
           /\ \A g : ImageIs(g)' <=> ImageIs(g)
BY DEF Shipped, ImageIs, Over

LEMMA StagedIsSeen ==
    ASSUME layers \in Seq(Names), n \in Packages, NoImage(Stack(layers)),
           layers' = Append(layers, <<"staged", n>>), UNCHANGED <<input, output>>
    PROVE  \A f \in Files : /\ Seen(Stack(layers)', InImage(f)) = Shipped(n)[f]
                            /\ Seen(Stack(layers)', InRoot(f)) = Seen(Stack(layers), InRoot(f))
<1> DEFINE layer == LayerAt(<<"staged", n>>)
<1>1. OnTop(Stack(layers)', Stack(layers), layer)
    BY StackPushed, NamesOfPackages
<1>2. /\ layer[Image] = Dir
      /\ \A f \in Files : layer[InImage(f)] = Shipped(n)[f] /\ layer[InRoot(f)] = Absent
    BY StagedHas
<1> HIDE DEF layer
<1>3. ~IsCut(layer)
    BY <1>2 DEF IsCut
<1>4. \A f \in Files : /\ Seen(Stack(layers)', InImage(f)) = Shown(layer, InImage(f), Absent)
                       /\ Seen(Stack(layers)', InRoot(f)) = Shown(layer, InRoot(f), Seen(Stack(layers), InRoot(f)))
    BY <1>1, <1>3, SeenOnTop, NoImageSeen, PathKinds
<1>5. \A f \in Files : Shipped(n)[f] # Whiteout
    BY MarksDiffer DEF Shipped
<1> QED
    BY <1>2, <1>4, <1>5 DEF Shown

LEMMA InstalledIsSeen ==
    ASSUME layers \in Seq(Names), n \in Packages, input.sparse \in BOOLEAN,
           layers' = Append(layers, <<"installed", n>>), UNCHANGED <<input, output>>
    PROVE  /\ NoImage(Stack(layers)) => NoImage(Stack(layers)')
           /\ \A f \in Files : Seen(Stack(layers)', InRoot(f)) =
                  IF f \in Ships[n] THEN By("shipped", n) ELSE Seen(Stack(layers), InRoot(f))
           /\ ~input.sparse => Seen(Stack(layers)', Contents(n)) = <<"list", Shipped(n)>>
<1> DEFINE layer == LayerAt(<<"installed", n>>)
<1>1. OnTop(Stack(layers)', Stack(layers), layer)
    BY StackPushed, NamesOfPackages
<1>2. /\ \A f \in Files : /\ layer[InImage(f)] = Absent
                           /\ layer[InRoot(f)] = Shipped(n)[f]
      /\ layer[Contents(n)] = IF input.sparse THEN Absent ELSE <<"list", Shipped(n)>>
    BY InstalledHas
<1> HIDE DEF layer
<1>3. NoImage(Stack(layers)) => NoImage(Stack(layers)')
    BY <1>1, <1>2, NoImageOnTop DEF ImageFiles
<1>4. \A f \in Files : Seen(Stack(layers)', InRoot(f)) =
                           Shown(layer, InRoot(f), Seen(Stack(layers), InRoot(f)))
    BY <1>1, SeenOnTop, PathsDiffer
<1>5. \A f \in Files : Shipped(n)[f] = IF f \in Ships[n] THEN By("shipped", n) ELSE Absent
    BY DEF Shipped
<1>6. Seen(Stack(layers)', Contents(n)) =
          Shown(layer, Contents(n), Seen(Stack(layers), Contents(n)))
    BY <1>1, SeenOnTop, PathsDiffer
<1> QED
    BY <1>2, <1>3, <1>4, <1>5, <1>6, MarksDiffer DEF Shown

\* What running preinst makes of the layer, the image and the root
LEMMA PreinstRuns ==
    ASSUME ShapeInv, ImageInv, RunPreinst
    PROVE  /\ Stack(layers)' = Stack(layers)
           /\ Preinst'[Image] \in {Absent, Dir}
           /\ Preinst'[Image] = Absent => \A f \in Files : Preinst'[InImage(f)] = Absent
           /\ \A f \in Files : Preinst'[InImage(f)] = Whiteout => Shipped(n)[f] # Absent
           /\ Preinst'[Env(n)] = By("preinst", n)
           /\ Preinst'[Contents(n)] = Absent
           /\ image'[n] = [f \in Files |-> Over(Preinst'[InImage(f)], f)]
           /\ root' = [f \in Files |->
                  IF image'[n][f] # Absent THEN image'[n][f]
                  ELSE Shown(Preinst', InRoot(f), Seen(Stack(layers), InRoot(f)))]
           /\ TakesOutKnown \/ \A f \in Ships[n] :
                  image'[n][f] = Absent =>
                      Shown(Preinst', InRoot(f), Seen(Stack(layers), InRoot(f))) = Absent
<1> DEFINE after(c) == Changed(Stack(layers), upper, WithEnv(c, "preinst", n))
           stack(c) == Append(Stack(layers), after(c))
<1>1. PICK c \in HookChanges({{InImage(f), InRoot(f)} : f \in Files}, By("preinst", n)) :
          /\ TakesOutKnown \/ \A f \in Ships[n] :
                 Seen(stack(c), InImage(f)) = Absent => Seen(stack(c), InRoot(f)) = Absent
          /\ output' = [output EXCEPT ![<<"preinst", n>>] = after(c)]
          /\ image' = [image EXCEPT ![n] = SeenImage(stack(c))]
          /\ root' = [f \in Files |->
                 IF Seen(stack(c), InImage(f)) # Absent THEN Seen(stack(c), InImage(f))
                 ELSE Seen(stack(c), InRoot(f))]
    BY DEF RunPreinst
<1>2. /\ pc = "preinst" /\ n \in Packages /\ layers \in Seq(Names)
      /\ UNCHANGED <<input, n, layers>>
      /\ output = [o \in Outputs |-> output[o]]
      /\ image = [p \in Packages |-> image[p]]
      /\ upper = Empty
      /\ SeenImage(Stack(layers)) = Shipped(n)
      /\ \A i \in DOMAIN layers : layers[i] # <<"preinst", n>>
    BY DEF RunPreinst, Goes, ShapeInv, ImageInv, HookPhases
<1> DEFINE A == after(c)
<1>3. /\ A[Image] \in {Absent, Dir}
      /\ A[Image] = Absent => \A f \in Files : A[InImage(f)] = Absent
      /\ \A f \in Files : A[InImage(f)] = Whiteout => Seen(Stack(layers), InImage(f)) # Absent
      /\ A[Env(n)] = By("preinst", n)
      /\ A[Contents(n)] = Absent
    BY <1>2, PreinstLeaves
<1>4. \A f \in Files : Seen(Stack(layers), InImage(f)) = Shipped(n)[f]
    BY <1>2 DEF SeenImage
<1> HIDE DEF after
<1>5. Preinst' = A
    <2>1. <<"preinst", n>> \in Outputs
        BY <1>2 DEF Outputs
    <2> HIDE DEF A
    <2>2. output' = [output EXCEPT ![<<"preinst", n>>] = A]
        BY <1>1 DEF A
    <2>3. output'[<<"preinst", n>>] = A
        BY <1>2, <2>1, <2>2
    <2> QED
        BY <1>2, <2>3 DEF Preinst
<1>6. Stack(layers)' = Stack(layers)
    <2>1. \A i \in DOMAIN layers : layers[i] \in Outputs => output'[layers[i]] = output[layers[i]]
        BY <1>1, <1>2
    <2> QED
        BY <1>2, <2>1, StackKept
<1>7. OnTop(stack(c), Stack(layers), A)
    BY <1>2, ContainerIsOnTop
<1>8. ~IsCut(A)
    BY <1>3 DEF IsCut
<1> HIDE DEF A, stack
<1>9. \A f \in Files :
          /\ Seen(stack(c), InImage(f)) = Over(A[InImage(f)], f)
          /\ Seen(stack(c), InRoot(f)) = Shown(A, InRoot(f), Seen(Stack(layers), InRoot(f)))
    BY <1>4, <1>7, <1>8, SeenOnTop DEF Shown, Over
<1>10. image'[n] = SeenImage(stack(c))
    BY <1>1, <1>2
<1>11. image'[n] = [f \in Files |-> Over(A[InImage(f)], f)]
    BY <1>9, <1>10 DEF SeenImage
<1>12. \A f \in Files : image'[n][f] = Seen(stack(c), InImage(f))
    BY <1>10 DEF SeenImage
<1>13. root' = [f \in Files |->
                  IF image'[n][f] # Absent THEN image'[n][f]
                  ELSE Shown(A, InRoot(f), Seen(Stack(layers), InRoot(f)))]
    BY <1>1, <1>9, <1>12
<1>14. Ships[n] \subseteq Files
    BY <1>2, ShipsAssumption DEF Packages
<1>15. TakesOutKnown \/ \A f \in Ships[n] :
           image'[n][f] = Absent => Shown(A, InRoot(f), Seen(Stack(layers), InRoot(f))) = Absent
    BY <1>1, <1>9, <1>12, <1>14
<1> QED
    BY <1>3, <1>4, <1>5, <1>6, <1>11, <1>13, <1>15

\* The steps that move what preinst left
LEMMA MovedImage ==
    ASSUME ShapeInv, MoveImage
    PROVE  /\ InUpper' = InPreinst
           /\ Preinst'[Env(n)] = Preinst[Env(n)]
           /\ Preinst'[Contents(n)] = Preinst[Contents(n)]
           /\ \A f \in Files : Seen(Stack(layers)', InRoot(f)) = Seen(Stack(layers), InRoot(f))
<1>1. /\ n \in Packages /\ layers \in Seq(Names) /\ UNCHANGED <<input, n, layers>>
      /\ output = [o \in Outputs |-> output[o]]
      /\ output' = [output EXCEPT ![<<"preinst", n>>] = Without(@, {Image} \union ImageFiles)]
      /\ upper' = ImageAsRoot(Preinst)
    BY DEF MoveImage, ShapeInv, HookPhases
<1>2. /\ <<"preinst", n>> \in Outputs
      /\ output'[<<"preinst", n>>] = Without(output[<<"preinst", n>>], {Image} \union ImageFiles)
      /\ \A o \in Outputs : o # <<"preinst", n>> => output'[o] = output[o]
    <2>1. <<"preinst", n>> \in Outputs
        BY <1>1 DEF Outputs
    <2> QED
        BY <1>1, <2>1
<1>3. \A x \in Paths : x \notin {Image} \union ImageFiles =>
          output'[<<"preinst", n>>][x] = output[<<"preinst", n>>][x]
    BY <1>2 DEF Without
<1>4. InUpper' = InPreinst
    <2>1. \A f \in Files : /\ InRoot(f) \in Paths /\ InRoot(f) \in RootFiles
                           /\ InRoot(f)[2] = f
        BY PathKinds DEF InRoot
    <2>2. \A f \in Files : upper'[InRoot(f)] = Preinst[InImage(f)]
        BY <1>1, <2>1 DEF ImageAsRoot
    <2> QED
        BY <2>2 DEF InUpper, InPreinst
<1>5. Preinst'[Env(n)] = Preinst[Env(n)] /\ Preinst'[Contents(n)] = Preinst[Contents(n)]
    <2>1. Env(n) \in Paths /\ Contents(n) \in Paths
        BY <1>1, PathKinds
    <2>2. Env(n) \notin {Image} \union ImageFiles /\ Contents(n) \notin {Image} \union ImageFiles
        BY PathsDiffer
    <2> QED
        BY <1>1, <1>3, <2>1, <2>2 DEF Preinst
<1>6. ASSUME NEW f \in Files
      PROVE  Seen(Stack(layers)', InRoot(f)) = Seen(Stack(layers), InRoot(f))
    <2>1. InRoot(f) \in Paths /\ InRoot(f) \notin {Image} \union ImageFiles
        BY PathKinds, PathsDiffer
    <2>2. \A i \in DOMAIN layers :
              layers[i] \in Outputs => output'[layers[i]][InRoot(f)] = output[layers[i]][InRoot(f)]
        BY <1>2, <1>3, <2>1
    <2> QED
        BY <1>1, <2>1, <2>2, SeenKept
<1> QED
    BY <1>4, <1>5, <1>6

LEMMA MovedVdb ==
    ASSUME ShapeInv, MoveVdb
    PROVE  /\ InUpper' = InUpper
           /\ upper'[Contents(n)] = IF updated # Absent THEN updated ELSE Preinst[Contents(n)]
           /\ upper'[Env(n)] = Preinst[Env(n)]
           /\ \A f \in Files : Seen(Stack(layers)', InRoot(f)) = Seen(Stack(layers), InRoot(f))
<1>1. /\ n \in Packages /\ layers \in Seq(Names) /\ UNCHANGED <<input, n, layers>>
      /\ output = [o \in Outputs |-> output[o]]
      /\ output' = [output EXCEPT ![<<"preinst", n>>] = Without(@, Vdb(n))]
      /\ upper' = [x \in Paths |->
            IF x = Contents(n) /\ updated # Absent THEN updated
            ELSE IF x \in Vdb(n) THEN Preinst[x]
            ELSE upper[x]]
    BY DEF MoveVdb, Goes, ShapeInv, HookPhases
<1>2. /\ output'[<<"preinst", n>>] = Without(output[<<"preinst", n>>], Vdb(n))
      /\ \A o \in Outputs : o # <<"preinst", n>> => output'[o] = output[o]
    <2>1. <<"preinst", n>> \in Outputs
        BY <1>1 DEF Outputs
    <2> QED
        BY <1>1, <2>1
<1>3. \A f \in Files : InRoot(f) \in Paths /\ InRoot(f) \notin Vdb(n) /\ InRoot(f) # Contents(n)
    BY PathKinds, PathsDiffer DEF Vdb
<1>4. InUpper' = InUpper
    BY <1>1, <1>3 DEF InUpper
<1>5. /\ Env(n) \in Paths /\ Contents(n) \in Paths
      /\ Env(n) \in Vdb(n) /\ Contents(n) \in Vdb(n)
      /\ Env(n) # Contents(n)
    BY <1>1, PathKinds, PathsDiffer DEF Vdb
<1>6. /\ upper'[Contents(n)] = IF updated # Absent THEN updated ELSE Preinst[Contents(n)]
      /\ upper'[Env(n)] = Preinst[Env(n)]
    BY <1>1, <1>5
<1>7. ASSUME NEW f \in Files
      PROVE  Seen(Stack(layers)', InRoot(f)) = Seen(Stack(layers), InRoot(f))
    <2>1. InRoot(f) \notin ImageFiles
        BY PathsDiffer
    <2>2. \A i \in DOMAIN layers :
              layers[i] \in Outputs => output'[layers[i]][InRoot(f)] = output[layers[i]][InRoot(f)]
        BY <1>2, <1>3 DEF Without
    <2> QED
        BY <1>1, <2>1, <2>2, SeenKept
<1> QED
    BY <1>4, <1>6, <1>7

\* What running postinst makes of the layer and the root
LEMMA PostinstRuns ==
    ASSUME ShapeInv, RunPostinst
    PROVE  /\ Stack(layers)' = Stack(layers)
           /\ Postinst'[Image] = upper[Image]
           /\ \E c : /\ root' = [f \in Files |-> IF InRoot(f) \in DOMAIN c THEN c[InRoot(f)] ELSE root[f]]
                     /\ \A f \in Files : Postinst'[InRoot(f)] =
                            IF InRoot(f) \in DOMAIN c
                            THEN IF c[InRoot(f)] = Absent /\ Seen(Stack(layers), InRoot(f)) # Absent
                                 THEN Whiteout ELSE c[InRoot(f)]
                            ELSE upper[InRoot(f)]
                     /\ \A f \in Files :
                            InRoot(f) \in DOMAIN c => c[InRoot(f)] \in {By("postinst", n), Absent}
<1> DEFINE after(c) == Changed(Stack(layers), upper, WithEnv(c, "postinst", n))
<1>1. PICK c \in HookChanges({{x} : x \in RootFiles}, By("postinst", n)) :
          /\ output' = [output EXCEPT ![<<"postinst", n>>] = after(c)]
          /\ root' = [f \in Files |-> IF InRoot(f) \in DOMAIN c THEN c[InRoot(f)] ELSE root[f]]
    BY DEF RunPostinst
<1>2. /\ n \in Packages /\ layers \in Seq(Names) /\ UNCHANGED <<input, n, layers>>
      /\ output = [o \in Outputs |-> output[o]]
      /\ \A i \in DOMAIN layers : layers[i] # <<"postinst", n>>
    BY DEF RunPostinst, Goes, ShapeInv, HookPhases
<1> DEFINE A == after(c)
<1>3. /\ A[Image] = upper[Image]
      /\ \A f \in Files : A[InRoot(f)] =
             IF InRoot(f) \in DOMAIN c
             THEN IF c[InRoot(f)] = Absent /\ Seen(Stack(layers), InRoot(f)) # Absent
                  THEN Whiteout ELSE c[InRoot(f)]
             ELSE upper[InRoot(f)]
      /\ \A f \in Files : InRoot(f) \in DOMAIN c => c[InRoot(f)] \in {By("postinst", n), Absent}
    <2>1. c \in HookChanges({{x} : x \in RootFiles}, By("postinst", n)) /\ n \in Packages
        BY <1>2
    <2> QED
        BY <2>1, PostinstLeaves
<1>4. output' = [output EXCEPT ![<<"postinst", n>>] = A]
    BY <1>1
<1> HIDE DEF after, A
<1>5. Postinst' = A
    <2>1. <<"postinst", n>> \in Outputs
        BY <1>2 DEF Outputs
    <2>2. output'[<<"postinst", n>>] = A
        BY <1>2, <1>4, <2>1
    <2> QED
        BY <1>2, <2>2 DEF Postinst
<1>6. Stack(layers)' = Stack(layers)
    <2>1. \A i \in DOMAIN layers : layers[i] \in Outputs => output'[layers[i]] = output[layers[i]]
        BY <1>2, <1>4
    <2> QED
        BY <1>2, <2>1, StackKept
<1> QED
    BY <1>1, <1>3, <1>5, <1>6

LEMMA StepImages == ShapeInv /\ ImageInv /\ [Next]_vars => ImageInv'
<1> SUFFICES ASSUME ShapeInv, ImageInv, [Next]_vars PROVE ImageInv'
    OBVIOUS
<1>1. /\ layers \in Seq(Names) /\ input.sparse \in BOOLEAN
      /\ output = [o \in Outputs |-> output[o]]
      /\ upper = [x \in Paths |-> upper[x]]
      /\ image = [p \in Packages |-> image[p]]
      /\ pc \in HookPhases => n \in Packages
      /\ pc = "install" => \A i \in DOMAIN layers : layers[i][2] < n
    BY DEF ShapeInv
<1>2. /\ UNCHANGED <<input, layers, output>> => Stack(layers)' = Stack(layers)
      /\ UNCHANGED <<n, image>> => /\ Shipped(n)' = Shipped(n)
                                   /\ (ImageIs(InPreinst) /\ InPreinst' = InPreinst => ImageIs(InPreinst)')
                                   /\ (ImageIs(InUpper) /\ InUpper' = InUpper => ImageIs(InUpper)')
                                   /\ (ImageIs(InPreinst) /\ InUpper' = InPreinst => ImageIs(InUpper)')
      /\ UNCHANGED <<n, output>> => Preinst' = Preinst /\ InPreinst' = InPreinst /\ Postinst' = Postinst
      /\ UNCHANGED upper => InUpper' = InUpper
    BY DEF Stack, LayerAt, Shipped, ImageIs, Over, InPreinst, InUpper, Preinst, Postinst
<1>3. \A value : UNCHANGED <<n, image, input>> => (ContentsAt(value)' <=> ContentsAt(value))
    BY DEF ContentsAt, Shipped
<1>4. CASE UNCHANGED vars
    BY <1>2, <1>4 DEF vars, ImageInv, ContentsAt, SeenImage, NoImage, Shows, IsCut
<1>5. CASE SkipHooks
    <2>1. pc = "install" /\ pc' = "install" /\ n \in Packages /\ NoImage(Stack(layers))
        BY <1>5 DEF SkipHooks, Installing, ImageInv
    <2>2. NoImage(Stack(layers)')
        BY <1>1, <1>5, <2>1, InstalledIsSeen DEF SkipHooks
    <2>3. NoImage(Stack(layers))'
        BY <2>2 DEF NoImage, Shows, IsCut
    <2> QED
        BY <1>5, <2>1, <2>3 DEF SkipHooks, ImageInv
<1>6. CASE RefuseHooks \/ Fails
    BY <1>6 DEF RefuseHooks, Fails, ImageInv
<1>7. CASE PushStaged
    <2>1. pc = "install" /\ pc' = "preinst" /\ n \in Packages /\ NoImage(Stack(layers)) /\ updated' = Absent
        BY <1>7 DEF PushStaged, Installing, ImageInv
    <2>2. \A f \in Files : Seen(Stack(layers)', InImage(f)) = Shipped(n)[f]
        BY <1>1, <1>7, <2>1, StagedIsSeen DEF PushStaged
    <2>3. SeenImage(Stack(layers))' = Shipped(n)
        BY <2>2 DEF SeenImage, Shipped
    <2>4. upper' = Empty /\ Empty' = Empty /\ n' = n /\ Shipped(n)' = Shipped(n)
        BY <1>7 DEF PushStaged, Empty, Shipped
    <2> QED
        BY <2>1, <2>3, <2>4 DEF ImageInv
<1>8. CASE RunPreinst
    <2>1. /\ pc = "preinst" /\ pc' = "ran" /\ upper' = Empty
          /\ UNCHANGED <<input, n, layers, updated>>
          /\ SeenImage(Stack(layers)) = Shipped(n) /\ updated = Absent
        BY <1>8 DEF RunPreinst, Goes, ImageInv
    <2>2. /\ Stack(layers)' = Stack(layers)
          /\ Preinst'[Image] \in {Absent, Dir}
          /\ Preinst'[Image] = Absent => \A f \in Files : Preinst'[InImage(f)] = Absent
          /\ Preinst'[Env(n)] = By("preinst", n)
          /\ Preinst'[Contents(n)] = Absent
          /\ image'[n] = [f \in Files |-> Over(Preinst'[InImage(f)], f)]
        BY <1>8, PreinstRuns
    <2>3. SeenImage(Stack(layers))' = Shipped(n)'
        BY <2>1, <2>2 DEF SeenImage, Shipped
    <2>4. ImageIs(InPreinst)'
        BY <2>1, <2>2 DEF ImageIs, InPreinst, Over, Shipped
    <2>5. Empty' = Empty
        BY DEF Empty
    <2> QED
        BY <2>1, <2>2, <2>3, <2>4, <2>5 DEF ImageInv
<1>9. CASE PushPreinst
    <2>1. /\ pc = "ran" /\ pc' = "mangle" /\ n \in Packages /\ UNCHANGED <<input, n, output, upper, updated, image>>
          /\ layers' = Append(layers, <<"preinst", n>>)
          /\ SeenImage(Stack(layers)) = Shipped(n) /\ updated = Absent /\ upper = Empty
          /\ ImageIs(InPreinst) /\ Preinst[Image] \in {Absent, Dir}
        BY <1>1, <1>9 DEF PushPreinst, Goes, ImageInv, HookPhases
    <2>2. OnTop(Stack(layers)', Stack(layers), Preinst)
        BY <1>1, <2>1, StackPushed, NamesOfPackages, OutputsAsLayers DEF Preinst
    <2>3. \A f \in Files : Seen(Stack(layers)', InImage(f)) =
                               Shown(Preinst, InImage(f), Seen(Stack(layers), InImage(f)))
        BY <2>1, <2>2, SeenOnTop DEF IsCut
    <2>4. \A f \in Files : /\ Seen(Stack(layers), InImage(f)) = Shipped(n)[f]
                           /\ image[n][f] = Over(Preinst[InImage(f)], f)
        BY <2>1 DEF SeenImage, ImageIs, InPreinst
    <2>5. \A f \in Files : Seen(Stack(layers)', InImage(f)) = image[n][f]
        BY <2>3, <2>4 DEF Shown, Over
    <2>6. image[n] = [f \in Files |-> image[n][f]]
        BY <2>1 DEF ImageIs
    <2>7. SeenImage(Stack(layers))' = image[n]
        BY <2>5, <2>6 DEF SeenImage
    <2>8. Empty' = Empty
        BY DEF Empty
    <2> QED
        BY <1>2, <1>9, <2>1, <2>7, <2>8 DEF ImageInv
<1>10. CASE RecomputeContents
    <2>1. /\ pc = "mangle" /\ pc' = "move" /\ UNCHANGED <<input, n, layers, output, upper, image>>
          /\ updated' = <<"list", SeenImage(Append(Stack(layers), Empty))>>
          /\ SeenImage(Stack(layers)) = image[n] /\ ImageIs(InPreinst)
        BY <1>10 DEF RecomputeContents, Goes, ImageInv
    <2>2. OnTop(Append(Stack(layers), Empty), Stack(layers), Empty)
        BY <1>1, ContainerIsOnTop
    <2>3. \A f \in Files : Seen(Append(Stack(layers), Empty), InImage(f)) = Seen(Stack(layers), InImage(f))
        BY <2>2, SeenOnTop, PathKinds DEF Empty, IsCut, Shown
    <2>4. SeenImage(Append(Stack(layers), Empty)) = image[n]
        BY <2>1, <2>3 DEF SeenImage
    <2>5. Empty' = Empty
        BY DEF Empty
    <2> QED
        BY <1>2, <2>1, <2>4, <2>5 DEF ImageInv
<1>11. CASE SkipImage
    <2>1. /\ pc = "mangle" /\ pc' = "vdb" /\ Preinst[Image] # Dir
          /\ UNCHANGED <<input, n, layers, output, upper, updated, image>>
          /\ ImageIs(InPreinst) /\ upper = Empty /\ updated = Absent
          /\ Preinst[Image] \in {Absent, Dir}
          /\ Preinst[Image] = Absent => \A f \in Files : Preinst[InImage(f)] = Absent
        BY <1>11 DEF SkipImage, Goes, ImageInv
    <2>2. InPreinst = InUpper
        BY <2>1, PathKinds DEF InPreinst, InUpper, Empty
    <2>3. image[n] = [f \in Files |-> Shipped(n)[f]]
        BY <2>1 DEF ImageIs, Over, InPreinst
    <2>4. image[n] = Shipped(n)
        BY <2>3 DEF Shipped
    <2>5. ContentsAt(updated)
        BY <2>1, <2>4 DEF ContentsAt
    <2>6. ContentsAt(updated)' /\ ImageIs(InUpper)'
        BY <1>2, <2>1, <2>2, <2>5 DEF ContentsAt
    <2> QED
        BY <1>2, <1>11, <2>1, <2>6 DEF ImageInv
<1>12. CASE MoveImage
    <2>1. /\ pc \in {"move", "mangle"} /\ pc' = "vdb" /\ (pc = "mangle" => input.sparse)
          /\ UNCHANGED <<input, n, layers, updated, image>>
          /\ ImageIs(InPreinst)
          /\ Preinst[Env(n)] = By("preinst", n) /\ Preinst[Contents(n)] = Absent
          /\ pc = "move" => updated = <<"list", image[n]>>
          /\ pc = "mangle" => updated = Absent
        BY <1>12 DEF MoveImage, ImageInv
    <2>2. /\ InUpper' = InPreinst
          /\ Preinst'[Env(n)] = Preinst[Env(n)]
          /\ Preinst'[Contents(n)] = Preinst[Contents(n)]
        BY <1>12, MovedImage
    <2>3. ContentsAt(updated)'
        BY <2>1 DEF ContentsAt
    <2> QED
        BY <1>2, <2>1, <2>2, <2>3 DEF ImageInv
<1>13. CASE MoveVdb
    <2>1. /\ pc = "vdb" /\ pc' = "hide" /\ updated' = Absent
          /\ UNCHANGED <<input, n, layers, image>>
          /\ ImageIs(InUpper) /\ ContentsAt(updated)
          /\ Preinst[Env(n)] = By("preinst", n) /\ Preinst[Contents(n)] = Absent
        BY <1>13 DEF MoveVdb, Goes, ImageInv
    <2>2. /\ InUpper' = InUpper
          /\ upper'[Contents(n)] = IF updated # Absent THEN updated ELSE Preinst[Contents(n)]
          /\ upper'[Env(n)] = Preinst[Env(n)]
        BY <1>13, MovedVdb
    <2>3. upper'[Contents(n)] = updated
        BY <2>1, <2>2
    <2>4. ContentsAt(upper[Contents(n)])'
        BY <2>1, <2>3 DEF ContentsAt, Shipped
    <2> QED
        BY <1>2, <2>1, <2>2, <2>4 DEF ImageInv
<1>14. CASE HideImage
    <2>1. /\ pc = "hide" /\ pc' = "merge" /\ n \in Packages
          /\ upper' = [upper EXCEPT ![Image] = EmptyFile]
          /\ UNCHANGED <<input, n, layers, output, updated, image>>
          /\ ImageIs(InUpper) /\ updated = Absent
          /\ upper[Env(n)] = By("preinst", n) /\ ContentsAt(upper[Contents(n)])
        BY <1>1, <1>14 DEF HideImage, Goes, ImageInv, HookPhases
    <2>2. upper'[Image] = EmptyFile /\ \A x \in Paths : x # Image => upper'[x] = upper[x]
        BY <1>1, <2>1, PathKinds
    <2>3. InUpper' = InUpper
        BY <2>2, PathKinds, PathsDiffer DEF InUpper
    <2>4. upper'[Env(n)] = upper[Env(n)] /\ upper'[Contents(n)] = upper[Contents(n)]
        BY <2>1, <2>2, PathKinds, PathsDiffer
    <2>5. ContentsAt(upper[Contents(n)])'
        BY <2>1, <2>4 DEF ContentsAt, Shipped
    <2> QED
        BY <1>2, <2>1, <2>2, <2>3, <2>4, <2>5 DEF ImageInv
<1>15. CASE PushInstalled
    <2>1. /\ pc = "merge" /\ pc' = "postinst" /\ n \in Packages
          /\ layers' = Append(layers, <<"installed", n>>)
          /\ UNCHANGED <<input, n, output, upper, updated, image>>
          /\ updated = Absent /\ upper[Image] = EmptyFile
          /\ upper[Env(n)] = By("preinst", n) /\ ContentsAt(upper[Contents(n)])
        BY <1>1, <1>15 DEF PushInstalled, Goes, ImageInv, HookPhases
    <2>2. ~input.sparse => Seen(Stack(layers)', Contents(n)) = <<"list", Shipped(n)>>
        BY <1>1, <2>1, InstalledIsSeen
    <2>3. ContentsAt(upper[Contents(n)])'
        BY <2>1 DEF ContentsAt, Shipped
    <2>4. (~input.sparse => Seen(Stack(layers), Contents(n)) = <<"list", Shipped(n)>>)'
        BY <2>1, <2>2 DEF Shipped, Seen
    <2> QED
        BY <2>1, <2>3, <2>4 DEF ImageInv
<1>16. CASE RunPostinst
    <2>1. pc = "postinst" /\ pc' = "strip" /\ updated' = Absent /\ upper[Image] = EmptyFile
        BY <1>16 DEF RunPostinst, Goes, ImageInv
    <2>2. Postinst'[Image] = upper[Image]
        BY <1>16, PostinstRuns
    <2> QED
        BY <2>1, <2>2 DEF ImageInv
<1>17. CASE StripVdb
    <2>1. /\ pc = "strip" /\ pc' = "push" /\ n \in Packages /\ updated' = Absent
          /\ UNCHANGED <<n, input>>
          /\ output' = [output EXCEPT ![<<"postinst", n>>] = Without(@, Vdb(n))]
          /\ Postinst[Image] = EmptyFile
        BY <1>1, <1>17 DEF StripVdb, Goes, ImageInv, HookPhases
    <2>2. output'[<<"postinst", n>>] = Without(output[<<"postinst", n>>], Vdb(n))
        BY <1>1, <2>1 DEF Outputs
    <2>3. Image \in Paths /\ Image \notin Vdb(n)
        BY PathKinds, PathsDiffer DEF Vdb
    <2>4. Postinst'[Image] = Postinst[Image]
        BY <2>1, <2>2, <2>3 DEF Postinst, Without
    <2> QED
        BY <2>1, <2>4 DEF ImageInv
<1>18. CASE PushPostinst
    <2>1. /\ pc \in {"strip", "push"} /\ pc' = "install" /\ n \in Packages
          /\ layers' = Append(layers, <<"postinst", n>>)
          /\ UNCHANGED <<input, output>> /\ updated' = Absent
          /\ Postinst[Image] = EmptyFile
        BY <1>1, <1>18 DEF PushPostinst, ImageInv, HookPhases
    <2>2. OnTop(Stack(layers)', Stack(layers), Postinst)
        <3>1. OnTop(Stack(layers)', Stack(layers), LayerAt(<<"postinst", n>>))
            BY <1>1, <2>1, StackPushed, NamesOfPackages
        <3> QED
            BY <3>1, OutputsAsLayers DEF Postinst
    <2>3. NoImage(Stack(layers)')
        BY <2>1, <2>2, CutHidesImages, MarksDiffer DEF IsCut
    <2>4. NoImage(Stack(layers))'
        BY <2>3 DEF NoImage, Shows, IsCut
    <2> QED
        BY <2>1, <2>4 DEF ImageInv
<1>19. CASE EndInstall \/ Postprocess \/ Done
    <2>1. pc \in {"install", "postprocess"} /\ pc' \in {"postprocess", "done"} /\ updated' = updated
        BY <1>19 DEF EndInstall, Postprocess, Done, Goes
    <2> QED
        BY <2>1 DEF ImageInv
<1> QED
    BY <1>4, <1>5, <1>6, <1>7, <1>8, <1>9, <1>10, <1>11, <1>12, <1>13, <1>14, <1>15, <1>16,
       <1>17, <1>18, <1>19 DEF Next, Progress

LEMMA ImagesAreSeen == ShapeInv /\ ImageInv => HooksSeeTheirImage
<1> SUFFICES ASSUME ShapeInv, ImageInv PROVE HooksSeeTheirImage
    OBVIOUS
<1>1. layers \in Seq(Names) /\ OnTop(Container, Stack(layers), upper)
    BY ContainerIsOnTop DEF Container, ShapeInv
<1>2. ASSUME pc = "preinst" PROVE SeenImage(Container) = Shipped(n)
    <2>1. upper = Empty /\ SeenImage(Stack(layers)) = Shipped(n)
        BY <1>2 DEF ImageInv
    <2>2. \A f \in Files : Seen(Container, InImage(f)) = Seen(Stack(layers), InImage(f))
        BY <1>1, <2>1, SeenOnTop, PathKinds DEF Empty, IsCut, Shown
    <2> QED
        BY <2>1, <2>2 DEF SeenImage
<1>3. ASSUME pc = "postinst"
      PROVE  Seen(Container, Image) = EmptyFile /\ SeenImage(Container) = [f \in Files |-> Absent]
    <2>1. upper[Image] = EmptyFile
        BY <1>3 DEF ImageInv
    <2>2. NoImage(Container)
        BY <1>1, <2>1, CutHidesImages, MarksDiffer DEF IsCut
    <2>3. SeenImage(Container) = [f \in Files |-> Absent]
        BY <2>2, NoImageSeen, PathKinds DEF SeenImage
    <2>4. Seen(Container, Image) = Shown(upper, Image, Seen(Stack(layers), Image))
        BY <1>1, SeenOnTop, PathsDiffer
    <2> QED
        BY <2>1, <2>3, <2>4, MarksDiffer DEF Shown
<1> QED
    BY <1>2, <1>3 DEF HooksSeeTheirImage

\* Every preinst hook finds its package's image as it was built, and no postinst hook
\* finds one, for any packages, images and hooks (main.rs:408-430).
THEOREM HooksFindTheirImage == Spec => [](HooksSeeTheirImage /\ ShapeInv /\ ImageInv)
<1>1. Init => ShapeInv /\ ImageInv
    BY InitShape, InitImages
<1>2. ShapeInv /\ ImageInv /\ [Next]_vars => (ShapeInv /\ ImageInv)'
    BY StepShape, StepImages
<1> QED
    BY <1>1, <1>2, ImagesAreSeen, PTL DEF Spec
-----------------------------------------------------------------------------
(* The root                                                                *)

\* The root below a layer, and that root with the image merged into it
Below(layer, f) == Shown(layer, InRoot(f), Seen(Stack(layers), InRoot(f)))

RootIs(layer) == root = [f \in Files |-> Below(layer, f)]

Merges(changes, layer) ==
    /\ root = [f \in Files |-> IF image[n][f] # Absent THEN image[n][f] ELSE Below(layer, f)]
    /\ \A f \in Files : changes[f] = Whiteout => Below(layer, f) = Absent

RootInv ==
    /\ pc \in {"install", "preinst", "postprocess", "done"} => RootIs(Empty)
    /\ pc = "ran" => Merges(InPreinst, Preinst)
    /\ pc \in {"mangle", "move"} => Merges(InPreinst, Empty)
    /\ pc \in {"vdb", "hide", "merge"} => Merges(InUpper, Empty)
    /\ pc = "postinst" => RootIs(upper)
    /\ pc \in {"strip", "push"} => RootIs(Postinst)

LEMMA EmptyBelow == \A f \in Files : Below(Empty, f) = Seen(Stack(layers), InRoot(f))
BY PathKinds DEF Below, Shown, Empty

LEMMA InitRoot == Init => RootInv
<1> SUFFICES ASSUME Init PROVE RootInv
    OBVIOUS
<1>1. layers = << <<"base", 0>> >> /\ pc = "install" /\ root = SeenRoot(<<Base>>)
    BY DEF Init
<1>2. Stack(layers) = <<Base>>
    BY <1>1 DEF Stack, LayerAt
<1>3. RootIs(Empty)
    BY <1>1, <1>2, EmptyBelow DEF SeenRoot, RootIs
<1> QED
    BY <1>1, <1>3 DEF RootInv

\* What becomes of an output at the end
LEMMA Processed ==
    ASSUME ShapeInv, Postprocess, NEW o \in Outputs
    PROVE  /\ o # OutputAt(n) => output'[o] = output[o]
           /\ o = OutputAt(n) => output'[o][Image] = Absent
           /\ \A x \in Paths : x # Image /\ (\A p : x # Env(p)) => output'[o][x] = output[o][x]
           /\ \A x \in Paths : output'[o][x] \in {output[o][x], Absent}
<1> DEFINE new == Cleaned(Without(output[OutputAt(n)], {Image}))
           at == OutputAt(n)
<1>1. output = [q \in Outputs |-> output[q]]
    BY DEF ShapeInv
<1>2. output' = [output EXCEPT ![at] = new]
    BY DEF Postprocess
<1>3. /\ \A x \in Paths : /\ new[x] \in {output[at][x], Absent}
                          /\ x # Image /\ (\A p : x # Env(p)) => new[x] = output[at][x]
      /\ new[Image] = Absent
    BY PathKinds DEF Cleaned, Without
<1> HIDE DEF new, at
<1>4. output'[o] = IF o = at THEN new ELSE output[o]
    BY <1>1, <1>2
<1> QED
    BY <1>3, <1>4 DEF at

LEMMA StepRoot ==
    ASSUME ~TakesOutKnown, ShapeInv, ImageInv, RootInv, [Next]_vars
    PROVE  RootInv'
<1>1. /\ layers \in Seq(Names) /\ input.sparse \in BOOLEAN
      /\ output = [o \in Outputs |-> output[o]]
      /\ upper = [x \in Paths |-> upper[x]]
      /\ pc \in HookPhases => n \in Packages
    BY DEF ShapeInv
<1>2. \A f \in Files :
          /\ Below(Empty, f)' = Seen(Stack(layers)', InRoot(f))
          /\ Below(upper, f)' = Shown(upper', InRoot(f), Seen(Stack(layers)', InRoot(f)))
          /\ Below(Preinst, f)' = Shown(Preinst', InRoot(f), Seen(Stack(layers)', InRoot(f)))
          /\ Below(Postinst, f)' = Shown(Postinst', InRoot(f), Seen(Stack(layers)', InRoot(f)))
    BY PathKinds DEF Below, Shown, Empty, Seen
<1>3. /\ UNCHANGED <<input, layers, output>> => Stack(layers)' = Stack(layers)
      /\ UNCHANGED <<n, output>> =>
             Preinst' = Preinst /\ InPreinst' = InPreinst /\ Postinst' = Postinst
      /\ UNCHANGED upper => InUpper' = InUpper
    BY DEF Stack, LayerAt, InPreinst, InUpper, Preinst, Postinst
<1>4. CASE UNCHANGED vars
    <2>1. /\ \A f \in Files : /\ Below(Empty, f)' = Below(Empty, f)
                              /\ Below(upper, f)' = Below(upper, f)
                              /\ Below(Preinst, f)' = Below(Preinst, f)
                              /\ Below(Postinst, f)' = Below(Postinst, f)
          /\ InUpper' = InUpper /\ InPreinst' = InPreinst
        BY <1>2, <1>3, <1>4, EmptyBelow DEF vars, Below
    <2> QED
        BY <1>4, <2>1 DEF vars, RootInv, RootIs, Merges
<1>5. CASE SkipHooks
    <2>1. /\ pc = "install" /\ pc' = "install" /\ n \in Packages
          /\ root' = [f \in Files |-> IF f \in Ships[n] THEN By("shipped", n) ELSE root[f]]
          /\ layers' = Append(layers, <<"installed", n>>) /\ UNCHANGED <<input, output>>
          /\ RootIs(Empty)
        BY <1>5 DEF SkipHooks, Installing, RootInv
    <2>2. \A f \in Files : Seen(Stack(layers)', InRoot(f)) =
                  IF f \in Ships[n] THEN By("shipped", n) ELSE Seen(Stack(layers), InRoot(f))
        BY <1>1, <2>1, InstalledIsSeen
    <2>3. \A f \in Files : root[f] = Seen(Stack(layers), InRoot(f))
        BY <2>1, EmptyBelow DEF RootIs
    <2>4. root' = [f \in Files |-> Seen(Stack(layers)', InRoot(f))]
        BY <2>1, <2>2, <2>3
    <2>5. RootIs(Empty)'
        BY <1>2, <2>4 DEF RootIs
    <2> QED
        BY <2>1, <2>5 DEF RootInv
<1>6. CASE RefuseHooks \/ Fails
    BY <1>6 DEF RefuseHooks, Fails, RootInv
<1>7. CASE PushStaged
    <2>1. /\ pc = "install" /\ pc' = "preinst" /\ n \in Packages /\ root' = root
          /\ layers' = Append(layers, <<"staged", n>>) /\ UNCHANGED <<input, output>>
          /\ RootIs(Empty) /\ NoImage(Stack(layers))
        BY <1>7 DEF PushStaged, Installing, RootInv, ImageInv
    <2>2. \A f \in Files : Seen(Stack(layers)', InRoot(f)) = Seen(Stack(layers), InRoot(f))
        BY <1>1, <2>1, StagedIsSeen
    <2>3. RootIs(Empty)'
        BY <1>2, <2>1, <2>2, EmptyBelow DEF RootIs
    <2> QED
        BY <2>1, <2>3 DEF RootInv
<1>8. CASE RunPreinst
    <2>1. pc = "preinst" /\ pc' = "ran" /\ n' = n /\ n \in Packages
        BY <1>1, <1>8 DEF RunPreinst, Goes, HookPhases
    <2>2. /\ Stack(layers)' = Stack(layers)
          /\ \A f \in Files : Preinst'[InImage(f)] = Whiteout => Shipped(n)[f] # Absent
          /\ image'[n] = [f \in Files |-> Over(Preinst'[InImage(f)], f)]
          /\ root' = [f \in Files |->
                  IF image'[n][f] # Absent THEN image'[n][f]
                  ELSE Shown(Preinst', InRoot(f), Seen(Stack(layers), InRoot(f)))]
          /\ \A f \in Ships[n] :
                  image'[n][f] = Absent =>
                      Shown(Preinst', InRoot(f), Seen(Stack(layers), InRoot(f))) = Absent
        BY <1>8, PreinstRuns
    <2>3. ASSUME NEW f \in Files, Preinst'[InImage(f)] = Whiteout
          PROVE  Below(Preinst, f)' = Absent
        <3>1. f \in Ships[n]
            BY <2>2, <2>3 DEF Shipped
        <3>2. image'[n][f] = Absent
            BY <2>2, <2>3, MarksDiffer DEF Over
        <3> QED
            BY <1>2, <2>2, <3>1, <3>2
    <2>4. Merges(InPreinst, Preinst)'
        BY <1>2, <2>1, <2>2, <2>3 DEF Merges, InPreinst
    <2> QED
        BY <2>1, <2>4 DEF RootInv
<1>9. CASE PushPreinst
    <2>1. /\ pc = "ran" /\ pc' = "mangle" /\ n \in Packages
          /\ UNCHANGED <<input, n, output, image, root>>
          /\ layers' = Append(layers, <<"preinst", n>>)
          /\ Merges(InPreinst, Preinst)
        BY <1>1, <1>9 DEF PushPreinst, Goes, RootInv, HookPhases
    <2>2. OnTop(Stack(layers)', Stack(layers), Preinst)
        BY <1>1, <2>1, StackPushed, NamesOfPackages, OutputsAsLayers DEF Preinst
    <2>3. \A f \in Files : Seen(Stack(layers)', InRoot(f)) = Below(Preinst, f)
        BY <2>2, SeenOnTop, PathsDiffer DEF Below
    <2>4. Merges(InPreinst, Empty)'
        BY <1>2, <1>3, <2>1, <2>3 DEF Merges
    <2> QED
        BY <2>1, <2>4 DEF RootInv
<1>10. CASE RecomputeContents \/ SkipImage
    <2>1. /\ UNCHANGED <<input, n, layers, output, upper, image, root>>
          /\ pc = "mangle" /\ Merges(InPreinst, Empty)
          /\ (RecomputeContents /\ pc' = "move") \/ (SkipImage /\ pc' = "vdb")
        BY <1>10 DEF RecomputeContents, SkipImage, Goes, RootInv
    <2>2. Merges(InPreinst, Empty)'
        BY <1>2, <1>3, <2>1, EmptyBelow DEF Merges
    <2>3. ASSUME SkipImage PROVE InUpper = InPreinst
        <3>1. /\ upper = Empty
              /\ \A f \in Files : Preinst[InImage(f)] = Absent
            BY <2>3 DEF SkipImage, Goes, ImageInv
        <3> QED
            BY <3>1, PathKinds DEF InUpper, InPreinst, Empty
    <2>4. SkipImage => InUpper' = InPreinst'
        BY <1>3, <2>1, <2>3
    <2>5. SkipImage => Merges(InUpper, Empty)'
        BY <2>2, <2>4 DEF Merges
    <2> QED
        BY <2>1, <2>2, <2>5 DEF RootInv
<1>11. CASE MoveImage
    <2>1. /\ pc \in {"move", "mangle"} /\ pc' = "vdb" /\ UNCHANGED <<n, image, root>>
          /\ Merges(InPreinst, Empty)
        BY <1>11 DEF MoveImage, RootInv
    <2>2. /\ InUpper' = InPreinst
          /\ \A f \in Files : Seen(Stack(layers)', InRoot(f)) = Seen(Stack(layers), InRoot(f))
        BY <1>11, MovedImage
    <2>3. Merges(InUpper, Empty)'
        BY <1>2, <2>1, <2>2, EmptyBelow DEF Merges
    <2> QED
        BY <2>1, <2>3 DEF RootInv
<1>12. CASE MoveVdb
    <2>1. /\ pc = "vdb" /\ pc' = "hide" /\ UNCHANGED <<n, image, root>>
          /\ Merges(InUpper, Empty)
        BY <1>12 DEF MoveVdb, Goes, RootInv
    <2>2. /\ InUpper' = InUpper
          /\ \A f \in Files : Seen(Stack(layers)', InRoot(f)) = Seen(Stack(layers), InRoot(f))
        BY <1>12, MovedVdb
    <2>3. Merges(InUpper, Empty)'
        BY <1>2, <2>1, <2>2, EmptyBelow DEF Merges
    <2> QED
        BY <2>1, <2>3 DEF RootInv
<1>13. CASE HideImage
    <2>1. /\ pc = "hide" /\ pc' = "merge"
          /\ upper' = [upper EXCEPT ![Image] = EmptyFile]
          /\ UNCHANGED <<input, n, layers, output, image, root>>
          /\ Merges(InUpper, Empty)
        BY <1>13 DEF HideImage, Goes, RootInv
    <2>2. InUpper' = InUpper
        BY <1>1, <2>1, PathKinds, PathsDiffer DEF InUpper
    <2>3. Merges(InUpper, Empty)'
        BY <1>2, <1>3, <2>1, <2>2, EmptyBelow DEF Merges
    <2> QED
        BY <2>1, <2>3 DEF RootInv
<1>14. CASE PushInstalled
    <2>1. /\ pc = "merge" /\ pc' = "postinst" /\ n \in Packages
          /\ layers' = Append(layers, <<"installed", n>>)
          /\ UNCHANGED <<input, n, output, upper, image, root>>
          /\ Merges(InUpper, Empty) /\ ImageIs(InUpper)
        BY <1>1, <1>14 DEF PushInstalled, Goes, ImageInv, RootInv, HookPhases
    <2>2. \A f \in Files : Seen(Stack(layers)', InRoot(f)) =
                  IF f \in Ships[n] THEN By("shipped", n) ELSE Seen(Stack(layers), InRoot(f))
        BY <1>1, <2>1, InstalledIsSeen
    <2>3. ASSUME NEW f \in Files PROVE root[f] = Below(upper, f)'
        <3>1. Below(upper, f)' =
                  Shown(upper, InRoot(f),
                        IF f \in Ships[n] THEN By("shipped", n) ELSE Seen(Stack(layers), InRoot(f)))
            BY <1>2, <2>1, <2>2
        <3>2. /\ root[f] = IF image[n][f] # Absent THEN image[n][f] ELSE Seen(Stack(layers), InRoot(f))
              /\ upper[InRoot(f)] = Whiteout => Seen(Stack(layers), InRoot(f)) = Absent
            BY <2>1, EmptyBelow DEF Merges, InUpper
        <3>3. image[n][f] = Over(upper[InRoot(f)], f)
            BY <2>1 DEF ImageIs, InUpper
        <3>4. Shipped(n)[f] = IF f \in Ships[n] THEN By("shipped", n) ELSE Absent
            BY DEF Shipped
        <3> QED
            BY <3>1, <3>2, <3>3, <3>4, MarksDiffer DEF Shown, Over
    <2>4. RootIs(upper)'
        BY <2>1, <2>3 DEF RootIs, Merges
    <2> QED
        BY <2>1, <2>4 DEF RootInv
<1>15. CASE RunPostinst
    <2>1. pc = "postinst" /\ pc' = "strip" /\ RootIs(upper)
        BY <1>15 DEF RunPostinst, Goes, RootInv
    <2>2. PICK c :
              /\ root' = [f \in Files |-> IF InRoot(f) \in DOMAIN c THEN c[InRoot(f)] ELSE root[f]]
              /\ \A f \in Files : Postinst'[InRoot(f)] =
                     IF InRoot(f) \in DOMAIN c
                     THEN IF c[InRoot(f)] = Absent /\ Seen(Stack(layers), InRoot(f)) # Absent
                          THEN Whiteout ELSE c[InRoot(f)]
                     ELSE upper[InRoot(f)]
              /\ \A f \in Files :
                     InRoot(f) \in DOMAIN c => c[InRoot(f)] \in {By("postinst", n), Absent}
        BY <1>15, PostinstRuns
    <2>3. Stack(layers)' = Stack(layers)
        BY <1>15, PostinstRuns
    <2>4. ASSUME NEW f \in Files PROVE root'[f] = Below(Postinst, f)'
        <3>1. Below(Postinst, f)' = Shown(Postinst', InRoot(f), Seen(Stack(layers), InRoot(f)))
            BY <1>2, <2>3
        <3>2. root[f] = Shown(upper, InRoot(f), Seen(Stack(layers), InRoot(f)))
            BY <2>1 DEF RootIs, Below
        <3>3. CASE InRoot(f) \in DOMAIN c
            BY <2>2, <3>1, <3>3, MarksDiffer DEF Shown
        <3>4. CASE InRoot(f) \notin DOMAIN c
            BY <2>2, <3>1, <3>2, <3>4 DEF Shown
        <3> QED
            BY <3>3, <3>4
    <2>5. root' = [f \in Files |-> root'[f]]
        BY <2>2
    <2>6. RootIs(Postinst)'
        BY <2>4, <2>5 DEF RootIs
    <2> QED
        BY <2>1, <2>6 DEF RootInv
<1>16. CASE StripVdb
    <2>1. /\ pc = "strip" /\ pc' = "push" /\ n \in Packages
          /\ UNCHANGED <<input, n, layers, root>>
          /\ output' = [output EXCEPT ![<<"postinst", n>>] = Without(@, Vdb(n))]
          /\ RootIs(Postinst)
        BY <1>1, <1>16 DEF StripVdb, Goes, RootInv, HookPhases
    <2>2. /\ output'[<<"postinst", n>>] = Without(output[<<"postinst", n>>], Vdb(n))
          /\ \A o \in Outputs : o # <<"postinst", n>> => output'[o] = output[o]
        BY <1>1, <2>1 DEF Outputs
    <2>3. \A f \in Files : InRoot(f) \in Paths /\ InRoot(f) \notin Vdb(n) /\ InRoot(f) \notin ImageFiles
        BY PathKinds, PathsDiffer DEF Vdb
    <2>4. \A f \in Files : Postinst'[InRoot(f)] = Postinst[InRoot(f)]
        BY <2>1, <2>2, <2>3 DEF Postinst, Without
    <2>5. \A f \in Files : \A i \in DOMAIN layers :
              layers[i] \in Outputs => output'[layers[i]][InRoot(f)] = output[layers[i]][InRoot(f)]
        BY <2>2, <2>3 DEF Without
    <2>6. \A f \in Files : Seen(Stack(layers)', InRoot(f)) = Seen(Stack(layers), InRoot(f))
        BY <1>1, <2>1, <2>3, <2>5, SeenKept
    <2>7. \A f \in Files : Below(Postinst, f)' = Below(Postinst, f)
        BY <1>2, <2>4, <2>6 DEF Below, Shown
    <2>8. RootIs(Postinst)'
        BY <2>1, <2>7 DEF RootIs
    <2> QED
        BY <2>1, <2>8 DEF RootInv
<1>17. CASE PushPostinst
    <2>1. /\ pc \in {"strip", "push"} /\ pc' = "install" /\ n \in Packages
          /\ layers' = Append(layers, <<"postinst", n>>)
          /\ UNCHANGED <<input, output, root>>
          /\ RootIs(Postinst)
        BY <1>1, <1>17 DEF PushPostinst, RootInv, HookPhases
    <2>2. OnTop(Stack(layers)', Stack(layers), Postinst)
        <3>1. OnTop(Stack(layers)', Stack(layers), LayerAt(<<"postinst", n>>))
            BY <1>1, <2>1, StackPushed, NamesOfPackages
        <3> QED
            BY <3>1, OutputsAsLayers DEF Postinst
    <2>3. \A f \in Files : Seen(Stack(layers)', InRoot(f)) = Below(Postinst, f)
        BY <2>2, SeenOnTop, PathsDiffer DEF Below
    <2>4. RootIs(Empty)'
        BY <1>2, <2>1, <2>3 DEF RootIs
    <2> QED
        BY <2>1, <2>4 DEF RootInv
<1>18. CASE EndInstall \/ Done
    <2>1. /\ pc \in {"install", "postprocess"} /\ pc' \in {"postprocess", "done"}
          /\ UNCHANGED <<input, layers, output, root>>
          /\ RootIs(Empty)
        BY <1>18 DEF EndInstall, Done, Goes, RootInv
    <2>2. RootIs(Empty)'
        BY <1>2, <1>3, <2>1, EmptyBelow DEF RootIs
    <2> QED
        BY <2>1, <2>2 DEF RootInv
<1>19. CASE Postprocess
    <2>1. /\ pc = "postprocess" /\ pc' = "postprocess" /\ UNCHANGED <<input, layers, root>>
          /\ RootIs(Empty)
        BY <1>19 DEF Postprocess, RootInv
    <2>2. \A f \in Files : InRoot(f) \in Paths /\ InRoot(f) \notin ImageFiles \union {Image}
                            /\ \A p : InRoot(f) # Env(p)
        BY PathKinds, PathsDiffer
    <2>3. \A f \in Files : \A o \in Outputs : output'[o][InRoot(f)] = output[o][InRoot(f)]
        BY <1>19, <2>2, Processed
    <2>4. \A f \in Files : Seen(Stack(layers)', InRoot(f)) = Seen(Stack(layers), InRoot(f))
        BY <1>1, <2>1, <2>2, <2>3, SeenKept
    <2>5. RootIs(Empty)'
        BY <1>2, <2>1, <2>4, EmptyBelow DEF RootIs
    <2> QED
        BY <2>1, <2>5 DEF RootInv
<1> QED
    BY <1>4, <1>5, <1>6, <1>7, <1>8, <1>9, <1>10, <1>11, <1>12, <1>13, <1>14, <1>15, <1>16,
       <1>17, <1>18, <1>19 DEF Next, Progress

LEMMA RootIsSeen == ShapeInv /\ ImageInv /\ RootInv => PostinstSeesMergedRoot
<1> SUFFICES ASSUME ShapeInv, ImageInv, RootInv, pc = "postinst"
             PROVE  /\ SeenRoot(Container) = root
                    /\ Seen(Container, Env(n)) = By("preinst", n)
                    /\ ~input.sparse => Seen(Container, Contents(n)) = <<"list", image[n]>>
    BY DEF PostinstSeesMergedRoot
<1>1. OnTop(Container, Stack(layers), upper)
    BY ContainerIsOnTop DEF Container, ShapeInv
<1>2. \A x : x \notin ImageFiles => Seen(Container, x) = Shown(upper, x, Seen(Stack(layers), x))
    BY <1>1, SeenOnTop
<1>3. SeenRoot(Container) = root
    <2>1. \A f \in Files : Seen(Container, InRoot(f)) = Below(upper, f)
        BY <1>2, PathsDiffer DEF Below
    <2> QED
        BY <2>1 DEF SeenRoot, RootInv, RootIs
<1>4. /\ upper[Env(n)] = By("preinst", n)
      /\ ContentsAt(upper[Contents(n)])
      /\ ~input.sparse => Seen(Stack(layers), Contents(n)) = <<"list", Shipped(n)>>
    BY DEF ImageInv
<1>5. Seen(Container, Env(n)) = By("preinst", n)
    BY <1>2, <1>4, PathsDiffer, MarksDiffer DEF Shown
<1>6. ASSUME ~input.sparse PROVE Seen(Container, Contents(n)) = <<"list", image[n]>>
    <2>1. Seen(Container, Contents(n)) = Shown(upper, Contents(n), <<"list", Shipped(n)>>)
        BY <1>2, <1>4, <1>6, PathsDiffer
    <2> QED
        BY <1>4, <1>6, <2>1, MarksDiffer DEF Shown, ContentsAt
<1> QED
    BY <1>3, <1>5, <1>6

\* postinst runs in the root that merging the image would have given, with the environment
\* of preinst and the CONTENTS of what was installed, for any packages, images and hooks,
\* unless a preinst hook takes out of its image a file that the root has (main.rs:247-258).
THEOREM PostinstIsFaithful ==
    ASSUME ~TakesOutKnown
    PROVE  Spec => []PostinstSeesMergedRoot
<1> DEFINE Inv == ShapeInv /\ ImageInv /\ RootInv
<1>1. Init => Inv
    BY InitShape, InitImages, InitRoot
<1>2. Inv /\ [Next]_vars => Inv'
    BY StepShape, StepImages, StepRoot
<1>3. Inv => PostinstSeesMergedRoot
    BY RootIsSeen
<1> QED
    BY <1>1, <1>2, <1>3, PTL DEF Spec
-----------------------------------------------------------------------------
(* What later actions see                                                  *)

\* The order of layers: by package, and within one by kind
Rank(name) ==
    4 * name[2] +
    CASE name[1] \in {"base", "staged"} -> 0
      [] name[1] = "preinst" -> 1
      [] name[1] = "installed" -> 2
      [] OTHER -> 3

Ordered(names) == \A i, j \in DOMAIN names : i < j => Rank(names[i]) < Rank(names[j])

LEMMA RankIs ==
    /\ Rank(<<"base", 0>>) = 0
    /\ \A p \in Nat : /\ Rank(<<"staged", p>>) = 4 * p
                      /\ Rank(<<"preinst", p>>) = 4 * p + 1
                      /\ Rank(<<"installed", p>>) = 4 * p + 2
                      /\ Rank(<<"postinst", p>>) = 4 * p + 3
    /\ \A name \in Names : Rank(name) \in Nat
<1>1. /\ Rank(<<"base", 0>>) = 0
      /\ \A p \in Nat : /\ Rank(<<"staged", p>>) = 4 * p
                        /\ Rank(<<"preinst", p>>) = 4 * p + 1
                        /\ Rank(<<"installed", p>>) = 4 * p + 2
                        /\ Rank(<<"postinst", p>>) = 4 * p + 3
    BY DEF Rank
<1>2. \A name \in Names : Rank(name) \in Nat
    <2> SUFFICES ASSUME NEW name \in Names PROVE Rank(name) \in Nat
        OBVIOUS
    <2>1. name[2] \in Nat
        BY NamesAreNumbered
    <2>2. 4 * name[2] \in Nat
        BY <2>1
    <2> QED
        BY <2>2 DEF Rank
<1> QED
    BY <1>1, <1>2

\* Off the image, of layers in order only those count that have something at a path
LEMMA SeenByName ==
    ASSUME NEW r \in Seq(Names), NEW s \in Seq(Names), Ordered(r), Ordered(s),
           NEW x, x \notin ImageFiles,
           \A name \in Names : LayerAt(name)[x] # Absent => (name \in Range(r) <=> name \in Range(s))
    PROVE  Seen(Stack(r), x) = Seen(Stack(s), x)
<1> DEFINE R == Shows(Stack(r), x)
           S == Shows(Stack(s), x)
<1>1. /\ DOMAIN r = 1 .. Len(r) /\ Len(r) \in Nat
      /\ DOMAIN s = 1 .. Len(s) /\ Len(s) \in Nat
      /\ \A i \in DOMAIN r : r[i] \in Names
      /\ \A i \in DOMAIN s : s[i] \in Names
    OBVIOUS
<1>2. /\ R = {i \in DOMAIN r : LayerAt(r[i])[x] # Absent}
      /\ S = {i \in DOMAIN s : LayerAt(s[i])[x] # Absent}
      /\ \A i \in DOMAIN r : Stack(r)[i] = LayerAt(r[i])
      /\ \A i \in DOMAIN s : Stack(s)[i] = LayerAt(s[i])
    BY DEF Shows, Stack
<1>3. /\ \A i \in R : \E j \in S : s[j] = r[i]
      /\ \A j \in S : \E i \in R : r[i] = s[j]
    BY <1>1, <1>2 DEF Range
<1>4. R \subseteq 1 .. Len(r) /\ S \subseteq 1 .. Len(s)
    BY <1>1, <1>2
<1> HIDE DEF R, S
<1>5. CASE R = {}
    <2>1. S = {}
        BY <1>3, <1>5
    <2> QED
        BY <1>5, <2>1, SeenIsTop DEF R, S
<1>6. CASE R # {}
    <2>1. S # {}
        BY <1>3, <1>6
    <2> DEFINE i == Max(R)
               j == Max(S)
    <2>2. /\ i \in R /\ \A k \in R : i >= k
          /\ j \in S /\ \A k \in S : j >= k
        BY <1>1, <1>4, <1>6, <2>1, Greatest
    <2> HIDE DEF i, j
    <2>3. PICK a \in R : r[a] = s[j]
        BY <1>3, <2>2
    <2>4. PICK b \in S : s[b] = r[i]
        BY <1>3, <2>2
    <2>5. /\ a \in 1 .. Len(r) /\ i \in 1 .. Len(r) /\ i >= a
          /\ b \in 1 .. Len(s) /\ j \in 1 .. Len(s) /\ j >= b
        BY <1>4, <2>2, <2>3, <2>4
    <2>6. Rank(r[i]) \in Nat /\ Rank(s[j]) \in Nat
        BY <1>1, <2>5, RankIs
    <2>7. a = i \/ Rank(r[a]) < Rank(r[i])
        BY <1>1, <2>5 DEF Ordered
    <2>8. b = j \/ Rank(s[b]) < Rank(s[j])
        BY <1>1, <2>5 DEF Ordered
    <2>9. r[i] = s[j]
        BY <2>3, <2>4, <2>6, <2>7, <2>8
    <2>10. Stack(r)[i] = Stack(s)[j]
        BY <1>1, <1>2, <2>5, <2>9
    <2> QED
        BY <1>6, <2>1, <2>10, SeenIsTop DEF R, S, i, j, Shown
<1> QED
    BY <1>5, <1>6

LEMMA LaterLayersAre ==
    /\ LaterLayers \in Seq(Names)
    /\ Ordered(LaterLayers)
    /\ LaterLayers[1] = <<"base", 0>>
    /\ \A p \in Packages : /\ 3 * p - 1 \in DOMAIN LaterLayers
                           /\ 3 * p \in DOMAIN LaterLayers
                           /\ 3 * p + 1 \in DOMAIN LaterLayers
                           /\ LaterLayers[3 * p - 1] = <<"preinst", p>>
                           /\ LaterLayers[3 * p] = <<"installed", p>>
                           /\ LaterLayers[3 * p + 1] = <<"postinst", p>>
    /\ \A i \in DOMAIN LaterLayers :
           \/ i = 1
           \/ \E p \in Packages : i \in {3 * p - 1, 3 * p, 3 * p + 1}
<1> DEFINE L == Len(Ships)
<1>1. L \in Nat /\ Packages = 1 .. L
    BY ShipsAssumption DEF Packages
<1>2. DOMAIN LaterLayers = 1 .. 3 * L + 1
    BY DEF LaterLayers
<1>3. LaterLayers[1] = <<"base", 0>>
    BY <1>1 DEF LaterLayers
<1>4. ASSUME NEW p \in Packages
      PROVE  /\ 3 * p - 1 \in DOMAIN LaterLayers
             /\ 3 * p \in DOMAIN LaterLayers
             /\ 3 * p + 1 \in DOMAIN LaterLayers
             /\ LaterLayers[3 * p - 1] = <<"preinst", p>>
             /\ LaterLayers[3 * p] = <<"installed", p>>
             /\ LaterLayers[3 * p + 1] = <<"postinst", p>>
    <2>1. /\ 3 * p - 1 \in 1 .. 3 * L + 1 /\ 3 * p \in 1 .. 3 * L + 1 /\ 3 * p + 1 \in 1 .. 3 * L + 1
          /\ 3 * p - 1 # 1 /\ 3 * p # 1 /\ 3 * p + 1 # 1
        BY <1>1
    <2>2. /\ ((3 * p - 1) + 1) \div 3 = p /\ ((3 * p - 1) + 1) % 3 = 0
          /\ (3 * p + 1) \div 3 = p /\ (3 * p + 1) % 3 = 1
          /\ ((3 * p + 1) + 1) \div 3 = p /\ ((3 * p + 1) + 1) % 3 = 2
        BY <1>1
    <2> HIDE DEF L
    <2>3. \A i \in 1 .. 3 * L + 1 : i # 1 =>
              LaterLayers[i] = << <<"preinst", "installed", "postinst">>[((i + 1) % 3) + 1], (i + 1) \div 3 >>
        BY DEF LaterLayers, L
    <2>4. /\ LaterLayers[3 * p - 1] = << <<"preinst", "installed", "postinst">>[0 + 1], p >>
          /\ LaterLayers[3 * p] = << <<"preinst", "installed", "postinst">>[1 + 1], p >>
          /\ LaterLayers[3 * p + 1] = << <<"preinst", "installed", "postinst">>[2 + 1], p >>
        BY <2>1, <2>2, <2>3
    <2> QED
        BY <1>2, <2>1, <2>4 DEF L
<1>5. ASSUME NEW i \in DOMAIN LaterLayers
      PROVE  i = 1 \/ \E p \in Packages : i \in {3 * p - 1, 3 * p, 3 * p + 1}
    <2>1. i \in 1 .. 3 * L + 1
        BY <1>2
    <2>2. i # 1 => /\ (i + 1) \div 3 \in 1 .. L
                   /\ i \in {3 * ((i + 1) \div 3) - 1, 3 * ((i + 1) \div 3), 3 * ((i + 1) \div 3) + 1}
        BY <1>1, <2>1
    <2> QED
        BY <1>1, <2>2
<1>6. ASSUME NEW i \in DOMAIN LaterLayers PROVE LaterLayers[i] \in Names
    <2>1. CASE i = 1
        BY <1>3, <2>1 DEF Names
    <2>2. CASE i # 1
        <3>1. PICK p \in Packages : i \in {3 * p - 1, 3 * p, 3 * p + 1}
            BY <1>5, <2>2
        <3>2. LaterLayers[i] \in {<<"preinst", p>>, <<"installed", p>>, <<"postinst", p>>}
            BY <1>4, <3>1
        <3> QED
            BY <3>2, NamesOfPackages
    <2> QED
        BY <2>1, <2>2
<1>7. LaterLayers \in Seq(Names)
    <2>1. LaterLayers \in [1 .. 3 * L + 1 -> Names]
        BY <1>2, <1>6 DEF LaterLayers
    <2> QED
        BY <1>1, <2>1
<1>8. ASSUME NEW i \in DOMAIN LaterLayers, NEW j \in DOMAIN LaterLayers, i < j
      PROVE  Rank(LaterLayers[i]) < Rank(LaterLayers[j])
    <2>1. Rank(LaterLayers[1]) = 0
        BY <1>3, RankIs
    <2>2. \A p \in Packages :
              /\ Rank(LaterLayers[3 * p - 1]) = 4 * p + 1
              /\ Rank(LaterLayers[3 * p]) = 4 * p + 2
              /\ Rank(LaterLayers[3 * p + 1]) = 4 * p + 3
        BY <1>4, RankIs, PackagesAreNumbers
    <2>3. PICK q \in Packages : j \in {3 * q - 1, 3 * q, 3 * q + 1}
        BY <1>2, <1>5, <1>8
    <2>4. CASE i = 1
        <3>1. q \in Nat
            BY <1>1
        <3> QED
            BY <2>1, <2>2, <2>3, <2>4, <3>1
    <2>5. CASE i # 1
        <3>1. PICK p \in Packages : i \in {3 * p - 1, 3 * p, 3 * p + 1}
            BY <1>5, <2>5
        <3>2. p \in Nat /\ q \in Nat
            BY <1>1
        <3>3. /\ Rank(LaterLayers[i]) = 4 * p + 2 + (i - 3 * p)
              /\ Rank(LaterLayers[j]) = 4 * q + 2 + (j - 3 * q)
            BY <2>2, <2>3, <3>1, <3>2
        <3>4. p < q \/ p = q
            BY <1>8, <2>3, <3>1, <3>2
        <3>5. i - 3 * p \in {-1, 0, 1} /\ j - 3 * q \in {-1, 0, 1}
            BY <2>3, <3>1, <3>2
        <3> QED
            BY <1>8, <2>3, <3>1, <3>2, <3>3, <3>4, <3>5
    <2> QED
        BY <2>4, <2>5
<1> QED
    BY <1>3, <1>4, <1>5, <1>7, <1>8 DEF Ordered

LEMMA PushedInOrder ==
    ASSUME layers \in Seq(Names), NEW name \in Names, layers' = Append(layers, name),
           Ordered(layers), \A i \in DOMAIN layers : Rank(layers[i]) < Rank(name)
    PROVE  /\ Ordered(layers)'
           /\ \A i \in DOMAIN layers' : Rank(layers'[i]) \in Nat /\ Rank(layers'[i]) <= Rank(name)
<1>1. /\ DOMAIN layers = 1 .. Len(layers) /\ Len(layers) \in Nat
      /\ DOMAIN layers' = 1 .. Len(layers) + 1
      /\ \A i \in 1 .. Len(layers) : layers'[i] = layers[i]
      /\ layers'[Len(layers) + 1] = name
    OBVIOUS
<1>2. Rank(name) \in Nat /\ \A i \in 1 .. Len(layers) : Rank(layers[i]) \in Nat
    BY <1>1, RankIs
<1>3. \A i \in 1 .. Len(layers) + 1 : i = Len(layers) + 1 \/ i \in 1 .. Len(layers)
    BY <1>1
<1>4. ASSUME NEW i \in DOMAIN layers', NEW j \in DOMAIN layers', i < j
      PROVE  Rank(layers'[i]) < Rank(layers'[j])
    <2>1. i \in 1 .. Len(layers)
        BY <1>1, <1>4
    <2> QED
        BY <1>1, <1>3, <1>4, <2>1 DEF Ordered
<1> QED
    BY <1>1, <1>2, <1>3, <1>4 DEF Ordered

\* What has been pushed, and what later actions will find of it
Has(kind, p) == <<kind, p>> \in Range(layers)

Past(p) == pc \in {"postprocess", "done"} \/ (pc \in HookPhases \union {"install"} /\ p < n)

OrderInv ==
    /\ Ordered(layers)
    /\ n >= 1
    /\ pc = "install" => \A i \in DOMAIN layers : Rank(layers[i]) < 4 * n
    /\ pc \in {"preinst", "ran"} => \A i \in DOMAIN layers : Rank(layers[i]) <= 4 * n
    /\ pc \in {"mangle", "move", "vdb", "hide", "merge"} =>
           \A i \in DOMAIN layers : Rank(layers[i]) <= 4 * n + 1
    /\ pc \in {"postinst", "strip", "push"} =>
           \A i \in DOMAIN layers : Rank(layers[i]) <= 4 * n + 2

PushedInv ==
    /\ <<"base", 0>> \in Range(layers)
    /\ \A p \in Packages : Past(p) =>
           /\ Has("installed", p)
           /\ Has("preinst", p) <=> p \in input.hooks
           /\ Has("postinst", p) <=> p \in input.hooks
    /\ pc \in HookPhases => n \in input.hooks
    /\ pc \in HookPhases \ {"preinst", "ran"} => Has("preinst", n)
    /\ pc \in {"postinst", "strip", "push"} => Has("installed", n)

LEMMA InitOrder == Init => OrderInv /\ PushedInv
<1> SUFFICES ASSUME Init PROVE OrderInv /\ PushedInv
    OBVIOUS
<1>1. layers = << <<"base", 0>> >> /\ pc = "install" /\ n = 1
    BY DEF Init
<1>2. DOMAIN layers = {1} /\ layers[1] = <<"base", 0>>
    BY <1>1
<1>3. Rank(layers[1]) = 0
    BY <1>2, RankIs
<1>4. \A p \in Packages : ~Past(p)
    BY <1>1, PackagesAreNumbers DEF Past
<1> QED
    BY <1>1, <1>2, <1>3, <1>4 DEF OrderInv, PushedInv, Ordered, Range, HookPhases

LEMMA StepOrder == ShapeInv /\ OrderInv /\ [Next]_vars => OrderInv'
<1> SUFFICES ASSUME ShapeInv, OrderInv, [Next]_vars PROVE OrderInv'
    OBVIOUS
<1>1. /\ layers \in Seq(Names) /\ n \in Nat
      /\ pc \in HookPhases => n \in Packages
      /\ \A i \in DOMAIN layers : layers[i] \in Names
      /\ Ordered(layers)
    BY DEF ShapeInv, OrderInv
<1>2. \A i \in DOMAIN layers : Rank(layers[i]) \in Nat
    BY <1>1, RankIs
<1>3. CASE UNCHANGED vars
    BY <1>3 DEF vars, OrderInv, Ordered
<1>4. CASE SkipHooks
    <2>1. /\ pc = "install" /\ pc' = "install" /\ n' = n + 1 /\ n \in Packages
          /\ layers' = Append(layers, <<"installed", n>>)
        BY <1>4 DEF SkipHooks, Installing
    <2>2. Rank(<<"installed", n>>) = 4 * n + 2 /\ <<"installed", n>> \in Names
        BY <1>1, <2>1, RankIs, NamesOfPackages
    <2>3. \A i \in DOMAIN layers : Rank(layers[i]) < Rank(<<"installed", n>>)
        BY <1>1, <1>2, <2>1, <2>2 DEF OrderInv
    <2>4. /\ Ordered(layers)'
          /\ \A i \in DOMAIN layers' : Rank(layers'[i]) \in Nat /\ Rank(layers'[i]) <= 4 * n + 2
        <3> DEFINE name == <<"installed", n>>
        <3>1. layers' = Append(layers, name) /\ name \in Names
            BY <2>1, <2>2
        <3>2. \A i \in DOMAIN layers : Rank(layers[i]) < Rank(name)
            BY <2>3
        <3>3. Rank(name) = 4 * n + 2
            BY <2>2
        <3> HIDE DEF name
        <3> QED
            BY <1>1, <3>1, <3>2, <3>3, PushedInOrder
    <2>5. n' >= 1 /\ 4 * n' = 4 * n + 4
        BY <1>1, <2>1
    <2>6. ASSUME NEW i \in DOMAIN layers' PROVE Rank(layers'[i]) < 4 * n'
        BY <1>1, <2>4, <2>5
    <2> QED
        BY <2>1, <2>4, <2>5, <2>6 DEF OrderInv
<1>5. CASE PushStaged
    <2>1. /\ pc = "install" /\ pc' = "preinst" /\ n' = n /\ n \in Packages
          /\ layers' = Append(layers, <<"staged", n>>)
        BY <1>5 DEF PushStaged, Installing
    <2>2. Rank(<<"staged", n>>) = 4 * n /\ <<"staged", n>> \in Names
        BY <1>1, <2>1, RankIs, NamesOfPackages
    <2>3. \A i \in DOMAIN layers : Rank(layers[i]) < Rank(<<"staged", n>>)
        BY <2>1, <2>2 DEF OrderInv
    <2>4. /\ Ordered(layers)'
          /\ \A i \in DOMAIN layers' : Rank(layers'[i]) \in Nat /\ Rank(layers'[i]) <= 4 * n
        <3> DEFINE name == <<"staged", n>>
        <3>1. layers' = Append(layers, name) /\ name \in Names
            BY <2>1, <2>2
        <3>2. \A i \in DOMAIN layers : Rank(layers[i]) < Rank(name)
            BY <2>3
        <3>3. Rank(name) = 4 * n
            BY <2>2
        <3> HIDE DEF name
        <3> QED
            BY <1>1, <3>1, <3>2, <3>3, PushedInOrder
    <2> QED
        BY <2>1, <2>4 DEF OrderInv
<1>6. CASE PushPreinst
    <2>1. /\ pc = "ran" /\ pc' = "mangle" /\ n' = n /\ n \in Packages
          /\ layers' = Append(layers, <<"preinst", n>>)
        BY <1>1, <1>6 DEF PushPreinst, Goes, HookPhases
    <2>2. Rank(<<"preinst", n>>) = 4 * n + 1 /\ <<"preinst", n>> \in Names
        BY <1>1, <2>1, RankIs, NamesOfPackages
    <2>3. \A i \in DOMAIN layers : Rank(layers[i]) < Rank(<<"preinst", n>>)
        BY <1>1, <1>2, <2>1, <2>2 DEF OrderInv
    <2>4. /\ Ordered(layers)'
          /\ \A i \in DOMAIN layers' : Rank(layers'[i]) \in Nat /\ Rank(layers'[i]) <= 4 * n + 1
        <3> DEFINE name == <<"preinst", n>>
        <3>1. layers' = Append(layers, name) /\ name \in Names
            BY <2>1, <2>2
        <3>2. \A i \in DOMAIN layers : Rank(layers[i]) < Rank(name)
            BY <2>3
        <3>3. Rank(name) = 4 * n + 1
            BY <2>2
        <3> HIDE DEF name
        <3> QED
            BY <1>1, <3>1, <3>2, <3>3, PushedInOrder
    <2> QED
        BY <2>1, <2>4 DEF OrderInv
<1>7. CASE PushInstalled
    <2>1. /\ pc = "merge" /\ pc' = "postinst" /\ n' = n /\ n \in Packages
          /\ layers' = Append(layers, <<"installed", n>>)
        BY <1>1, <1>7 DEF PushInstalled, Goes, HookPhases
    <2>2. Rank(<<"installed", n>>) = 4 * n + 2 /\ <<"installed", n>> \in Names
        BY <1>1, <2>1, RankIs, NamesOfPackages
    <2>3. \A i \in DOMAIN layers : Rank(layers[i]) < Rank(<<"installed", n>>)
        BY <1>1, <1>2, <2>1, <2>2 DEF OrderInv
    <2>4. /\ Ordered(layers)'
          /\ \A i \in DOMAIN layers' : Rank(layers'[i]) \in Nat /\ Rank(layers'[i]) <= 4 * n + 2
        <3> DEFINE name == <<"installed", n>>
        <3>1. layers' = Append(layers, name) /\ name \in Names
            BY <2>1, <2>2
        <3>2. \A i \in DOMAIN layers : Rank(layers[i]) < Rank(name)
            BY <2>3
        <3>3. Rank(name) = 4 * n + 2
            BY <2>2
        <3> HIDE DEF name
        <3> QED
            BY <1>1, <3>1, <3>2, <3>3, PushedInOrder
    <2> QED
        BY <2>1, <2>4 DEF OrderInv
<1>8. CASE PushPostinst
    <2>1. /\ pc \in {"strip", "push"} /\ pc' = "install" /\ n' = n + 1 /\ n \in Packages
          /\ layers' = Append(layers, <<"postinst", n>>)
        BY <1>1, <1>8 DEF PushPostinst, HookPhases
    <2>2. Rank(<<"postinst", n>>) = 4 * n + 3 /\ <<"postinst", n>> \in Names
        BY <1>1, <2>1, RankIs, NamesOfPackages
    <2>3. \A i \in DOMAIN layers : Rank(layers[i]) < Rank(<<"postinst", n>>)
        BY <1>1, <1>2, <2>1, <2>2 DEF OrderInv
    <2>4. /\ Ordered(layers)'
          /\ \A i \in DOMAIN layers' : Rank(layers'[i]) \in Nat /\ Rank(layers'[i]) <= 4 * n + 3
        <3> DEFINE name == <<"postinst", n>>
        <3>1. layers' = Append(layers, name) /\ name \in Names
            BY <2>1, <2>2
        <3>2. \A i \in DOMAIN layers : Rank(layers[i]) < Rank(name)
            BY <2>3
        <3>3. Rank(name) = 4 * n + 3
            BY <2>2
        <3> HIDE DEF name
        <3> QED
            BY <1>1, <3>1, <3>2, <3>3, PushedInOrder
    <2>5. n' >= 1 /\ 4 * n' = 4 * n + 4
        BY <1>1, <2>1
    <2>6. ASSUME NEW i \in DOMAIN layers' PROVE Rank(layers'[i]) < 4 * n'
        BY <1>1, <2>4, <2>5
    <2> QED
        BY <2>1, <2>4, <2>5, <2>6 DEF OrderInv
<1>9. CASE RefuseHooks \/ Fails \/ EndInstall \/ Done
    BY <1>9 DEF RefuseHooks, Fails, EndInstall, Done, Goes, OrderInv, Ordered
<1>10. CASE Postprocess
    BY <1>1, <1>10 DEF Postprocess, OrderInv, Ordered
<1>11. CASE RunPreinst
    BY <1>11 DEF RunPreinst, Goes, OrderInv, Ordered
<1>12. CASE RecomputeContents \/ SkipImage \/ MoveImage
    BY <1>12 DEF RecomputeContents, SkipImage, MoveImage, Goes, OrderInv, Ordered
<1>13. CASE MoveVdb \/ HideImage
    BY <1>13 DEF MoveVdb, HideImage, Goes, OrderInv, Ordered
<1>14. CASE RunPostinst \/ StripVdb
    BY <1>14 DEF RunPostinst, StripVdb, Goes, OrderInv, Ordered
<1> QED
    BY <1>3, <1>4, <1>5, <1>6, <1>7, <1>8, <1>9, <1>10, <1>11, <1>12, <1>13, <1>14
       DEF Next, Progress

\* A push adds a name
LEMMA RangePushed ==
    ASSUME layers \in Seq(Names), NEW name \in Names, layers' = Append(layers, name)
    PROVE  Range(layers') = Range(layers) \union {name}
<1>1. /\ DOMAIN layers = 1 .. Len(layers) /\ Len(layers) \in Nat
      /\ DOMAIN layers' = 1 .. Len(layers) + 1
      /\ \A i \in 1 .. Len(layers) : layers'[i] = layers[i] /\ i \in 1 .. Len(layers) + 1
      /\ layers'[Len(layers) + 1] = name
      /\ Len(layers) + 1 \in 1 .. Len(layers) + 1
    OBVIOUS
<1>2. \A i \in 1 .. Len(layers) + 1 : i = Len(layers) + 1 \/ i \in 1 .. Len(layers)
    BY <1>1
<1> QED
    BY <1>1, <1>2 DEF Range

LEMMA HasPushed ==
    ASSUME layers \in Seq(Names), n \in Packages, NEW kind, <<kind, n>> \in Names,
           layers' = Append(layers, <<kind, n>>)
    PROVE  /\ \A k, p : Has(k, p)' <=> (Has(k, p) \/ (k = kind /\ p = n))
           /\ <<"base", 0>> \in Range(layers) => <<"base", 0>> \in Range(layers')
<1> DEFINE name == <<kind, n>>
<1>1. Range(layers') = Range(layers) \union {name}
    BY RangePushed
<1>2. \A k, p : <<k, p>> = name <=> k = kind /\ p = n
    OBVIOUS
<1> HIDE DEF name
<1> QED
    BY <1>1, <1>2 DEF Has

\* A package that has not begun has no output in a stack
LEMMA NotYet ==
    ASSUME ShapeInv, pc = "install", n \in Packages
    PROVE  \A kind : ~Has(kind, n)
<1>1. \A i \in DOMAIN layers : layers[i][2] < n
    BY DEF ShapeInv
<1>2. n \in Nat /\ \A kind : <<kind, n>>[2] = n
    BY PackagesAreNumbers
<1> QED
    BY <1>1, <1>2 DEF Has, Range

LEMMA NoOutputsYet ==
    ASSUME ShapeInv
    PROVE  /\ pc \in {"preinst", "ran"} => ~Has("preinst", n)
           /\ pc \in HookPhases => ~Has("postinst", n)
BY DEF ShapeInv, Has, Range

LEMMA StepPushed == ShapeInv /\ PushedInv /\ [Next]_vars => PushedInv'
<1> SUFFICES ASSUME ShapeInv, PushedInv, [Next]_vars PROVE PushedInv'
    OBVIOUS
<1>1. /\ layers \in Seq(Names) /\ n \in Nat
      /\ pc \in HookPhases => n \in Packages
    BY DEF ShapeInv
<1>2. ASSUME UNCHANGED layers PROVE \A k, p : Has(k, p)' <=> Has(k, p)
    BY <1>2 DEF Has
<1>3. CASE UNCHANGED vars
    BY <1>3 DEF vars, PushedInv, Past, Has
<1>4. CASE SkipHooks
    <2>1. /\ pc = "install" /\ pc' = "install" /\ n' = n + 1 /\ n \in Packages /\ input' = input
          /\ layers' = Append(layers, <<"installed", n>>) /\ n \notin input.hooks
        BY <1>4 DEF SkipHooks, Installing
    <2>2. /\ \A k, p : Has(k, p)' <=> (Has(k, p) \/ (k = "installed" /\ p = n))
          /\ <<"base", 0>> \in Range(layers')
        BY <1>1, <2>1, HasPushed, NamesOfPackages DEF PushedInv
    <2>3. \A p \in Packages : Past(p)' <=> Past(p) \/ p = n
        BY <1>1, <2>1, PackagesAreNumbers DEF Past
    <2>4. ~Has("preinst", n) /\ ~Has("postinst", n)
        BY <2>1, NotYet
    <2> QED
        BY <2>1, <2>2, <2>3, <2>4 DEF PushedInv, HookPhases
<1>5. CASE PushStaged
    <2>1. /\ pc = "install" /\ pc' = "preinst" /\ n' = n /\ n \in Packages /\ input' = input
          /\ layers' = Append(layers, <<"staged", n>>) /\ n \in input.hooks
        BY <1>5 DEF PushStaged, Installing
    <2>2. /\ \A k, p : Has(k, p)' <=> (Has(k, p) \/ (k = "staged" /\ p = n))
          /\ <<"base", 0>> \in Range(layers')
        BY <1>1, <2>1, HasPushed, NamesOfPackages DEF PushedInv
    <2>3. \A p \in Packages : Past(p)' <=> Past(p)
        BY <2>1 DEF Past, HookPhases
    <2> QED
        BY <2>1, <2>2, <2>3 DEF PushedInv, HookPhases
<1>6. CASE PushPreinst
    <2>1. /\ pc = "ran" /\ pc' = "mangle" /\ n' = n /\ n \in Packages /\ input' = input
          /\ layers' = Append(layers, <<"preinst", n>>)
        BY <1>1, <1>6 DEF PushPreinst, Goes, HookPhases
    <2>2. /\ \A k, p : Has(k, p)' <=> (Has(k, p) \/ (k = "preinst" /\ p = n))
          /\ <<"base", 0>> \in Range(layers')
        BY <1>1, <2>1, HasPushed, NamesOfPackages DEF PushedInv
    <2>3. \A p \in Packages : (Past(p)' <=> Past(p)) /\ (Past(p) => p # n)
        BY <2>1, PackagesAreNumbers DEF Past, HookPhases
    <2> QED
        BY <2>1, <2>2, <2>3 DEF PushedInv, HookPhases
<1>7. CASE PushInstalled
    <2>1. /\ pc = "merge" /\ pc' = "postinst" /\ n' = n /\ n \in Packages /\ input' = input
          /\ layers' = Append(layers, <<"installed", n>>)
        BY <1>1, <1>7 DEF PushInstalled, Goes, HookPhases
    <2>2. /\ \A k, p : Has(k, p)' <=> (Has(k, p) \/ (k = "installed" /\ p = n))
          /\ <<"base", 0>> \in Range(layers')
        BY <1>1, <2>1, HasPushed, NamesOfPackages DEF PushedInv
    <2>3. \A p \in Packages : (Past(p)' <=> Past(p)) /\ (Past(p) => p # n)
        BY <2>1, PackagesAreNumbers DEF Past, HookPhases
    <2> QED
        BY <2>1, <2>2, <2>3 DEF PushedInv, HookPhases
<1>8. CASE PushPostinst
    <2>1. /\ pc \in {"strip", "push"} /\ pc' = "install" /\ n' = n + 1 /\ n \in Packages
          /\ input' = input /\ layers' = Append(layers, <<"postinst", n>>)
        BY <1>1, <1>8 DEF PushPostinst, HookPhases
    <2>2. /\ \A k, p : Has(k, p)' <=> (Has(k, p) \/ (k = "postinst" /\ p = n))
          /\ <<"base", 0>> \in Range(layers')
        BY <1>1, <2>1, HasPushed, NamesOfPackages DEF PushedInv
    <2>3. \A p \in Packages : (Past(p)' <=> Past(p) \/ p = n) /\ (Past(p) => p # n)
        BY <1>1, <2>1, PackagesAreNumbers DEF Past, HookPhases
    <2>4. n \in input.hooks /\ Has("preinst", n) /\ Has("installed", n)
        BY <2>1 DEF PushedInv, HookPhases
    <2> QED
        BY <2>1, <2>2, <2>3, <2>4 DEF PushedInv, HookPhases
<1>9. CASE EndInstall
    <2>1. /\ pc = "install" /\ pc' = "postprocess" /\ n = Len(Ships) + 1
          /\ UNCHANGED <<input, layers>>
        BY <1>9 DEF EndInstall, Goes
    <2>2. \A p \in Packages : Past(p)
        BY <2>1, ShipsAssumption DEF Past, Packages
    <2> QED
        BY <1>2, <2>1, <2>2 DEF PushedInv, HookPhases
<1>10. CASE RefuseHooks \/ Fails
    <2>1. pc' = "failed" /\ UNCHANGED <<input, layers>>
        BY <1>10 DEF RefuseHooks, Fails
    <2> QED
        BY <1>2, <2>1 DEF PushedInv, Past, HookPhases
<1>11. CASE Postprocess \/ Done
    <2>1. pc = "postprocess" /\ pc' \in {"postprocess", "done"} /\ UNCHANGED <<input, layers>>
        BY <1>11 DEF Postprocess, Done, Goes
    <2> QED
        BY <1>2, <2>1 DEF PushedInv, Past, HookPhases
<1>12. CASE RunPreinst \/ RecomputeContents \/ SkipImage \/ MoveImage \/ MoveVdb \/ HideImage
            \/ RunPostinst \/ StripVdb
    <2>1. /\ UNCHANGED <<input, n, layers>> /\ {pc, pc'} \subseteq HookPhases
          /\ \/ {pc, pc'} \subseteq {"preinst", "ran"}
             \/ {pc, pc'} \subseteq {"mangle", "move", "vdb", "hide", "merge"}
             \/ {pc, pc'} \subseteq {"postinst", "strip", "push"}
        BY <1>12 DEF RunPreinst, RecomputeContents, SkipImage, MoveImage, MoveVdb, HideImage,
                     RunPostinst, StripVdb, Goes, HookPhases
    <2>2. \A p : Past(p)' <=> Past(p)
        BY <2>1 DEF Past, HookPhases
    <2> QED
        BY <1>2, <2>1, <2>2 DEF PushedInv, HookPhases
<1> QED
    BY <1>3, <1>4, <1>5, <1>6, <1>7, <1>8, <1>9, <1>10, <1>11, <1>12 DEF Next, Progress

\* What the outputs have of the VDB entries, and what of packages without hooks
ContentsOf(p) ==
    LET value == output[<<"postinst", p>>][Contents(p)]
    IN  IF input.sparse THEN value = Absent
        ELSE value = <<"list", image[p]>> \/ (value = Absent /\ image[p] = Shipped(p))

VdbInv ==
    /\ \A p, q \in Packages :
           /\ output[<<"preinst", p>>][Contents(q)] = Absent
           /\ p # q => output[<<"postinst", p>>][Contents(q)] = Absent
    /\ pc \in HookPhases => \A q \in Packages : q # n => upper[Contents(q)] = Absent
    /\ \A p \in Packages : p \notin input.hooks =>
           /\ image[p] = Shipped(p)
           /\ \A kind \in {"preinst", "postinst"} : \A x \in Paths : output[<<kind, p>>][x] = Absent
    /\ \A p \in Packages : p \in input.hooks /\ Past(p) => ContentsOf(p)
    /\ pc = "strip" => ContentsAt(Postinst[Contents(n)])
    /\ pc = "push" => input.sparse /\ Postinst[Contents(n)] = Absent

LEMMA InitVdb == Init => VdbInv
<1> SUFFICES ASSUME Init PROVE VdbInv
    OBVIOUS
<1>1. \A o \in Outputs : \A x \in Paths : output[o][x] = Absent
    BY DEF Init, Empty
<1>2. \A p \in Packages : /\ <<"preinst", p>> \in Outputs /\ <<"postinst", p>> \in Outputs
                          /\ ~Past(p)
                          /\ image[p] = Shipped(p)
    BY PackagesAreNumbers DEF Init, Outputs, Past
<1>3. \A p \in Packages : \A kind \in {"preinst", "postinst"} : <<kind, p>> \in Outputs
    BY <1>2
<1> QED
    BY <1>1, <1>2, <1>3, PathKinds DEF Init, VdbInv, HookPhases

LEMMA OutputNames ==
    \A p \in Packages : /\ <<"preinst", p>> \in Outputs
                        /\ <<"postinst", p>> \in Outputs
                        /\ \A q : <<"preinst", p>> # <<"postinst", q>>
                        /\ \A kind, q : q # p => <<kind, q>> \notin {<<"preinst", p>>, <<"postinst", p>>}
BY DEF Outputs

LEMMA OneOutput ==
    ASSUME ShapeInv, NEW at \in Outputs, NEW new, output' = [output EXCEPT ![at] = new]
    PROVE  /\ output'[at] = new
           /\ \A o \in Outputs : o # at => output'[o] = output[o]
<1>1. output = [o \in Outputs |-> output[o]]
    BY DEF ShapeInv
<1> QED
    BY <1>1

LEMMA ContentsKept ==
    ASSUME NEW who, NEW p \in Packages, NEW places, NEW c \in HookChanges(places, By(who, p)),
           NEW stack, NEW up, UNION places \subseteq ImageFiles \union RootFiles,
           NEW q \in Packages
    PROVE  Changed(stack, up, WithEnv(c, who, p))[Contents(q)] = up[Contents(q)]
<1>1. Env(p) \notin UNION places
    BY PathsDiffer
<1>2. DOMAIN c \subseteq UNION places
    BY <1>1, HookWrites
<1>3. Contents(q) \notin DOMAIN WithEnv(c, who, p)
    BY <1>2, PathsDiffer DEF WithEnv
<1>4. Contents(q) \in Paths /\ Contents(q) # Image
    BY PathKinds, PathsDiffer
<1> QED
    BY <1>3, <1>4 DEF Changed

\* What each step that writes leaves in the VDB entries
LEMMA PreinstVdb ==
    ASSUME ShapeInv, ImageInv, RunPreinst
    PROVE  /\ n \in Packages
           /\ \A o \in Outputs : o # <<"preinst", n>> => output'[o] = output[o]
           /\ \A q \in Packages : output'[<<"preinst", n>>][Contents(q)] = Absent
           /\ \A q \in Packages : q # n => image'[q] = image[q]
<1>1. /\ n \in Packages /\ upper = Empty
      /\ image = [p \in Packages |-> image[p]]
    BY DEF RunPreinst, Goes, ShapeInv, ImageInv, HookPhases
<1> DEFINE places == {{InImage(f), InRoot(f)} : f \in Files}
           after(c) == Changed(Stack(layers), upper, WithEnv(c, "preinst", n))
<1>2. PICK c \in HookChanges(places, By("preinst", n)) :
          /\ output' = [output EXCEPT ![<<"preinst", n>>] = after(c)]
          /\ image' = [image EXCEPT ![n] = SeenImage(Append(Stack(layers), after(c)))]
    BY DEF RunPreinst
<1>3. UNION places \subseteq ImageFiles \union RootFiles
    BY PathKinds
<1> DEFINE A == after(c)
<1>4. \A q \in Packages : A[Contents(q)] = Absent
    <2> HIDE DEF places
    <2> SUFFICES ASSUME NEW q \in Packages PROVE A[Contents(q)] = Absent
        OBVIOUS
    <2>1. A[Contents(q)] = upper[Contents(q)]
        BY <1>1, <1>2, <1>3, ContentsKept
    <2> QED
        BY <1>1, <2>1, PathKinds DEF Empty
<1>5. output' = [output EXCEPT ![<<"preinst", n>>] = A]
    BY <1>2
<1> HIDE DEF A, places
<1>6. \A q \in Packages : q # n => image'[q] = image[q]
    BY <1>1, <1>2
<1>7. /\ output'[<<"preinst", n>>] = A
      /\ \A o \in Outputs : o # <<"preinst", n>> => output'[o] = output[o]
    BY <1>1, <1>5, OneOutput, OutputNames
<1> QED
    BY <1>1, <1>4, <1>6, <1>7

LEMMA PostinstVdb ==
    ASSUME ShapeInv, RunPostinst
    PROVE  /\ n \in Packages
           /\ \A o \in Outputs : o # <<"postinst", n>> => output'[o] = output[o]
           /\ \A q \in Packages : Postinst'[Contents(q)] = upper[Contents(q)]
<1>1. n \in Packages /\ n' = n
    BY DEF RunPostinst, Goes, ShapeInv, HookPhases
<1> DEFINE places == {{x} : x \in RootFiles}
           after(c) == Changed(Stack(layers), upper, WithEnv(c, "postinst", n))
<1>2. PICK c \in HookChanges(places, By("postinst", n)) :
          output' = [output EXCEPT ![<<"postinst", n>>] = after(c)]
    BY DEF RunPostinst
<1>3. UNION places \subseteq ImageFiles \union RootFiles
    OBVIOUS
<1> DEFINE A == after(c)
<1>4. \A q \in Packages : A[Contents(q)] = upper[Contents(q)]
    <2> HIDE DEF places
    <2> QED
        BY <1>1, <1>2, <1>3, ContentsKept
<1>5. output' = [output EXCEPT ![<<"postinst", n>>] = A]
    BY <1>2
<1> HIDE DEF A, places
<1>6. /\ output'[<<"postinst", n>>] = A
      /\ \A o \in Outputs : o # <<"postinst", n>> => output'[o] = output[o]
    BY <1>1, <1>5, OneOutput, OutputNames
<1> QED
    BY <1>1, <1>4, <1>6 DEF Postinst

LEMMA MovesVdb ==
    ASSUME ShapeInv, MoveImage \/ MoveVdb
    PROVE  /\ n \in Packages
           /\ \A o \in Outputs : o # <<"preinst", n>> => output'[o] = output[o]
           /\ \A x \in Paths : output'[<<"preinst", n>>][x] \in {output[<<"preinst", n>>][x], Absent}
<1>1. n \in Packages
    BY DEF MoveImage, MoveVdb, Goes, ShapeInv, HookPhases
<1>2. PICK paths : output' = [output EXCEPT ![<<"preinst", n>>] = Without(@, paths)]
    BY DEF MoveImage, MoveVdb
<1> DEFINE new == Without(output[<<"preinst", n>>], paths)
<1>3. \A x \in Paths : new[x] \in {output[<<"preinst", n>>][x], Absent}
    BY DEF Without
<1>4. output' = [output EXCEPT ![<<"preinst", n>>] = new]
    BY <1>2
<1> HIDE DEF new
<1> QED
    BY <1>1, <1>3, <1>4, OneOutput, OutputNames

\* Nothing that VdbInv is about has changed
LEMMA VdbKept ==
    ASSUME ShapeInv, VdbInv, UNCHANGED <<input, output, image>>
    PROVE  /\ \A p, q \in Packages :
                  /\ output'[<<"preinst", p>>][Contents(q)] = Absent
                  /\ p # q => output'[<<"postinst", p>>][Contents(q)] = Absent
           /\ \A p \in Packages : p \notin input'.hooks =>
                  /\ image'[p] = Shipped(p)'
                  /\ \A kind \in {"preinst", "postinst"} :
                         \A x \in Paths : output'[<<kind, p>>][x] = Absent
           /\ \A p \in Packages : ContentsOf(p)' <=> ContentsOf(p)
BY DEF VdbInv, ContentsOf, Shipped

\* A step that writes outputs of the package that is being installed only
LEMMA OthersKept ==
    ASSUME VdbInv, input' = input, n \in Packages, n \in input.hooks,
           \A p \in Packages : p # n =>
               /\ image'[p] = image[p]
               /\ output'[<<"preinst", p>>] = output[<<"preinst", p>>]
               /\ output'[<<"postinst", p>>] = output[<<"postinst", p>>]
    PROVE  /\ \A p \in Packages : p \notin input'.hooks =>
                  /\ image'[p] = Shipped(p)'
                  /\ \A kind \in {"preinst", "postinst"} :
                         \A x \in Paths : output'[<<kind, p>>][x] = Absent
           /\ \A p \in Packages : p # n => (ContentsOf(p)' <=> ContentsOf(p))
           /\ \A p, q \in Packages : p # n =>
                  /\ output'[<<"preinst", p>>][Contents(q)] = Absent
                  /\ p # q => output'[<<"postinst", p>>][Contents(q)] = Absent
<1>1. \A p \in Packages : Shipped(p)' = Shipped(p)
    BY DEF Shipped
<1>2. \A p \in Packages : p \notin input'.hooks =>
          /\ image'[p] = Shipped(p)'
          /\ \A kind \in {"preinst", "postinst"} :
                 \A x \in Paths : output'[<<kind, p>>][x] = Absent
    <2> SUFFICES ASSUME NEW p \in Packages, p \notin input.hooks
                 PROVE  /\ image'[p] = Shipped(p)
                        /\ \A kind \in {"preinst", "postinst"} :
                               \A x \in Paths : output'[<<kind, p>>][x] = Absent
        BY <1>1
    <2>1. \A kind \in {"preinst", "postinst"} : output'[<<kind, p>>] = output[<<kind, p>>]
        OBVIOUS
    <2> QED
        BY <2>1 DEF VdbInv
<1>3. \A p \in Packages : p # n => (ContentsOf(p)' <=> ContentsOf(p))
    BY <1>1 DEF ContentsOf
<1> QED
    BY <1>2, <1>3 DEF VdbInv

LEMMA StepVdb == ShapeInv /\ ImageInv /\ PushedInv /\ VdbInv /\ [Next]_vars => VdbInv'
<1> SUFFICES ASSUME ShapeInv, ImageInv, PushedInv, VdbInv, [Next]_vars PROVE VdbInv'
    OBVIOUS
<1>1. /\ n \in Nat
      /\ pc \in HookPhases => n \in Packages /\ n \in input.hooks
      /\ pc \in HookPhases => \A p \in Packages : Past(p) => p # n
    BY PackagesAreNumbers DEF ShapeInv, PushedInv, Past, HookPhases
<1>2. CASE UNCHANGED vars
    <2>1. ContentsAt(Postinst[Contents(n)])' <=> ContentsAt(Postinst[Contents(n)])
        BY <1>2 DEF vars, ContentsAt, Postinst, Shipped
    <2>2. \A p : Past(p)' <=> Past(p)
        BY <1>2 DEF vars, Past
    <2> QED
        BY <1>2, <2>1, <2>2, VdbKept DEF vars, VdbInv, Postinst
<1>3. CASE SkipHooks
    <2>1. /\ pc = "install" /\ pc' = "install" /\ n' = n + 1 /\ n \in Packages
          /\ UNCHANGED <<input, output, image>> /\ n \notin input.hooks
        BY <1>3 DEF SkipHooks, Installing
    <2>2. \A p \in Packages : Past(p)' <=> Past(p) \/ p = n
        BY <1>1, <2>1, PackagesAreNumbers DEF Past
    <2> QED
        BY <2>1, <2>2, VdbKept DEF VdbInv, HookPhases
<1>4. CASE PushStaged
    <2>1. /\ pc = "install" /\ pc' = "preinst" /\ n' = n /\ upper' = Empty
          /\ UNCHANGED <<input, output, image>>
        BY <1>4 DEF PushStaged, Installing
    <2>2. \A p \in Packages : Past(p)' <=> Past(p)
        BY <2>1 DEF Past, HookPhases
    <2>3. \A q \in Packages : upper'[Contents(q)] = Absent
        BY <2>1, PathKinds DEF Empty
    <2> QED
        BY <2>1, <2>2, <2>3, VdbKept DEF VdbInv, HookPhases
<1>5. CASE RefuseHooks \/ Fails
    <2>1. pc' = "failed" /\ UNCHANGED <<input, output, image>>
        BY <1>5 DEF RefuseHooks, Fails
    <2> QED
        BY <2>1, VdbKept DEF VdbInv, HookPhases, Past
<1>6. CASE RunPreinst
    <2>1. /\ pc = "preinst" /\ pc' = "ran" /\ n' = n /\ input' = input /\ upper' = Empty
        BY <1>6 DEF RunPreinst, Goes
    <2>2. /\ n \in Packages
          /\ \A o \in Outputs : o # <<"preinst", n>> => output'[o] = output[o]
          /\ \A q \in Packages : output'[<<"preinst", n>>][Contents(q)] = Absent
          /\ \A q \in Packages : q # n => image'[q] = image[q]
        BY <1>6, PreinstVdb
    <2>3. \A p \in Packages : (Past(p)' <=> Past(p)) /\ (Past(p) => p # n)
        BY <1>1, <2>1 DEF Past, HookPhases
    <2>4. \A q \in Packages : upper'[Contents(q)] = Absent
        BY <2>1, PathKinds DEF Empty
    <2>5. \A p \in Packages :
              /\ output'[<<"postinst", p>>] = output[<<"postinst", p>>]
              /\ p # n => output'[<<"preinst", p>>] = output[<<"preinst", p>>]
        BY <2>2, OutputNames
    <2>6. n \in input.hooks
        BY <1>1, <2>1 DEF HookPhases
    <2>7. /\ \A p \in Packages : p \notin input'.hooks =>
                  /\ image'[p] = Shipped(p)'
                  /\ \A kind \in {"preinst", "postinst"} :
                         \A x \in Paths : output'[<<kind, p>>][x] = Absent
          /\ \A p \in Packages : p # n => (ContentsOf(p)' <=> ContentsOf(p))
        BY <2>1, <2>2, <2>5, <2>6, OthersKept
    <2>8. \A p, q \in Packages :
              /\ output'[<<"preinst", p>>][Contents(q)] = Absent
              /\ p # q => output'[<<"postinst", p>>][Contents(q)] = Absent
        <3>1. \A q \in Packages :
                  /\ output'[<<"preinst", n>>][Contents(q)] = Absent
                  /\ q # n => output'[<<"postinst", n>>][Contents(q)] = Absent
            BY <2>2, <2>5 DEF VdbInv
        <3>2. \A p, q \in Packages : p # n =>
                  /\ output'[<<"preinst", p>>][Contents(q)] = Absent
                  /\ p # q => output'[<<"postinst", p>>][Contents(q)] = Absent
            BY <2>1, <2>2, <2>5, <2>6, OthersKept
        <3> QED
            BY <3>1, <3>2
    <2>9. \A p \in Packages : p \in input'.hooks /\ Past(p)' => ContentsOf(p)'
        BY <2>1, <2>3, <2>7 DEF VdbInv
    <2> QED
        BY <2>1, <2>4, <2>7, <2>8, <2>9 DEF VdbInv
<1>7. CASE PushPreinst \/ RecomputeContents \/ SkipImage
    <2>1. /\ {pc, pc'} \subseteq HookPhases /\ pc' \notin {"strip", "push"}
          /\ UNCHANGED <<input, n, output, upper, image>>
        BY <1>7 DEF PushPreinst, RecomputeContents, SkipImage, Goes, HookPhases
    <2>2. \A p \in Packages : Past(p)' <=> Past(p)
        BY <2>1 DEF Past, HookPhases
    <2> QED
        BY <2>1, <2>2, VdbKept DEF VdbInv
<1>8. CASE MoveImage \/ MoveVdb
    <2>1. /\ {pc, pc'} \subseteq HookPhases /\ pc' \notin {"strip", "push"}
          /\ UNCHANGED <<input, n, image>>
        BY <1>8 DEF MoveImage, MoveVdb, Goes, HookPhases
    <2>2. /\ n \in Packages
          /\ \A o \in Outputs : o # <<"preinst", n>> => output'[o] = output[o]
          /\ \A x \in Paths : output'[<<"preinst", n>>][x] \in {output[<<"preinst", n>>][x], Absent}
        BY <1>8, MovesVdb
    <2>3. \A q \in Packages : q # n => upper'[Contents(q)] = Absent
        <3>1. \A q \in Packages : Contents(q) \in Paths /\ Contents(q) \notin RootFiles
            BY PathKinds, PathsDiffer
        <3>2. CASE MoveImage
            BY <3>1, <3>2 DEF MoveImage, ImageAsRoot
        <3>3. CASE MoveVdb
            <4>1. \A q \in Packages : q # n => Contents(q) \notin Vdb(n) /\ Contents(q) # Contents(n)
                BY DEF Vdb, Contents, Env
            <4>2. \A q \in Packages : q # n => upper'[Contents(q)] = upper[Contents(q)]
                BY <3>1, <3>3, <4>1 DEF MoveVdb
            <4> QED
                BY <2>1, <4>2 DEF VdbInv
        <3> QED
            BY <1>8, <3>2, <3>3
    <2>4. \A p \in Packages : Past(p)' <=> Past(p)
        BY <2>1 DEF Past, HookPhases
    <2>5. \A p \in Packages :
              /\ output'[<<"postinst", p>>] = output[<<"postinst", p>>]
              /\ p # n => output'[<<"preinst", p>>] = output[<<"preinst", p>>]
        BY <2>2, OutputNames
    <2>6. n \in input.hooks
        BY <1>1, <2>1
    <2>7. \A p \in Packages : p \notin input'.hooks =>
              /\ image'[p] = Shipped(p)'
              /\ \A kind \in {"preinst", "postinst"} :
                     \A x \in Paths : output'[<<kind, p>>][x] = Absent
        BY <2>1, <2>2, <2>5, <2>6, OthersKept
    <2>8. \A p, q \in Packages :
              /\ output'[<<"preinst", p>>][Contents(q)] = Absent
              /\ p # q => output'[<<"postinst", p>>][Contents(q)] = Absent
        <3>1. \A q \in Packages :
                  /\ output'[<<"preinst", n>>][Contents(q)] = Absent
                  /\ q # n => output'[<<"postinst", n>>][Contents(q)] = Absent
            BY <2>2, <2>5, PathKinds DEF VdbInv
        <3>2. \A p, q \in Packages : p # n =>
                  /\ output'[<<"preinst", p>>][Contents(q)] = Absent
                  /\ p # q => output'[<<"postinst", p>>][Contents(q)] = Absent
            BY <2>1, <2>2, <2>5, <2>6, OthersKept
        <3> QED
            BY <3>1, <3>2
    <2>9. \A p \in Packages : ContentsOf(p)' <=> ContentsOf(p)
        BY <2>1, <2>5 DEF ContentsOf, Shipped
    <2>10. \A p \in Packages : p \in input'.hooks /\ Past(p)' => ContentsOf(p)'
        BY <2>1, <2>4, <2>9 DEF VdbInv
    <2> QED
        BY <2>1, <2>3, <2>7, <2>8, <2>10 DEF VdbInv
<1>9. CASE HideImage \/ PushInstalled
    <2>1. /\ {pc, pc'} \subseteq HookPhases /\ pc' \notin {"strip", "push"}
          /\ UNCHANGED <<input, n, output, image>>
          /\ \A x \in Paths : x # Image => upper'[x] = upper[x]
        BY <1>9 DEF HideImage, PushInstalled, Goes, HookPhases, ShapeInv
    <2>2. \A p \in Packages : Past(p)' <=> Past(p)
        BY <2>1 DEF Past, HookPhases
    <2>3. \A q \in Packages : Contents(q) \in Paths /\ Contents(q) # Image
        BY PathKinds, PathsDiffer
    <2>4. \A q \in Packages : q # n => upper'[Contents(q)] = Absent
        BY <2>1, <2>3 DEF VdbInv
    <2> QED
        BY <2>1, <2>2, <2>4, VdbKept DEF VdbInv
<1>10. CASE RunPostinst
    <2>1. /\ pc = "postinst" /\ pc' = "strip" /\ upper' = Empty
          /\ UNCHANGED <<input, n, image>>
        BY <1>10 DEF RunPostinst, Goes
    <2>2. /\ n \in Packages
          /\ \A o \in Outputs : o # <<"postinst", n>> => output'[o] = output[o]
          /\ \A q \in Packages : Postinst'[Contents(q)] = upper[Contents(q)]
        BY <1>10, PostinstVdb
    <2>3. \A p \in Packages : (Past(p)' <=> Past(p)) /\ (Past(p) => p # n)
        BY <1>1, <2>1 DEF Past, HookPhases
    <2>4. \A q \in Packages : upper'[Contents(q)] = Absent
        BY <2>1, PathKinds DEF Empty
    <2>5. \A p \in Packages :
              /\ output'[<<"preinst", p>>] = output[<<"preinst", p>>]
              /\ p # n => output'[<<"postinst", p>>] = output[<<"postinst", p>>]
        BY <2>2, OutputNames
    <2>6. n \in input.hooks
        BY <1>1, <2>1 DEF HookPhases
    <2>7. /\ \A p \in Packages : p \notin input'.hooks =>
                 /\ image'[p] = Shipped(p)'
                 /\ \A kind \in {"preinst", "postinst"} :
                        \A x \in Paths : output'[<<kind, p>>][x] = Absent
          /\ \A p \in Packages : p # n => (ContentsOf(p)' <=> ContentsOf(p))
        BY <2>1, <2>2, <2>5, <2>6, OthersKept
    <2>8. \A p, q \in Packages :
              /\ output'[<<"preinst", p>>][Contents(q)] = Absent
              /\ p # q => output'[<<"postinst", p>>][Contents(q)] = Absent
        <3>1. \A q \in Packages :
                  /\ output'[<<"preinst", n>>][Contents(q)] = Absent
                  /\ q # n => output'[<<"postinst", n>>][Contents(q)] = Absent
            BY <2>1, <2>2, <2>5 DEF VdbInv, Postinst, HookPhases
        <3>2. \A p, q \in Packages : p # n =>
                  /\ output'[<<"preinst", p>>][Contents(q)] = Absent
                  /\ p # q => output'[<<"postinst", p>>][Contents(q)] = Absent
            BY <2>1, <2>2, <2>5, <2>6, OthersKept
        <3> QED
            BY <3>1, <3>2
    <2>9. \A p \in Packages : p \in input'.hooks /\ Past(p)' => ContentsOf(p)'
        BY <2>1, <2>3, <2>7 DEF VdbInv
    <2>10. ContentsAt(Postinst[Contents(n)])'
        <3>1. ContentsAt(upper[Contents(n)])
            BY <2>1 DEF ImageInv
        <3> QED
            BY <2>1, <2>2, <3>1 DEF ContentsAt, Shipped
    <2> QED
        BY <2>1, <2>4, <2>7, <2>8, <2>9, <2>10 DEF VdbInv
<1>11. CASE StripVdb
    <2>1. /\ pc = "strip" /\ pc' = "push" /\ input.sparse
          /\ UNCHANGED <<input, n, upper, image>> /\ n \in Packages
          /\ output' = [output EXCEPT ![<<"postinst", n>>] = Without(@, Vdb(n))]
        BY <1>1, <1>11 DEF StripVdb, Goes, HookPhases
    <2> DEFINE new == Without(output[<<"postinst", n>>], Vdb(n))
    <2>2. \A q \in Packages : new[Contents(q)] \in {output[<<"postinst", n>>][Contents(q)], Absent}
        BY PathKinds DEF Without
    <2>3. new[Contents(n)] = Absent
        BY <2>1, PathKinds DEF Without, Vdb
    <2>4. output' = [output EXCEPT ![<<"postinst", n>>] = new]
        BY <2>1
    <2> HIDE DEF new
    <2>5. /\ output'[<<"postinst", n>>] = new
          /\ \A o \in Outputs : o # <<"postinst", n>> => output'[o] = output[o]
        <3>1. <<"postinst", n>> \in Outputs
            BY <2>1, OutputNames
        <3> QED
            BY <2>4, <3>1, OneOutput
    <2>6. \A p \in Packages : (Past(p)' <=> Past(p)) /\ (Past(p) => p # n)
        BY <1>1, <2>1 DEF Past, HookPhases
    <2>7. \A p \in Packages :
              /\ output'[<<"preinst", p>>] = output[<<"preinst", p>>]
              /\ p # n => output'[<<"postinst", p>>] = output[<<"postinst", p>>]
        BY <2>1, <2>5, OutputNames
    <2>8. n \in input.hooks
        BY <1>1, <2>1 DEF HookPhases
    <2>9. /\ \A p \in Packages : p \notin input'.hooks =>
                 /\ image'[p] = Shipped(p)'
                 /\ \A kind \in {"preinst", "postinst"} :
                        \A x \in Paths : output'[<<kind, p>>][x] = Absent
          /\ \A p \in Packages : p # n => (ContentsOf(p)' <=> ContentsOf(p))
        BY <2>1, <2>7, <2>8, OthersKept
    <2>10. \A p, q \in Packages :
              /\ output'[<<"preinst", p>>][Contents(q)] = Absent
              /\ p # q => output'[<<"postinst", p>>][Contents(q)] = Absent
        <3>1. \A q \in Packages :
                  /\ output'[<<"preinst", n>>][Contents(q)] = Absent
                  /\ q # n => output'[<<"postinst", n>>][Contents(q)] = Absent
            BY <2>1, <2>2, <2>5, <2>7 DEF VdbInv
        <3>2. \A p, q \in Packages : p # n =>
                  /\ output'[<<"preinst", p>>][Contents(q)] = Absent
                  /\ p # q => output'[<<"postinst", p>>][Contents(q)] = Absent
            BY <2>1, <2>7, <2>8, OthersKept
        <3> QED
            BY <3>1, <3>2
    <2>11. \A p \in Packages : p \in input'.hooks /\ Past(p)' => ContentsOf(p)'
        BY <2>1, <2>6, <2>9 DEF VdbInv
    <2>12. Postinst'[Contents(n)] = Absent
        BY <2>1, <2>3, <2>5 DEF Postinst
    <2> QED
        BY <2>1, <2>9, <2>10, <2>11, <2>12 DEF VdbInv, HookPhases
<1>12. CASE PushPostinst
    <2>1. /\ pc = "push" \/ (pc = "strip" /\ ~input.sparse)
          /\ pc' = "install" /\ n' = n + 1 /\ n \in Packages
          /\ UNCHANGED <<input, output, image>>
        BY <1>1, <1>12 DEF PushPostinst, HookPhases
    <2>2. \A p \in Packages : Past(p)' <=> Past(p) \/ p = n
        BY <1>1, <2>1, PackagesAreNumbers DEF Past, HookPhases
    <2>3. ContentsOf(n)
        BY <2>1 DEF VdbInv, ContentsOf, ContentsAt, Postinst
    <2>4. \A p \in Packages : p \in input'.hooks /\ Past(p)' => ContentsOf(p)'
        BY <2>1, <2>2, <2>3, VdbKept DEF VdbInv
    <2> QED
        BY <2>1, <2>4, VdbKept DEF VdbInv, HookPhases
<1>13. CASE EndInstall \/ Done
    <2>1. /\ pc \in {"install", "postprocess"} /\ pc' \in {"postprocess", "done"}
          /\ UNCHANGED <<input, output, image>>
          /\ pc = "install" => n = Len(Ships) + 1
        BY <1>13 DEF EndInstall, Done, Goes
    <2>2. \A p \in Packages : Past(p)
        BY <2>1, ShipsAssumption DEF Past, Packages
    <2> QED
        BY <2>1, <2>2, VdbKept DEF VdbInv, HookPhases
<1>14. CASE Postprocess
    <2>1. pc = "postprocess" /\ pc' = "postprocess" /\ UNCHANGED <<input, image>>
        BY <1>14 DEF Postprocess
    <2>2. \A q \in Packages : /\ Contents(q) \in Paths /\ Contents(q) # Image
                             /\ \A p : Contents(q) # Env(p)
        BY PathKinds, PathsDiffer
    <2>3. \A o \in Outputs :
              /\ \A q \in Packages : output'[o][Contents(q)] = output[o][Contents(q)]
              /\ \A x \in Paths : output'[o][x] \in {output[o][x], Absent}
        BY <1>14, <2>2, Processed
    <2>4. \A p \in Packages : <<"preinst", p>> \in Outputs /\ <<"postinst", p>> \in Outputs
        BY OutputNames
    <2>5. \A p, q \in Packages :
              /\ output'[<<"preinst", p>>][Contents(q)] = Absent
              /\ p # q => output'[<<"postinst", p>>][Contents(q)] = Absent
        <3> SUFFICES ASSUME NEW p \in Packages, NEW q \in Packages
                     PROVE  /\ output'[<<"preinst", p>>][Contents(q)] = Absent
                            /\ p # q => output'[<<"postinst", p>>][Contents(q)] = Absent
            OBVIOUS
        <3>1. /\ output'[<<"preinst", p>>][Contents(q)] = output[<<"preinst", p>>][Contents(q)]
              /\ output'[<<"postinst", p>>][Contents(q)] = output[<<"postinst", p>>][Contents(q)]
            BY <2>3, <2>4
        <3> QED
            BY <3>1 DEF VdbInv
    <2>6. \A p \in Packages : p \notin input'.hooks =>
              /\ image'[p] = Shipped(p)'
              /\ \A kind \in {"preinst", "postinst"} :
                     \A x \in Paths : output'[<<kind, p>>][x] = Absent
        <3> SUFFICES ASSUME NEW p \in Packages, p \notin input.hooks
                     PROVE  /\ image[p] = Shipped(p)
                            /\ \A kind \in {"preinst", "postinst"} :
                                   \A x \in Paths : output'[<<kind, p>>][x] = Absent
            BY <2>1 DEF Shipped
        <3>1. \A kind \in {"preinst", "postinst"} : <<kind, p>> \in Outputs
            BY <2>4
        <3> QED
            BY <2>3, <3>1 DEF VdbInv
    <2>7. \A p \in Packages : ContentsOf(p)' <=> ContentsOf(p)
        BY <2>1, <2>3, <2>4 DEF ContentsOf, Shipped
    <2>8. \A p \in Packages : p \in input'.hooks /\ Past(p)' => ContentsOf(p)'
        BY <2>1, <2>7 DEF VdbInv, Past
    <2> QED
        BY <2>1, <2>5, <2>6, <2>8 DEF VdbInv, HookPhases
<1> QED
    BY <1>2, <1>3, <1>4, <1>5, <1>6, <1>7, <1>8, <1>9, <1>10, <1>11, <1>12, <1>13, <1>14
       DEF Next, Progress

\* No output that has been processed has anything at /.image
ProcessedInv ==
    pc \in {"postprocess", "done"} =>
        /\ n \in 1 .. 2 * Len(Ships) + 1
        /\ \A p \in Packages :
               /\ 2 * p - 1 < n => output[<<"preinst", p>>][Image] = Absent
               /\ 2 * p < n => output[<<"postinst", p>>][Image] = Absent

LEMMA OutputAtIs ==
    \A p \in Packages : \A k \in Nat :
        /\ k = 2 * p - 1 => OutputAt(k) = <<"preinst", p>>
        /\ k = 2 * p => OutputAt(k) = <<"postinst", p>>
<1> SUFFICES ASSUME NEW p \in Packages
             PROVE  /\ OutputAt(2 * p - 1) = <<"preinst", p>>
                    /\ OutputAt(2 * p) = <<"postinst", p>>
    OBVIOUS
<1>1. /\ (2 * p - 1) % 2 = 1 /\ ((2 * p - 1) + 1) \div 2 = p
      /\ (2 * p) % 2 = 0 /\ (2 * p + 1) \div 2 = p
    BY PackagesAreNumbers
<1> QED
    BY <1>1 DEF OutputAt

LEMMA StepProcessed == ShapeInv /\ ProcessedInv /\ [Next]_vars => ProcessedInv'
<1> SUFFICES ASSUME ShapeInv, ProcessedInv, [Next]_vars PROVE ProcessedInv'
    OBVIOUS
<1>1. CASE Postprocess
    <2>1. /\ pc = "postprocess" /\ n <= 2 * Len(Ships) /\ n' = n + 1 /\ Len(Ships) \in Nat
          /\ n \in 1 .. 2 * Len(Ships) + 1
        BY <1>1, ShipsAssumption DEF Postprocess, ProcessedInv
    <2>2. n' \in 1 .. 2 * Len(Ships) + 1
        BY <2>1
    <2>3. ASSUME NEW p \in Packages
          PROVE  /\ 2 * p - 1 < n' => output'[<<"preinst", p>>][Image] = Absent
                 /\ 2 * p < n' => output'[<<"postinst", p>>][Image] = Absent
        <3>1. p \in Nat /\ n \in Nat
            BY <2>1, PackagesAreNumbers
        <3>2. \A o \in Outputs : /\ o = OutputAt(n) => output'[o][Image] = Absent
                                 /\ output'[o][Image] \in {output[o][Image], Absent}
            BY <1>1, Processed, PathKinds
        <3>3. <<"preinst", p>> \in Outputs /\ <<"postinst", p>> \in Outputs
            BY OutputNames
        <3>4. /\ 2 * p - 1 = n => output'[<<"preinst", p>>][Image] = Absent
              /\ 2 * p = n => output'[<<"postinst", p>>][Image] = Absent
            BY <3>1, <3>2, <3>3, OutputAtIs
        <3>5. /\ 2 * p - 1 < n => output'[<<"preinst", p>>][Image] = Absent
              /\ 2 * p < n => output'[<<"postinst", p>>][Image] = Absent
            BY <2>1, <3>2, <3>3 DEF ProcessedInv
        <3>6. /\ 2 * p - 1 < n' => 2 * p - 1 = n \/ 2 * p - 1 < n
              /\ 2 * p < n' => 2 * p = n \/ 2 * p < n
            BY <2>1, <3>1
        <3> QED
            BY <3>4, <3>5, <3>6
    <2> QED
        BY <2>2, <2>3 DEF ProcessedInv
<1>2. CASE EndInstall
    <2>1. n' = 1 /\ Len(Ships) \in Nat
        BY <1>2, ShipsAssumption DEF EndInstall
    <2>2. \A p \in Packages : ~(2 * p - 1 < 1) /\ ~(2 * p < 1)
        BY PackagesAreNumbers
    <2> QED
        BY <2>1, <2>2 DEF ProcessedInv
<1>3. CASE Done \/ UNCHANGED vars
    BY <1>3 DEF Done, Goes, vars, ProcessedInv
<1>4. CASE \/ SkipHooks \/ RefuseHooks \/ PushStaged \/ RunPreinst \/ PushPreinst
           \/ RecomputeContents \/ SkipImage \/ MoveImage \/ MoveVdb \/ HideImage
           \/ PushInstalled \/ RunPostinst \/ StripVdb \/ PushPostinst \/ Fails
    <2>1. pc' \notin {"postprocess", "done"}
        BY <1>4 DEF SkipHooks, Installing, RefuseHooks, PushStaged, RunPreinst, PushPreinst,
                    RecomputeContents, SkipImage, MoveImage, MoveVdb, HideImage, PushInstalled,
                    RunPostinst, StripVdb, PushPostinst, Fails, Goes
    <2> QED
        BY <2>1 DEF ProcessedInv
<1> QED
    BY <1>1, <1>2, <1>3, <1>4 DEF Next, Progress

\* What the layers that are not outputs have
LEMMA OthersHave ==
    ASSUME NEW p \in Packages, input.sparse \in BOOLEAN
    PROVE  /\ \A q \in Packages : q # p => LayerAt(<<"installed", q>>)[Contents(p)] = Absent
           /\ LayerAt(<<"base", 0>>)[Contents(p)] = Absent
           /\ LayerAt(<<"base", 0>>)[Image] = Absent
<1>1. /\ Contents(p) \in Paths /\ Contents(p) \notin RootFiles
      /\ Image \in Paths /\ Image \notin RootFiles
      /\ \A q : q # p => Contents(p) # Contents(q)
      /\ \A q : Contents(p) # Env(q)
    BY PathKinds, PathsDiffer DEF Contents
<1>2. {InRoot(f) : f \in BaseFiles} \subseteq RootFiles
    BY ShipsAssumption DEF RootFiles
<1>3. LayerAt(<<"base", 0>>) = Base
    BY DEF LayerAt
<1>4. Base[Contents(p)] = Absent /\ Base[Image] = Absent
    BY <1>1, <1>2 DEF Base
<1>5. ASSUME NEW q \in Packages, q # p PROVE LayerAt(<<"installed", q>>)[Contents(p)] = Absent
    <2>1. LayerAt(<<"installed", q>>) = Installed[input.sparse][q]
        BY DEF LayerAt
    <2>2. {InRoot(f) : f \in Ships[q]} \subseteq RootFiles
        BY ShipsAssumption DEF RootFiles, Packages
    <2>3. Contents(p) \notin {InRoot(f) : f \in Ships[q]}
        BY <1>1, <2>2
    <2>4. Installed[input.sparse][q][Contents(p)] = Absent
        BY <1>1, <1>5, <2>3 DEF Installed
    <2> QED
        BY <2>1, <2>4
<1> QED
    BY <1>3, <1>4, <1>5

LEMMA LaterRootIsSeen ==
    ASSUME ShapeInv, OrderInv, PushedInv, VdbInv, RootInv, pc = "done"
    PROVE  SeenRoot(Stack(LaterLayers)) = root
<1>1. ASSUME NEW f \in Files
      PROVE  Seen(Stack(LaterLayers), InRoot(f)) = Seen(Stack(layers), InRoot(f))
    <2>1. layers \in Seq(Names) /\ Ordered(layers) /\ InRoot(f) \notin ImageFiles
        BY PathsDiffer DEF ShapeInv, OrderInv
    <2>2. /\ <<"base", 0>> \in Range(LaterLayers)
          /\ \A p \in Packages : /\ <<"preinst", p>> \in Range(LaterLayers)
                                 /\ <<"installed", p>> \in Range(LaterLayers)
                                 /\ <<"postinst", p>> \in Range(LaterLayers)
        <3>1. 1 \in DOMAIN LaterLayers
            BY ShipsAssumption DEF LaterLayers
        <3> QED
            BY <3>1, LaterLayersAre DEF Range
    <2>3. \A p \in Packages : /\ <<"installed", p>> \in Range(layers)
                              /\ p \in input.hooks => /\ <<"preinst", p>> \in Range(layers)
                                                      /\ <<"postinst", p>> \in Range(layers)
        BY DEF PushedInv, Past, Has
    <2>4. \A p \in Packages : LayerAt(<<"staged", p>>)[InRoot(f)] = Absent
        BY StagedHas
    <2>5. ASSUME NEW p \in Packages, p \notin input.hooks
          PROVE  /\ LayerAt(<<"preinst", p>>)[InRoot(f)] = Absent
                 /\ LayerAt(<<"postinst", p>>)[InRoot(f)] = Absent
        BY <2>5, PathKinds, OutputsAsLayers DEF VdbInv
    <2>6. ASSUME NEW name \in Names, LayerAt(name)[InRoot(f)] # Absent
          PROVE  name \in Range(LaterLayers) <=> name \in Range(layers)
        <3>1. CASE name = <<"base", 0>>
            BY <2>2, <3>1 DEF PushedInv
        <3>2. ASSUME NEW p \in Packages,
                     name \in {<<"staged", p>>, <<"installed", p>>, <<"preinst", p>>, <<"postinst", p>>}
              PROVE  name \in Range(LaterLayers) <=> name \in Range(layers)
            BY <2>2, <2>3, <2>4, <2>5, <2>6, <3>2
        <3> QED
            BY <3>1, <3>2 DEF Names
    <2> QED
        BY <2>1, <2>6, LaterLayersAre, SeenByName
<1>2. root = [f \in Files |-> Seen(Stack(layers), InRoot(f))]
    BY EmptyBelow DEF RootInv, RootIs
<1> QED
    BY <1>1, <1>2 DEF SeenRoot

LEMMA LaterStackIs ==
    /\ DOMAIN Stack(LaterLayers) = 1 .. 3 * Len(Ships) + 1
    /\ \A i \in DOMAIN Stack(LaterLayers) :
           \/ Stack(LaterLayers)[i] = LayerAt(<<"base", 0>>)
           \/ \E p \in Packages :
                  \/ i = 3 * p - 1 /\ Stack(LaterLayers)[i] = output[<<"preinst", p>>]
                  \/ i = 3 * p /\ Stack(LaterLayers)[i] = LayerAt(<<"installed", p>>)
                  \/ i = 3 * p + 1 /\ Stack(LaterLayers)[i] = output[<<"postinst", p>>]
    /\ \A p \in Packages :
           /\ {3 * p - 1, 3 * p, 3 * p + 1} \subseteq DOMAIN Stack(LaterLayers)
           /\ Stack(LaterLayers)[3 * p] = LayerAt(<<"installed", p>>)
           /\ Stack(LaterLayers)[3 * p + 1] = output[<<"postinst", p>>]
<1>1. /\ DOMAIN Stack(LaterLayers) = DOMAIN LaterLayers
      /\ \A i \in DOMAIN LaterLayers : Stack(LaterLayers)[i] = LayerAt(LaterLayers[i])
    BY DEF Stack
<1>2. DOMAIN LaterLayers = 1 .. 3 * Len(Ships) + 1
    BY DEF LaterLayers
<1>3. \A p \in Packages :
          /\ {3 * p - 1, 3 * p, 3 * p + 1} \subseteq DOMAIN LaterLayers
          /\ Stack(LaterLayers)[3 * p - 1] = output[<<"preinst", p>>]
          /\ Stack(LaterLayers)[3 * p] = LayerAt(<<"installed", p>>)
          /\ Stack(LaterLayers)[3 * p + 1] = output[<<"postinst", p>>]
    <2> SUFFICES ASSUME NEW p \in Packages
                 PROVE  /\ {3 * p - 1, 3 * p, 3 * p + 1} \subseteq DOMAIN LaterLayers
                        /\ Stack(LaterLayers)[3 * p - 1] = output[<<"preinst", p>>]
                        /\ Stack(LaterLayers)[3 * p] = LayerAt(<<"installed", p>>)
                        /\ Stack(LaterLayers)[3 * p + 1] = output[<<"postinst", p>>]
        OBVIOUS
    <2>1. {3 * p - 1, 3 * p, 3 * p + 1} \subseteq DOMAIN LaterLayers
        BY LaterLayersAre
    <2>2. /\ Stack(LaterLayers)[3 * p - 1] = LayerAt(<<"preinst", p>>)
          /\ Stack(LaterLayers)[3 * p] = LayerAt(<<"installed", p>>)
          /\ Stack(LaterLayers)[3 * p + 1] = LayerAt(<<"postinst", p>>)
        BY <1>1, <2>1, LaterLayersAre
    <2> QED
        BY <2>1, <2>2, OutputsAsLayers
<1>4. ASSUME NEW i \in DOMAIN LaterLayers
      PROVE  \/ Stack(LaterLayers)[i] = LayerAt(<<"base", 0>>)
             \/ \E p \in Packages :
                    \/ i = 3 * p - 1 /\ Stack(LaterLayers)[i] = output[<<"preinst", p>>]
                    \/ i = 3 * p /\ Stack(LaterLayers)[i] = LayerAt(<<"installed", p>>)
                    \/ i = 3 * p + 1 /\ Stack(LaterLayers)[i] = output[<<"postinst", p>>]
    <2>1. CASE i = 1
        BY <1>1, <2>1, LaterLayersAre
    <2>2. CASE i # 1
        <3>1. PICK p \in Packages : i \in {3 * p - 1, 3 * p, 3 * p + 1}
            BY <2>2, LaterLayersAre
        <3> QED
            BY <1>3, <3>1
    <2> QED
        BY <2>1, <2>2
<1> QED
    BY <1>1, <1>2, <1>3, <1>4

\* At the end every package has its CONTENTS, and no output anything at /.image
LEMMA EndOfVdb ==
    ASSUME ShapeInv, VdbInv, PushedInv, ProcessedInv, pc = "done", n = 2 * Len(Ships) + 1,
           NEW p \in Packages
    PROVE  /\ output[<<"preinst", p>>][Image] = Absent
           /\ output[<<"postinst", p>>][Image] = Absent
           /\ input.sparse => output[<<"postinst", p>>][Contents(p)] = Absent
           /\ ~input.sparse =>
                  \/ output[<<"postinst", p>>][Contents(p)] = <<"list", image[p]>>
                  \/ output[<<"postinst", p>>][Contents(p)] = Absent /\ image[p] = Shipped(p)
<1>1. p \in 1 .. Len(Ships) /\ Len(Ships) \in Nat
    BY ShipsAssumption DEF Packages
<1>2. 2 * p - 1 < n /\ 2 * p < n
    BY <1>1
<1>3. CASE p \in input.hooks
    <2>1. ContentsOf(p)
        BY <1>3 DEF VdbInv, Past
    <2> QED
        BY <1>2, <2>1 DEF ProcessedInv, ContentsOf
<1>4. CASE p \notin input.hooks
    <2>1. /\ image[p] = Shipped(p)
          /\ \A x \in Paths : output[<<"postinst", p>>][x] = Absent
        BY <1>4 DEF VdbInv
    <2> QED
        BY <1>2, <2>1, PathKinds DEF ProcessedInv
<1> QED
    BY <1>3, <1>4

LEMMA LaterContentsAreSeen ==
    ASSUME ShapeInv, VdbInv, PushedInv, ProcessedInv, pc = "done", n = 2 * Len(Ships) + 1,
           NEW p \in Packages
    PROVE  Seen(Stack(LaterLayers), Contents(p)) =
               IF input.sparse THEN Absent ELSE <<"list", image[p]>>
<1> DEFINE S == Stack(LaterLayers)
           x == Contents(p)
           later == Shows(S, x)
<1>1. x \notin ImageFiles
    BY PathsDiffer
<1>2. input.sparse \in BOOLEAN /\ p \in Nat
    BY PackagesAreNumbers DEF ShapeInv
<1>3. later = {i \in DOMAIN S : S[i][x] # Absent}
    BY <1>1 DEF Shows
<1>4. /\ LayerAt(<<"installed", p>>)[x] = IF input.sparse THEN Absent ELSE <<"list", Shipped(p)>>
      /\ \A q \in Packages : q # p => LayerAt(<<"installed", q>>)[x] = Absent
      /\ LayerAt(<<"base", 0>>)[x] = Absent
    BY <1>2, InstalledHas, OthersHave
<1>5. /\ \A q \in Packages : output[<<"preinst", q>>][x] = Absent
      /\ \A q \in Packages : q # p => output[<<"postinst", q>>][x] = Absent
    BY DEF VdbInv
<1>6. /\ input.sparse => output[<<"postinst", p>>][x] = Absent
      /\ ~input.sparse =>
             \/ output[<<"postinst", p>>][x] = <<"list", image[p]>>
             \/ output[<<"postinst", p>>][x] = Absent /\ image[p] = Shipped(p)
    BY EndOfVdb
<1>7. /\ {3 * p, 3 * p + 1} \subseteq DOMAIN S
      /\ S[3 * p] = LayerAt(<<"installed", p>>)
      /\ S[3 * p + 1] = output[<<"postinst", p>>]
    BY LaterStackIs
<1> HIDE DEF S, x
<1>8. later \subseteq {3 * p, 3 * p + 1}
    <2> SUFFICES ASSUME NEW i \in DOMAIN S, S[i][x] # Absent PROVE i \in {3 * p, 3 * p + 1}
        BY <1>3
    <2>1. S[i] # LayerAt(<<"base", 0>>)
        BY <1>4
    <2>2. PICK q \in Packages :
              \/ i = 3 * q - 1 /\ S[i] = output[<<"preinst", q>>]
              \/ i = 3 * q /\ S[i] = LayerAt(<<"installed", q>>)
              \/ i = 3 * q + 1 /\ S[i] = output[<<"postinst", q>>]
        BY <2>1, LaterStackIs DEF S
    <2>3. q = p
        BY <1>4, <1>5, <2>2
    <2> QED
        BY <1>5, <2>2, <2>3
<1>9. CASE input.sparse
    <2>1. later = {}
        BY <1>3, <1>4, <1>6, <1>7, <1>8, <1>9
    <2> QED
        BY <1>9, <2>1, SeenIsTop DEF S, x
<1>10. CASE ~input.sparse
    <2>1. CASE output[<<"postinst", p>>][x] = Absent
        <3>1. later = {3 * p} /\ image[p] = Shipped(p)
            BY <1>3, <1>4, <1>6, <1>7, <1>8, <1>10, <2>1, MarksDiffer
        <3>2. Max(later) = 3 * p
            <4> HIDE DEF later
            <4> QED
                BY <1>2, <3>1, GreatestIs
        <3>3. Seen(S, x) = Shown(S[3 * p], x, Absent)
            BY <3>1, <3>2, SeenIsTop
        <3> QED
            BY <1>4, <1>7, <1>10, <3>1, <3>3, MarksDiffer DEF Shown, S, x
    <2>2. CASE output[<<"postinst", p>>][x] # Absent
        <3>1. /\ output[<<"postinst", p>>][x] = <<"list", image[p]>>
              /\ 3 * p + 1 \in later
            BY <1>3, <1>6, <1>7, <1>10, <2>2
        <3>2. Max(later) = 3 * p + 1
            <4> HIDE DEF later
            <4>1. \A k \in later : k \in Nat /\ 3 * p + 1 >= k
                BY <1>2, <1>8
            <4> QED
                BY <3>1, <4>1, GreatestIs
        <3>3. Seen(S, x) = Shown(S[3 * p + 1], x, Absent)
            BY <3>1, <3>2, SeenIsTop
        <3> QED
            BY <1>7, <1>10, <3>1, <3>3, MarksDiffer DEF Shown, S, x
    <2> QED
        BY <2>1, <2>2
<1> QED
    BY <1>9, <1>10

LEMMA LaterImageIsGone ==
    ASSUME ShapeInv, VdbInv, PushedInv, ProcessedInv, pc = "done", n = 2 * Len(Ships) + 1
    PROVE  Seen(Stack(LaterLayers), Image) = Absent
<1>1. input.sparse \in BOOLEAN
    BY DEF ShapeInv
<1>2. \A p \in Packages : /\ output[<<"preinst", p>>][Image] = Absent
                          /\ output[<<"postinst", p>>][Image] = Absent
                          /\ LayerAt(<<"installed", p>>)[Image] = Absent
    BY <1>1, EndOfVdb, InstalledHas
<1>3. LayerAt(<<"base", 0>>)[Image] = Absent
    <2>1. Image \notin {InRoot(f) : f \in BaseFiles}
        BY PathsDiffer
    <2> QED
        BY <2>1, PathKinds DEF LayerAt, Base
<1>4. \A i \in DOMAIN Stack(LaterLayers) : Stack(LaterLayers)[i][Image] = Absent
    BY <1>2, <1>3, LaterStackIs
<1>5. Shows(Stack(LaterLayers), Image) = {}
    BY <1>4 DEF Shows
<1> QED
    BY <1>5, SeenIsTop

LEMMA StepEnd == (pc = "done" => n = 2 * Len(Ships) + 1) /\ [Next]_vars
                     => (pc = "done" => n = 2 * Len(Ships) + 1)'
BY DEF Next, Progress, SkipHooks, Installing, RefuseHooks, PushStaged, RunPreinst, PushPreinst,
       RecomputeContents, SkipImage, MoveImage, MoveVdb, HideImage, PushInstalled,
       RunPostinst, StripVdb, PushPostinst, EndInstall, Postprocess, Done, Fails, Goes, vars

\* A later action that stacks the outputs and the installed layers of all packages, without
\* the staged images, finds the root that the hooks left behind, the CONTENTS of what was
\* installed and no image, for any packages, images and hooks, unless a preinst hook takes out
\* of its image a file that the root has (main.rs:479-487, install_deps.bzl:240-248).
THEOREM LaterActionsAreFaithful ==
    ASSUME ~TakesOutKnown
    PROVE  Spec => []LaterActionsSeeTheSame
<1> DEFINE Ends == pc = "done" => n = 2 * Len(Ships) + 1
           Inv == /\ ShapeInv /\ ImageInv /\ RootInv /\ OrderInv /\ PushedInv
                  /\ VdbInv /\ ProcessedInv /\ Ends
<1>1. Init => Inv
    BY InitShape, InitImages, InitRoot, InitOrder, InitVdb DEF Init, ProcessedInv
<1>2. Inv /\ [Next]_vars => Inv'
    <2> SUFFICES ASSUME Inv, [Next]_vars PROVE Inv'
        OBVIOUS
    <2>1. ShapeInv' /\ ImageInv' /\ RootInv'
        BY StepShape, StepImages, StepRoot
    <2>2. OrderInv' /\ PushedInv' /\ VdbInv' /\ ProcessedInv' /\ Ends'
        BY StepOrder, StepPushed, StepVdb, StepProcessed, StepEnd
    <2> QED
        BY <2>1, <2>2
<1>3. Inv => LaterActionsSeeTheSame
    BY LaterRootIsSeen, LaterImageIsGone, LaterContentsAreSeen DEF LaterActionsSeeTheSame
<1> QED
    BY <1>1, <1>2, <1>3, PTL DEF Spec
-----------------------------------------------------------------------------
(* Types                                                                   *)
Value ==
    {Absent, Whiteout, Dir, EmptyFile}
        \union {By(who, p) : who \in {"shipped", "preinst", "postinst"}, p \in Packages}
        \union {<<"list", Shipped(p)>> : p \in Packages}
        \union {<<"list", image[p]>> : p \in Packages}

\* Files in /.image only if that is a directory
Sound(layer) ==
    /\ layer = [x \in Paths |-> layer[x]]
    /\ layer[Image] # Dir => \A x \in ImageFiles : layer[x] = Absent

TypingInv ==
    /\ n \in 1 .. 2 * Len(Ships) + 1
    /\ pc \in {"install", "preinst"} => \A p \in Packages : p >= n => image[p] = Shipped(p)
    /\ pc \in HookPhases => \A p \in Packages : p > n => image[p] = Shipped(p)
    /\ pc \in {"mangle", "move", "vdb", "hide", "postinst"} => upper[Image] # Dir
    /\ \A o \in Outputs : Sound(output[o]) /\ \A x \in Paths : output[o][x] \in Value
    /\ Sound(upper) /\ \A x \in Paths : upper[x] \in Value

LEMMA EmptyIsSound == Sound(Empty) /\ \A x \in Paths : Empty[x] \in Value
BY DEF Sound, Empty, Value, Paths

LEMMA InitTyping == Init => TypingInv
<1> SUFFICES ASSUME Init PROVE TypingInv
    OBVIOUS
<1>1. n = 1 /\ Len(Ships) \in Nat
    BY ShipsAssumption DEF Init
<1> QED
    BY <1>1, EmptyIsSound DEF Init, TypingInv, HookPhases

LEMMA ValuesKept ==
    ASSUME UNCHANGED image
    PROVE  Value' = Value
BY DEF Value, Shipped

\* What a layer becomes by losing some of what it has
LEMMA WithoutIsSound ==
    ASSUME NEW layer, NEW paths, Sound(layer), \A x \in Paths : layer[x] \in Value,
           Image \notin paths \/ layer[Image] # Dir \/ ImageFiles \subseteq paths
    PROVE  /\ Sound(Without(layer, paths))
           /\ \A x \in Paths : Without(layer, paths)[x] \in Value
<1> DEFINE new == Without(layer, paths)
<1>1. \A x \in Paths : new[x] = IF x \in paths THEN Absent ELSE layer[x]
    BY DEF Without
<1>2. Image \in Paths /\ ImageFiles \subseteq Paths /\ Absent \in Value
    BY PathKinds DEF Paths, Value
<1>5. new = [x \in Paths |-> new[x]]
    BY DEF Without
<1> HIDE DEF new
<1>3. Sound(new)
    BY <1>1, <1>2, <1>5 DEF Sound
<1>4. \A x \in Paths : new[x] \in Value
    BY <1>1, <1>2
<1> QED
    BY <1>3, <1>4 DEF new

LEMMA HookIsSound ==
    ASSUME NEW stack, NEW up, NEW who \in {"preinst", "postinst"}, NEW p \in Packages,
           NEW places, NEW c \in HookChanges(places, By(who, p)),
           UNION places \subseteq ImageFiles \union RootFiles,
           \A x \in Paths : up[x] \in Value
    PROVE  \A x \in Paths : Changed(stack, up, WithEnv(c, who, p))[x] \in Value
<1> DEFINE ch == WithEnv(c, who, p)
<1>1. Env(p) \notin UNION places
    BY PathsDiffer
<1>2. \A x \in DOMAIN c : ch[x] = c[x] /\ c[x] \in {By(who, p), Absent}
    BY <1>1, HookWrites
<1>3. DOMAIN ch = DOMAIN c \union {Env(p)} /\ ch[Env(p)] = By(who, p)
    BY DEF WithEnv
<1>4. {Absent, Whiteout, Dir, By(who, p)} \subseteq Value
    BY DEF Value
<1>5. \A x \in DOMAIN ch : ch[x] \in {By(who, p), Absent}
    BY <1>2, <1>3
<1> HIDE DEF ch
<1>6. \A x \in Paths : Changed(stack, up, ch)[x] =
          IF x \in DOMAIN ch
          THEN IF ch[x] = Absent /\ Seen(stack, x) # Absent THEN Whiteout ELSE ch[x]
          ELSE IF x = Image /\ DOMAIN ch \intersect ImageFiles # {} THEN Dir
          ELSE up[x]
    BY DEF Changed
<1>7. \A x \in Paths : Changed(stack, up, ch)[x] \in Value
    BY <1>4, <1>5, <1>6
<1> QED
    BY <1>7 DEF ch

\* postinst leaves the image alone
LEMMA ImageKept ==
    ASSUME NEW stack, NEW up, NEW p \in Packages,
           NEW c \in HookChanges({{x} : x \in RootFiles}, By("postinst", p)), Sound(up)
    PROVE  Sound(Changed(stack, up, WithEnv(c, "postinst", p)))
<1> DEFINE ch == WithEnv(c, "postinst", p)
           places == {{x} : x \in RootFiles}
<1>1. UNION places \subseteq RootFiles
    OBVIOUS
<1>2. Env(p) \notin UNION places
    BY <1>1, PathsDiffer
<1>3. DOMAIN c \subseteq RootFiles
    <2> HIDE DEF places
    <2>1. c \in HookChanges(places, By("postinst", p))
        BY DEF places
    <2>2. DOMAIN c \subseteq UNION places
        BY <1>2, <2>1, HookWrites
    <2> QED
        BY <1>1, <2>2
<1>4. DOMAIN ch = DOMAIN c \union {Env(p)}
    BY DEF WithEnv
<1>5. \A x \in ImageFiles : x \notin RootFiles /\ x # Env(p) /\ x # Image
    BY PathsDiffer DEF ImageFiles
<1>6. DOMAIN ch \intersect ImageFiles = {} /\ Image \notin DOMAIN ch
    BY <1>3, <1>4, <1>5, PathsDiffer
<1> HIDE DEF ch
<1>7. /\ Changed(stack, up, ch)[Image] = up[Image]
      /\ \A x \in ImageFiles : Changed(stack, up, ch)[x] = up[x]
    <2>1. Image \in Paths /\ ImageFiles \subseteq Paths
        BY PathKinds DEF Paths
    <2> QED
        BY <1>5, <1>6, <2>1 DEF Changed
<1>8. Changed(stack, up, ch) = [x \in Paths |-> Changed(stack, up, ch)[x]]
    BY DEF Changed
<1>9. Sound(Changed(stack, up, ch))
    BY <1>7, <1>8 DEF Sound
<1> QED
    BY <1>9 DEF ch

\* A step that leaves images and layers alone
LEMMA LayersKept ==
    ASSUME TypingInv, UNCHANGED <<output, image>>
    PROVE  \A o \in Outputs : Sound(output'[o]) /\ \A x \in Paths : output'[o][x] \in Value'
BY ValuesKept DEF TypingInv

\* A step that replaces one of the outputs
LEMMA OneSound ==
    ASSUME ShapeInv, TypingInv, UNCHANGED image, NEW at \in Outputs, NEW new,
           output' = [output EXCEPT ![at] = new],
           Sound(new), \A x \in Paths : new[x] \in Value
    PROVE  \A o \in Outputs : Sound(output'[o]) /\ \A x \in Paths : output'[o][x] \in Value'
<1>1. output'[at] = new /\ \A o \in Outputs : o # at => output'[o] = output[o]
    BY OneOutput
<1>2. Value' = Value
    BY ValuesKept
<1> SUFFICES ASSUME NEW o \in Outputs
             PROVE  Sound(output'[o]) /\ \A x \in Paths : output'[o][x] \in Value
    BY <1>2
<1>3. CASE o = at
    BY <1>1, <1>3
<1>4. CASE o # at
    BY <1>1, <1>4 DEF TypingInv
<1> QED
    BY <1>3, <1>4

LEMMA OutputOf ==
    ASSUME NEW k \in 1 .. 2 * Len(Ships)
    PROVE  OutputAt(k) \in Outputs
<1>1. Len(Ships) \in Nat /\ Packages = 1 .. Len(Ships)
    BY ShipsAssumption DEF Packages
<1>2. (k + 1) \div 2 \in 1 .. Len(Ships)
    BY <1>1
<1> QED
    BY <1>1, <1>2 DEF OutputAt, Outputs

LEMMA StepTyping == ShapeInv /\ ImageInv /\ TypingInv /\ [Next]_vars => TypingInv'
<1> SUFFICES ASSUME ShapeInv, ImageInv, TypingInv, [Next]_vars PROVE TypingInv'
    OBVIOUS
<1>1. /\ n \in 1 .. 2 * Len(Ships) + 1 /\ Len(Ships) \in Nat /\ n \in Nat
      /\ pc \in HookPhases => n \in Packages
      /\ Packages = 1 .. Len(Ships)
    BY ShipsAssumption DEF ShapeInv, TypingInv, Packages
<1>2. \A p \in Packages : Shipped(p)' = Shipped(p)
    BY DEF Shipped
<1>3. /\ Sound(upper) /\ \A x \in Paths : upper[x] \in Value
      /\ \A o \in Outputs : Sound(output[o]) /\ \A x \in Paths : output[o][x] \in Value
    BY DEF TypingInv
<1>4. Absent \in Value
    BY DEF Value
<1>5. CASE UNCHANGED vars
    BY <1>2, <1>5, ValuesKept, LayersKept DEF vars, TypingInv
<1>6. CASE SkipHooks
    <2>1. /\ pc = "install" /\ pc' = "install" /\ n' = n + 1 /\ n \in Packages
          /\ UNCHANGED <<output, upper, image>>
        BY <1>6 DEF SkipHooks, Installing
    <2>2. \A p \in Packages : p >= n' => image'[p] = Shipped(p)'
        BY <1>1, <1>2, <2>1 DEF TypingInv
    <2>3. n' \in 1 .. 2 * Len(Ships) + 1
        BY <1>1, <2>1
    <2> QED
        BY <1>3, <2>1, <2>2, <2>3, ValuesKept, LayersKept DEF TypingInv, HookPhases
<1>7. CASE PushStaged
    <2>1. /\ pc = "install" /\ pc' = "preinst" /\ n' = n /\ upper' = Empty
          /\ UNCHANGED <<output, image>>
        BY <1>7 DEF PushStaged, Installing
    <2>2. \A p \in Packages : p >= n => image'[p] = Shipped(p)'
        BY <1>2, <2>1 DEF TypingInv
    <2>3. \A p \in Packages : p > n => image'[p] = Shipped(p)'
        BY <1>1, <2>2
    <2> QED
        BY <1>1, <2>1, <2>2, <2>3, EmptyIsSound, ValuesKept, LayersKept DEF TypingInv, HookPhases
<1>8. CASE RefuseHooks \/ Fails
    <2>1. pc' = "failed" /\ UNCHANGED <<n, output, upper, image>>
        BY <1>8 DEF RefuseHooks, Fails
    <2> QED
        BY <1>1, <1>3, <2>1, ValuesKept, LayersKept DEF TypingInv, HookPhases
<1>9. CASE RunPreinst
    <2>1. /\ pc = "preinst" /\ pc' = "ran" /\ n' = n /\ upper' = Empty /\ upper = Empty
          /\ n \in Packages /\ image = [p \in Packages |-> image[p]]
        BY <1>1, <1>9 DEF RunPreinst, Goes, ImageInv, HookPhases, ShapeInv
    <2> DEFINE places == {{InImage(f), InRoot(f)} : f \in Files}
               after(c) == Changed(Stack(layers), upper, WithEnv(c, "preinst", n))
    <2>2. PICK c \in HookChanges(places, By("preinst", n)) :
              output' = [output EXCEPT ![<<"preinst", n>>] = after(c)]
        BY <1>9 DEF RunPreinst
    <2> DEFINE A == after(c)
    <2>3. A[Image] = Absent \/ A[Image] = Dir
        BY <2>1, PreinstLeaves
    <2>4. /\ A[Image] = Absent => \A f \in Files : A[InImage(f)] = Absent
          /\ A = [x \in Paths |-> A[x]]
        BY <2>1, PreinstLeaves
    <2>5. UNION places \subseteq ImageFiles \union RootFiles
        BY PathKinds
    <2>6. \A x \in Paths : A[x] \in Value
        <3> HIDE DEF places
        <3> QED
            BY <1>3, <2>1, <2>2, <2>5, HookIsSound
    <2>7. output' = [output EXCEPT ![<<"preinst", n>>] = A]
        BY <2>2
    <2> HIDE DEF A, places
    <2>8. Sound(A)
        BY <2>3, <2>4 DEF Sound, ImageFiles
    <2>9. /\ output'[<<"preinst", n>>] = A
          /\ \A o \in Outputs : o # <<"preinst", n>> => output'[o] = output[o]
        BY <2>1, <2>7, OneOutput, OutputNames
    <2>10. /\ \A p \in Packages : p # n => image'[p] = image[p]
           /\ image[n] = Shipped(n)
        BY <1>1, <1>9, <2>1, PreinstVdb DEF TypingInv
    <2>11. \A v \in Value : v \in Value'
        <3> SUFFICES ASSUME NEW v \in Value PROVE v \in Value'
            OBVIOUS
        <3>1. CASE \E p \in Packages : v = <<"list", image[p]>>
            <4>1. PICK p \in Packages : v = <<"list", image[p]>>
                BY <3>1
            <4>2. v = <<"list", image'[p]>> \/ v = <<"list", Shipped(p)'>>
                BY <1>2, <2>10, <4>1
            <4> QED
                BY <4>2 DEF Value
        <3>2. CASE \E p \in Packages : v = <<"list", Shipped(p)>>
            BY <1>2, <3>2 DEF Value
        <3>3. CASE \/ v \in {Absent, Whiteout, Dir, EmptyFile}
                   \/ v \in {By(who, p) : who \in {"shipped", "preinst", "postinst"}, p \in Packages}
            BY <3>3 DEF Value
        <3> QED
            BY <3>1, <3>2, <3>3 DEF Value
    <2>12. \A o \in Outputs : Sound(output'[o]) /\ \A x \in Paths : output'[o][x] \in Value'
        <3> SUFFICES ASSUME NEW o \in Outputs
                     PROVE  Sound(output'[o]) /\ \A x \in Paths : output'[o][x] \in Value'
            OBVIOUS
        <3>1. CASE o = <<"preinst", n>>
            BY <2>6, <2>8, <2>9, <2>11, <3>1
        <3>2. CASE o # <<"preinst", n>>
            BY <1>3, <2>9, <2>11, <3>2
        <3> QED
            BY <3>1, <3>2
    <2>13. Sound(upper') /\ \A x \in Paths : upper'[x] \in Value'
        BY <1>3, <2>1, <2>11
    <2>14. \A p \in Packages : p > n => image'[p] = Shipped(p)'
        <3>1. \A p \in Packages : p > n => p # n /\ image[p] = Shipped(p)
            BY <1>1, <2>1 DEF TypingInv, HookPhases
        <3> QED
            BY <1>2, <2>10, <3>1
    <2> QED
        BY <1>1, <2>1, <2>12, <2>13, <2>14 DEF TypingInv
<1>10. CASE PushPreinst \/ RecomputeContents \/ SkipImage
    <2>1. /\ {pc, pc'} \subseteq HookPhases /\ pc \in {"ran", "mangle"}
          /\ pc' \in {"mangle", "move", "vdb"}
          /\ UNCHANGED <<n, output, upper, image>>
        BY <1>10 DEF PushPreinst, RecomputeContents, SkipImage, Goes, HookPhases
    <2>2. upper = Empty
        BY <2>1 DEF ImageInv
    <2>3. upper'[Image] # Dir
        BY <2>1, <2>2, PathKinds, MarksDiffer DEF Empty
    <2> QED
        BY <1>1, <1>2, <1>3, <2>1, <2>3, ValuesKept, LayersKept DEF TypingInv
<1>11. CASE MoveImage
    <2>1. /\ pc \in {"mangle", "move"} /\ pc' = "vdb" /\ n \in Packages
          /\ UNCHANGED <<n, image>> /\ upper' = ImageAsRoot(Preinst)
          /\ output' = [output EXCEPT ![<<"preinst", n>>] = Without(@, {Image} \union ImageFiles)]
        BY <1>1, <1>11 DEF MoveImage, HookPhases
    <2>2. <<"preinst", n>> \in Outputs
        BY <2>1, OutputNames
    <2> DEFINE new == Without(output[<<"preinst", n>>], {Image} \union ImageFiles)
    <2>3. Sound(new) /\ \A x \in Paths : new[x] \in Value
        BY <1>3, <2>2, WithoutIsSound
    <2>4. output' = [output EXCEPT ![<<"preinst", n>>] = new]
        BY <2>1
    <2> HIDE DEF new
    <2>5. \A o \in Outputs : Sound(output'[o]) /\ \A x \in Paths : output'[o][x] \in Value'
        BY <2>1, <2>2, <2>3, <2>4, OneSound
    <2>6. \A x \in Paths : upper'[x] \in Value'
        <3>1. \A x \in RootFiles : InImage(x[2]) \in Paths
            BY PathKinds DEF RootFiles, InRoot
        <3>2. \A x \in Paths : x \in RootFiles => Preinst[InImage(x[2])] \in Value
            BY <1>3, <2>2, <3>1 DEF Preinst
        <3> QED
            BY <1>4, <2>1, <3>2, ValuesKept DEF ImageAsRoot
    <2>7. upper'[Image] = Absent /\ \A x \in ImageFiles : upper'[x] = Absent
        <3>1. \A x \in ImageFiles : x \in Paths /\ x \notin RootFiles
            BY PathKinds, PathsDiffer DEF ImageFiles
        <3> QED
            BY <2>1, <3>1, PathKinds, PathsDiffer DEF ImageAsRoot
    <2>8. \A p \in Packages : p > n => image'[p] = Shipped(p)'
        BY <1>2, <2>1 DEF TypingInv, HookPhases
    <2>9. upper' = [x \in Paths |-> upper'[x]]
        BY <2>1 DEF ImageAsRoot
    <2> QED
        BY <1>1, <2>1, <2>5, <2>6, <2>7, <2>8, <2>9, MarksDiffer DEF TypingInv, Sound
<1>12. CASE MoveVdb
    <2>1. /\ pc = "vdb" /\ pc' = "hide" /\ n \in Packages /\ UNCHANGED <<n, image>>
          /\ output' = [output EXCEPT ![<<"preinst", n>>] = Without(@, Vdb(n))]
          /\ upper' = [x \in Paths |->
                IF x = Contents(n) /\ updated # Absent THEN updated
                ELSE IF x \in Vdb(n) THEN Preinst[x]
                ELSE upper[x]]
        BY <1>1, <1>12 DEF MoveVdb, Goes, HookPhases
    <2>2. <<"preinst", n>> \in Outputs
        BY <2>1, OutputNames
    <2>3. Image \notin Vdb(n) /\ \A x \in ImageFiles : x \notin Vdb(n) /\ x # Contents(n)
        BY PathsDiffer DEF Vdb
    <2> DEFINE new == Without(output[<<"preinst", n>>], Vdb(n))
    <2>4. Sound(new) /\ \A x \in Paths : new[x] \in Value
        BY <1>3, <2>2, <2>3, WithoutIsSound
    <2>5. output' = [output EXCEPT ![<<"preinst", n>>] = new]
        BY <2>1
    <2> HIDE DEF new
    <2>6. \A o \in Outputs : Sound(output'[o]) /\ \A x \in Paths : output'[o][x] \in Value'
        BY <2>1, <2>2, <2>4, <2>5, OneSound
    <2>7. updated \in Value
        <3>1. updated \in {Absent, <<"list", image[n]>>}
            BY <2>1 DEF ImageInv, ContentsAt
        <3> QED
            BY <2>1, <3>1 DEF Value
    <2>8. \A x \in Paths : upper'[x] \in Value'
        <3>1. \A x \in Paths : Preinst[x] \in Value
            BY <1>3, <2>2 DEF Preinst
        <3> QED
            BY <1>3, <2>1, <2>7, <3>1, ValuesKept
    <2>9. upper'[Image] = upper[Image] /\ \A x \in ImageFiles : upper'[x] = upper[x]
        <3>1. ImageFiles \subseteq Paths
            BY DEF Paths
        <3> QED
            BY <2>1, <2>3, <3>1, PathKinds, PathsDiffer
    <2>10. \A p \in Packages : p > n => image'[p] = Shipped(p)'
        BY <1>2, <2>1 DEF TypingInv, HookPhases
    <2>11. upper' = [x \in Paths |-> upper'[x]]
        BY <2>1
    <2>12. Sound(upper')
        BY <1>3, <2>9, <2>11 DEF Sound
    <2> QED
        BY <1>1, <2>1, <2>6, <2>8, <2>9, <2>10, <2>12 DEF TypingInv
<1>13. CASE HideImage
    <2>1. /\ pc = "hide" /\ pc' = "merge" /\ UNCHANGED <<n, output, image>>
          /\ upper' = [upper EXCEPT ![Image] = EmptyFile]
          /\ upper = [x \in Paths |-> upper[x]]
        BY <1>13 DEF HideImage, Goes, ShapeInv
    <2>2. upper'[Image] = EmptyFile /\ \A x \in Paths : x # Image => upper'[x] = upper[x]
        BY <2>1, PathKinds
    <2>3. \A x \in ImageFiles : x \in Paths /\ x # Image
        BY PathsDiffer DEF Paths
    <2>4. \A x \in ImageFiles : upper[x] = Absent
        BY <2>1 DEF TypingInv, Sound
    <2>5. EmptyFile \in Value
        BY DEF Value
    <2>6. Sound(upper')
        <3>1. upper' = [x \in Paths |-> upper'[x]]
            BY <2>1
        <3> QED
            BY <2>2, <2>3, <2>4, <3>1 DEF Sound
    <2>8. \A x \in Paths : upper'[x] \in Value'
        BY <1>3, <2>1, <2>2, <2>5, ValuesKept
    <2>7. \A p \in Packages : p > n => image'[p] = Shipped(p)'
        BY <1>2, <2>1 DEF TypingInv, HookPhases
    <2> QED
        BY <1>1, <2>1, <2>6, <2>7, <2>8, LayersKept DEF TypingInv
<1>14. CASE PushInstalled
    <2>1. /\ pc = "merge" /\ pc' = "postinst" /\ UNCHANGED <<n, output, upper, image>>
          /\ upper[Image] = EmptyFile
        BY <1>14 DEF PushInstalled, Goes, ImageInv
    <2>2. \A p \in Packages : p > n => image'[p] = Shipped(p)'
        BY <1>2, <2>1 DEF TypingInv, HookPhases
    <2> QED
        BY <1>1, <1>3, <2>1, <2>2, MarksDiffer, ValuesKept, LayersKept DEF TypingInv
<1>15. CASE RunPostinst
    <2>1. /\ pc = "postinst" /\ pc' = "strip" /\ UNCHANGED <<n, image>> /\ upper' = Empty
          /\ n \in Packages
        BY <1>1, <1>15 DEF RunPostinst, Goes, HookPhases
    <2> DEFINE places == {{x} : x \in RootFiles}
               after(c) == Changed(Stack(layers), upper, WithEnv(c, "postinst", n))
    <2>2. PICK c \in HookChanges(places, By("postinst", n)) :
              output' = [output EXCEPT ![<<"postinst", n>>] = after(c)]
        BY <1>15 DEF RunPostinst
    <2> DEFINE A == after(c)
    <2>3. Sound(A)
        BY <1>3, <2>1, <2>2, ImageKept
    <2>4. UNION places \subseteq ImageFiles \union RootFiles
        OBVIOUS
    <2>5. \A x \in Paths : A[x] \in Value
        <3> HIDE DEF places
        <3> QED
            BY <1>3, <2>1, <2>2, <2>4, HookIsSound
    <2>6. output' = [output EXCEPT ![<<"postinst", n>>] = A]
        BY <2>2
    <2>7. <<"postinst", n>> \in Outputs
        BY <2>1, OutputNames
    <2> HIDE DEF A, places
    <2>8. \A o \in Outputs : Sound(output'[o]) /\ \A x \in Paths : output'[o][x] \in Value'
        BY <2>1, <2>3, <2>5, <2>6, <2>7, OneSound
    <2>9. \A p \in Packages : p > n => image'[p] = Shipped(p)'
        BY <1>2, <2>1 DEF TypingInv, HookPhases
    <2> QED
        BY <1>1, <2>1, <2>8, <2>9, EmptyIsSound, ValuesKept DEF TypingInv
<1>16. CASE StripVdb
    <2>1. /\ pc = "strip" /\ pc' = "push" /\ n \in Packages /\ UNCHANGED <<n, image, upper>>
          /\ output' = [output EXCEPT ![<<"postinst", n>>] = Without(@, Vdb(n))]
        BY <1>1, <1>16 DEF StripVdb, Goes, HookPhases
    <2>2. <<"postinst", n>> \in Outputs
        BY <2>1, OutputNames
    <2>3. Image \notin Vdb(n)
        BY PathsDiffer DEF Vdb
    <2> DEFINE new == Without(output[<<"postinst", n>>], Vdb(n))
    <2>4. Sound(new) /\ \A x \in Paths : new[x] \in Value
        BY <1>3, <2>2, <2>3, WithoutIsSound
    <2>5. output' = [output EXCEPT ![<<"postinst", n>>] = new]
        BY <2>1
    <2> HIDE DEF new
    <2>6. \A o \in Outputs : Sound(output'[o]) /\ \A x \in Paths : output'[o][x] \in Value'
        BY <2>1, <2>2, <2>4, <2>5, OneSound
    <2>7. \A p \in Packages : p > n => image'[p] = Shipped(p)'
        BY <1>2, <2>1 DEF TypingInv, HookPhases
    <2> QED
        BY <1>1, <1>3, <2>1, <2>6, <2>7, ValuesKept DEF TypingInv
<1>17. CASE PushPostinst
    <2>1. /\ pc \in {"strip", "push"} /\ pc' = "install" /\ n' = n + 1 /\ n \in Packages
          /\ UNCHANGED <<output, upper, image>>
        BY <1>1, <1>17 DEF PushPostinst, HookPhases
    <2>2. n' \in 1 .. 2 * Len(Ships) + 1
        BY <1>1, <2>1
    <2>3. \A p \in Packages : p >= n' => image'[p] = Shipped(p)'
        <3>1. \A p \in Packages : p >= n' => p > n
            BY <1>1, <2>1
        <3> QED
            BY <1>2, <2>1, <3>1 DEF TypingInv, HookPhases
    <2> QED
        BY <1>3, <2>1, <2>2, <2>3, ValuesKept, LayersKept DEF TypingInv, HookPhases
<1>18. CASE EndInstall \/ Done
    <2>1. /\ pc' \in {"postprocess", "done"} /\ n' \in {1, n}
          /\ UNCHANGED <<output, upper, image>>
        BY <1>18 DEF EndInstall, Done, Goes
    <2> QED
        BY <1>1, <1>3, <2>1, ValuesKept, LayersKept DEF TypingInv, HookPhases
<1>19. CASE Postprocess
    <2>1. /\ pc' = "postprocess" /\ n <= 2 * Len(Ships) /\ n' = n + 1
          /\ UNCHANGED <<upper, image>>
          /\ output[OutputAt(n)][Image] # Dir
          /\ output' = [output EXCEPT ![OutputAt(n)] = Cleaned(Without(@, {Image}))]
        BY <1>19 DEF Postprocess
    <2>2. n' \in 1 .. 2 * Len(Ships) + 1
        BY <1>1, <2>1
    <2>3. OutputAt(n) \in Outputs
        BY <1>1, <2>1, OutputOf
    <2> DEFINE first == Without(output[OutputAt(n)], {Image})
               new == Cleaned(first)
    <2>4. Sound(first) /\ \A x \in Paths : first[x] \in Value
        BY <1>3, <2>1, <2>3, WithoutIsSound
    <2>5. Image \notin {Env(p) : p \in Packages}
        BY PathsDiffer
    <2>6. output' = [output EXCEPT ![OutputAt(n)] = new]
        BY <2>1
    <2> HIDE DEF first
    <2>7. Sound(new) /\ \A x \in Paths : new[x] \in Value
        BY <2>4, <2>5, WithoutIsSound DEF Cleaned
    <2> HIDE DEF new
    <2>8. \A o \in Outputs : Sound(output'[o]) /\ \A x \in Paths : output'[o][x] \in Value'
        BY <2>1, <2>3, <2>6, <2>7, OneSound
    <2> QED
        BY <1>3, <2>1, <2>2, <2>8, ValuesKept DEF TypingInv, HookPhases
<1> QED
    BY <1>5, <1>6, <1>7, <1>8, <1>9, <1>10, <1>11, <1>12, <1>13, <1>14, <1>15, <1>16, <1>17,
       <1>18, <1>19 DEF Next, Progress

\* The states of an installation have the types they should, no layer is pushed twice, and
\* no layer has files in an image that is not a directory, for any packages, images and hooks.
THEOREM InstallTyping == Spec => []TypeOK
<1> DEFINE Inv == ShapeInv /\ ImageInv /\ OrderInv /\ TypingInv
<1>1. Init => Inv
    BY InitShape, InitImages, InitOrder, InitTyping
<1>2. Inv /\ [Next]_vars => Inv'
    BY StepShape, StepImages, StepOrder, StepTyping
<1>3. Inv => TypeOK
    <2> SUFFICES ASSUME Inv PROVE TypeOK
        OBVIOUS
    <2>1. pc \in HookPhases \union {"install", "postprocess", "done", "failed"}
        BY DEF ShapeInv
    <2>2. IsInjective(layers)
        <3> SUFFICES ASSUME NEW i \in DOMAIN layers, NEW j \in DOMAIN layers, layers[i] = layers[j]
                     PROVE  i = j
            BY DEF IsInjective
        <3>1. /\ i \in Nat /\ j \in Nat /\ Rank(layers[i]) \in Nat
              /\ i < j => Rank(layers[i]) < Rank(layers[j])
              /\ j < i => Rank(layers[j]) < Rank(layers[i])
            BY RankIs DEF ShapeInv, OrderInv, Ordered
        <3> QED
            BY <3>1
    <2>3. Layer = [Paths -> Value]
        BY DEF Layer, Value
    <2>4. \A l : Sound(l) /\ (\A x \in Paths : l[x] \in Value) => l \in Layer
        BY <2>3 DEF Sound
    <2>5. \A l \in Range(output) \union {upper} : Sound(l) /\ \A x \in Paths : l[x] \in Value
        <3>1. \A l \in Range(output) : \E o \in Outputs : l = output[o]
            BY DEF Range, ShapeInv
        <3> QED
            BY <3>1 DEF TypingInv
    <2>6. \A l \in Range(output) \union {upper} :
              /\ l \in Layer
              /\ l[Image] # Dir => \A x \in ImageFiles : l[x] = Absent
        BY <2>4, <2>5 DEF Sound
    <2>7. n \in 1 .. 2 * Len(Ships) + 1
        BY DEF TypingInv
    <2> QED
        BY <2>1, <2>2, <2>6, <2>7 DEF TypeOK, HookPhases
<1> QED
    BY <1>1, <1>2, <1>3, PTL DEF Spec
=============================================================================
