-------------------------- MODULE IndirectDepsProofs --------------------------
(***************************************************************************)
(* Theorems about the indirect dependencies of a package, for any set of   *)
(* packages and any graphs.                                                *)
(***************************************************************************)
EXTENDS IndirectDeps, FiniteSetTheorems, TLAPS

(* Lists                                                                   *)
LEMMA LastOfList ==
    ASSUME NEW S, NEW s \in Seq(S), s # << >>
    PROVE  /\ Last(s) \in S
           /\ Front(s) \in Seq(S)
           /\ ToSet(s) = ToSet(Front(s)) \union {Last(s)}
<1>1. Len(s) \in Nat \ {0} /\ DOMAIN s = 1 .. Len(s) /\ \A i \in 1 .. Len(s) : s[i] \in S
    OBVIOUS
<1>2. Front(s) = [i \in 1 .. Len(s) - 1 |-> s[i]]
    BY <1>1 DEF Front
<1>3. Last(s) = s[Len(s)]
    BY DEF Last
<1>4. Front(s) \in Seq(S) /\ DOMAIN Front(s) = 1 .. Len(s) - 1
    BY <1>1, <1>2
<1>5. ToSet(s) = {s[i] : i \in 1 .. Len(s)}
    BY <1>1 DEF ToSet
<1>6. ToSet(Front(s)) = {s[i] : i \in 1 .. Len(s) - 1}
    BY <1>1, <1>2, <1>4 DEF ToSet
<1>7. 1 .. Len(s) = (1 .. Len(s) - 1) \union {Len(s)}
    BY <1>1
<1> QED
    BY <1>1, <1>3, <1>4, <1>5, <1>6, <1>7

LEMMA JoinedList ==
    ASSUME NEW S, NEW s \in Seq(S), NEW t \in Seq(S)
    PROVE  s \o t \in Seq(S) /\ ToSet(s \o t) = ToSet(s) \union ToSet(t)
<1>1. s \o t \in Seq(S) /\ Len(s \o t) = Len(s) + Len(t)
    OBVIOUS
<1>2. \A i \in 1 .. Len(s) : (s \o t)[i] = s[i]
    OBVIOUS
<1>3. \A i \in 1 .. Len(t) : (s \o t)[Len(s) + i] = t[i]
    OBVIOUS
<1>4. \A i \in 1 .. Len(s) + Len(t) : i \in 1 .. Len(s) \/ i - Len(s) \in 1 .. Len(t)
    OBVIOUS
<1>5. \A x \in ToSet(s \o t) : x \in ToSet(s) \union ToSet(t)
    BY <1>1, <1>2, <1>3, <1>4 DEF ToSet
<1>6. \A x \in ToSet(s) : x \in ToSet(s \o t)
    BY <1>1, <1>2 DEF ToSet
<1>7. \A x \in ToSet(t) : x \in ToSet(s \o t)
    <2>1. \A i \in 1 .. Len(t) : Len(s) + i \in DOMAIN (s \o t)
        BY <1>1
    <2>2. ToSet(t) = {t[i] : i \in 1 .. Len(t)}
        BY DEF ToSet
    <2>3. \A i \in 1 .. Len(t) : t[i] \in ToSet(s \o t)
        BY <1>3, <2>1 DEF ToSet
    <2> QED
        BY <2>2, <2>3
<1> QED
    BY <1>1, <1>5, <1>6, <1>7

LEMMA MembersOfList ==
    ASSUME NEW S, NEW s \in Seq(S)
    PROVE  ToSet(s) \subseteq S /\ IsFiniteSet(ToSet(s))
<1>1. s \in [1 .. Len(s) -> S] /\ Len(s) \in Nat
    OBVIOUS
<1>2. ToSet(s) = {s[i] : i \in 1 .. Len(s)}
    BY <1>1 DEF ToSet
<1>3. s \in Surjection(1 .. Len(s), ToSet(s))
    BY <1>1, <1>2 DEF Surjection
<1>4. IsFiniteSet(1 .. Len(s))
    BY <1>1, FS_Interval
<1> QED
    BY <1>1, <1>2, <1>3, <1>4, FS_Surjection

LEMMA EmptyList == ToSet(<< >>) = {}
BY DEF ToSet

LEMMA ListOfSet ==
    ASSUME NEW S, IsFiniteSet(S)
    PROVE  SetToSeq(S) \in Seq(S) /\ ToSet(SetToSeq(S)) = S
<1> DEFINE n == Cardinality(S)
           f == SetToSeq(S)
<1>1. n \in Nat /\ ExistsBijection(1 .. n, S)
    BY FS_CardinalityType
<1>2. PICK g \in Bijection(1 .. n, S) : TRUE
    BY <1>1 DEF ExistsBijection
<1>3. g \in [1 .. n -> S] /\ IsInjective(g)
    BY <1>2 DEF Bijection, Injection
<1>4. f \in [1 .. n -> S] /\ IsInjective(f)
    BY <1>3 DEF SetToSeq
<1>5. IsFiniteSet(1 .. n) /\ Cardinality(1 .. n) = n
    BY <1>1, FS_Interval
<1>6. f \in Injection(1 .. n, S)
    BY <1>4 DEF Injection
<1> HIDE DEF f
<1>7. f \in Surjection(1 .. n, S)
    BY <1>5, <1>6, FS_Injection
<1>8. f \in Seq(S)
    BY <1>1, <1>4
<1>9. ToSet(f) = S
    BY <1>4, <1>7 DEF ToSet, Surjection
<1> QED
    BY <1>8, <1>9 DEF f
-----------------------------------------------------------------------------
(* Closures: with its edges in a function, the closure can be stated once  *)
Reach(N, seeds, E) ==
    {p \in N : \A C \in SUBSET N : seeds \subseteq C /\ (\A q \in C : E[q] \subseteq C) => p \in C}

LEMMA ReachIsClosed ==
    ASSUME NEW N, NEW seeds \in SUBSET N, NEW E \in [N -> SUBSET N]
    PROVE  /\ seeds \subseteq Reach(N, seeds, E)
           /\ \A q \in Reach(N, seeds, E) : E[q] \subseteq Reach(N, seeds, E)
BY DEF Reach

LEMMA ReachIsLeast ==
    ASSUME NEW N, NEW seeds, NEW E, NEW C \in SUBSET N,
           seeds \subseteq C, \A q \in C : E[q] \subseteq C
    PROVE  Reach(N, seeds, E) \subseteq C
BY DEF Reach

(* A depth-first search with v visited and s on its stack.  Whatever its   *)
(* order, it holds the seeds and all that what it has visited leads to,    *)
(* and nothing that is not reached                                         *)
GoodSearch(N, seeds, E, v, s) ==
    /\ s \in Seq(N)
    /\ v \subseteq N
    /\ seeds \subseteq v \union ToSet(s)
    /\ \A q \in v : E[q] \subseteq v \union ToSet(s)
    /\ v \union ToSet(s) \subseteq Reach(N, seeds, E)

LEMMA SearchBegins ==
    ASSUME NEW N, NEW E \in [N -> SUBSET N], NEW s \in Seq(N)
    PROVE  GoodSearch(N, ToSet(s), E, {}, s)
BY MembersOfList, ReachIsClosed DEF GoodSearch

LEMMA SearchSkips ==
    ASSUME NEW N, NEW seeds, NEW E, NEW v, NEW s, GoodSearch(N, seeds, E, v, s),
           s # << >>, Last(s) \in v
    PROVE  GoodSearch(N, seeds, E, v, Front(s))
BY LastOfList DEF GoodSearch

LEMMA SearchVisits ==
    ASSUME NEW N, NEW seeds \in SUBSET N, NEW E \in [N -> SUBSET N], NEW v, NEW s,
           GoodSearch(N, seeds, E, v, s), s # << >>,
           NEW t \in Seq(N), ToSet(t) = E[Last(s)]
    PROVE  GoodSearch(N, seeds, E, v \union {Last(s)}, Front(s) \o t)
<1>1. /\ Last(s) \in N
      /\ Front(s) \in Seq(N)
      /\ ToSet(s) = ToSet(Front(s)) \union {Last(s)}
    BY LastOfList DEF GoodSearch
<1>2. /\ Front(s) \o t \in Seq(N)
      /\ ToSet(Front(s) \o t) = ToSet(Front(s)) \union E[Last(s)]
    BY <1>1, JoinedList
<1>3. E[Last(s)] \subseteq Reach(N, seeds, E)
    BY <1>1, ReachIsClosed DEF GoodSearch
<1> QED
    BY <1>1, <1>2, <1>3 DEF GoodSearch

LEMMA SearchEnds ==
    ASSUME NEW N, NEW seeds, NEW E, NEW v, GoodSearch(N, seeds, E, v, << >>)
    PROVE  v = Reach(N, seeds, E)
BY EmptyList, ReachIsLeast DEF GoodSearch
-----------------------------------------------------------------------------
(* The edges the searches follow                                           *)
RunEdges == [p \in Packages |-> Run(p)]
RunAndPostEdges == [p \in Packages |-> RunAndPost(p)]
RunAndInstallEdges == [p \in Packages |-> RunAndInstall(p)]

LEMMA WantedIsReach ==
    /\ WantedInstallSet = Reach(Packages, {Start}, RunAndPostEdges)
    /\ WantedBuildTargetSet = Reach(Packages, ToSet(Direct(Start).build_target), RunEdges)
    /\ WantedReusableTargets = Reach(Packages, ToSet(ReusableSeeds), RunEdges)
    /\ WantedReusableHosts =
           Reach(Packages, UNION {Install(p) : p \in WantedReusableTargets}, RunAndInstallEdges)
<1>1. WantedInstallSet = Reach(Packages, {Start}, RunAndPostEdges)
    BY DEF WantedInstallSet, Closure, Reach, RunAndPostEdges
<1>2. WantedBuildTargetSet = Reach(Packages, ToSet(Direct(Start).build_target), RunEdges)
    BY DEF WantedBuildTargetSet, Closure, Reach, RunEdges
<1>3. WantedReusableTargets = Reach(Packages, ToSet(ReusableSeeds), RunEdges)
    BY DEF WantedReusableTargets, Closure, Reach, RunEdges
<1>4. WantedReusableHosts =
          Reach(Packages, UNION {Install(p) : p \in WantedReusableTargets}, RunAndInstallEdges)
    BY DEF WantedReusableHosts, Closure, Reach, RunAndInstallEdges
<1> QED
    BY <1>1, <1>2, <1>3, <1>4
-----------------------------------------------------------------------------
(* The input of the analysis                                               *)
InputInv == input \in Inputs

LEMMA Lists ==
    ASSUME InputInv
    PROVE  /\ Start \in Packages
           /\ \A p \in Packages :
                  /\ Direct(p).build_target \in Seq(Packages)
                  /\ Direct(p).build_host \in Seq(Packages)
                  /\ Direct(p).run_target \in Seq(Packages)
                  /\ Direct(p).post_target \in Seq(Packages)
                  /\ Direct(p).install_host \in Seq(Packages)
BY InputsAssumption DEF InputInv, Start, Direct, Deps

LEMMA Edges ==
    ASSUME InputInv
    PROVE  /\ RunEdges \in [Packages -> SUBSET Packages]
           /\ RunAndPostEdges \in [Packages -> SUBSET Packages]
           /\ RunAndInstallEdges \in [Packages -> SUBSET Packages]
           /\ \A p \in Packages : Install(p) \subseteq Packages
<1>1. \A p \in Packages : /\ Run(p) \subseteq Packages
                          /\ Post(p) \subseteq Packages
                          /\ Install(p) \subseteq Packages
    BY Lists, MembersOfList DEF Run, Post, Install
<1> QED
    BY <1>1 DEF RunEdges, RunAndPostEdges, RunAndInstallEdges, RunAndPost, RunAndInstall

LEMMA Seeds ==
    ASSUME InputInv
    PROVE  /\ ReusableSeeds \in Seq(Packages)
           /\ ToSet(Direct(Start).build_target) \subseteq Packages
           /\ ToSet(ReusableSeeds) \subseteq ToSet(Direct(Start).build_target)
<1> DEFINE B == ToSet(Direct(Start).build_target)
           R == ToSet(Direct(Start).run_target)
<1>1. B \subseteq Packages /\ IsFiniteSet(B)
    BY Lists, MembersOfList
<1> HIDE DEF B, R
<1>2. IsFiniteSet(B \intersect R)
    BY <1>1, FS_Subset
<1>3. SetToSeq(B \intersect R) \in Seq(B \intersect R) /\ ToSet(SetToSeq(B \intersect R)) = B \intersect R
    BY <1>2, ListOfSet
<1>4. ReusableSeeds = SetToSeq(B \intersect R)
    BY DEF ReusableSeeds, B, R
<1>5. ReusableSeeds \in Seq(Packages)
    BY <1>1, <1>3, <1>4
<1> QED
    BY <1>1, <1>3, <1>4, <1>5 DEF B

Nodes == Packages \X {"host", "target"}

NodeEdges ==
    [n \in Nodes |-> {<<q, n[2]>> : q \in Run(n[1])} \union {<<q, "host">> : q \in Install(n[1])}]

TargetNodes(S) == {<<p, "target">> : p \in S}

LEMMA TypedList ==
    ASSUME NEW s \in Seq(Packages), NEW type \in {"host", "target"}
    PROVE  /\ Typed(s, type) \in Seq(Nodes)
           /\ ToSet(Typed(s, type)) = {<<p, type>> : p \in ToSet(s)}
<1>1. DOMAIN s = 1 .. Len(s) /\ Len(s) \in Nat /\ \A i \in DOMAIN s : s[i] \in Packages
    OBVIOUS
<1>2. Typed(s, type) \in [1 .. Len(s) -> Nodes]
    BY <1>1 DEF Typed, Nodes
<1>3. Typed(s, type) \in Seq(Nodes)
    BY <1>1, <1>2
<1> QED
    BY <1>3 DEF Typed, ToSet

\* The search over nodes finds the closure over target packages, and that
\* over host packages of what their IDEPENDs add
LEMMA NodesReached ==
    ASSUME InputInv
    PROVE  Reach(Nodes, TargetNodes(ToSet(ReusableSeeds)), NodeEdges) =
               {<<p, "target">> : p \in WantedReusableTargets}
                   \union {<<p, "host">> : p \in WantedReusableHosts}
<1> DEFINE S == ToSet(ReusableSeeds)
           R == Reach(Nodes, TargetNodes(S), NodeEdges)
           T == {p \in Packages : <<p, "target">> \in R}
           H == {p \in Packages : <<p, "host">> \in R}
           WT == WantedReusableTargets
           WH == WantedReusableHosts
           I == UNION {Install(p) : p \in WT}
           C == {<<p, "target">> : p \in WT} \union {<<p, "host">> : p \in WH}
<1>1. S \subseteq Packages
    BY Seeds
<1>2. /\ TargetNodes(S) \subseteq Nodes
      /\ NodeEdges \in [Nodes -> SUBSET Nodes]
    <2>1. \A p \in Packages : Run(p) \subseteq Packages /\ Install(p) \subseteq Packages
        BY Lists, MembersOfList DEF Run, Install
    <2> QED
        BY <1>1, <2>1 DEF TargetNodes, NodeEdges, Nodes
<1>3. /\ TargetNodes(S) \subseteq R
      /\ \A n \in R : NodeEdges[n] \subseteq R
    BY <1>2, ReachIsClosed
<1>4. R \subseteq Nodes
    BY DEF Reach
<1>5. /\ WT = Reach(Packages, S, RunEdges)
      /\ WH = Reach(Packages, I, RunAndInstallEdges)
    BY WantedIsReach
<1>6. WT \subseteq Packages /\ WH \subseteq Packages
    BY <1>5 DEF Reach
<1>7. I \subseteq Packages
    BY <1>6, Edges
<1>8. /\ S \subseteq WT
      /\ \A q \in WT : RunEdges[q] \subseteq WT
    BY <1>1, <1>5, Edges, ReachIsClosed
<1>9. /\ I \subseteq WH
      /\ \A q \in WH : RunAndInstallEdges[q] \subseteq WH
    BY <1>5, <1>7, Edges, ReachIsClosed
<1> HIDE DEF R, WT, WH
<1>10. WT \subseteq T
    <2>1. S \subseteq T
        BY <1>1, <1>3 DEF TargetNodes
    <2>2. \A q \in T : RunEdges[q] \subseteq T
        <3> SUFFICES ASSUME NEW q \in T, NEW p \in RunEdges[q] PROVE p \in T
            OBVIOUS
        <3>1. p \in Packages /\ p \in Run(q)
            BY Edges DEF RunEdges
        <3>2. <<q, "target">> \in R /\ <<q, "target">> \in Nodes
            BY <1>4
        <3>3. <<p, "target">> \in NodeEdges[<<q, "target">>]
            BY <3>1, <3>2 DEF NodeEdges
        <3> QED
            BY <1>3, <3>1, <3>2, <3>3
    <2> QED
        BY <1>5, <2>1, <2>2, ReachIsLeast
<1>11. WH \subseteq H
    <2>1. I \subseteq H
        <3> SUFFICES ASSUME NEW q \in WT, NEW p \in Install(q) PROVE p \in H
            OBVIOUS
        <3>1. p \in Packages
            BY <1>6, Edges
        <3>2. <<q, "target">> \in R /\ <<q, "target">> \in Nodes
            BY <1>4, <1>10
        <3>3. <<p, "host">> \in NodeEdges[<<q, "target">>]
            BY <3>2 DEF NodeEdges
        <3> QED
            BY <1>3, <3>1, <3>2, <3>3
    <2>2. \A q \in H : RunAndInstallEdges[q] \subseteq H
        <3> SUFFICES ASSUME NEW q \in H, NEW p \in RunAndInstallEdges[q] PROVE p \in H
            OBVIOUS
        <3>1. p \in Packages /\ (p \in Run(q) \/ p \in Install(q))
            BY Edges DEF RunAndInstallEdges, RunAndInstall
        <3>2. <<q, "host">> \in R /\ <<q, "host">> \in Nodes
            BY <1>4
        <3>3. <<p, "host">> \in NodeEdges[<<q, "host">>]
            BY <3>1, <3>2 DEF NodeEdges
        <3> QED
            BY <1>3, <3>1, <3>2, <3>3
    <2> QED
        BY <1>5, <2>1, <2>2, ReachIsLeast
<1>12. R \subseteq C
    <2>1. C \subseteq Nodes
        BY <1>6 DEF Nodes
    <2>2. TargetNodes(S) \subseteq C
        BY <1>8 DEF TargetNodes
    <2>3. \A p \in WT : NodeEdges[<<p, "target">>] \subseteq C
        <3> TAKE p \in WT
        <3>1. p \in Packages /\ <<p, "target">> \in Nodes
            BY <1>6 DEF Nodes
        <3>2. Run(p) \subseteq WT
            BY <1>8, <3>1 DEF RunEdges
        <3>3. Install(p) \subseteq WH
            BY <1>9
        <3>4. NodeEdges[<<p, "target">>] =
                  {<<q, "target">> : q \in Run(p)} \union {<<q, "host">> : q \in Install(p)}
            BY <3>1 DEF NodeEdges
        <3> QED
            BY <3>2, <3>3, <3>4
    <2>4. \A p \in WH : NodeEdges[<<p, "host">>] \subseteq C
        <3> TAKE p \in WH
        <3>1. p \in Packages /\ <<p, "host">> \in Nodes
            BY <1>6 DEF Nodes
        <3>2. Run(p) \subseteq WH /\ Install(p) \subseteq WH
            BY <1>9, <3>1 DEF RunAndInstallEdges, RunAndInstall
        <3>3. NodeEdges[<<p, "host">>] =
                  {<<q, "host">> : q \in Run(p)} \union {<<q, "host">> : q \in Install(p)}
            BY <3>1 DEF NodeEdges
        <3> QED
            BY <3>2, <3>3
    <2>5. \A n \in C : NodeEdges[n] \subseteq C
        BY <2>3, <2>4
    <2> QED
        BY <2>1, <2>2, <2>5, ReachIsLeast DEF R
<1>13. C \subseteq R
    BY <1>10, <1>11
<1> QED
    BY <1>12, <1>13 DEF R, WT, WH
-----------------------------------------------------------------------------
(* The inductive invariant: the search under way is a good one, and each   *)
(* that has ended left the closure behind                                  *)
SearchInv ==
    /\ phase = "install" =>
           GoodSearch(Packages, {Start}, RunAndPostEdges, visited, stack)
    /\ phase = "target" =>
           GoodSearch(Packages, ToSet(Direct(Start).build_target), RunEdges, visited, stack)
    /\ phase = "reusable" =>
           GoodSearch(Nodes, TargetNodes(ToSet(ReusableSeeds)), NodeEdges, visited, stack)

ResultsInv ==
    /\ phase \in {"target", "idepend", "reusable", "done"} => installSet = WantedInstallSet
    /\ phase \in {"idepend", "reusable", "done"} => buildTargetSet = WantedBuildTargetSet
    /\ phase = "done" =>
           /\ reusableTargetSet = WantedReusableTargets
           /\ reusableHostSet = WantedReusableHosts

IInv == InputInv /\ SearchInv /\ ResultsInv

LEMMA InitSearches == Init => IInv
BY DEF Init, IInv, InputInv, SearchInv, ResultsInv

\* What is wanted depends on the input alone
LEMMA WantedStays ==
    ASSUME input' = input
    PROVE  /\ InputInv' <=> InputInv
           /\ Start' = Start
           /\ RunEdges' = RunEdges
           /\ RunAndPostEdges' = RunAndPostEdges
           /\ NodeEdges' = NodeEdges
           /\ ToSet(Direct(Start).build_target)' = ToSet(Direct(Start).build_target)
           /\ ReusableSeeds' = ReusableSeeds
           /\ WantedInstallSet' = WantedInstallSet
           /\ WantedBuildTargetSet' = WantedBuildTargetSet
           /\ WantedReusableTargets' = WantedReusableTargets
           /\ WantedReusableHosts' = WantedReusableHosts
BY DEF InputInv, Start, Direct, RunEdges, RunAndPostEdges, NodeEdges, Run, Post, Install,
       RunAndPost, RunAndInstall, ReusableSeeds, WantedInstallSet, WantedBuildTargetSet,
       WantedReusableTargets, WantedReusableHosts, Closure

LEMMA InputStays == [Next]_vars => input' = input
BY DEF Next, vars, Begin, BeginFails, SkipVisited, Visit, VisitFails, EndInstall, EndTarget,
       CollectIdepend, EndIdepend, SkipReusable, VisitReusable, VisitReusableFails,
       EndReusable, Abort

LEMMA FollowsEdges ==
    ASSUME InputInv, NEW p \in Packages
    PROVE  /\ Follows(p) \in Seq(Packages)
           /\ phase = "install" => ToSet(Follows(p)) = RunAndPostEdges[p]
           /\ phase # "install" => ToSet(Follows(p)) = RunEdges[p]
BY Lists, JoinedList DEF Follows, RunAndPostEdges, RunEdges, RunAndPost, Run, Post

LEMMA FollowsNodeEdges ==
    ASSUME InputInv, NEW n \in Nodes
    PROVE  /\ FollowsReusable(n) \in Seq(Nodes)
           /\ ToSet(FollowsReusable(n)) = NodeEdges[n]
<1>1. n[1] \in Packages /\ n[2] \in {"host", "target"}
    BY DEF Nodes
<1>2. /\ Typed(Direct(n[1]).run_target, n[2]) \in Seq(Nodes)
      /\ ToSet(Typed(Direct(n[1]).run_target, n[2])) = {<<q, n[2]>> : q \in Run(n[1])}
    BY <1>1, Lists, TypedList DEF Run
<1>3. /\ Typed(Direct(n[1]).install_host, "host") \in Seq(Nodes)
      /\ ToSet(Typed(Direct(n[1]).install_host, "host")) = {<<q, "host">> : q \in Install(n[1])}
    BY <1>1, Lists, TypedList DEF Install
<1> QED
    BY <1>2, <1>3, JoinedList DEF FollowsReusable, NodeEdges

LEMMA SeedSets ==
    ASSUME InputInv
    PROVE  /\ {Start} \in SUBSET Packages
           /\ ToSet(Direct(Start).build_target) \in SUBSET Packages
           /\ TargetNodes(ToSet(ReusableSeeds)) \in SUBSET Nodes
           /\ NodeEdges \in [Nodes -> SUBSET Nodes]
<1>1. \A p \in Packages : Run(p) \subseteq Packages /\ Install(p) \subseteq Packages
    BY Lists, MembersOfList DEF Run, Install
<1> QED
    BY <1>1, Lists, Seeds DEF TargetNodes, NodeEdges, Nodes

LEMMA StepSearches == IInv /\ [Next]_vars => IInv'
<1> SUFFICES ASSUME IInv, [Next]_vars PROVE IInv'
    OBVIOUS
<1>1. /\ InputInv /\ SearchInv /\ ResultsInv
      /\ input' = input
    BY InputStays DEF IInv
<1> DEFINE B == ToSet(Direct(Start).build_target)
           S == TargetNodes(ToSet(ReusableSeeds))
<1>2. /\ InputInv'
      /\ WantedInstallSet' = WantedInstallSet
      /\ WantedBuildTargetSet' = WantedBuildTargetSet
      /\ WantedReusableTargets' = WantedReusableTargets
      /\ WantedReusableHosts' = WantedReusableHosts
    BY <1>1, WantedStays
<1>3. SearchInv' <=>
          /\ phase' = "install" =>
                 GoodSearch(Packages, {Start}, RunAndPostEdges, visited', stack')
          /\ phase' = "target" =>
                 GoodSearch(Packages, B, RunEdges, visited', stack')
          /\ phase' = "reusable" =>
                 GoodSearch(Nodes, S, NodeEdges, visited', stack')
    BY <1>1, WantedStays DEF SearchInv, GoodSearch, TargetNodes
<1>4. CASE Abort
    BY <1>1, <1>2, <1>3, <1>4 DEF Abort, IInv, ResultsInv
<1>5. CASE UNCHANGED vars
    BY <1>1, <1>2, <1>3, <1>5 DEF vars, search, results, IInv, ResultsInv, SearchInv
<1>6. CASE Begin
    <2>1. /\ phase' = "install"
          /\ stack' = <<Start>>
          /\ visited' = {}
        BY <1>6 DEF Begin, BeginSearch
    <2>2. <<Start>> \in Seq(Packages) /\ ToSet(<<Start>>) = {Start}
        BY <1>1, Lists DEF ToSet
    <2>3. GoodSearch(Packages, {Start}, RunAndPostEdges, visited', stack')
        BY <1>1, <2>1, <2>2, SearchBegins, Edges
    <2> QED
        BY <1>2, <1>3, <2>1, <2>3 DEF IInv, ResultsInv
<1>7. CASE SkipVisited
    <2>1. SearchInv'
        BY <1>1, <1>3, <1>7, SearchSkips DEF SkipVisited, SearchInv, Searching
    <2> QED
        BY <1>1, <1>2, <1>7, <2>1 DEF SkipVisited, results, IInv, ResultsInv
<1>8. CASE Visit
    <2> DEFINE p == Last(stack)
    <2>1. /\ Searching
          /\ stack # << >>
          /\ phase' = phase
          /\ visited' = visited \union {p}
          /\ stack' = Front(stack) \o Follows(p)
        BY <1>8 DEF Visit
    <2>2. p \in Packages
        BY <1>1, <2>1, LastOfList DEF SearchInv, GoodSearch, Searching
    <2> HIDE DEF p
    <2>3. ASSUME phase = "install" PROVE SearchInv'
        <3>1. ToSet(Follows(p)) = RunAndPostEdges[p] /\ Follows(p) \in Seq(Packages)
            BY <1>1, <2>2, <2>3, FollowsEdges
        <3>2. GoodSearch(Packages, {Start}, RunAndPostEdges, visited', stack')
            BY <1>1, <2>1, <2>3, <3>1, SearchVisits, SeedSets, Edges DEF SearchInv, p
        <3> QED
            BY <1>3, <2>1, <2>3, <3>2
    <2>4. ASSUME phase = "target" PROVE SearchInv'
        <3>1. ToSet(Follows(p)) = RunEdges[p] /\ Follows(p) \in Seq(Packages)
            BY <1>1, <2>2, <2>4, FollowsEdges
        <3>2. GoodSearch(Packages, B, RunEdges, visited', stack')
            BY <1>1, <2>1, <2>4, <3>1, SearchVisits, SeedSets, Edges DEF SearchInv, p
        <3> QED
            BY <1>3, <2>1, <2>4, <3>2
    <2>5. SearchInv'
        BY <2>1, <2>3, <2>4 DEF Searching
    <2> QED
        BY <1>1, <1>2, <1>8, <2>5 DEF Visit, results, IInv, ResultsInv
<1>9. CASE EndInstall
    <2>1. /\ phase = "install" /\ stack = << >>
          /\ phase' = "target"
          /\ stack' = Direct(Start).build_target
          /\ visited' = {}
          /\ installSet' = visited
        BY <1>9 DEF EndInstall, BeginSearch
    <2>2. visited = Reach(Packages, {Start}, RunAndPostEdges)
        BY <1>1, <2>1, SearchEnds DEF SearchInv
    <2>3. GoodSearch(Packages, B, RunEdges, visited', stack')
        BY <1>1, <2>1, SearchBegins, Lists, Edges
    <2> QED
        BY <1>2, <1>3, <2>1, <2>2, <2>3, WantedIsReach DEF IInv, ResultsInv
<1>10. CASE EndTarget
    <2>1. /\ phase = "target" /\ stack = << >>
          /\ phase' = "idepend"
          /\ buildTargetSet' = visited
          /\ installSet' = installSet
        BY <1>10 DEF EndTarget, BeginSearch
    <2>2. visited = Reach(Packages, B, RunEdges)
        BY <1>1, <2>1, SearchEnds DEF SearchInv
    <2> QED
        BY <1>1, <1>2, <1>3, <2>1, <2>2, WantedIsReach DEF IInv, ResultsInv
<1>11. CASE \E p \in Packages : CollectIdepend(p)
    BY <1>1, <1>2, <1>3, <1>11 DEF CollectIdepend, IInv, ResultsInv
<1>12. CASE EndIdepend
    <2>1. /\ phase = "idepend"
          /\ phase' = "reusable"
          /\ stack' = Typed(ReusableSeeds, "target")
          /\ visited' = {}
          /\ installSet' = installSet
          /\ buildTargetSet' = buildTargetSet
        BY <1>12 DEF EndIdepend, BeginSearch, Typed
    <2>2. /\ Typed(ReusableSeeds, "target") \in Seq(Nodes)
          /\ ToSet(Typed(ReusableSeeds, "target")) = S
        BY <1>1, Seeds, TypedList DEF TargetNodes
    <2>3. GoodSearch(Nodes, S, NodeEdges, visited', stack')
        BY <1>1, <2>1, <2>2, SearchBegins, SeedSets
    <2> QED
        BY <1>1, <1>2, <1>3, <2>1, <2>3 DEF IInv, ResultsInv
<1>13. CASE SkipReusable
    <2>1. SearchInv'
        BY <1>1, <1>3, <1>13, SearchSkips DEF SkipReusable, SearchInv
    <2> QED
        BY <1>1, <1>2, <1>13, <2>1 DEF SkipReusable, results, IInv, ResultsInv
<1>14. CASE VisitReusable
    <2> DEFINE n == Last(stack)
    <2>1. /\ phase = "reusable"
          /\ stack # << >>
          /\ phase' = phase
          /\ visited' = visited \union {n}
          /\ stack' = Front(stack) \o FollowsReusable(n)
        BY <1>14 DEF VisitReusable
    <2>2. n \in Nodes
        BY <1>1, <2>1, LastOfList DEF SearchInv, GoodSearch
    <2> HIDE DEF n
    <2>3. FollowsReusable(n) \in Seq(Nodes) /\ ToSet(FollowsReusable(n)) = NodeEdges[n]
        BY <1>1, <2>2, FollowsNodeEdges
    <2>4. GoodSearch(Nodes, S, NodeEdges, visited', stack')
        BY <1>1, <2>1, <2>3, SearchVisits, SeedSets DEF SearchInv, n
    <2> QED
        BY <1>1, <1>2, <1>3, <1>14, <2>1, <2>4 DEF VisitReusable, results, IInv, ResultsInv
<1>15. CASE EndReusable
    <2>1. /\ phase = "reusable" /\ stack = << >>
          /\ phase' = "done"
          /\ installSet' = installSet
          /\ buildTargetSet' = buildTargetSet
          /\ reusableHostSet' = OfType("host")
          /\ reusableTargetSet' = OfType("target")
        BY <1>15 DEF EndReusable, BeginSearch
    <2>2. visited = Reach(Nodes, S, NodeEdges)
        BY <1>1, <2>1, SearchEnds DEF SearchInv
    <2>3. visited = {<<p, "target">> : p \in WantedReusableTargets}
                        \union {<<p, "host">> : p \in WantedReusableHosts}
        BY <1>1, <2>2, NodesReached
    <2>4. WantedReusableTargets \subseteq Packages /\ WantedReusableHosts \subseteq Packages
        BY DEF WantedReusableTargets, WantedReusableHosts, Closure
    <2>5. OfType("target") = WantedReusableTargets /\ OfType("host") = WantedReusableHosts
        BY <2>3, <2>4 DEF OfType
    <2> QED
        BY <1>1, <1>2, <1>3, <2>1, <2>5 DEF IInv, ResultsInv
<1> QED
    BY <1>4, <1>5, <1>6, <1>7, <1>8, <1>9, <1>10, <1>11, <1>12, <1>13, <1>14, <1>15
       DEF Next, BeginFails, VisitFails, VisitReusableFails

(* Whatever circles the dependencies have and whichever order they are     *)
(* listed in, an analysis that succeeds leaves exactly the closures of the *)
(* edges each set is about (indirect.rs:25-73).                            *)
THEOREM SearchesFindClosures == Spec => [](SetsAreClosures /\ IInv)
<1>1. IInv => SetsAreClosures
    <2>1. ASSUME InputInv PROVE WantedReusableTargets \subseteq WantedBuildTargetSet
        BY <2>1, Seeds DEF WantedReusableTargets, WantedBuildTargetSet, Closure
    <2> QED
        BY <2>1 DEF IInv, ResultsInv, SetsAreClosures
<1> QED
    BY <1>1, InitSearches, StepSearches, PTL DEF Spec
-----------------------------------------------------------------------------
(* Types: the map of IDEPENDs is empty until the target set is there       *)
TypesInv ==
    /\ TypeOK
    /\ phase \in {"begin", "install", "target"} => DOMAIN idepends = {}

LEMMA InitTypes == Init => TypesInv
BY DEF Init, TypesInv, TypeOK

LEMMA InsertAllTypes ==
    ASSUME InputInv, NEW p \in Packages, idepends \in [DOMAIN idepends -> Packages]
    PROVE  /\ InsertAll(idepends, p) \in [DOMAIN InsertAll(idepends, p) -> Packages]
           /\ DOMAIN InsertAll(idepends, p) \subseteq DOMAIN idepends \union {p}
<1> DEFINE i == Direct(p).install_host
<1>1. i \in Seq(Packages)
    BY Lists
<1> HIDE DEF i
<1>2. i # << >> => Last(i) \in Packages
    BY <1>1, LastOfList
<1>3. InsertAll(idepends, p) =
          IF i = << >> THEN idepends
          ELSE [q \in DOMAIN idepends \union {p} |-> IF q = p THEN Last(i) ELSE idepends[q]]
    BY DEF InsertAll, i
<1>4. CASE i = << >>
    BY <1>3, <1>4
<1>5. CASE i # << >>
    <2>1. \A q \in DOMAIN idepends : idepends[q] \in Packages
        OBVIOUS
    <2> QED
        BY <1>2, <1>3, <1>5, <2>1
<1> QED
    BY <1>4, <1>5

LEMMA StepTypes == TypesInv /\ IInv /\ [Next]_vars => TypesInv'
<1> SUFFICES ASSUME TypesInv, IInv, [Next]_vars PROVE TypesInv'
    OBVIOUS
<1> USE DEF TypesInv, TypeOK, BeginSearch, results
<1>1. InputInv
    BY DEF IInv
<1>2. CASE Abort
    BY <1>2 DEF Abort
<1>3. CASE UNCHANGED vars
    BY <1>3 DEF vars, search
<1>4. CASE Begin
    BY <1>4 DEF Begin
<1>5. CASE SkipVisited \/ Visit \/ SkipReusable \/ VisitReusable
    BY <1>5 DEF SkipVisited, Visit, SkipReusable, VisitReusable
<1>6. CASE EndInstall
    BY <1>6 DEF EndInstall, IInv, SearchInv, GoodSearch
<1>7. CASE EndTarget
    BY <1>7 DEF EndTarget, IInv, SearchInv, GoodSearch
<1>8. ASSUME NEW p \in Packages, CollectIdepend(p) PROVE TypesInv'
    <2>1. /\ phase = "idepend" /\ phase' = "idepend"
          /\ p \in buildTargetSet
          /\ idepends' = InsertAll(idepends, p)
          /\ UNCHANGED <<installSet, buildTargetSet, buildHostSet, reusableHostSet,
                         reusableTargetSet>>
        BY <1>8 DEF CollectIdepend
    <2> QED
        BY <1>1, <2>1, InsertAllTypes
<1>9. CASE EndIdepend
    <2>1. /\ phase' = "reusable"
          /\ buildHostSet' = ToSet(Direct(Start).build_host) \union Range(idepends)
          /\ UNCHANGED <<installSet, buildTargetSet, idepends, reusableHostSet,
                         reusableTargetSet>>
        BY <1>9 DEF EndIdepend
    <2>2. ToSet(Direct(Start).build_host) \subseteq Packages
        BY <1>1, Lists, MembersOfList
    <2>3. Range(idepends) \subseteq Packages
        BY DEF Range
    <2> QED
        BY <2>1, <2>2, <2>3
<1>10. CASE EndReusable
    BY <1>10 DEF EndReusable, OfType
<1> QED
    BY <1>2, <1>3, <1>4, <1>5, <1>6, <1>7, <1>8, <1>9, <1>10
       DEF Next, BeginFails, VisitFails, VisitReusableFails

(* Every set and map of the analysis holds packages of local_map only, and *)
(* an IDEPEND is recorded for packages of the target set alone.            *)
THEOREM IndirectTyping == Spec => []TypeOK
<1>1. TypesInv => TypeOK
    BY DEF TypesInv
<1> QED
    BY <1>1, InitTypes, StepTypes, SearchesFindClosures, PTL DEF Spec
=============================================================================
