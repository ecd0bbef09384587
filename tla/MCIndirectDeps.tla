--------------------------- MODULE MCIndirectDeps ---------------------------
(***************************************************************************)
(* Three packages, of which the first is analyzed.  Runtime dependencies   *)
(* take every shape that matters, circles included; a package has up to    *)
(* two install-time host dependencies.                                     *)
(***************************************************************************)
EXTENDS IndirectDeps

MCPackages == 1 .. 3

List(S) == SetToSortSeq(S, LAMBDA a, b : a < b)
Lists(S) == {List(s) : s \in SUBSET S}

DepsOf(bt, bh, rt, pt, ih) ==
    [build_target |-> bt, build_host |-> bh, run_target |-> rt,
     post_target |-> pt, install_host |-> ih]

Graphs ==
    {<<DepsOf(bt, <<3>>, r1, p1, << >>),
       DepsOf(<<1>>, << >>, r2, << >>, i2),
       DepsOf(<<2>>, << >>, r3, << >>, i3)>> :
        bt \in {<<2>>, <<2, 3>>}, r1 \in Lists({2, 3}), p1 \in Lists({3}),
        r2 \in Lists({1, 3}), r3 \in Lists({2}), i2 \in Lists({1, 3}), i3 \in Lists({2})}

MCInputs ==
    [start : {1}, deps : Graphs, broken : {{}, {1}, {2}, {3}}]
============================================================================
