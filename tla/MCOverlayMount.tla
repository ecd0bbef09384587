--------------------------- MODULE MCOverlayMount ---------------------------
(***************************************************************************)
(* Every stack of up to MaxLowers * MaxLowers layers over two paths, where *)
(* MaxLowers is 2, and one stack too many.                                 *)
(***************************************************************************)
EXTENDS OverlayMount

Node(kind, i) == IF kind = "absent" THEN Absent ELSE [kind |-> kind, from |-> i]

\* What a layer can have at D and F
LayerKinds ==
    {<<"absent", "absent">>, <<"whiteout", "absent">>, <<"file", "absent">>,
     <<"dir", "absent">>, <<"dir", "whiteout">>, <<"dir", "file">>}

MCLayer(k, i) == [p \in Paths |-> Node(k[IF p = D THEN 1 ELSE 2], i)]

StacksOf(n, kinds) == {[i \in 1 .. n |-> MCLayer(ks[i], i)] : ks \in [1 .. n -> kinds]}

MCLayerStacks ==
    UNION {StacksOf(n, LayerKinds) : n \in 0 .. 4} \union StacksOf(5, {<<"dir", "file">>})
============================================================================
