----------------------------- MODULE MCContainer -----------------------------
(***************************************************************************)
(* Every list of up to three layers, mounted and prepared, used for two    *)
(* containers; and two containers of one layer, with a command in each.        *)
(***************************************************************************)
EXTENDS Container

MCLayer(type, kind, i) ==
    [type |-> type,
     node |-> IF kind = "absent" THEN Empty.node ELSE [kind |-> kind, from |-> i]]

Lists(n, types, kinds) ==
    {[i \in 1 .. n |-> MCLayer(ts[i], ks[i], i)] :
        ts \in [1 .. n -> types], ks \in [1 .. n -> kinds]}

Layered ==
    Lists(0, {"dir"}, {"file"})
    \union Lists(2, {"archive", "dir", "tree"}, {"absent", "file", "dir"})
    \union Lists(3, {"archive", "dir", "tree"}, {"absent", "file"})

MCRequests ==
    [layers : Layered, use : {"mount"}, run : {FALSE}]
    \union [layers : Lists(1, {"archive", "tree"}, {"file"}), use : {"prepare"}, run : {FALSE}]
    \union [layers : Lists(1, {"dir"}, {"file"}), use : {"prepare"}, run : {TRUE}]
=============================================================================
