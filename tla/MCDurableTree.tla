--------------------------- MODULE MCDurableTree ---------------------------
(***************************************************************************)
(* A directory d, a path d/f inside it and a path g beside it, over the    *)
(* kinds that make a difference to the layers and to the remote cache.     *)
(***************************************************************************)
EXTENDS DurableTree

D == <<"d">>
DF == <<"d", "f">>
G == <<"g">>

MCEntries == {Root, D, DF, G}

Shape(d, f, g) == (Root :> "dir") @@ (D :> d) @@ (DF :> f) @@ (G :> g)

Shapes ==
    {Shape("dir", f, g) : f \in {"absent", "file", "symlink"},
                          g \in {"absent", "whiteout"}}
    \union {Shape("absent", "absent", g) : g \in {"absent", "file", "whiteout"}}
    \union {Shape("dir", "other", "file")}

MCTrees ==
    {[kind |-> k, accessible |-> TRUE] : k \in Shapes}
    \union {[kind |-> Shape("absent", "absent", "file"), accessible |-> FALSE]}
============================================================================
