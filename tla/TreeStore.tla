----------------------------- MODULE TreeStore -----------------------------
(***************************************************************************)
(* What a durable tree promises to its users (lib.rs:26-40, 127-138): a    *)
(* Bazel action leaves a directory and publishes it; from then on any      *)
(* number of readers may hold the directory at once, each of them sees it  *)
(* as the action left it, and what a reader sees stands still for as long  *)
(* as it holds it.  The cache, the restoration, the layers and the locks   *)
(* are no part of the promise.                                             *)
(***************************************************************************)
CONSTANTS
    Readers,    \* processes that use the tree
    Contents,   \* Each is the set of faithful views of one directory
    Nobody      \* the view of a reader that holds nothing

VARIABLES
    content,    \* the faithful views of the directory the action left
    published,  \* has the action finished?
    view        \* what each reader sees

vars == <<content, published, view>>

Init ==
    /\ content \in Contents
    /\ published = FALSE
    /\ view = [r \in Readers |-> Nobody]

\* The action failed and runs again
Replace ==
    /\ ~published
    /\ content' \in Contents
    /\ UNCHANGED <<published, view>>

Publish ==
    /\ ~published
    /\ published' = TRUE
    /\ UNCHANGED <<content, view>>

Open(r) ==
    /\ published
    /\ view[r] = Nobody
    /\ \E v \in content : view' = [view EXCEPT ![r] = v]
    /\ UNCHANGED <<content, published>>

Close(r) ==
    /\ view[r] # Nobody
    /\ view' = [view EXCEPT ![r] = Nobody]
    /\ UNCHANGED <<content, published>>

Next ==
    \/ Replace
    \/ Publish
    \/ \E r \in Readers : Open(r) \/ Close(r)

Spec == Init /\ [][Next]_vars
============================================================================
