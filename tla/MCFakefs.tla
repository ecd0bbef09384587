------------------------------- MODULE MCFakefs -------------------------------
(* A command of two threads that starts another process                    *)
EXTENDS Fakefs, TLC

CONSTANTS main, helper, child, file, link, secret, gone, keep

MCProcess == main :> main @@ helper :> main @@ child :> child
MCKind == file :> "plain" @@ link :> "link" @@ secret :> "unreadable" @@ gone :> "missing"

Ids(uid, gid) == [uid |-> uid, gid |-> gid]
MCOriginal == Ids(0, 0)
MCAsks ==
    main :> {Call("stat", file, "path", MCOriginal), Call("chown", file, "fd", Ids(keep, 1))}
    @@ helper :> {Call("chown", file, "path", MCOriginal), Call("list", file, "fd", MCOriginal)}
    @@ child :> {Call("stat", secret, "fd", MCOriginal), Call("chown", link, "path", MCOriginal),
                 Call("list", gone, "path", MCOriginal), Call("probe", Nobody, "none", MCOriginal)}
===============================================================================
