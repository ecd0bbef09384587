---------------------------- MODULE MCLayerAction -----------------------------
(***************************************************************************)
(* LayerAction with packages that have every way in which two directories  *)
(* can meet or hooks that make up to two accesses, with converters of one  *)
(* directory, and with a command and a program that it starts              *)
(***************************************************************************)
EXTENDS LayerAction, TLC

\* What a program that takes no steps is called with
NoInput == [image |-> << >>, host |-> FALSE, sparse |-> TRUE, shared |-> TRUE, xpak |-> {}, hooks |-> << >>]
NoOptions == [log |-> FALSE, profile |-> FALSE, privileged |-> FALSE]
MCInit ==
    /\ LayerInit
    /\ input = NoInput <=> part # "extract"
    /\ part # "wrapper" => cli = NoOptions

\* Every converter is scheduled, as in FairSpec; the other programs may stop anywhere
MCSpec ==
    /\ MCInit /\ [][LayerNext]_layerVars
    /\ \A c \in Converters : WF_layerVars(ConverterStep(c))
----------------------------------------------------------------------------
(* Packages: images that try every way in which two directories can meet,  *)
(* and hooks that make up to two accesses                                  *)
MCNames ==
    <<"CONTENTS", "DURABLE_TREE", "SLOT", "a", "b", "bin", "build", "d", "db", "ebuild", "etc", "host",
      "lib", "lib64", "opt", "proc", "tmp", "usr", "var", "x">>
MCRank == [name \in ToSet(MCNames) |-> CHOOSE i \in DOMAIN MCNames : MCNames[i] = name]

Dir(meta, from) == from :> [kind |-> "dir", meta |-> meta, from |-> from]
File(from) == from :> [kind |-> "file", meta |-> "0644", from |-> from]
Link(from) == from :> [kind |-> "link", meta |-> "0777", from |-> from]
Nothing == << >>

Lib == <<"lib">>
Lib64 == <<"lib64">>
MCRenames == << <<Lib, Lib64>>, << <<"usr", "lib">>, <<"usr", "lib64">> >> >>

\* What a directory may hold under a, b and d
A(dir) == LET a == dir \o <<"a">> IN {Nothing, File(a), Dir("0755", a)}
B(dir) == LET b == dir \o <<"b">> IN {Nothing, File(b)}
D(dir) ==
    LET d == dir \o <<"d">>
        x == d \o <<"x">>
    IN  {Nothing, Link(d)} \union {Dir(meta, d) @@ in : meta \in {"0755", "0700"}, in \in {Nothing, File(x)}}
Full(dir) == {Dir("0755", dir) @@ a @@ b @@ d : a \in A(dir), b \in B(dir), d \in D(dir)}
Images ==
    {lib @@ lib64 : lib \in Full(Lib), lib64 \in {Nothing, Link(Lib64), Dir("0700", Lib64)} \union Full(Lib64)}
        \union {Link(Lib) @@ File(<<"lib64">>)}
        \union {Dir("0755", <<"usr">>) @@ Dir("0755", Lib) @@ lib @@ lib64 :
                    lib \in {Dir("0755", <<"usr", "lib">>) @@ a @@ b :
                               a \in A(<<"usr", "lib">>), b \in B(<<"usr", "lib">>)},
                    lib64 \in {Nothing, Dir("0755", <<"usr", "lib64">>)}}

MCVdbInImage == <<"var", "db">>
MCVdbRoot == <<"build", "var", "db">>
MCMockDirs == {<<"etc">>, <<"tmp", "ebuild">>}
MCAllowedDirs == {<<"bin">>, <<"host">>, <<"proc">>}
MCMounted == {<<"proc">>}
MCMarker == <<"DURABLE_TREE">>
MCRoots == SUBSET {<<"etc">>, <<"etc", "a">>, <<"opt", "a">>, <<"bin", "a">>, <<"build", "a">>}

HookPaths ==
    {<<"etc">>, <<"etc", "a">>, <<"opt", "a">>, <<"bin">>, <<"bin", "a">>, <<"proc">>, <<"proc", "a">>,
     <<"host">>, <<"build">>, <<"build", "a">>, <<"build", "var", "db">>, <<"build", "var", "db", "SLOT">>,
     <<"build", "var", "db", "CONTENTS">>, MCMarker}
Accesses ==
    [access : {"lookup", "readdir"}, path : HookPaths, fatal : BOOLEAN]
        \union {[access |-> "internal", path |-> << >>, fatal |-> TRUE]}
Hooks == {<<one>> : one \in Accesses} \union {<<one, two>> : one, two \in Accesses}

Small == Dir("0755", <<"var">>) @@ Dir("0755", Lib) @@ File(<<"lib", "a">>)
Xpak == {"EAPI", "SLOT", "IUSE", "USE", "repository", "environment.bz2"}
MCInputs ==
    {NoInput} \union
    [image : Images, host : {TRUE}, sparse : {TRUE}, shared : {TRUE}, xpak : {Xpak}, hooks : {<< >>}]
        \union [image : {Small}, host : BOOLEAN, sparse : BOOLEAN, shared : BOOLEAN,
                xpak : {Xpak, Xpak \ {"IUSE"}, Xpak \ {"environment.bz2"}}, hooks : {<< >>}]
        \union [image : {Small}, host : {FALSE}, sparse : {FALSE}, shared : {FALSE}, xpak : {Xpak}, hooks : Hooks]
----------------------------------------------------------------------------
(* Commands with a program that they start, in every order in which both   *)
(* write their traces, end, are killed or are left behind; the wrapper is  *)
(* called as the rules of the SDK call it, with sudo and without a profile *)
(* or a log                                                                *)
Called(l, p, sudo) == [log |-> l, profile |-> p, privileged |-> sudo]
MCOptions == {Called(TRUE, TRUE, FALSE), Called(TRUE, FALSE, TRUE), Called(FALSE, FALSE, FALSE)}
===============================================================================
