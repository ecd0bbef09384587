---------------------------- MODULE SourcePackages ----------------------------
(***************************************************************************)
(* Local sources become Bazel packages of the generated repository, nested *)
(* like their directories, with links to the files of the checkout.        *)
(*                                                                         *)
(* Paths are sequences of names, a path of "" in the code being << >>.  Of *)
(* a world, tree is the set of the files of the checkout, links are those  *)
(* that are symbolic links, odd are the names Bazel does not allow, and    *)
(* rank orders names.                                                      *)
(***************************************************************************)
EXTENDS Naturals, FiniteSets, SequencesExt, Functions

IsFile(source) == "at" \in DOMAIN source /\ ~source.dir
IsDirectory(source) == "at" \in DOMAIN source /\ source.dir
Below(prefix, path) == SubSeq(path, Len(prefix) + 1, Len(path))
Ancestors(paths) == UNION {{SubSeq(p, 1, i) : i \in 0 .. Len(p)} : p \in paths}
----------------------------------------------------------------------------
(* SourcePackageLayout::compute: the prefixes of packages, and which are   *)
(* in which.  A file of its own is in the package of its directory         *)

SourcePrefixes(sources) ==
    {s.at : s \in {x \in sources : IsDirectory(x)}}
    \union {Front(s.at) : s \in {x \in sources : IsFile(x)}}
SingleFiles(sources, prefix) ==
    {Last(s.at) : s \in {x \in sources : IsFile(x) /\ Front(x.at) = prefix}}

\* Paths are ordered by their components
Before(rank, p, q) ==
    \/ IsStrictPrefix(p, q)
    \/ \E i \in DOMAIN p \intersect DOMAIN q :
           SubSeq(p, 1, i - 1) = SubSeq(q, 1, i - 1) /\ rank[p[i]] < rank[q[i]]

\* Mutant: a parent is not put back once it has a child
AddPrefixPopped(state, prefix) ==
    LET last == SelectLastInSeq(state.stack, LAMBDA p : IsPrefix(p, prefix))
        enclosing == SubSeq(state.stack, 1, last)
    IN  [stack |-> Append(SubSeq(state.stack, 1, IF last = 0 THEN 0 ELSE last - 1), prefix),
         children |-> IF last = 0 THEN state.children
                      ELSE [state.children EXCEPT ![Last(enclosing)] = @ \union {prefix}]]

(* The stack holds the prefixes that enclose the one before; the innermost *)
(* of them that encloses the next is its parent                            *)
AddPrefix(state, prefix) ==
    LET last == SelectLastInSeq(state.stack, LAMBDA p : IsPrefix(p, prefix))
        enclosing == SubSeq(state.stack, 1, last)
    IN  [stack |-> Append(enclosing, prefix),
         children |-> IF last = 0 THEN state.children
                      ELSE [state.children EXCEPT ![Last(enclosing)] = @ \union {prefix}]]

Children(sources, rank) ==
    LET prefixes == SourcePrefixes(sources)
    IN  FoldLeft(AddPrefix, [stack |-> << >>, children |-> [p \in prefixes |-> {}]],
                 SetToSortSeq(prefixes, LAMBDA p, q : Before(rank, p, q))).children
----------------------------------------------------------------------------
(* SourcePackage::try_new: the files of a package, relative to it, and     *)
(* those that are not simply globbed                                       *)

SpecialNames == {"BUILD.bazel", "BUILD", "WORKSPACE.bazel", "WORKSPACE"}
SkippedNames == {".git", "__pycache__"}
HooksPrefix == <<"src", "scripts", "hooks">>
UnstableHook == <<"install", "find-missing-deps.sh">>

FilesOf(world, children, prefix) ==
    {Below(prefix, f) : f \in {g \in world.tree :
        IsStrictPrefix(prefix, g) /\ \A c \in children[prefix] : ~IsPrefix(c, g)}}

\* The walk does not enter .git, but does enter __pycache__
Walked(files) ==
    {p \in Ancestors(files) \ {<< >>} : \A i \in 1 .. Len(p) - 1 : p[i] # ".git"}

IsOdd(world, path) == Range(path) \intersect world.odd # {}
ScannedFiles(files) == {f \in files \intersect Walked(files) : Last(f) \notin SkippedNames}
LinksOf(world, prefix, files) ==
    {f \in ScannedFiles(files) : prefix \o f \in world.links}
RenamesOf(world, prefix, files) ==
    {f \in ScannedFiles(files) \ LinksOf(world, prefix, files) :
        IsOdd(world, f) \/ Last(f) \in SpecialNames}
Excludes(world, prefix, files) ==
    {p \in Walked(files) : Last(p) \in SkippedNames}
    \union LinksOf(world, prefix, files) \union RenamesOf(world, prefix, files)
    \union {h \in {UnstableHook} : prefix = HooksPrefix}

(* generate_general_symlinks: directories are made for what must not be    *)
(* there as it is, and links to all else, as high up as possible           *)
MadeDirs(children, prefix, excludes) ==
    Ancestors({<< >>} \union {Below(prefix, c) : c \in children[prefix]}
              \union {Front(e) : e \in excludes})
Linked(world, children, prefix, files) ==
    LET excludes == Excludes(world, prefix, files)
        made == MadeDirs(children, prefix, excludes)
        insideChild(path) == \E c \in children[prefix] : IsPrefix(Below(prefix, c), path)
    IN  {p \in Ancestors(files) \ (made \union excludes) :
            Front(p) \in made /\ ~insideChild(p) /\ ~IsOdd(world, p)}

(* What the tarball of a package holds: Bazel's glob of the files that can *)
(* be reached through the links, without those in other Bazel packages,    *)
(* the renamed files and the symbolic links                                *)
Contents(world, children, prefix) ==
    LET files == FilesOf(world, children, prefix)
        links == Linked(world, children, prefix, files)
        packaged(f) == \E q \in DOMAIN children : IsStrictPrefix(prefix, q) /\ IsPrefix(q, prefix \o f)
        globbed == {f \in files \ Excludes(world, prefix, files) :
                       ~packaged(f) /\ \E p \in links : IsPrefix(p, f)}
    IN  {prefix \o f : f \in globbed \union LinksOf(world, prefix, files)
                                     \union RenamesOf(world, prefix, files)}

\* The packages whose files __tarballs__ of one holds
RECURSIVE Tarballs(_, _)
Tarballs(children, prefix) ==
    {prefix} \union UNION {Tarballs(children, c) : c \in children[prefix]}
----------------------------------------------------------------------------
(* generate_internal_sources: a package that fails is only warned about,   *)
(* and the others do without it                                            *)
SourcesExist(world, prefix) == \E f \in world.tree : IsStrictPrefix(prefix, f)

SourceFile(sources, children, prefix) ==
    [defines |-> {<<"sources", prefix, "__tarballs__">>}
                 \union {<<"sources", prefix, "__single_files_tarball__">> :
                            f \in SingleFiles(sources, prefix)},
     refers |-> {<<"sources", c, "__tarballs__">> : c \in children[prefix]}]
SourceFiles(world, sources, children) ==
    {SourceFile(sources, children, p) : p \in {q \in DOMAIN children : SourcesExist(world, q)}}
===============================================================================
