------------------------------- MODULE Sources --------------------------------
(***************************************************************************)
(* The sources of a package: local ones, trees of repositories pinned by   *)
(* their hashes, and files to fetch.                                       *)
(*                                                                         *)
(* Of an ebuild, workon is an optional [projects, localNames, subtrees,    *)
(* checkouts, trees], all sequences; a path is [up, dir, to], up if it     *)
(* leaves src/; checkout is a function from the paths, with subtrees, that *)
(* exist to local sources.  A local source is [at, dir], where at is the   *)
(* sequence of the names of a path and dir says whether it is a directory, *)
(* or one that is not part of the checkout's source tree, [repo].          *)
(***************************************************************************)
EXTENDS PackageLoading

\* get_cros_workon_array_variable: a single value is repeated
Extended(values, projects) ==
    IF Len(values) = 1 THEN Success([i \in 1 .. projects |-> values[1]])
    ELSE IF Len(values) = projects THEN Success(values)
    ELSE Failure

(* Where the files of a project are: outside chromeos-base relative to     *)
(* src/third_party                                                         *)
LocalPath(e, localName) ==
    IF localName.to = "chromiumos-assets" THEN [up |-> FALSE, dir |-> "platform", to |-> localName.to]
    ELSE IF e.category = "chromeos-base" THEN [up |-> localName.up, dir |-> "", to |-> localName.to]
    ELSE IF localName.up THEN [up |-> FALSE, dir |-> "", to |-> localName.to]
    ELSE [up |-> FALSE, dir |-> "third_party", to |-> localName.to]

\* A checkout that is not optional is << >>
Required(checkout, uses) == IF checkout = << >> THEN "yes" ELSE EvalList(Head(checkout), uses)

\* One item for each subtree, no subtree is the whole project
Whole(subtrees) == IF subtrees = << >> THEN <<"">> ELSE subtrees
ProjectItems(e, names, subtrees, checkouts, uses, projects) ==
    FlattenSeq([i \in DOMAIN projects |->
        [j \in DOMAIN Whole(subtrees[i]) |->
            [project |-> projects[i], path |-> LocalPath(e, names[i]),
             subtree |-> Whole(subtrees[i])[j], required |-> Required(checkouts[i], uses) = "yes"]]])

(* Pinned ebuilds: the hashes go with the items, those that are not        *)
(* required too, and a hash that comes again is skipped                    *)
Needed(items) == {i \in DOMAIN items : items[i].required}
Pinned(items, trees) ==
    IF Len(items) > Len(trees) THEN Failure
    ELSE Success([local |-> {},
                  trees |-> {[item |-> items[i], tree |-> trees[i]] :
                      i \in {k \in Needed(items) :
                                \A j \in Needed(items) : j < k => trees[j] # trees[k]}}])

\* Ebuilds of version 9999: what exists of the files, inside of src/
Unpinned(items, checkout) ==
    LET place(i) == [path |-> items[i].path, subtree |-> items[i].subtree]
        there == {place(i) : i \in Needed(items)} \intersect DOMAIN checkout
    IN  IF \E p \in there : p.path.up /\ p.path.to # "chromite" THEN Failure
        ELSE Success([local |-> {checkout[p] : p \in there}, trees |-> {}])

\* extract_cros_workon_sources
NoSources == [local |-> {}, trees |-> {}]
WorkonItems(w, items, checkout) ==
    IF w.trees = << >> THEN Unpinned(items, checkout) ELSE Pinned(items, w.trees)
WorkonOf(w, names, subtrees, checkouts, e, uses, checkout) ==
    IF \/ ~names.ok \/ ~subtrees.ok \/ ~checkouts.ok
       \/ \E i \in DOMAIN w.projects : Required(checkouts.value[i], uses) = "error"
    THEN Failure
    ELSE WorkonItems(w, ProjectItems(e, names.value, subtrees.value, checkouts.value, uses,
                                     w.projects), checkout)
WorkonSources(w, e, uses, checkout) ==
    LET extended(values) == Extended(values, Len(w.projects))
    IN  WorkonOf(w, extended(w.localNames), extended(w.subtrees), extended(w.checkouts),
                 e, uses, checkout)

\* apply_local_sources_workarounds
Dir(at) == [at |-> at, dir |-> TRUE]
Repo(name) == [repo |-> name]
Workarounds(e, uses) ==
    LET inherits(names) == names \intersect ToSet(e.inherits) # {}
        internal == FlagIs("chrome_internal", TRUE, uses)
    IN  {Dir(<<"src", "scripts", "hooks">>), Repo("chromite")}
        \union (IF inherits({"chromium-source"}) /\ e.version.main[1] # Nine
                THEN {Repo(IF internal THEN "chrome-internal" ELSE "chrome")} ELSE {})
        \union (IF inherits({"chromium-source", "cros-remoteexec"}) THEN {Repo("depot_tools")} ELSE {})
        \union (IF \/ inherits({"platform", "meson", "cros-rust"})
                   \/ e.name \in {"chromeos-base/chromeos-fonts", "net-print/cups"}
                THEN {Dir(<<"src", "platform2", "common-mk">>)} ELSE {})
        \union (IF inherits({"platform"})
                THEN {Dir(<<"src", "third_party", "gtest-parallel">>)} ELSE {})
        \union (IF e.name = "dev-rust/third-party-crates-src"
                THEN {Dir(<<"src", "third_party", "rust_crates", "projects">>)} ELSE {})
----------------------------------------------------------------------------
(* Files to fetch.  A leaf of SRC_URI is [uri, file], both optional: a uri *)
(* is [scheme, public, path], where path is an optional file name          *)

(* analyze_restricts: a word it does not know, wherever it is, is an error *)
RestrictAtoms ==
    {"binchecks", "bindist", "fetch", "installsources", "mirror", "network-sandbox",
     "preserve-libs", "primaryuri", "splitdebug", "strip", "test", "userpriv"}
AnalyzeRestricts(e, uses) ==
    IF LeavesOf(e.restrict) \subseteq RestrictAtoms THEN Items(e.restrict, uses) ELSE Failure

\* The mirrors; their order, in which portage-stable differs, is left out
Mirrors(config) == {token.value : token \in ToSet(Get(config.env, "GENTOO_MIRRORS"))}

\* convert_public_gs_buckets_to_https
Fetched(uri) == IF uri.scheme = "gs" /\ uri.public THEN [uri EXCEPT !.scheme = "https"] ELSE uri
Supported == {"https", "http", "cipd", "gs"}

FileOf(leaf) == leaf.file \union (IF leaf.file = {} THEN UNION {u.path : u \in leaf.uri} ELSE {})

\* The mirrors are not tried for files that must not be mirrored
Urls(file, leaves, direct, mirrors) ==
    IF direct
    THEN {Fetched(u) : u \in UNION {leaf.uri : leaf \in {x \in leaves : file \in FileOf(x)}}}
    ELSE mirrors
Located(e, leaves, files, urls) ==
    IF \/ \E leaf \in leaves : leaf.uri = {} \/ FileOf(leaf) = {}
       \/ ~(files \subseteq DOMAIN e.manifest)
       \/ \E f \in files : \E u \in urls[f] : u.scheme \notin Supported
    THEN Failure
    ELSE Success({[file |-> f, urls |-> urls[f], hashes |-> e.manifest[f]] : f \in files})

\* extract_remote_sources
Remote(e, leaves, files, direct, mirrors) ==
    Located(e, leaves, files, [f \in files |-> Urls(f, leaves, direct, mirrors)])
RemoteOf(e, restricts, leaves, mirrors) ==
    LET direct == "mirror" \in restricts.value
    IN  IF ~restricts.ok \/ (~direct /\ mirrors = {}) \/ ~leaves.ok THEN Failure
        ELSE Remote(e, leaves.value, UNION {FileOf(leaf) : leaf \in leaves.value}, direct, mirrors)
RemoteSources(config, e, uses) ==
    RemoteOf(e, AnalyzeRestricts(e, uses), Items(e.srcUri, uses), Mirrors(config))

\* analyze_sources: those of cros-workon, if it is inherited, and those to fetch
AllSources(workon, workarounds, remote) ==
    IF ~workon.ok \/ ~remote.ok THEN Failure
    ELSE Success([local |-> workon.value.local \union workarounds,
                  trees |-> workon.value.trees, dist |-> remote.value])
AnalyzeSources(config, checkout, e, uses) ==
    AllSources(IF e.workon = {} THEN Success(NoSources)
               ELSE WorkonSources(CHOOSE w \in e.workon : TRUE, e, uses, checkout),
               Workarounds(e, uses), RemoteSources(config, e, uses))
===============================================================================
