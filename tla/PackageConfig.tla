---------------------------- MODULE PackageConfig -----------------------------
(***************************************************************************)
(* Portage configuration: the files of profiles and of the site, the list  *)
(* of nodes they become, and what the nodes say of one package.            *)
(*                                                                         *)
(* A file is the sequence of its lines, a line the record it is parsed to. *)
(* A variable is a sequence of tokens [do, value], where do is "add",      *)
(* "remove" (a value after a minus) or "clear" (a star after a minus); the *)
(* variable ARCH is one value.  A keyword is [name, tilde].  A USE_EXPAND  *)
(* variable has the name of its flags, which the code gets by writing it   *)
(* in lower case.                                                          *)
(***************************************************************************)
EXTENDS Atoms, TLC

Add(value) == [do |-> "add", value |-> value]
NoVars == [n \in {} |-> << >>]
Get(vars, name) == IF name \in DOMAIN vars THEN vars[name] ELSE << >>

\* Nodes and lines that are kept, mapped and strung together
Collect(s, Keep(_), Tokens(_)) ==
    FlattenSeq([i \in DOMAIN s |-> IF Keep(s[i]) THEN Tokens(s[i]) ELSE << >>])
----------------------------------------------------------------------------
(* make.conf and make.defaults: an assignment is [name, parts], and a part *)
(* is [lit |-> tokens] or [ref |-> name]                                   *)

\* Expansion of the variables the file has assigned before: MakeConf::load_file
Assign(values, line) ==
    LET known(part) == "ref" \in DOMAIN part /\ part.ref \in DOMAIN values
    IN  (line.name :> FlattenSeq([i \in DOMAIN line.parts |->
             IF known(line.parts[i]) THEN values[line.parts[i].ref] ELSE <<line.parts[i]>>]))
        @@ values
MakeConf(file) == FoldLeft(Assign, NoVars, file)

\* Expansion of what is left by the variables of the sources before
Resolve(values, env) ==
    [name \in DOMAIN values |->
        FlattenSeq([i \in DOMAIN values[name] |->
            LET part == values[name][i]
            IN  IF "lit" \in DOMAIN part THEN part.lit ELSE Get(env, part.ref)])]

VarsNode(vars) == [kind |-> "vars", vars |-> vars]
Evaluated(state, values) ==
    LET vars == Resolve(values, state.env)
    IN  [env |-> vars @@ state.env, nodes |-> Append(state.nodes, VarsNode(vars))]
----------------------------------------------------------------------------
(* The files of a directory, a function from the names of those that exist *)

FileNode(files, name, Parsed(_)) ==
    IF name \in DOMAIN files THEN <<Parsed(files[name])>> ELSE << >>

\* load_package_configs: masks before unmasks
MaskNode(mask, atoms) ==
    [kind |-> "masks", updates |->
        [i \in DOMAIN atoms |-> [mask |-> mask, atom |-> atoms[i]]]]

MaskNodes(files) ==
    FileNode(files, "package.mask", LAMBDA atoms : MaskNode(TRUE, atoms))
    \o FileNode(files, "package.unmask", LAMBDA atoms : MaskNode(FALSE, atoms))

KeywordNodes(files) ==
    FileNode(files, "package.accept_keywords",
        LAMBDA lines : [kind |-> "keywords", updates |-> lines])

\* load_use_configs, in this order; a line is [atom, tokens]
UseFiles ==
    <<[file |-> "package.use", kind |-> "set", stable |-> FALSE],
      [file |-> "use.mask", kind |-> "mask", stable |-> FALSE],
      [file |-> "use.stable.mask", kind |-> "mask", stable |-> TRUE],
      [file |-> "package.use.mask", kind |-> "mask", stable |-> FALSE],
      [file |-> "package.use.stable.mask", kind |-> "mask", stable |-> TRUE],
      [file |-> "use.force", kind |-> "force", stable |-> FALSE],
      [file |-> "use.stable.force", kind |-> "force", stable |-> TRUE],
      [file |-> "package.use.force", kind |-> "force", stable |-> FALSE],
      [file |-> "package.use.stable.force", kind |-> "force", stable |-> TRUE]>>

UseNode(f, lines) ==
    [kind |-> "uses", updates |->
        [i \in DOMAIN lines |->
            [kind |-> f.kind, stable |-> f.stable,
             atom |-> lines[i].atom, tokens |-> lines[i].tokens]]]

UseNodes(files) ==
    FlattenSeq([i \in DOMAIN UseFiles |->
        FileNode(files, UseFiles[i].file, LAMBDA lines : UseNode(UseFiles[i], lines))])

ProvidedNodes(files) ==
    FileNode(files, "package.provided",
        LAMBDA lines : [kind |-> "provided", packages |-> lines])

BashrcNodes(files) ==
    FileNode(files, "profile.bashrc", LAMBDA paths : [kind |-> "profileBashrc", paths |-> paths])
    \o FileNode(files, "package.bashrc", LAMBDA lines : [kind |-> "bashrcs", updates |-> lines])

SiteNodes(files) ==
    MaskNodes(files) \o KeywordNodes(files) \o UseNodes(files) \o ProvidedNodes(files)
ProfileNodes(files) == SiteNodes(files) \o BashrcNodes(files)
----------------------------------------------------------------------------
(* Profiles inherit: the parents first, each with its own parents          *)

RECURSIVE Lineage(_, _)
Lineage(profiles, p) ==
    LET parents == profiles[p].parents
    IN  Append(FlattenSeq([i \in DOMAIN parents |-> Lineage(profiles, parents[i])]), p)

EvaluateProfile(profiles, p) ==
    LET evaluate(state, q) ==
            LET next == Evaluated(state, MakeConf(profiles[q].defaults))
            IN  [next EXCEPT !.nodes = @ \o ProfileNodes(profiles[q].files)]
    IN  FoldLeft(evaluate, [env |-> NoVars, nodes |-> << >>], Lineage(profiles, p))

(* The sources of a configuration: the profile, the site (its make.confs,  *)
(* then etc/portage/profile and etc/portage), and nodes given in code      *)
AddNode(state, node) ==
    [env |-> IF node.kind = "vars" THEN node.vars @@ state.env ELSE state.env,
     nodes |-> Append(state.nodes, node)]
AllNodes(source) ==
    FoldLeft(AddNode,
             FoldLeft(LAMBDA state, file : Evaluated(state, MakeConf(file)),
                      EvaluateProfile(source.profiles, source.profile), source.makeConfs),
             SiteNodes(source.siteProfile) \o SiteNodes(source.site) \o source.overrides)
----------------------------------------------------------------------------
\* merge_incremental_tokens
Merge(tokens) ==
    LET merged(set, token) ==
            CASE token.do = "add" -> set \union {token.value}
              [] token.do = "remove" -> set \ {token.value}
              [] token.do = "clear" -> {}
    IN  FoldLeft(merged, {}, tokens)

\* All that the variables of the nodes say, the first node first
Assigned(nodes, name) ==
    Collect(nodes, LAMBDA n : n.kind = "vars", LAMBDA n : Get(n.vars, name))

\* compute_general_incremental_variable, with the default of the built-in ones
Incremental(nodes, name) ==
    LET arch == IF name \in {"USE_EXPAND_IMPLICIT", "USE_EXPAND_UNPREFIXED"}
                THEN <<Add("ARCH")>> ELSE << >>
    IN  Merge(arch \o Assigned(nodes, name))

Flag(name, value) == name \o "_" \o value

\* ConfigBundle::from_sources, of all nodes
Bundle(all) ==
    LET expand == Incremental(all.nodes, "USE_EXPAND")
        unprefixed == Incremental(all.nodes, "USE_EXPAND_UNPREFIXED")
    IN  [nodes |-> all.nodes,
         env |-> all.env,
         expand |-> expand,
         unprefixed |-> unprefixed,
         implicit |-> Incremental(all.nodes, "USE_EXPAND_IMPLICIT"),
         iuse |-> Incremental(all.nodes, "IUSE_IMPLICIT"),
         expandValues |->
             UNION {{Flag(name, v) : v \in Incremental(all.nodes, name)} : name \in expand}
             \union UNION {Incremental(all.nodes, name) : name \in unprefixed},
         provided |-> ToSet(Collect(all.nodes, LAMBDA n : n.kind = "provided",
                                    LAMBDA n : n.packages))]
----------------------------------------------------------------------------
\* compute_accept_keywords: a line without keywords accepts ~ARCH
AcceptKeywords(config, package) ==
    LET arch == [name |-> Head(Get(config.env, "ARCH")).value, tilde |-> TRUE]
        fromLine(u) == IF u.tokens = << >> THEN <<Add(arch)>> ELSE u.tokens
        fromNode(n) == IF n.kind = "vars" THEN Get(n.vars, "ACCEPT_KEYWORDS")
                       ELSE Collect(n.updates, LAMBDA u : ConfigMatches(u.atom, package), fromLine)
    IN  Merge(Collect(config.nodes, LAMBDA n : n.kind \in {"vars", "keywords"}, fromNode))

\* is_keyword_accepted: keywords are those of the ebuild without the broken ones
KeywordAccepted(keywords, accept) ==
    \/ [name |-> "**", tilde |-> FALSE] \in accept
    \/ \E a \in accept, k \in keywords :
           \/ k = a
           \/ k.name = "*" /\ (k.tilde => a.tilde)
           \/ a.name = "*" /\ a.tilde = k.tilde

(* is_package_accepted: unaccepted, or accepted and whether as stable      *)
Acceptance(keywords, accept) ==
    LET unstable == {[k EXCEPT !.tilde = TRUE] : k \in keywords}
    IN  [accepted |-> KeywordAccepted(keywords, accept),
         stable |-> KeywordAccepted(keywords, accept) /\ ~KeywordAccepted(unstable, accept)]

\* is_package_masked: the last update that matches decides
PackageMasked(config, package) ==
    LET updates == Collect(config.nodes, LAMBDA n : n.kind = "masks", LAMBDA n : n.updates)
        last == SelectLastInSeq(updates, LAMBDA u : ConfigMatches(u.atom, package))
    IN  last # 0 /\ updates[last].mask

\* package_bashrcs
Bashrcs(config, package) ==
    LET paths(n) == IF n.kind = "profileBashrc" THEN n.paths
                    ELSE Collect(n.updates, LAMBDA u : ConfigMatches(u.atom, package),
                                 LAMBDA u : u.paths)
    IN  Collect(config.nodes, LAMBDA n : n.kind \in {"profileBashrc", "bashrcs"}, paths)
----------------------------------------------------------------------------
\* compute_effective_iuse_map: a function from flags to their defaults
EffectiveIUse(config, iuse) ==
    LET values(name) == {t.value : t \in ToSet(Get(config.env, "USE_EXPAND_VALUES_" \o name))}
        injected == config.iuse
            \union UNION {{Flag(name, v) : v \in values(name)} :
                             name \in config.expand \intersect config.implicit}
            \union UNION {values(name) : name \in config.unprefixed \intersect config.implicit}
    IN  iuse @@ [flag \in injected |-> FALSE]

Applies(update, kind, package, stable) ==
    /\ update.kind = kind
    /\ update.stable => stable
    /\ \A atom \in update.atom : ConfigMatches(atom, package)

\* What the lines of one kind say of a package
UseTokens(node, kind, package, stable) ==
    Collect(node.updates, LAMBDA u : Applies(u, kind, package, stable), LAMBDA u : u.tokens)

\* compute_use_masks, for "mask" and "force"
UseMasks(config, kind, package, stable) ==
    Merge(Collect(config.nodes, LAMBDA n : n.kind = "uses",
                  LAMBDA n : UseTokens(n, kind, package, stable)))

\* compute_use_variable_for_package: the ebuild first, the nodes on top
UseVariable(config, package, stable, iuse) ==
    LET on == SetToSeq({flag \in DOMAIN iuse : iuse[flag]} \union config.expandValues)
        fromNode(n) == IF n.kind = "vars" THEN Get(n.vars, "USE")
                       ELSE UseTokens(n, "set", package, stable)
    IN  Merge([i \in DOMAIN on |-> Add(on[i])]
              \o Collect(config.nodes, LAMBDA n : n.kind \in {"vars", "uses"}, fromNode))

\* compute_use_map: a mask beats a force, and a force the variable
UseMap(config, package, stable, iuse) ==
    LET effective == EffectiveIUse(config, iuse)
        on == UseVariable(config, package, stable, effective)
        masked == UseMasks(config, "mask", package, stable)
        forced == UseMasks(config, "force", package, stable)
    IN  [flag \in DOMAIN effective |->
            flag \notin masked /\ (flag \in forced \/ flag \in on)]
===============================================================================
