------------------------------ MODULE Checkouts -------------------------------
(***************************************************************************)
(* What the files of a checkout can be read as: the values the parsers of  *)
(* alchemist make of versions, atoms, dependency expressions, bash         *)
(* expressions, make.confs and configuration files.  The worlds that are   *)
(* checked are made of such values only.                                   *)
(***************************************************************************)
EXTENDS Boards

CONSTANT Worlds     \* checkouts with a command line, by name

(* Dependency expressions: *DEPEND, RESTRICT and SRC_URI have groups of    *)
(* two kinds, REQUIRED_USE of four.  No constants are written              *)
Groups == {"all", "any"}
ComplexGroups == Groups \union {"exactlyOne", "atMostOne"}

RECURSIVE IsExpression(_, _, _)
IsExpression(d, groups, leaves) ==
    CASE d.t = "leaf" -> d.leaf \in leaves
      [] d.t = "use" -> /\ d.flag \in STRING /\ d.expect \in BOOLEAN
                        /\ \A i \in DOMAIN d.kids : IsExpression(d.kids[i], groups, leaves)
      [] OTHER -> /\ d.t \in groups
                  /\ \A i \in DOMAIN d.kids : IsExpression(d.kids[i], groups, leaves)

\* The root of what is parsed is an all-of
IsTree(d, groups, leaves) == d.t = "all" /\ IsExpression(d, groups, leaves)

FlagLeaf == [flag : STRING, expect : BOOLEAN]
IsRequiredUse(d) == IsTree(d, ComplexGroups, FlagLeaf)

\* Any word is an option here, and known or not to AnalyzeRestricts
IsRestrict(d) == IsTree(d, Groups, STRING)

\* A URL, maybe with another name for its file, or the name of a file
Uri == [scheme : STRING, public : BOOLEAN, path : Maybe(STRING)]
UriLeaf == [uri : Maybe(Uri), file : Maybe(STRING)] \ {[uri |-> {}, file |-> {}]}
IsSrcUri(d) == IsTree(d, Groups, UriLeaf)

IsDependencies(kids) == IsTree(Node("all", kids), Groups, DependencyAtom)
----------------------------------------------------------------------------
(* Bash expressions: lists of commands and of lists in parentheses, strung *)
(* together without precedence.  Commands other than these three are not   *)
(* known to the evaluation                                                 *)
RECURSIVE IsAndOrList(_)
IsCommand(command) ==
    CASE command.do = "sub" -> IsAndOrList(command.list)
      [] command.do = "use" -> command.arg \in FlagLeaf
      [] OTHER -> command.do \in {"true", "false", "unknown"}
IsAndOrList(list) ==
    /\ IsCommand(list.first)
    /\ \A i \in DOMAIN list.ops : list.ops[i].op \in {"and", "or"} /\ IsCommand(list.ops[i].command)
----------------------------------------------------------------------------
(* Assignments of make.conf and make.defaults: literals and variables.     *)
(* Comments are gone, and a file that is included is where it was included *)

Token == {"add", "remove", "clear"}
IsTokens(tokens) == \A i \in DOMAIN tokens : tokens[i].do \in Token
IsPart(part) ==
    \/ DOMAIN part = {"lit"} /\ IsTokens(part.lit)
    \/ DOMAIN part = {"ref"} /\ part.ref \in STRING
IsAssignment(line) == line.name \in STRING /\ \A i \in DOMAIN line.parts : IsPart(line.parts[i])
IsMakeConf(file) == \A i \in DOMAIN file : IsAssignment(file[i])

(* The lines of the files of a profile and of /etc/portage: an atom comes  *)
(* first in all but the files use.*, and a line of package.provided is the *)
(* name of a package with a version, but without an operator               *)
ProvidedPackage == [name : STRING, version : Version]
IsLine(file, line) ==
    CASE file \in {"package.mask", "package.unmask"} -> line \in PlainAtom
      [] file = "package.accept_keywords" -> line.atom \in PlainAtom /\ IsTokens(line.tokens)
      [] file = "package.provided" -> line \in ProvidedPackage
      [] file = "package.bashrc" -> line.atom \in PlainAtom
      [] file = "profile.bashrc" -> DOMAIN line = {"repo", "dir", "file"}
      [] file \in {"use.mask", "use.stable.mask", "use.force", "use.stable.force"} ->
             line.atom = {} /\ IsTokens(line.tokens)
      [] OTHER -> line.atom \in Maybe(PlainAtom) \ {{}} /\ IsTokens(line.tokens)
AreConfigFiles(files) ==
    \A file \in DOMAIN files : \A i \in DOMAIN files[file] : IsLine(file, files[file][i])
IsProfile(p) == IsMakeConf(p.defaults) /\ AreConfigFiles(p.files)
----------------------------------------------------------------------------
(* Ebuilds and eclasses: a SLOT without a sub-slot is its own, and of the  *)
(* tables of a TOML file both keys are optional                            *)
SlotOf == [main : STRING, sub : STRING]
IsIUse(iuse) == DOMAIN iuse \subseteq STRING /\ Range(iuse) \subseteq BOOLEAN
IsToml(toml) == \A key \in DOMAIN toml : Cardinality(toml[key]) <= 1 /\ \A list \in toml[key] : IsAndOrList(list)
IsSourced(x) ==
    /\ x.inherits \in Seq(STRING)
    /\ \A kind \in Kinds : \A kids \in x.deps[kind] : IsDependencies(kids)
    /\ IsIUse(x.iuse) /\ IsRequiredUse(x.requiredUse) /\ IsToml(x.toml)
IsWorkon(w) ==
    /\ w.projects \in Seq(STRING) /\ w.trees \in Seq(STRING)
    /\ w.subtrees \in Seq(Seq(STRING))
    /\ \A i \in DOMAIN w.checkouts : \A j \in DOMAIN w.checkouts[i] : IsAndOrList(w.checkouts[i][j])
IsEbuild(e) ==
    /\ e.name \in STRING /\ e.version \in Version /\ e.eapi \in Nat /\ e.slot \in SlotOf
    /\ e.manualUprev \in Maybe(BOOLEAN)
    /\ IsRestrict(e.restrict) /\ IsSrcUri(e.srcUri)
    /\ \A w \in e.workon : IsWorkon(w)

RepositoryName == [base : STRING, private : BOOLEAN]
CrossToolchain == [name : STRING, arch : STRING, default : Maybe(BOOLEAN)]
IsRepository(r) ==
    /\ r.name \in RepositoryName /\ r.parents \in Seq(RepositoryName)
    /\ r.toolchains \in Seq(CrossToolchain) /\ IsMakeConf(r.makeConf)
    /\ \A name \in DOMAIN r.eclasses : IsSourced(r.eclasses[name])
    /\ \A i \in DOMAIN r.ebuilds : IsEbuild(r.ebuilds[i]) /\ IsSourced(r.ebuilds[i])

\* The command line: atoms to show, and USE flags
IsCommandLine(command, useFlags) ==
    /\ command.do = "generate" \/ command.atoms \in Seq(PlainAtom)
    /\ \A i \in DOMAIN useFlags : IsTokens(useFlags[i])

IsCheckout(w) ==
    /\ \A name \in DOMAIN w.disk : IsRepository(w.disk[name])
    /\ \A p \in DOMAIN w.profiles : IsProfile(w.profiles[p])
    /\ IsMakeConf(w.makeConf) /\ AreConfigFiles(w.files)
    /\ w.provided \in Seq(ProvidedPackage)
    /\ IsCommandLine(w.command, w.useFlags)

\* The checkouts are ones the parsers can read
ASSUME CheckoutsAssumption == \A name \in DOMAIN Worlds : IsCheckout(Worlds[name])
===============================================================================
