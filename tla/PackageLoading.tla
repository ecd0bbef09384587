---------------------------- MODULE PackageLoading ----------------------------
(***************************************************************************)
(* From an ebuild file to the details of a package on one board.           *)
(*                                                                         *)
(* An ebuild is what bash and the parsers make of its file: named, sourced *)
(* and parses say whether the name is well formed, bash succeeds and the   *)
(* variables can be parsed; CROS_WORKON_MANUAL_UPREV is optional.  Ebuilds *)
(* and eclasses have in common [inherits, deps, iuse, requiredUse,         *)
(* hasCompile, toml]; deps has an optional sequence of expressions for     *)
(* each kind, none if it does not parse, and toml, the tables of the file  *)
(* that is beside them, has an optional list for each of its keys.  A      *)
(* board is [repos, config, force9999].                                    *)
(***************************************************************************)
EXTENDS PackageConfig, Dependencies, Repositories

\* Bash expressions of the TOML files: a command is [do, args] or [sub]
UseCommand(arg, uses) == FlagIs(arg.flag, arg.expect, uses)

(* eval_and_or_list, from the left: an operand that cannot change the      *)
(* value is not evaluated, and the first error ends it                     *)
RECURSIVE EvalList(_, _)
EvalCommand(command, uses) ==
    CASE command.do = "true" -> "yes"
      [] command.do = "false" -> "no"
      [] command.do = "use" -> Verdict(UseCommand(command.arg, uses))
      [] command.do = "sub" -> EvalList(command.list, uses)
      [] OTHER -> "error"
EvalList(list, uses) ==
    LET step(value, item) ==
            IF \/ value = "error"
               \/ item.op = "and" /\ value = "no"
               \/ item.op = "or" /\ value = "yes"
            THEN value
            ELSE EvalCommand(item.command, uses)
    IN  FoldLeft(step, EvalCommand(list.first, uses), list.ops)

(* eval_supports_interface_libraries and its twin: all files must agree,   *)
(* and the first that does not ends the evaluation                         *)
EvalAll(lists, uses) ==
    LET verdicts == [i \in DOMAIN lists |-> EvalList(lists[i], uses)]
        against == SelectSeq(verdicts, LAMBDA v : v # "yes")
    IN  IF against = << >> THEN "yes" ELSE Head(against)

(* ebuild_prelude.sh, inherit: the eclasses in the order their variables   *)
(* are kept, each after those that it inherits.  The directories are those *)
(* of the ebuild for all, and one that is not found inherits nothing       *)
RECURSIVE Inherits(_, _, _)
Inherits(disk, repo, names) ==
    FlattenSeq([i \in DOMAIN names |->
        (IF names[i] \in Eclasses(disk, repo)
         THEN Inherits(disk, repo, EclassAt(disk, repo, names[i]).inherits) ELSE << >>)
        \o <<names[i]>>])

(* EBuildEvaluator::evaluate_metadata: does bash give the variables?  An   *)
(* eclass that is not found is an error message, which counts              *)
Evaluates(disk, path) ==
    LET e == EbuildAt(disk, path)
    IN  e.sourced /\ ToSet(Inherits(disk, path.repo, e.inherits)) \subseteq Eclasses(disk, path.repo)

\* The eclasses, in order, and the ebuild itself: each adds to what is there
Parts(disk, path) ==
    LET e == EbuildAt(disk, path)
        names == Inherits(disk, path.repo, e.inherits)
    IN  Append([i \in DOMAIN names |-> EclassAt(disk, path.repo, names[i])], e)

\* Words that are strung together parse if all of them do
Strung(optional) ==
    IF {} \in Range(optional) THEN {}
    ELSE {FlattenSeq([i \in DOMAIN optional |-> CHOOSE words \in optional[i] : TRUE])}

\* parse_iuse_map: of flags that are declared twice the later counts
IUseMap(parts) == FoldLeft(LAMBDA flags, part : part.iuse @@ flags, << >>, parts)

\* EBuildMetadata, the variables at the end of ebuild_prelude.sh
Gathered(e, names, parts) ==
    [e EXCEPT !.inherits = names,
              !.deps = [kind \in DOMAIN @ |-> Strung([i \in DOMAIN parts |-> parts[i].deps[kind]])],
              !.iuse = IUseMap(parts),
              !.requiredUse = Node("all", [i \in DOMAIN parts |-> parts[i].requiredUse]),
              !.hasCompile = \E i \in DOMAIN parts : parts[i].hasCompile]
Sourced(disk, path) ==
    LET e == EbuildAt(disk, path)
    IN  Gathered(e, Inherits(disk, path.repo, e.inherits), Parts(disk, path))

\* BazelSpecificMetadata::load: all that the files beside the parts say
BazelMetadata(parts) ==
    LET merged(key) == FlattenSeq([i \in DOMAIN parts |-> SetToSeq(parts[i].toml[key])])
    IN  [supports |-> merged("supports"), generates |-> merged("generates")]

Nine == <<9, 9, 9, 9>>
Version9999 == [main |-> <<Nine>>, letter |-> 0, suffixes |-> << >>, revision |-> << >>]

\* parse_package: uprevved automatically, and of version 9999
ForceAccepted(board, e) ==
    /\ board.force9999
    /\ e.manualUprev = {FALSE}
    /\ "cros-workon" \in ToSet(e.inherits)
    /\ Same(e.version, Version9999)

WithUses(details, requiredUse) ==
    [details EXCEPT !.ready = @ /\ RequiredUseHolds(requiredUse, details.uses)]
Accepted(board, path, e, package, acceptance) ==
    [ok |-> TRUE, path |-> path, name |-> e.name, version |-> e.version, slot |-> e.slot,
     ebuild |-> e,
     uses |-> UseMap(board.config, package, acceptance.stable, e.iuse),
     ready |-> /\ acceptance.accepted \/ ForceAccepted(board, e)
               /\ ~PackageMasked(board.config, package)]
Parse(board, path, e) ==
    LET package == [name |-> e.name, version |-> e.version, slot |-> {e.slot},
                    uses |-> {}, ready |-> {}]
        acceptance == Acceptance(e.keywords, AcceptKeywords(board.config, package))
    IN  WithUses(Accepted(board, path, e, package, acceptance), e.requiredUse)

(* load_package: a package whose ebuild fails is known by its name and its *)
(* version.  An ebuild with a malformed name is an error of the load       *)
LoadFails(disk, path) == ~EbuildAt(disk, path).named
Load(disk, board, path) ==
    LET e == EbuildAt(disk, path)
    IN  IF Evaluates(disk, path) /\ e.parses
        THEN Parse(board, path, Sourced(disk, path))
        ELSE [ok |-> FALSE, path |-> path, name |-> e.name, version |-> e.version]

\* as_package_ref
PackageRef(details) ==
    [name |-> details.name, version |-> details.version,
     slot |-> IF details.ok THEN {details.slot} ELSE {},
     uses |-> IF details.ok THEN {details.uses} ELSE {},
     ready |-> IF details.ok THEN {details.ready} ELSE {}]
===============================================================================
