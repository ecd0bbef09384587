-------------------------------- MODULE Atoms ---------------------------------
(***************************************************************************)
(* Package atoms and what they match.                                      *)
(*                                                                         *)
(* An optional value is a set of at most one element.  A package reference *)
(* is [name, version, slot, uses, ready]; of a package that could not be   *)
(* loaded only the name and the version are known.  A match is TRUE, FALSE *)
(* or an error, in the set Verdicts.                                       *)
(***************************************************************************)
EXTENDS Versions

Maybe(S) == {s \in SUBSET S : \A x, y \in s : x = y}

(* What the parser of atoms makes: :* is a slot dependency on no slot that *)
(* does not rebuild, and blocks of both kinds are the same                 *)
VersionDependency == [op : {"=", "=*", "~", "<", "<=", ">", ">="}, version : Version]
SlotName == [main : STRING, sub : Maybe(STRING)]
SlotDependency == [slot : Maybe(SlotName), rebuild : BOOLEAN]
UseDependency == [flag : STRING, op : {"required", "synchronized", "conditional"},
                  negate : BOOLEAN, default : Maybe(BOOLEAN)]
DependencyAtom == [name : STRING, version : Maybe(VersionDependency),
                   slot : Maybe(SlotDependency), uses : Seq(UseDependency), block : BOOLEAN]

\* PackageAtom, of configuration files and of the command line
PlainAtom == [name : STRING, version : Maybe(VersionDependency), slot : Maybe(SlotName)]

Verdicts == {"yes", "no", "error"}
Verdict(holds) == IF holds THEN "yes" ELSE "no"

\* PackageVersionDependency::matches
Orders(op) ==
    CASE op \in {"=", "=*", "~"} -> {0}
      [] op = "<" -> {-1}
      [] op = "<=" -> {-1, 0}
      [] op = ">" -> {1}
      [] op = ">=" -> {0, 1}
VersionMatches(d, version) ==
    LET compared == CASE d.op = "~" -> WithoutRevision(version)
                      [] d.op = "=*" -> Trimmed(version, d.version)
                      [] OTHER -> version
    IN  CompareVersions(compared, d.version) \in Orders(d.op)

\* Does a slot [main, sub] satisfy a wanted one, whose sub is optional?
SlotFits(wanted, slot) ==
    /\ wanted.main = slot.main
    /\ \A sub \in wanted.sub : sub = slot.sub

\* PackageSlotDependency::matches: of :=, :* and :2= only the last names a slot
SlotMatches(d, slot) == \A wanted \in d.slot : SlotFits(wanted, slot)

\* PackageUseDependency::matches; both maps are functions from flags to BOOLEAN
UseMatches(d, source, target) ==
    LET known == d.flag \in DOMAIN target
        value == (IF known THEN target[d.flag] ELSE TRUE \in d.default) # d.negate
    IN  IF \/ (~known /\ d.default = {})
           \/ (d.op # "required" /\ d.flag \notin DOMAIN source)
        THEN "error"
        ELSE CASE d.op = "required" -> Verdict(value)
               [] d.op = "synchronized" -> Verdict(source[d.flag] = value)
               [] d.op = "conditional" /\ ~d.negate -> Verdict(source[d.flag] => value)
               [] d.op = "conditional" /\ d.negate -> Verdict(source[d.flag] \/ value)

\* The first USE dependency that does not hold decides
UsesMatch(uses, source, target) ==
    LET verdicts == [i \in DOMAIN uses |-> UseMatches(uses[i], source, target)]
        against == SelectSeq(verdicts, LAMBDA v : v # "yes")
    IN  IF against = << >> THEN "yes" ELSE Head(against)

\* What an atom of any kind says of a name and a version
Names(atom, name, version) ==
    /\ atom.name = name
    /\ \A d \in atom.version : VersionMatches(d, version)

\* PackageDependencyAtom::matches_ignoring_block
MatchesIgnoringBlock(atom, source, package) ==
    IF /\ Names(atom, package.name, package.version)
       /\ \A slot \in package.slot, d \in atom.slot : SlotMatches(d, slot)
    THEN IF package.uses = {} THEN "yes"
         ELSE UsesMatch(atom.uses, source, CHOOSE uses \in package.uses : TRUE)
    ELSE "no"

\* Predicate<PackageRef>::matches
Matches(atom, source, package) ==
    IF atom.block THEN "error" ELSE MatchesIgnoringBlock(atom, source, package)

\* PackageDependencyAtom::matches_provided: slots and flags are ignored
MatchesProvided(atom, provided) == Names(atom, provided.name, provided.version)

\* PackageAtom::matches: an atom of a configuration file has no flags, and its
\* slot is an optional [main, sub]
ConfigMatches(atom, package) ==
    /\ Names(atom, package.name, package.version)
    /\ \A slot \in package.slot, wanted \in atom.slot : SlotFits(wanted, slot)
===============================================================================
