----------------------------- MODULE Dependencies -----------------------------
(***************************************************************************)
(* Dependency expressions, the trees *DEPEND, REQUIRED_USE, RESTRICT and   *)
(* SRC_URI are parsed to, and what the analysis does to them.              *)
(*                                                                         *)
(* A node is [t |-> "leaf", leaf], [t |-> "const", value],                 *)
(* [t |-> "use", flag, expect, kids] or [t, kids] with t one of "all",     *)
(* "any", "exactlyOne" and "atMostOne".  The root is an "all" node.        *)
(***************************************************************************)
EXTENDS Naturals, Sequences, SequencesExt

Leaf(x) == [t |-> "leaf", leaf |-> x]
Const(value) == [t |-> "const", value |-> value]
Node(t, kids) == [t |-> t, kids |-> kids]

\* Dependency::check_constant
IsConst(d, value) ==
    \/ d = Const(value)
    \/ d.t = (IF value THEN "all" ELSE "any") /\ d.kids = << >>

\* A flag that IUSE does not declare is off
FlagIs(flag, expect, uses) == (flag \in DOMAIN uses /\ uses[flag]) = expect

\* Mutant: a condition on a flag that is off is read as one on a flag that is on
RECURSIVE ElideNegated(_, _)
ElideNegated(d, uses) ==
    IF d.t \in {"leaf", "const"} THEN d
    ELSE LET applies(k) == k.t # "use" \/ FlagIs(k.flag, TRUE, uses)
             kept == SelectSeq(d.kids, applies)
         IN  Node(IF d.t = "use" THEN "all" ELSE d.t,
                  [i \in DOMAIN kept |-> ElideNegated(kept[i], uses)])

(* elide_use_conditions on a tree that is kept: kids whose condition fails *)
(* are gone, and the others become all-of                                  *)
RECURSIVE Elide(_, _)
Elide(d, uses) ==
    IF d.t \in {"leaf", "const"} THEN d
    ELSE LET applies(k) == k.t # "use" \/ FlagIs(k.flag, k.expect, uses)
             kept == SelectSeq(d.kids, applies)
         IN  Node(IF d.t = "use" THEN "all" ELSE d.t,
                  [i \in DOMAIN kept |-> Elide(kept[i], uses)])

\* An all-of: constants true are dropped and nested all-ofs merged
AllOf(kids) ==
    LET flat == FlattenSeq([i \in DOMAIN kids |->
                    IF IsConst(kids[i], TRUE) THEN << >>
                    ELSE IF kids[i].t = "all" THEN kids[i].kids
                    ELSE <<kids[i]>>])
    IN  IF \E i \in DOMAIN flat : IsConst(flat[i], FALSE) THEN Const(FALSE)
        ELSE IF Len(flat) = 1 THEN flat[1]
        ELSE Node("all", flat)

(* An any-of: a constant true decides, and constants false are dropped     *)
(* when anything else is left                                              *)
AnyOf(kids) ==
    LET true == SelectSeq(kids, LAMBDA k : IsConst(k, TRUE))
        others == SelectSeq(kids, LAMBDA k : ~IsConst(k, FALSE))
        left == IF others = << >> THEN kids ELSE others
    IN  IF true # << >> THEN Head(true)
        ELSE IF Len(left) = 1 THEN left[1]
        ELSE Node("any", left)

RECURSIVE Simplify(_)
Simplify(d) ==
    IF d.t \in {"leaf", "const"} THEN d
    ELSE LET kids == [i \in DOMAIN d.kids |-> Simplify(d.kids[i])]
         IN  CASE d.t = "all" -> AllOf(kids)
               [] d.t = "any" -> AnyOf(kids)
               [] OTHER -> [d EXCEPT !.kids = kids]

\* Every any-of becomes its first item, from the leaves up
RECURSIVE PickFirst(_)
PickFirst(d) ==
    CASE d.t \in {"leaf", "const"} -> d
      [] d.t = "any" /\ d.kids # << >> -> PickFirst(Head(d.kids))
      [] OTHER -> [d EXCEPT !.kids = [i \in DOMAIN d.kids |-> PickFirst(d.kids[i])]]

(* parse_simplified_dependency: a leaf, the leaves of an all-of, or a       *)
(* failure.  sorted().dedup() leaves each once, in an order that they      *)
(* alone decide; which that is, is left open                               *)
Failure == [ok |-> FALSE]
Success(value) == [ok |-> TRUE, value |-> value]
ParseSimplified(d) ==
    CASE d.t = "leaf" -> Success(<<d.leaf>>)
      [] d.t = "all" /\ \A i \in DOMAIN d.kids : d.kids[i].t = "leaf" ->
             Success(SetToSeq({d.kids[i].leaf : i \in DOMAIN d.kids}))
      [] OTHER -> Failure

\* RESTRICT and SRC_URI, the order of which decides nothing
Items(d, uses) ==
    LET parsed == ParseSimplified(Simplify(Elide(d, uses)))
    IN  IF parsed.ok THEN Success(ToSet(parsed.value)) ELSE Failure

(* ThreeValuedPredicate::matches, for trees of both kinds: "skip" stands   *)
(* for None, the value of a condition that does not apply; Holds says what *)
(* a leaf is.  An error of any leaf is an error of the whole               *)
Combine(t, verdicts) ==
    LET yes == Len(SelectSeq(verdicts, LAMBDA v : v = "yes"))
        holds == CASE t \in {"all", "use"} -> \A i \in DOMAIN verdicts : verdicts[i] # "no"
                   [] t = "any" -> yes > 0
                   [] t = "exactlyOne" -> yes = 1
                   [] t = "atMostOne" -> yes <= 1
    IN  IF \E i \in DOMAIN verdicts : verdicts[i] = "error" THEN "error"
        ELSE IF holds THEN "yes" ELSE "no"

RECURSIVE Evaluate(_, _, _)
Evaluate(d, uses, leaves) ==
    CASE d.t = "leaf" -> leaves[d.leaf]
      [] d.t = "const" -> IF d.value THEN "yes" ELSE "no"
      [] d.t = "use" /\ ~FlagIs(d.flag, d.expect, uses) -> "skip"
      [] OTHER -> Combine(d.t, [i \in DOMAIN d.kids |-> Evaluate(d.kids[i], uses, leaves)])

RECURSIVE LeavesOf(_)
LeavesOf(d) ==
    CASE d.t = "leaf" -> {d.leaf}
      [] d.t = "const" -> {}
      [] OTHER -> UNION {LeavesOf(d.kids[i]) : i \in DOMAIN d.kids}

\* REQUIRED_USE: a leaf is [flag, expect]
RequiredUseHolds(d, uses) ==
    Evaluate(d, uses, [a \in LeavesOf(d) |->
        IF FlagIs(a.flag, a.expect, uses) THEN "yes" ELSE "no"]) # "no"
===============================================================================
