------------------------------- MODULE Versions -------------------------------
(***************************************************************************)
(* Versions of Portage packages and their order.                           *)
(*                                                                         *)
(* A number is the sequence of its digits, since leading and trailing      *)
(* zeros count; an absent number or letter is << >> and 0.  The parser     *)
(* makes versions of the set Version only: main is never empty.            *)
(***************************************************************************)
EXTENDS Integers, Sequences, SequencesExt

Digits == Seq(0 .. 9)

\* VersionSuffixLabel, in the order of the enumeration
Alpha == 1
Beta == 2
Pre == 3
Rc == 4
P == 5

\* What the parser makes: numbers between dots, one letter, and the rest
Numerals == Seq(Digits \ {<< >>}) \ {<< >>}
Letter == 0 .. 26
Suffix == [label : Alpha .. P, number : Digits]
Version == [main : Numerals, letter : Letter, suffixes : Seq(Suffix), revision : Digits]

Ordering == {-1, 0, 1}
Compare(a, b) == IF a < b THEN -1 ELSE IF a > b THEN 1 ELSE 0

\* Ordering::then over a list: the first that decides
Decided(orders) == Head(Append(SelectSeq(orders, LAMBDA o : o # 0), 0))

Shorter(s, t) == IF Len(s) <= Len(t) THEN Len(s) ELSE Len(t)

\* The order of strings
Lexical(s, t) ==
    Decided(Append([i \in 1 .. Shorter(s, t) |-> Compare(s[i], t[i])], Compare(Len(s), Len(t))))

(* compare_generic_number_strings and compare_post_major_version_strings:  *)
(* strings whose order is that of the numbers, and of the components after *)
(* the first, where a leading zero makes fractions of both                 *)
Onwards(s, first) == IF first = 0 THEN << >> ELSE SubSeq(s, first, Len(s))
TrimStart(s) == Onwards(s, SelectInSeq(s, LAMBDA d : d # 0))
TrimEnd(s) == SubSeq(s, 1, SelectLastInSeq(s, LAMBDA d : d # 0))

Number(s) == <<Len(s)>> \o s
Numbers(a, b) == [i \in 1 .. 2 |-> Number(TrimStart(<<a, b>>[i]))]
Component(i, a, b) ==
    IF i > 1 /\ 0 \in {a[1], b[1]} THEN <<TrimEnd(a), TrimEnd(b)>> ELSE Numbers(a, b)

\* VersionSuffix::cmp: the label first
Labelled(a, b, numbers) == <<<<a.label>> \o numbers[1], <<b.label>> \o numbers[2]>>
SuffixKeys(a, b) == Labelled(a, b, Numbers(a.number, b.number))

\* The suffixes that only the longer list has: the last of them decides
Extra(s, t) ==
    IF Len(s) > Len(t) THEN IF Last(s).label = P THEN 1 ELSE -1 ELSE 0

\* Version::cmp: the first two strings that differ decide
FirstDifference(keys) == Decided([i \in DOMAIN keys |-> Lexical(keys[i][1], keys[i][2])])
CompareVersions(v, w) ==
    FirstDifference(
        [i \in 1 .. Shorter(v.main, w.main) |-> Component(i, v.main[i], w.main[i])]
        \o <<<<<<Len(v.main), v.letter>>, <<Len(w.main), w.letter>>>>>>
        \o [i \in 1 .. Shorter(v.suffixes, w.suffixes) |-> SuffixKeys(v.suffixes[i], w.suffixes[i])]
        \o <<<<<<Extra(v.suffixes, w.suffixes)>>, <<Extra(w.suffixes, v.suffixes)>>>>,
             Numbers(v.revision, w.revision)>>)

Same(v, w) == CompareVersions(v, w) = 0
WithoutRevision(v) == [v EXCEPT !.revision = << >>]
Truncated(s, n) == SubSeq(s, 1, IF Len(s) > n THEN n ELSE Len(s))

\* What is left of v to be compared with a prefix that has no revision
TrimmedSuffixes(v, prefix) ==
    LET m == Len(prefix.suffixes)
        kept == Truncated(v.suffixes, m)
    IN  IF Len(kept) = m /\ m > 0 /\ prefix.suffixes[m].number = << >>
        THEN [kept EXCEPT ![m].number = << >>]
        ELSE kept

\* starts_with: what of a version is compared with a prefix
Trimmed(v, prefix) ==
    LET numeric == prefix.suffixes = << >> /\ prefix.letter = 0
    IN  IF prefix.revision # << >> THEN v
        ELSE [WithoutRevision(v) EXCEPT !.suffixes = TrimmedSuffixes(v, prefix),
                                        !.letter = IF numeric THEN 0 ELSE @,
                                        !.main = IF numeric THEN Truncated(@, Len(prefix.main)) ELSE @]
===============================================================================
