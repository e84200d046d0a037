------------------------------- MODULE Texts --------------------------------
(***************************************************************************)
(* Texts and the lists the code builds of them: what is compared without   *)
(* regard to case and blanks, and which element of several equal ones      *)
(* stays.                                                                  *)
(***************************************************************************)
EXTENDS Naturals, Sequences, SequencesExt

CONSTANT Folded  \* [text -> text]: trimmed, lower case, blanks collapsed

Fold(text) == IF text \in DOMAIN Folded THEN Folded[text] ELSE text

\* The elements of s that are in T, in their order.
Among(s, T) ==
  FoldLeft(LAMBDA kept, x : IF x \in T THEN Append(kept, x) ELSE kept, <<>>, s)

Only(s, Test(_)) == Among(s, {x \in Range(s) : Test(x)})

\* The elements of s with a key that no earlier one has: the order of a Map
\* or a Set filled from s.
FirstByKey(s, key) ==
  FoldLeft(LAMBDA kept, x : IF \E i \in DOMAIN kept : key[kept[i]] = key[x]
                            THEN kept ELSE Append(kept, x),
           <<>>, s)

DistinctBy(s, Key(_)) == FirstByKey(s, [x \in Range(s) |-> Key(x)])

FirstOf(s, n) == SubSeq(s, 1, IF n < Len(s) THEN n ELSE Len(s))

\* Mapped(s, F): F of each element.
Mapped(s, F(_)) == [i \in DOMAIN s |-> F(s[i])]

=============================================================================
