------------------------------- MODULE MCTrie -------------------------------
(***************************************************************************)
(* Trie on short patterns, and what the matchers, walk_dfa() and the lexer *)
(* of contents files make of it.                                           *)
(***************************************************************************)
EXTENDS ContentsFile

StringsUpTo(n, letters) == UNION {[1..k -> letters] : k \in 0..n}

a == 97
b == 98
c == 99
MCLetters == {-2, a, b, c}
MCWords == {<<>>, <<b>>, <<a>>, <<-2>>, <<c>>, <<a, b>>, <<b, a>>, <<a, b, a>>, <<b, c, -2>>}
SearchLabels == {-1, 1, 2, 4, 5, 7}
MCLabels == -1..7
MCProbes == StringsUpTo(2, MCLetters) \cup StringsUpTo(3, {a, b}) \cup MCWords
\* Every sorted edge array of up to six edges.
MCArrays ==
  {[i \in DOMAIN labels |-> [label |-> labels[i], vtx |-> i]] :
     labels \in {SetToSortSeq(labels, <) : labels \in SUBSET SearchLabels}}
MCTexts == StringsUpTo(4, {a, b, c}) \cup [1..6 -> {a, b}]

A == 65
MCLines == {
  Line(<<>>, <<a, b>>, <<Space, c, Slash, a>>, <<a>>),
  Line(<<Space>>, <<b, A, b, a>>, <<Space, Space, Slash, b, Slash, c>>, <<b, Slash, c>>),
  Line(<<>>, <<c, Slash, a>>, <<Space, c>>, <<>>),
  Line(<<>>, <<c>>, <<>>, <<>>),
  Line(<<>>, <<>>, <<>>, <<>>)}

ObjectSymmetry == Permutations(Objects)

=============================================================================
