------------------------------ MODULE TrieMap -------------------------------
(***************************************************************************)
(* The automaton of src/lib/aac.c as its callers see it: the map that the  *)
(* exact matchers read off it, and that augment_dfa() keeps its promise to *)
(* them.                                                                   *)
(***************************************************************************)
EXTENDS Trie

CONSTANTS
  Probes, \* the strings that the map's contents are told by
  Texts,  \* strings to search in
  Arrays, \* edge arrays to search in
  Labels  \* what for

ASSUME ProbesAssumption ==
  Words \subseteq Probes /\ Probes \subseteq Seq(Letters) /\ Texts \subseteq Seq(Int)

Sorted(set) == \A i, j \in 1..Len(set) : i < j => set[i].label < set[j].label

ASSUME ArraysAssumption ==
  /\ Labels \subseteq Int
  /\ \A set \in Arrays : /\ Len(set) \in Nat /\ Sorted(set)
                         /\ \A i \in 1..Len(set) : set[i].label \in Int

\* What the callers see in the automaton: the map that the exact matchers read.
Contents ==
  IF space = "live" THEN [w \in {p \in Probes : Match(p) # NoObject} |-> Match(w)] ELSE <<>>

Map == INSTANCE PatternMap WITH patterns <- Contents

\* augment_dfa() implements the map: a call adds its pattern and nothing else, or
\* returns -1 and changes nothing, whatever was grown or failed in between.
ImplementsMap == Map!Spec

Settled == pc = "idle" /\ space = "live"

\* One string before another, as in a dictionary of C's chars.
LexLess(u, w) ==
  \/ Len(u) < Len(w) /\ SubSeq(w, 1, Len(u)) = u
  \/ \E i \in DOMAIN u \cap DOMAIN w :
       SubSeq(u, 1, i - 1) = SubSeq(w, 1, i - 1) /\ u[i] < w[i]

\* walk_dfa() calls back for each pattern once, in the order of the strings, with
\* the object that was entered.
WalkInOrder ==
  LET walk == WalkDfa
      map == Contents
  IN /\ {walk[i] : i \in DOMAIN walk} = {[str |-> w, val |-> map[w]] : w \in DOMAIN map}
     /\ \A i \in 1..Len(walk) - 1 : LexLess(walk[i].str, walk[i + 1].str)

\* Whatever the search for several patterns reports is the object of one that occurs
\* in the text.
ReportsOccur ==
  Settled /\ bmg.ptr = "null" /\ answer.ret = 0 =>
    LET map == Contents IN
    \A text \in Texts :
      LET found == MatchAgainst(text) IN
      found # NoObject => \E w \in DOMAIN map : map[w] = found /\ Occurs(w, text)

\* In every sorted edge array edge_search() returns the first position whose label is not
\* less than the one looked for.
SearchExact ==
  calls = 0 =>
    \A set \in Arrays, c \in Labels :
      EdgeSearch(set, c) = Cardinality({i \in 1..Len(set) : set[i].label < c})

\* With one pattern, the search finds it in a text, of characters that delta1 has an entry
\* for, if and only if it occurs there.
BmgExact ==
  Settled /\ bmg.ptr = "set" /\ answer.ret = 0 =>
    \A text \in Texts :
      (\A i \in 1..Len(text) : text[i] \in 0..127) =>
        MatchAgainst(text) = IF Occurs(bmg.match, text) THEN bmg.val ELSE NoObject
=============================================================================
