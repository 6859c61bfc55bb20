----------------------------- MODULE TrieProofs -----------------------------
(***************************************************************************)
(* Proofs about Trie and TrieMap, for any characters, patterns, objects    *)
(* and texts, any first allocation and every allocation failure:           *)
(*                                                                         *)
(*   TypeOK          the array within its room, the vertices a sorted tree *)
(*   SolePattern     the tables are those of the only pattern              *)
(*   ImplementsMap   the refinement of PatternMap, step by step            *)
(*   ReportsOccur    what the search for several patterns reports          *)
(*   SearchExact     where edge_search() ends                              *)
(*   BmgExact        what the search for one pattern finds                 *)
(*   WalkInOrder     what walk_dfa() calls back with, and in which order   *)
(*                                                                         *)
(* The argument is about paths from the root.  edge_search() is right for  *)
(* sorted edge arrays of any length, so that the matchers follow the       *)
(* edges; Match yields what hangs at the end of a string's path, if it has *)
(* one, and different strings end at different vertices, for no two edges  *)
(* end at one.  A new edge then changes no match, and entering an object   *)
(* that of one string only.                                                *)
(*                                                                         *)
(* The recursive functions are reasoned about without induction over the   *)
(* data: that one exists is shown by extending it downwards from the       *)
(* string's end, what it yields by a least counterexample (LeastNatural).  *)
(*                                                                         *)
(* Of the Boyer-Moore search it is shown that no shift passes a place at   *)
(* which the pattern stands: neither delta1's nor delta2's, which looks for *)
(* the suffix that agreed elsewhere in the pattern, and failing that for a *)
(* suffix that the pattern begins with (NoneSkipped).  BmgExact also needs *)
(* that augment_dfa() never has tables made that bmgprepare() is undefined *)
(* for (TablesInv).                                                        *)
(*                                                                         *)
(* walk_dfa() joins what lies behind the edges of a vertex; that this is   *)
(* the vertex's objects with the strings that lead to them, in the strings'*)
(* order (Walked), is shown from the last vertex down to the root, for an  *)
(* edge leads to a later vertex and the edges are sorted.                  *)
(***************************************************************************)
EXTENDS TrieMap, FiniteSetTheorems, TLAPS

-----------------------------------------------------------------------------
(* edge_search().                                                           *)

\* A set of naturals that is not empty has a least element: what stands in for
\* induction in the proofs.
LEMMA LeastNatural ==
  ASSUME NEW T \in SUBSET Nat, T # {}
  PROVE  \E n \in T : \A k \in T : n <= k
<1> DEFINE Below == {1..n : n \in T}
<1>1. Below \subseteq FiniteSubsetsOf(Nat) /\ Below # {}
  <2>1. \A n \in T : n \in Int /\ 1..n \in SUBSET Nat
    OBVIOUS
  <2>2. \A n \in T : IsFiniteSet(1..n)
    BY <2>1, FS_Interval
  <2>3. \A n \in T : 1..n \in FiniteSubsetsOf(Nat)
    BY <2>1, <2>2 DEF FiniteSubsetsOf
  <2> QED
    BY <2>3
<1>2. PICK x \in Below : \A y \in Below : <<y, x>> \notin StrictSubsetOrdering(Nat)
  <2> HIDE DEF Below
  <2> QED
    BY <1>1, FS_StrictSubsetOrderingWellFounded, WFMin
<1>3. PICK n \in T : x = 1..n
  OBVIOUS
<1>4. ASSUME NEW k \in T, k < n PROVE FALSE
  <2>1. /\ 1..k \in SUBSET Nat /\ 1..n \in SUBSET Nat /\ 1..k \subseteq 1..n
        /\ n \in 1..n /\ n \notin 1..k
    BY <1>4
  <2>2. <<1..k, 1..n>> \in StrictSubsetOrdering(Nat)
    BY <2>1 DEF StrictSubsetOrdering
  <2> QED
    BY <1>2, <1>3, <2>2
<1> QED
  BY <1>4

Labelled(set) == \A i \in 1..Len(set) : set[i].label \in Int

\* The offset at which the edge labelled c is, or has to be put.
IsPlace(set, c, p) ==
  /\ p \in 0..Len(set)
  /\ \A i \in 1..Len(set) : IF i <= p THEN set[i].label < c ELSE set[i].label >= c

LEMMA PlaceExists ==
  ASSUME NEW set, Len(set) \in Nat, Labelled(set), Sorted(set), NEW c \in Int
  PROVE  \E p : IsPlace(set, c, p)
<1> DEFINE T == {k \in 0..Len(set) : \A i \in k + 1..Len(set) : set[i].label >= c}
<1>1. T \in SUBSET Nat /\ Len(set) \in T
  OBVIOUS
<1>2. PICK p \in T : \A k \in T : p <= k
  <2> HIDE DEF T
  <2> QED
    BY <1>1, LeastNatural
<1>3. p \in 0..Len(set) /\ \A i \in p + 1..Len(set) : set[i].label >= c
  OBVIOUS
<1>4. ASSUME NEW i \in 1..Len(set), i <= p PROVE set[i].label < c
  <2>1. p \in 1..Len(set) /\ p - 1 \in 0..Len(set) /\ p \in Int
    BY <1>3, <1>4
  <2>2. p - 1 \notin T
    <3> HIDE DEF T
    <3> QED
      BY <1>2, <2>1
  <2>3. PICK j \in (p - 1) + 1..Len(set) : ~(set[j].label >= c)
    BY <2>1, <2>2
  <2>4. j = p
    BY <1>3, <2>1, <2>3
  <2>5. set[p].label < c
    BY <2>1, <2>3, <2>4 DEF Labelled
  <2>6. CASE i = p
    BY <2>5, <2>6
  <2>7. CASE i < p
    BY <2>1, <2>5, <2>7 DEF Labelled, Sorted
  <2> QED
    BY <1>4, <2>1, <2>6, <2>7
<1> QED
  BY <1>3, <1>4 DEF IsPlace

\* One turn of the binary search, where loop says what the next one makes of its range.
Turn(set, c, loop, min, max) ==
  LET pos == min + (max - min) \div 2 IN
  IF min >= max THEN pos
  ELSE IF c < set[pos + 1].label THEN loop[min][pos]
  ELSE IF c > set[pos + 1].label THEN loop[pos + 1][max]
  ELSE pos

\* What a turn looks at, and which part of the range has the place.
LEMMA HalfFacts ==
  ASSUME NEW set, Len(set) \in Nat, Labelled(set), Sorted(set), NEW c \in Int,
         NEW p, IsPlace(set, c, p),
         NEW min \in 0..Len(set), NEW max \in 0..Len(set),
         NEW pos \in Int, min <= pos, pos < max
  PROVE  /\ pos \in 0..Len(set) /\ pos + 1 \in 1..Len(set)
         /\ set[pos + 1].label \in Int
         /\ c < set[pos + 1].label => p <= pos
         /\ c > set[pos + 1].label => p >= pos + 1
         /\ ~(c < set[pos + 1].label) /\ ~(c > set[pos + 1].label) => p = pos
<1>2. pos \in 0..Len(set) /\ pos + 1 \in 1..Len(set)
  OBVIOUS
<1>3. set[pos + 1].label \in Int
  BY <1>2 DEF Labelled
<1>4. /\ p \in 0..Len(set)
      /\ \A i \in 1..Len(set) : /\ i <= p => set[i].label < c
                                /\ i > p => set[i].label >= c
  BY DEF IsPlace
<1>5. c < set[pos + 1].label => p <= pos
  BY <1>2, <1>3, <1>4
<1>6. c > set[pos + 1].label => p >= pos + 1
  BY <1>2, <1>3, <1>4
<1>7. ASSUME c = set[pos + 1].label PROVE p = pos
  <2>1. p <= pos
    BY <1>2, <1>3, <1>4, <1>7
  <2>2. CASE p < pos
    <3>1. p + 1 \in 1..Len(set) /\ p + 1 < pos + 1 /\ p + 1 > p
      BY <1>2, <1>4, <2>2
    <3>2. set[p + 1].label >= c /\ set[p + 1].label < set[pos + 1].label
      BY <1>2, <1>4, <3>1 DEF Sorted
    <3>3. set[p + 1].label \in Int
      BY <3>1 DEF Labelled
    <3> QED
      BY <1>7, <3>2, <3>3
  <2> QED
    BY <1>2, <1>4, <2>1, <2>2
<1> QED
  BY <1>2, <1>3, <1>5, <1>6, <1>7

\* The function that the search defines exists: on a range that has not the place
\* it comes to the range's nearer end.
LEMMA LoopExists ==
  ASSUME NEW set, Len(set) \in Nat, Labelled(set), Sorted(set), NEW c \in Int
  PROVE  \E loop : loop = [min \in 0..Len(set) |-> [max \in 0..Len(set) |->
                             Turn(set, c, loop, min, max)]]
<1>1. PICK p : IsPlace(set, c, p)
  BY PlaceExists
<1> DEFINE n == Len(set)
           Near(min, max) == IF min >= max THEN min + (max - min) \div 2
                             ELSE IF p < min THEN min ELSE IF p > max THEN max ELSE p
           loop == [min \in 0..n |-> [max \in 0..n |-> Near(min, max)]]
<1>2. p \in 0..n
  BY <1>1 DEF IsPlace
<1>3. ASSUME NEW min \in 0..n, NEW max \in 0..n
      PROVE  Turn(set, c, loop, min, max) = Near(min, max)
  <2> DEFINE pos == min + (max - min) \div 2
  <2>1. CASE min >= max
    BY <2>1 DEF Turn
  <2>2. CASE min < max
    <3>0. pos \in Int /\ min <= pos /\ pos < max
      BY <2>2
    <3>1. /\ pos \in 0..n /\ pos + 1 \in 1..n
          /\ set[pos + 1].label \in Int
          /\ c < set[pos + 1].label => p <= pos
          /\ c > set[pos + 1].label => p >= pos + 1
          /\ ~(c < set[pos + 1].label) /\ ~(c > set[pos + 1].label) => p = pos
      <4> HIDE DEF pos, loop
      <4> QED
        BY <1>1, <3>0, HalfFacts
    <3>2. Turn(set, c, loop, min, max) =
            IF c < set[pos + 1].label THEN loop[min][pos]
            ELSE IF c > set[pos + 1].label THEN loop[pos + 1][max] ELSE pos
      <4> HIDE DEF loop
      <4> QED
        BY <2>2 DEF Turn
    <3>3. loop[min][pos] = Near(min, pos) /\ loop[pos + 1][max] = Near(pos + 1, max)
      BY <3>1
    <3>4. pos \in Int /\ 0 \div 2 = 0
      BY <3>1
    <3> HIDE DEF pos, loop
    <3>5. CASE c < set[pos + 1].label
      <4>1. Near(min, pos) = Near(min, max)
        <5>1. CASE min = pos
          BY <1>2, <2>2, <3>0, <3>1, <3>4, <3>5, <5>1
        <5>2. CASE min # pos
          BY <1>2, <2>2, <3>0, <3>1, <3>4, <3>5, <5>2
        <5> QED
          BY <5>1, <5>2
      <4> QED
        BY <3>2, <3>3, <3>5, <4>1
    <3>6. CASE ~(c < set[pos + 1].label) /\ c > set[pos + 1].label
      <4>1. Near(pos + 1, max) = Near(min, max)
        <5>1. CASE pos + 1 = max
          <6>1. Near(pos + 1, max) = max /\ p >= max
            BY <1>2, <2>2, <3>0, <3>1, <3>4, <3>6, <5>1
          <6> QED
            BY <1>2, <2>2, <6>1
        <5>2. CASE pos + 1 # max
          BY <1>2, <2>2, <3>0, <3>1, <3>4, <3>6, <5>2
        <5> QED
          BY <5>1, <5>2
      <4> QED
        BY <3>2, <3>3, <3>6, <4>1
    <3>7. CASE ~(c < set[pos + 1].label) /\ ~(c > set[pos + 1].label)
      BY <1>2, <2>2, <3>0, <3>1, <3>2, <3>7
    <3> QED
      BY <3>5, <3>6, <3>7
  <2> QED
    BY <2>1, <2>2
<1>4. loop = [min \in 0..n |-> [max \in 0..n |-> Turn(set, c, loop, min, max)]]
  BY <1>3
<1> QED
  BY <1>4

LEMMA LoopRight ==
  ASSUME NEW set, Len(set) \in Nat, Labelled(set), Sorted(set), NEW c \in Int,
         NEW p, IsPlace(set, c, p),
         NEW loop, \A a, b \in 0..Len(set) : loop[a][b] = Turn(set, c, loop, a, b),
         NEW min \in 0..Len(set), NEW max \in 0..Len(set), min <= p, p <= max
  PROVE  loop[min][max] = p
<1> DEFINE n == Len(set)
           Wrong == {d \in Nat : \E a, b \in 0..n :
                       a <= p /\ p <= b /\ d = b - a /\ loop[a][b] # p}
<1>1. p \in 0..n
  BY DEF IsPlace
<1>2. \A a, b \in 0..n : loop[a][b] = Turn(set, c, loop, a, b)
  OBVIOUS
<1>3. SUFFICES ASSUME Wrong # {} PROVE FALSE
  <2>1. max - min \in Nat
    BY <1>1
  <2> QED
    BY <2>1
<1>4. Wrong \in SUBSET Nat
  OBVIOUS
<1>5. PICK d \in Wrong : \A e \in Wrong : d <= e
  <2> HIDE DEF Wrong
  <2> QED
    BY <1>3, <1>4, LeastNatural
<1>6. PICK a \in 0..n, b \in 0..n : a <= p /\ p <= b /\ d = b - a /\ loop[a][b] # p
  OBVIOUS
<1>7. \A i, j \in 0..n : i <= p /\ p <= j /\ j - i < b - a => loop[i][j] = p
  <2> SUFFICES ASSUME NEW i \in 0..n, NEW j \in 0..n, i <= p, p <= j, j - i < b - a,
                      loop[i][j] # p
               PROVE  FALSE
    OBVIOUS
  <2>1. j - i \in Nat /\ d \in Nat
    BY <1>1
  <2>2. j - i \in Wrong
    BY <2>1
  <2> QED
    <3> HIDE DEF Wrong
    <3>1. d <= j - i
      BY <1>5, <2>2
    <3> QED
      BY <1>6, <2>1, <3>1
<1> DEFINE pos == a + (b - a) \div 2
<1>8. CASE a = b
  <2>1. pos = p
    BY <1>1, <1>6, <1>8
  <2> QED
    BY SMTT(30), <1>2, <1>6, <1>8, <2>1 DEF Turn
<1>9. CASE a < b
  <2>0. pos \in Int /\ a <= pos /\ pos < b
    BY <1>9
  <2>1. /\ pos \in 0..n /\ pos + 1 \in 1..n
        /\ set[pos + 1].label \in Int
        /\ c < set[pos + 1].label => p <= pos
        /\ c > set[pos + 1].label => p >= pos + 1
        /\ ~(c < set[pos + 1].label) /\ ~(c > set[pos + 1].label) => p = pos
    <3>1. PICK i : i = pos
      OBVIOUS
    <3>2. i \in Int /\ a <= i /\ i < b /\ a \in 0..Len(set) /\ b \in 0..Len(set)
      BY <2>0, <3>1
    <3> HIDE DEF pos
    <3>3. /\ i \in 0..Len(set) /\ i + 1 \in 1..Len(set)
          /\ set[i + 1].label \in Int
          /\ c < set[i + 1].label => p <= i
          /\ c > set[i + 1].label => p >= i + 1
          /\ ~(c < set[i + 1].label) /\ ~(c > set[i + 1].label) => p = i
      BY <3>2, HalfFacts
    <3> QED
      BY <3>1, <3>3
  <2>2. loop[a][b] = IF c < set[pos + 1].label THEN loop[a][pos]
                     ELSE IF c > set[pos + 1].label THEN loop[pos + 1][b] ELSE pos
    <3>1. loop[a][b] = Turn(set, c, loop, a, b) /\ ~(a >= b)
      BY <1>2, <1>9
    <3> QED
      BY <3>1 DEF Turn
  <2> HIDE DEF pos
  <2>3. CASE c < set[pos + 1].label
    <3>1. loop[a][pos] = p
      BY <1>6, <1>7, <2>0, <2>1, <2>3
    <3> QED
      BY <1>6, <2>2, <2>3, <3>1
  <2>4. CASE ~(c < set[pos + 1].label) /\ c > set[pos + 1].label
    <3>1. pos + 1 \in 0..n /\ b - (pos + 1) < b - a
      BY <2>0, <2>1
    <3>2. loop[pos + 1][b] = p
      BY <1>6, <1>7, <2>1, <2>4, <3>1
    <3> QED
      BY <1>6, <2>2, <2>4, <3>2
  <2>5. CASE ~(c < set[pos + 1].label) /\ ~(c > set[pos + 1].label)
    BY <1>6, <2>1, <2>2, <2>5
  <2> QED
    BY <2>3, <2>4, <2>5
<1> QED
  BY <1>1, <1>6, <1>8, <1>9

\* In a sorted edge array of any length edge_search() finds the place of every label.
THEOREM SearchCorrect ==
  ASSUME NEW set, Len(set) \in Nat, Labelled(set), Sorted(set), NEW c \in Int
  PROVE  IsPlace(set, c, EdgeSearch(set, c))
<1> DEFINE n == Len(set)
           top == IF n \in {1, 2} /\ set[n].label >= c THEN n - 1 ELSE n
<1>1. PICK loop : loop = CHOOSE f : f = [min \in 0..n |-> [max \in 0..n |-> Turn(set, c, f, min, max)]]
  OBVIOUS
<1>2. EdgeSearch(set, c) = loop[0][top]
  BY <1>1 DEF EdgeSearch, Turn
<1>3. loop = [min \in 0..n |-> [max \in 0..n |-> Turn(set, c, loop, min, max)]]
  BY <1>1, LoopExists
<1>4. PICK p : IsPlace(set, c, p)
  BY PlaceExists
<1>5. top \in 0..n /\ p <= top /\ 0 <= p
  <2>1. p \in 0..n
    BY <1>4 DEF IsPlace
  <2>2. CASE n \in {1, 2} /\ set[n].label >= c
    <3>1. n \in 1..n /\ set[n].label \in Int
      BY <2>2 DEF Labelled
    <3>2. ~(n <= p)
      BY <1>4, <2>2, <3>1 DEF IsPlace
    <3> QED
      BY <2>1, <2>2, <3>2
  <2> QED
    BY <2>1, <2>2
<1> HIDE DEF top
<1>6. \A a, b \in 0..n : loop[a][b] = Turn(set, c, loop, a, b)
  <2>1. \A f : f = [i \in 0..n |-> [j \in 0..n |-> Turn(set, c, loop, i, j)]] =>
          \A a, b \in 0..n : f[a][b] = Turn(set, c, loop, a, b)
    OBVIOUS
  <2> QED
    BY <1>3, <2>1
<1>7. loop[0][top] = p
  BY <1>4, <1>5, <1>6, LoopRight
<1> QED
  BY <1>2, <1>4, <1>7

-----------------------------------------------------------------------------
(* The tree.                                                                *)

Vertex == [set : Seq([label : Letters, vtx : Nat]), val : Objects \cup {NoObject}]

\* What TypeOK says of the array.
TreeOK ==
  /\ DOMAIN vtxarray = 0..vtxcount - 1
  /\ \A v \in DOMAIN vtxarray :
       /\ vtxarray[v].set \in Seq([label : Letters, vtx : DOMAIN vtxarray])
       /\ vtxarray[v].val \in Objects \cup {NoObject}
  /\ SortedTree

RestOK ==
  /\ space \in {"null", "live", "freed"}
  /\ vtxalloc \in Nat /\ vtxcount <= vtxalloc
  /\ patcount \in Nat /\ longest \in Nat
  /\ bmg \in [ptr : {"null", "freed", "set"}, match : Seq(Letters), val : Objects \cup {NoObject}]
  /\ calls \in 0..MaxCalls /\ pc \in {"idle", "walking"}
  /\ str \in Seq(Letters) /\ val \in Objects \cup {NoObject}
  /\ s \in 0..Len(str) /\ cur \in DOMAIN vtxarray \cup {0}
  /\ answer \in [str : Words \cup {<<>>}, val : Objects \cup {NoObject},
                 starved : BOOLEAN, ret : {0, -1}]

\* There is a tree if and only if the caller has a dfa; while augment_dfa() walks, cur
\* is one of its vertices.
CallInv ==
  /\ vtxcount \in Nat
  /\ \A v \in DOMAIN vtxarray : vtxarray[v] \in Vertex
  /\ space = "live" <=> 0 \in DOMAIN vtxarray
  /\ space # "live" => pc = "idle" /\ bmg = NoTables /\ patcount = 0
  /\ str \in Words \cup {<<>>}
  /\ pc = "walking" => str \in Words /\ val \in Objects /\ cur \in DOMAIN vtxarray

LEMMA TypeSplit == TypeOK <=> TreeOK /\ RestOK
  BY DEF TypeOK, TreeOK, RestOK

LEMMA TypeSplitNext == TreeOK' /\ RestOK' => TypeOK'
  BY DEF TypeOK, TreeOK, RestOK

LEMMA InsertFacts ==
  ASSUME NEW E, NEW q \in Seq(E), NEW p \in 0..Len(q), NEW x \in E
  PROVE  /\ InsertAt(q, p + 1, x) \in Seq(E) /\ Len(InsertAt(q, p + 1, x)) = Len(q) + 1
         /\ \A i \in 1..Len(q) + 1 :
              InsertAt(q, p + 1, x)[i] = IF i <= p THEN q[i] ELSE IF i = p + 1 THEN x ELSE q[i - 1]
<1> DEFINE before == SubSeq(q, 1, p)
           after == SubSeq(q, p + 1, Len(q))
<1>1. Len(q) \in Nat /\ p \in Nat /\ p <= Len(q)
  OBVIOUS
<1>2. before \in Seq(E) /\ Len(before) = p /\ \A i \in 1..p : before[i] = q[i]
  BY <1>1
<1>3. after \in Seq(E) /\ Len(after) = Len(q) - p /\ \A i \in 1..Len(q) - p : after[i] = q[p + i]
  BY <1>1
<1>4. InsertAt(q, p + 1, x) = before \o <<x>> \o after
  <2>1. (p + 1) - 1 = p
    BY <1>1
  <2>2. InsertAt(q, p + 1, x) = SubSeq(q, 1, (p + 1) - 1) \o <<x>> \o SubSeq(q, p + 1, Len(q))
    BY DEF InsertAt
  <2> QED
    BY <2>1, <2>2
<1> HIDE DEF before, after
<1> DEFINE first == before \o <<x>>
<1>5. first \in Seq(E) /\ Len(first) = p + 1 /\ first[p + 1] = x /\ \A i \in 1..p : first[i] = q[i]
  BY <1>1, <1>2
<1> HIDE DEF first
<1>6. PICK r : r = first \o after
  OBVIOUS
<1>7. InsertAt(q, p + 1, x) = r
  BY <1>4, <1>6 DEF first
<1>8. r \in Seq(E) /\ Len(r) = Len(q) + 1
  BY <1>1, <1>3, <1>5, <1>6
<1>9. ASSUME NEW i \in 1..Len(q) + 1
      PROVE  r[i] = IF i <= p THEN q[i] ELSE IF i = p + 1 THEN x ELSE q[i - 1]
  <2>1. CASE i <= p + 1
    <3>1. r[i] = first[i]
      BY <1>1, <1>3, <1>5, <1>6, <2>1
    <3> QED
      BY <1>1, <1>5, <2>1, <3>1
  <2>2. CASE i > p + 1
    <3>1. /\ i - (p + 1) \in 1..Len(q) - p /\ p + (i - (p + 1)) = i - 1
          /\ ~(i <= p) /\ i # p + 1
      BY <1>1, <2>2
    <3>2. r[i] = after[i - (p + 1)]
      BY <1>1, <1>3, <1>5, <1>6, <2>2
    <3>3. r[i] = q[i - 1]
      BY <1>3, <3>1, <3>2
    <3> QED
      BY <3>1, <3>3
  <2>3. i <= p + 1 \/ i > p + 1
    BY <1>1
  <2> QED
    BY <2>1, <2>2, <2>3
<1> QED
  BY <1>7, <1>8, <1>9

LEMMA SeqFacts ==
  ASSUME NEW E, NEW q \in Seq(E)
  PROVE  Len(q) \in Nat /\ DOMAIN q = 1..Len(q) /\ \A i \in 1..Len(q) : q[i] \in E
  OBVIOUS

LEMMA SetFacts ==
  ASSUME TreeOK, CallInv, NEW v \in DOMAIN vtxarray
  PROVE  /\ vtxarray[v].set \in Seq([label : Letters, vtx : DOMAIN vtxarray])
         /\ Len(vtxarray[v].set) \in Nat /\ DOMAIN vtxarray[v].set = 1..Len(vtxarray[v].set)
         /\ Labelled(vtxarray[v].set) /\ Sorted(vtxarray[v].set)
         /\ \A i \in 1..Len(vtxarray[v].set) : /\ vtxarray[v].set[i].label \in Letters
                                               /\ vtxarray[v].set[i].vtx \in DOMAIN vtxarray
                                               /\ v < vtxarray[v].set[i].vtx
                                               /\ v \in Nat /\ vtxarray[v].set[i].vtx \in Nat
<1>1. vtxarray[v].set \in Seq([label : Letters, vtx : DOMAIN vtxarray])
  BY DEF TreeOK
<1> DEFINE q == vtxarray[v].set
<1>2. Len(q) \in Nat /\ DOMAIN q = 1..Len(q)
  BY <1>1, SeqFacts
<1>3. \A i \in 1..Len(q) : q[i] \in [label : Letters, vtx : DOMAIN vtxarray]
  BY <1>1, SeqFacts
<1>4. \A i \in 1..Len(q) : q[i].label \in Letters /\ q[i].vtx \in DOMAIN vtxarray /\ q[i].label \in Int
  BY <1>3, TrieAssumption
<1>5. Sorted(q)
  BY <1>2 DEF TreeOK, SortedTree, Sorted
<1>6. \A i \in 1..Len(q) : v < q[i].vtx
  <2> SUFFICES ASSUME NEW i \in 1..Len(q) PROVE v < q[i].vtx
    OBVIOUS
  <2> DEFINE e == [from |-> v, label |-> q[i].label, vtx |-> q[i].vtx]
  <2>1. e \in Edges
    BY <1>2 DEF Edges
  <2>2. e.from < e.vtx
    BY <2>1 DEF TreeOK, SortedTree
  <2> QED
    BY <2>2
<1>7. DOMAIN vtxarray \subseteq Nat
  BY DEF TreeOK, CallInv
<1> QED
  BY <1>1, <1>2, <1>4, <1>5, <1>6, <1>7 DEF Labelled

LEMMA EdgesAre ==
  ASSUME NEW e
  PROVE  e \in Edges <=> \E v \in DOMAIN vtxarray : \E i \in DOMAIN vtxarray[v].set :
           e = [from |-> v, label |-> vtxarray[v].set[i].label, vtx |-> vtxarray[v].set[i].vtx]
  BY DEF Edges

\* What is known of an edge.
LEMMA EdgeEnds ==
  ASSUME TreeOK, CallInv, NEW e \in Edges
  PROVE  /\ e.from \in DOMAIN vtxarray /\ e.vtx \in DOMAIN vtxarray /\ e.from < e.vtx
         /\ e.from \in Nat /\ e.vtx \in Nat /\ e.label \in Letters
         /\ e = [from |-> e.from, label |-> e.label, vtx |-> e.vtx]
         /\ \E i \in 1..Len(vtxarray[e.from].set) : /\ vtxarray[e.from].set[i].label = e.label
                                                    /\ vtxarray[e.from].set[i].vtx = e.vtx
<1>1. PICK v \in DOMAIN vtxarray : \E i \in DOMAIN vtxarray[v].set :
        e = [from |-> v, label |-> vtxarray[v].set[i].label, vtx |-> vtxarray[v].set[i].vtx]
  BY EdgesAre
<1>2. PICK i \in DOMAIN vtxarray[v].set :
        e = [from |-> v, label |-> vtxarray[v].set[i].label, vtx |-> vtxarray[v].set[i].vtx]
  BY <1>1
<1>3. /\ DOMAIN vtxarray[v].set = 1..Len(vtxarray[v].set)
      /\ \A j \in 1..Len(vtxarray[v].set) : /\ vtxarray[v].set[j].label \in Letters
                                            /\ vtxarray[v].set[j].vtx \in DOMAIN vtxarray
                                            /\ v < vtxarray[v].set[j].vtx
                                            /\ v \in Nat /\ vtxarray[v].set[j].vtx \in Nat
  BY SetFacts
<1> QED
  BY <1>2, <1>3

\* As long as the edge arrays stay, the tree does.
LEMMA TreeStays ==
  ASSUME TreeOK, DOMAIN vtxarray' = DOMAIN vtxarray,
         \A v \in DOMAIN vtxarray : /\ vtxarray'[v].set = vtxarray[v].set
                                    /\ vtxarray'[v].val \in Objects \cup {NoObject}
  PROVE  TreeOK' /\ vtxcount' = vtxcount
<1>1. vtxcount' = vtxcount
  BY DEF vtxcount
<1>2. Edges' = Edges
  BY DEF Edges
<1>3. SortedTree'
  BY <1>2 DEF TreeOK, SortedTree
<1> QED
  BY <1>1, <1>3 DEF TreeOK

\* Where the walk stands when it needs an edge that is not there.
LEMMA MissingFacts ==
  ASSUME TypeOK, CallInv, Missing
  PROVE  /\ cur \in DOMAIN vtxarray /\ cur \in Nat /\ str[s + 1] \in Letters /\ str[s + 1] \in Int
         /\ Here \in Seq([label : Letters, vtx : Nat]) /\ vtxarray[cur] \in Vertex
         /\ Len(Here) \in Nat /\ IsPlace(Here, str[s + 1], Place)
         /\ Place \in 0..Len(Here)
         /\ \A i \in 1..Len(Here) :
              IF i <= Place THEN Here[i].label < str[s + 1] ELSE Here[i].label > str[s + 1]
<1>1. /\ pc = "walking" /\ s < Len(str) /\ s \in 0..Len(str) /\ str \in Seq(Letters)
      /\ ~IsEdge(Here, Place, str[s + 1]) /\ TreeOK
  BY TypeSplit DEF Missing, Reading, EdgeThere, RestOK
<1>2. s + 1 \in 1..Len(str)
  BY <1>1
<1>3. str[s + 1] \in Letters /\ str[s + 1] \in Int
  BY <1>1, <1>2, SeqFacts, TrieAssumption
<1>4. cur \in DOMAIN vtxarray /\ cur \in Nat /\ vtxarray[cur] \in Vertex
  BY <1>1 DEF CallInv, TreeOK
<1>5. Here \in Seq([label : Letters, vtx : Nat])
  BY <1>4 DEF Vertex, Here
<1>6. Len(Here) \in Nat /\ Labelled(Here) /\ Sorted(Here)
  BY <1>1, <1>4, SetFacts DEF Here
<1>7. IsPlace(Here, str[s + 1], Place)
  BY <1>3, <1>6, SearchCorrect DEF Place
<1>8. /\ Place \in 0..Len(Here)
      /\ \A i \in 1..Len(Here) :
           IF i <= Place THEN Here[i].label < str[s + 1] ELSE Here[i].label >= str[s + 1]
  BY <1>7 DEF IsPlace
<1>9. ASSUME NEW i \in 1..Len(Here), i > Place PROVE Here[i].label > str[s + 1]
  <2>1. Here[i].label >= str[s + 1] /\ Here[i].label \in Int
    BY <1>6, <1>8, <1>9 DEF Labelled
  <2>2. CASE i = Place + 1
    <3>1. Place < Len(Here)
      BY <1>6, <1>8, <2>2
    <3>2. Here[i].label # str[s + 1]
      BY <1>1, <2>2, <3>1 DEF IsEdge
    <3> QED
      BY <1>3, <2>1, <3>2
  <2>3. CASE i # Place + 1
    <3>1. Place + 1 \in 1..Len(Here) /\ Place + 1 < i /\ Place + 1 > Place
      BY <1>6, <1>8, <1>9, <2>3
    <3>2. Here[Place + 1].label >= str[s + 1] /\ Here[Place + 1].label < Here[i].label
      BY <1>6, <1>8, <3>1 DEF Sorted
    <3>3. Here[Place + 1].label \in Int
      BY <1>6, <3>1 DEF Labelled
    <3> QED
      BY <1>3, <2>1, <3>2, <3>3
  <2> QED
    BY <2>2, <2>3
<1> QED
  BY <1>3, <1>4, <1>5, <1>6, <1>7, <1>8, <1>9

\* The array with the new vertex.
LEMMA GrownFacts ==
  ASSUME TypeOK, CallInv, Missing, NEW grown, grown = WithEdge
  PROVE  /\ vtxcount \in Nat /\ DOMAIN vtxarray = 0..vtxcount - 1
         /\ DOMAIN grown = 0..vtxcount /\ vtxcount \notin DOMAIN vtxarray
         /\ 0..vtxcount = (DOMAIN vtxarray) \cup {vtxcount}
         /\ Cardinality(DOMAIN grown) = vtxcount + 1
         /\ grown[vtxcount] = NewVertex
         /\ grown[cur].set = InsertAt(Here, Place + 1, [label |-> str[s + 1], vtx |-> vtxcount])
         /\ grown[cur].val = vtxarray[cur].val
         /\ \A v \in DOMAIN vtxarray \ {cur} : grown[v] = vtxarray[v]
         /\ \A v \in DOMAIN grown : grown[v] \in Vertex
<1> DEFINE n == vtxcount
           x == [label |-> str[s + 1], vtx |-> n]
<1>1. n \in Nat /\ DOMAIN vtxarray = 0..n - 1
  BY DEF CallInv, TypeOK
<1>2. /\ cur \in DOMAIN vtxarray /\ vtxarray[cur] \in Vertex /\ Place \in 0..Len(Here)
      /\ Here \in Seq([label : Letters, vtx : Nat]) /\ str[s + 1] \in Letters
      /\ Here = vtxarray[cur].set
  BY MissingFacts DEF Here
<1>3. grown = [v \in 0..n |->
                 IF v = n THEN NewVertex
                 ELSE IF v = cur THEN [vtxarray[v] EXCEPT !.set = InsertAt(@, Place + 1, x)]
                 ELSE vtxarray[v]]
  BY DEF WithEdge
<1> HIDE DEF n
<1>4. /\ n \notin DOMAIN vtxarray /\ n # cur /\ 0..n = (DOMAIN vtxarray) \cup {n} /\ n \in 0..n
  BY <1>1, <1>2
<1>5. x \in [label : Letters, vtx : Nat]
  BY <1>1, <1>2
<1> HIDE DEF x
<1>6. InsertAt(Here, Place + 1, x) \in Seq([label : Letters, vtx : Nat])
  BY <1>2, <1>5, InsertFacts
<1>7. PICK grew : grew = [vtxarray[cur] EXCEPT !.set = InsertAt(@, Place + 1, x)]
  OBVIOUS
<1>8. /\ grew.set = InsertAt(Here, Place + 1, x) /\ grew.val = vtxarray[cur].val
      /\ grew \in Vertex
  BY <1>2, <1>6, <1>7 DEF Vertex
<1>9. grown[cur] = grew /\ grown[n] = NewVertex /\ DOMAIN grown = 0..n
      /\ \A v \in DOMAIN vtxarray \ {cur} : grown[v] = vtxarray[v]
  BY <1>2, <1>3, <1>4, <1>7
<1>10. NewVertex \in Vertex
  BY DEF NewVertex, Vertex
<1>11. \A v \in DOMAIN grown : grown[v] \in Vertex
  BY <1>4, <1>8, <1>9, <1>10 DEF CallInv
<1>12. Cardinality(0..n) = n + 1
  BY <1>1, FS_Interval
<1> QED
  BY <1>1, <1>4, <1>8, <1>9, <1>11, <1>12 DEF n, x

\* The grown array's edge arrays: cur's has the new edge at its place.
LEMMA GrownSets ==
  ASSUME TypeOK, CallInv, Missing, NEW grown, grown = WithEdge
  PROVE  /\ Len(grown[cur].set) = Len(Here) + 1
         /\ \A i \in 1..Len(Here) + 1 :
              grown[cur].set[i] = IF i <= Place THEN Here[i]
                                  ELSE IF i = Place + 1 THEN [label |-> str[s + 1], vtx |-> vtxcount]
                                  ELSE Here[i - 1]
         /\ \A v \in DOMAIN grown :
              /\ grown[v].set \in Seq([label : Letters, vtx : DOMAIN grown])
              /\ Sorted(grown[v].set)
              /\ Len(grown[v].set) \in Nat /\ DOMAIN grown[v].set = 1..Len(grown[v].set)
<1> DEFINE n == vtxcount
           x == [label |-> str[s + 1], vtx |-> n]
           E == [label : Letters, vtx : DOMAIN vtxarray]
           F == [label : Letters, vtx : DOMAIN grown]
<1>1. /\ n \in Nat /\ DOMAIN grown = 0..n /\ DOMAIN grown = (DOMAIN vtxarray) \cup {n}
      /\ grown[n] = NewVertex
      /\ grown[cur].set = InsertAt(Here, Place + 1, x)
      /\ \A v \in DOMAIN vtxarray \ {cur} : grown[v] = vtxarray[v]
  BY GrownFacts
<1>2. /\ cur \in DOMAIN vtxarray /\ Place \in 0..Len(Here) /\ str[s + 1] \in Letters
      /\ str[s + 1] \in Int /\ Len(Here) \in Nat /\ Here = vtxarray[cur].set
      /\ \A i \in 1..Len(Here) :
           IF i <= Place THEN Here[i].label < str[s + 1] ELSE Here[i].label > str[s + 1]
  BY MissingFacts DEF Here
<1>3. \A v \in DOMAIN vtxarray : vtxarray[v].set \in Seq(E) /\ Sorted(vtxarray[v].set) /\ Labelled(vtxarray[v].set)
  BY SetFacts, TypeSplit
<1>4. E \subseteq F
  BY <1>1
<1>5. x \in F
  BY <1>1, <1>2
<1> HIDE DEF E, F
<1>6. \A v \in DOMAIN vtxarray : vtxarray[v].set \in Seq(F)
  BY <1>3, <1>4
<1>7. Here \in Seq(F)
  BY <1>2, <1>6
<1> DEFINE q == InsertAt(Here, Place + 1, x)
<1>8. /\ q \in Seq(F) /\ Len(q) = Len(Here) + 1
      /\ \A i \in 1..Len(Here) + 1 :
           q[i] = IF i <= Place THEN Here[i] ELSE IF i = Place + 1 THEN x ELSE Here[i - 1]
  <2> HIDE DEF x
  <2>1. PICK h : h = Here
    OBVIOUS
  <2>2. PICK p : p = Place
    OBVIOUS
  <2>3. h \in Seq(F) /\ p \in 0..Len(h) /\ x \in F
    BY <1>2, <1>5, <1>7, <2>1, <2>2
  <2>4. /\ InsertAt(h, p + 1, x) \in Seq(F) /\ Len(InsertAt(h, p + 1, x)) = Len(h) + 1
        /\ \A i \in 1..Len(h) + 1 :
             InsertAt(h, p + 1, x)[i] = IF i <= p THEN h[i] ELSE IF i = p + 1 THEN x ELSE h[i - 1]
    BY <2>3, InsertFacts
  <2> QED
    BY <2>1, <2>2, <2>4
<1>9. x.label = str[s + 1]
  OBVIOUS
<1> HIDE DEF x, q
<1>10. Sorted(q)
  <2> SUFFICES ASSUME NEW i \in 1..Len(Here) + 1, NEW j \in 1..Len(Here) + 1, i < j
               PROVE  q[i].label < q[j].label
    BY <1>8 DEF Sorted
  <2>1. /\ Labelled(Here) /\ Sorted(Here)
    BY <1>2, <1>3
  <2>2. CASE j <= Place
    <3>1. i \in 1..Len(Here) /\ j \in 1..Len(Here) /\ q[i] = Here[i] /\ q[j] = Here[j]
      BY <1>2, <1>8, <2>2
    <3> QED
      BY <2>1, <3>1 DEF Sorted
  <2>3. CASE i <= Place /\ j = Place + 1
    <3>1. i \in 1..Len(Here) /\ q[i] = Here[i] /\ q[j] = x
      BY <1>2, <1>8, <2>3
    <3> QED
      BY <1>2, <1>9, <2>3, <3>1
  <2>4. CASE i <= Place /\ j > Place + 1
    <3>0. i \in 1..Len(Here) /\ j - 1 \in 1..Len(Here) /\ i < j - 1 /\ ~(j <= Place) /\ j # Place + 1
      BY <1>2, <2>4
    <3>1. i \in 1..Len(Here) /\ j - 1 \in 1..Len(Here) /\ i < j - 1 /\ q[i] = Here[i] /\ q[j] = Here[j - 1]
      BY <1>8, <2>4, <3>0
    <3> QED
      BY <2>1, <3>1 DEF Sorted
  <2>5. CASE i = Place + 1
    <3>1. j - 1 \in 1..Len(Here) /\ ~(j - 1 <= Place) /\ q[i] = x /\ q[j] = Here[j - 1]
      BY <1>2, <1>8, <2>5
    <3>2. Here[j - 1].label > str[s + 1] /\ Here[j - 1].label \in Int
      BY <1>2, <2>1, <3>1 DEF Labelled
    <3> QED
      BY <1>2, <1>9, <3>1, <3>2
  <2>6. CASE i > Place + 1
    <3>1. /\ i - 1 \in 1..Len(Here) /\ j - 1 \in 1..Len(Here) /\ i - 1 < j - 1
          /\ q[i] = Here[i - 1] /\ q[j] = Here[j - 1]
      BY <1>2, <1>8, <2>6
    <3> QED
      BY <2>1, <3>1 DEF Sorted
  <2>7. Place \in Int /\ i \in Int /\ j \in Int
    BY <1>2
  <2> QED
    BY <2>2, <2>3, <2>4, <2>5, <2>6, <2>7
<1>11. <<>> \in Seq(F) /\ Sorted(<<>>) /\ NewVertex.set = <<>>
  BY DEF Sorted, NewVertex
<1>12. ASSUME NEW v \in DOMAIN grown PROVE grown[v].set \in Seq(F) /\ Sorted(grown[v].set)
  <2>1. CASE v = n
    BY <1>1, <1>11, <2>1
  <2>2. CASE v = cur
    BY <1>1, <1>8, <1>10, <2>2 DEF q
  <2>3. CASE v \in DOMAIN vtxarray \ {cur}
    BY <1>1, <1>3, <1>6, <2>3
  <2> QED
    BY <1>1, <2>1, <2>2, <2>3
<1>13. \A v \in DOMAIN grown : Len(grown[v].set) \in Nat /\ DOMAIN grown[v].set = 1..Len(grown[v].set)
  BY <1>12, SeqFacts
<1> QED
  BY <1>1, <1>8, <1>12, <1>13 DEF q, x, F

\* With the new vertex the array is a sorted tree again: one edge more, to the vertex.
LEMMA TreeGrows ==
  ASSUME TypeOK, CallInv, Missing, vtxarray' = WithEdge
  PROVE  /\ TreeOK' /\ vtxcount' = vtxcount + 1 /\ vtxcount \in Nat
         /\ DOMAIN vtxarray' = (DOMAIN vtxarray) \cup {vtxcount}
         /\ cur \in DOMAIN vtxarray /\ vtxcount \notin DOMAIN vtxarray
         /\ \A v \in DOMAIN vtxarray' : vtxarray'[v] \in Vertex
         /\ vtxarray'[vtxcount] = NewVertex
         /\ \A v \in DOMAIN vtxarray : vtxarray'[v].val = vtxarray[v].val
         /\ Edges' = Edges \cup {[from |-> cur, label |-> str[s + 1], vtx |-> vtxcount]}
<1>1. PICK grown : grown = WithEdge
  OBVIOUS
<1>2. PICK n : n = vtxcount
  OBVIOUS
<1>3. PICK p : p = Place
  OBVIOUS
<1>4. PICK c : c = str[s + 1]
  OBVIOUS
<1> DEFINE x == [label |-> c, vtx |-> n]
           new == [from |-> cur, label |-> c, vtx |-> n]
<1>5. /\ n \in Nat /\ DOMAIN vtxarray = 0..n - 1
      /\ DOMAIN grown = 0..n /\ n \notin DOMAIN vtxarray
      /\ DOMAIN grown = (DOMAIN vtxarray) \cup {n}
      /\ Cardinality(DOMAIN grown) = n + 1
      /\ grown[n] = NewVertex
      /\ grown[cur].val = vtxarray[cur].val
      /\ \A v \in DOMAIN vtxarray \ {cur} : grown[v] = vtxarray[v]
      /\ \A v \in DOMAIN grown : grown[v] \in Vertex
  BY <1>1, <1>2, GrownFacts
<1>6. /\ Len(grown[cur].set) = Len(Here) + 1
      /\ \A i \in 1..Len(Here) + 1 :
           grown[cur].set[i] = IF i <= p THEN Here[i] ELSE IF i = p + 1 THEN x ELSE Here[i - 1]
      /\ \A v \in DOMAIN grown :
           /\ grown[v].set \in Seq([label : Letters, vtx : DOMAIN grown])
           /\ Sorted(grown[v].set)
           /\ Len(grown[v].set) \in Nat /\ DOMAIN grown[v].set = 1..Len(grown[v].set)
  BY <1>1, <1>2, <1>3, <1>4, GrownSets
<1>7. /\ cur \in DOMAIN vtxarray /\ cur \in Nat /\ Here = vtxarray[cur].set /\ Len(Here) \in Nat
      /\ p \in 0..Len(Here) /\ DOMAIN Here = 1..Len(Here)
  BY <1>3, MissingFacts DEF Here
<1>8. vtxarray' = grown
  BY <1>1
<1>9. vtxcount' = n + 1
  BY <1>5, <1>8 DEF vtxcount
<1>10. x.label = c /\ x.vtx = n /\ NewVertex.set = <<>> /\ new.from = cur /\ new.vtx = n
  BY DEF NewVertex
<1> HIDE DEF x
<1>11. ASSUME NEW e
       PROVE  e \in Edges' <=> \E v \in DOMAIN grown : \E i \in DOMAIN grown[v].set :
                e = [from |-> v, label |-> grown[v].set[i].label, vtx |-> grown[v].set[i].vtx]
  BY <1>8 DEF Edges
<1>12. new \in Edges'
  <2>1. p + 1 \in 1..Len(Here) + 1 /\ ~(p + 1 <= p)
    BY <1>7
  <2>2. grown[cur].set[p + 1] = x
    BY <1>6, <2>1
  <2>3. cur \in DOMAIN grown /\ p + 1 \in DOMAIN grown[cur].set
    BY <1>5, <1>6, <1>7, <2>1
  <2> QED
    BY <1>10, <1>11, <2>2, <2>3
<1>13. Edges \subseteq Edges'
  <2> SUFFICES ASSUME NEW e \in Edges PROVE e \in Edges'
    OBVIOUS
  <2>1. PICK v \in DOMAIN vtxarray : \E i \in DOMAIN vtxarray[v].set :
          e = [from |-> v, label |-> vtxarray[v].set[i].label, vtx |-> vtxarray[v].set[i].vtx]
    BY EdgesAre
  <2>2. PICK i \in DOMAIN vtxarray[v].set :
          e = [from |-> v, label |-> vtxarray[v].set[i].label, vtx |-> vtxarray[v].set[i].vtx]
    BY <2>1
  <2>3. v \in DOMAIN grown
    BY <1>5
  <2>4. CASE v # cur
    <3>1. grown[v] = vtxarray[v]
      BY <1>5, <2>4
    <3> QED
      BY <1>11, <2>2, <2>3, <3>1
  <2>5. CASE v = cur
    <3>1. i \in 1..Len(Here) /\ e = [from |-> cur, label |-> Here[i].label, vtx |-> Here[i].vtx]
      BY <1>7, <2>2, <2>5
    <3>2. PICK j \in 1..Len(Here) + 1 : grown[cur].set[j] = Here[i]
      <4>1. CASE i <= p
        <5>1. i \in 1..Len(Here) + 1
          BY <1>7, <3>1
        <5> QED
          BY <1>6, <4>1, <5>1
      <4>2. CASE ~(i <= p)
        <5>1. i + 1 \in 1..Len(Here) + 1 /\ ~(i + 1 <= p) /\ i + 1 # p + 1 /\ (i + 1) - 1 = i
          BY <1>7, <3>1, <4>2
        <5>2. grown[cur].set[i + 1] = Here[(i + 1) - 1]
          BY <1>6, <5>1
        <5> QED
          BY <5>1, <5>2
      <4> QED
        BY <4>1, <4>2
    <3>3. j \in DOMAIN grown[cur].set
      BY <1>6, <2>3, <2>5
    <3> QED
      BY <1>11, <2>3, <2>5, <3>1, <3>2, <3>3
  <2> QED
    BY <2>4, <2>5
<1>14. Edges' \subseteq Edges \cup {new}
  <2> SUFFICES ASSUME NEW e \in Edges', e # new PROVE e \in Edges
    OBVIOUS
  <2>1. PICK v \in DOMAIN grown : \E i \in DOMAIN grown[v].set :
          e = [from |-> v, label |-> grown[v].set[i].label, vtx |-> grown[v].set[i].vtx]
    BY <1>11
  <2>2. PICK i \in DOMAIN grown[v].set :
          e = [from |-> v, label |-> grown[v].set[i].label, vtx |-> grown[v].set[i].vtx]
    BY <2>1
  <2>3. CASE v = n
    BY <1>5, <1>10, <2>2, <2>3
  <2>4. CASE v \in DOMAIN vtxarray \ {cur}
    <3>1. grown[v] = vtxarray[v]
      BY <1>5, <2>4
    <3> QED
      BY <2>2, <2>4, <3>1, EdgesAre
  <2>5. CASE v = cur
    <3>1. i \in 1..Len(Here) + 1
      BY <1>6, <2>1, <2>2, <2>5
    <3>2. CASE i <= p
      <4>1. i \in 1..Len(Here) /\ grown[cur].set[i] = Here[i]
        BY <1>6, <1>7, <3>1, <3>2
      <4> QED
        BY <1>7, <2>2, <2>5, <4>1, EdgesAre
    <3>3. CASE i = p + 1
      <4>1. ~(i <= p)
        BY <1>7, <3>3
      <4>2. grown[cur].set[i] = x
        BY <1>6, <3>1, <3>3, <4>1
      <4> QED
        BY <1>10, <2>2, <2>5, <4>2
    <3>4. CASE ~(i <= p) /\ i # p + 1
      <4>1. i - 1 \in 1..Len(Here)
        BY <1>7, <3>1, <3>4
      <4>2. grown[cur].set[i] = Here[i - 1]
        BY <1>6, <3>1, <3>4
      <4> QED
        BY <1>7, <2>2, <2>5, <4>1, <4>2, EdgesAre
    <3> QED
      BY <3>2, <3>3, <3>4
  <2> QED
    BY <1>5, <2>3, <2>4, <2>5
<1>15. Edges' = Edges \cup {new}
  BY <1>12, <1>13, <1>14
<1>16. \A e \in Edges : e.from < e.vtx /\ e.vtx \in DOMAIN vtxarray
  BY EdgeEnds, TypeSplit
<1>17. \A e \in Edges' : e.from < e.vtx
  BY <1>5, <1>7, <1>10, <1>15, <1>16
<1>18. ASSUME NEW v \in (DOMAIN grown) \ {0} PROVE Cardinality({e \in Edges' : e.vtx = v}) = 1
  <2>1. CASE v = n
    <3>1. {e \in Edges' : e.vtx = v} = {new}
      BY <1>5, <1>10, <1>15, <1>16, <2>1
    <3> HIDE DEF new
    <3>2. Cardinality({new}) = 1
      BY FS_Singleton
    <3> QED
      BY <3>1, <3>2
  <2>2. CASE v # n
    <3>1. {e \in Edges' : e.vtx = v} = {e \in Edges : e.vtx = v}
      BY <1>10, <1>15, <2>2
    <3>2. v \in DOMAIN vtxarray \ {0}
      BY <1>5, <2>2
    <3>3. Cardinality({e \in Edges : e.vtx = v}) = 1
      BY <3>2 DEF TypeOK, SortedTree
    <3> QED
      BY <3>1, <3>3
  <2> QED
    BY <2>1, <2>2
<1>19. \A v \in DOMAIN grown : \A i, j \in DOMAIN grown[v].set :
         i < j => grown[v].set[i].label < grown[v].set[j].label
  BY <1>6 DEF Sorted
<1>20. SortedTree'
  BY <1>8, <1>17, <1>18, <1>19 DEF SortedTree
<1>21. \A v \in DOMAIN grown : grown[v].val \in Objects \cup {NoObject}
  BY <1>5 DEF Vertex
<1>22. TreeOK'
  <2>1. DOMAIN vtxarray' = 0..vtxcount' - 1
    BY <1>5, <1>8, <1>9
  <2> QED
    BY <1>6, <1>8, <1>20, <1>21, <2>1 DEF TreeOK
<1>23. \A v \in DOMAIN vtxarray : grown[v].val = vtxarray[v].val
  BY <1>5
<1> QED
  BY <1>2, <1>4, <1>5, <1>7, <1>8, <1>9, <1>15, <1>22, <1>23

-----------------------------------------------------------------------------
(* Type correctness.                                                        *)

LEMMA InitOK ==
  ASSUME Init PROVE TypeOK /\ CallInv
<1>1. /\ space = "null" /\ vtxarray = <<>> /\ vtxalloc = 0 /\ patcount = 0 /\ longest = 0
      /\ bmg = NoTables /\ calls = 0 /\ pc = "idle" /\ str = <<>> /\ val = NoObject
      /\ s = 0 /\ cur = 0 /\ answer = Answer(<<>>, NoObject, FALSE, 0)
  BY DEF Init
<1>2. DOMAIN vtxarray = {} /\ vtxcount = 0
  BY <1>1, FS_EmptySet DEF vtxcount
<1>3. Edges = {}
  BY <1>2 DEF Edges
<1>4. TreeOK
  <2>1. 0..vtxcount - 1 = {}
    BY <1>2
  <2> QED
    BY <1>2, <1>3, <2>1 DEF TreeOK, SortedTree
<1>5. RestOK
  BY <1>1, <1>2, TrieAssumption DEF RestOK, NoTables, Answer
<1>6. CallInv
  BY <1>1, <1>2 DEF CallInv
<1> QED
  BY <1>4, <1>5, <1>6, TypeSplit

\* The tree and what goes with it stay in a step that changes no edges.
LEMMA ArrayStays ==
  ASSUME TypeOK, CallInv, UNCHANGED vtxarray
  PROVE  TreeOK' /\ vtxcount' = vtxcount /\ DOMAIN vtxarray' = DOMAIN vtxarray
<1>1. \A v \in DOMAIN vtxarray : /\ vtxarray'[v].set = vtxarray[v].set
                                 /\ vtxarray'[v].val \in Objects \cup {NoObject}
  BY DEF TypeOK
<1> QED
  BY <1>1, TreeStays, TypeSplit

LEMMA WordFacts ==
  ASSUME NEW w \in Words
  PROVE  w \in Seq(Letters) /\ Len(w) \in Nat /\ 0 \in 0..Len(w)
  BY TrieAssumption

LEMMA CallNullOK ==
  ASSUME TypeOK, CallInv, NEW w \in Words, CallNull(w) PROVE TypeOK' /\ CallInv'
<1>1. /\ MayCall(w) /\ calls' = calls + 1 /\ answer' = Answer(w, NoObject, FALSE, -1)
      /\ space' = space /\ vtxarray' = vtxarray /\ vtxalloc' = vtxalloc /\ patcount' = patcount
      /\ longest' = longest /\ bmg' = bmg /\ str' = str /\ val' = val /\ pc' = pc /\ s' = s /\ cur' = cur
  BY DEF CallNull, dfavars
<1>2. TreeOK' /\ vtxcount' = vtxcount /\ DOMAIN vtxarray' = DOMAIN vtxarray
  BY <1>1, ArrayStays
<1>3. calls' \in 0..MaxCalls
  BY <1>1, TrieAssumption DEF MayCall, TypeOK
<1>4. answer' \in [str : Words \cup {<<>>}, val : Objects \cup {NoObject},
                   starved : BOOLEAN, ret : {0, -1}]
  BY <1>1 DEF Answer
<1>5. RestOK'
  BY <1>1, <1>2, <1>3, <1>4, TypeSplit DEF RestOK
<1>6. CallInv'
  BY <1>1, <1>2 DEF CallInv
<1> QED
  BY <1>2, <1>5, <1>6, TypeSplitNext

LEMMA CreateOK ==
  ASSUME TypeOK, CallInv, Create
  PROVE  /\ TreeOK' /\ vtxcount' = 1 /\ DOMAIN vtxarray' = {0} /\ Edges' = {}
         /\ \A v \in DOMAIN vtxarray' : vtxarray'[v] \in Vertex /\ vtxarray'[v].val = NoObject
<1>1. vtxarray' = [v \in {0} |-> NewVertex]
  BY DEF Create
<1>2. DOMAIN vtxarray' = {0} /\ vtxarray'[0] = NewVertex
  BY <1>1
<1>3. vtxcount' = 1
  BY <1>2, FS_Singleton DEF vtxcount
<1>4. NewVertex.set = <<>> /\ NewVertex.val = NoObject /\ NewVertex \in Vertex
  BY DEF NewVertex, Vertex
<1>5. Edges' = {}
  BY <1>2, <1>4 DEF Edges
<1>6. TreeOK'
  <2>1. 0..vtxcount' - 1 = {0}
    BY <1>3
  <2>2. \A v \in DOMAIN vtxarray' :
          /\ vtxarray'[v].set \in Seq([label : Letters, vtx : DOMAIN vtxarray'])
          /\ vtxarray'[v].val \in Objects \cup {NoObject}
    <3>1. PICK F : F = [label : Letters, vtx : DOMAIN vtxarray']
      OBVIOUS
    <3>2. <<>> \in Seq(F)
      OBVIOUS
    <3> QED
      BY <1>2, <1>4, <3>1, <3>2
  <2>3. SortedTree'
    BY <1>2, <1>4, <1>5 DEF SortedTree
  <2> QED
    BY <1>2, <2>1, <2>2, <2>3 DEF TreeOK
<1> QED
  BY <1>2, <1>3, <1>4, <1>5, <1>6

LEMMA CallOK ==
  ASSUME TypeOK, CallInv, NEW w \in Words, NEW o \in Objects, Call(w, o) PROVE TypeOK' /\ CallInv'
<1>1. /\ MayCall(w) /\ calls' = calls + 1 /\ str' = w /\ val' = o
      /\ s' = 0 /\ cur' = 0 /\ pc' = "walking" /\ answer' = answer
  BY DEF Call
<1>2. calls' \in 0..MaxCalls
  BY <1>1, TrieAssumption DEF MayCall, TypeOK
<1>3. w \in Seq(Letters) /\ 0 \in 0..Len(w)
  BY WordFacts
<1>4. CASE space = "null"
  <2>1. Create
    BY <1>4 DEF Call
  <2>2. /\ space' = "live" /\ vtxalloc' = FirstAlloc /\ patcount' = 0 /\ longest' = 1
        /\ bmg' = NoTables
    BY <2>1 DEF Create
  <2>3. /\ TreeOK' /\ vtxcount' = 1 /\ DOMAIN vtxarray' = {0}
        /\ \A v \in DOMAIN vtxarray' : vtxarray'[v] \in Vertex
    BY <2>1, CreateOK
  <2>4. vtxalloc' \in Nat /\ vtxcount' <= vtxalloc'
    BY <2>2, <2>3, TrieAssumption
  <2>5. bmg' \in [ptr : {"null", "freed", "set"}, match : Seq(Letters), val : Objects \cup {NoObject}]
    BY <2>2 DEF NoTables
  <2>6. RestOK'
    BY <1>1, <1>2, <1>3, <2>2, <2>3, <2>4, <2>5, TypeSplit DEF RestOK
  <2>7. CallInv'
    BY <1>1, <2>2, <2>3 DEF CallInv
  <2> QED
    BY <2>3, <2>6, <2>7, TypeSplitNext
<1>5. CASE space # "null"
  <2>1. /\ space' = space /\ vtxarray' = vtxarray /\ vtxalloc' = vtxalloc /\ patcount' = patcount
        /\ longest' = longest /\ bmg' = bmg
    BY <1>5 DEF Call, dfavars
  <2>2. space = "live"
    BY <1>1, <1>5 DEF MayCall, TypeOK
  <2>3. TreeOK' /\ vtxcount' = vtxcount /\ DOMAIN vtxarray' = DOMAIN vtxarray
    BY <2>1, ArrayStays
  <2>4. RestOK'
    BY <1>1, <1>2, <1>3, <2>1, <2>3, TypeSplit DEF RestOK
  <2>5. CallInv'
    BY <1>1, <2>1, <2>2, <2>3 DEF CallInv
  <2> QED
    BY <2>3, <2>4, <2>5, TypeSplitNext
<1> QED
  BY <1>4, <1>5

LEMMA CallFailsOK ==
  ASSUME TypeOK, CallInv, NEW w \in Words, NEW o \in Objects, CallFails(w, o)
  PROVE  TypeOK' /\ CallInv'
<1>1. /\ MayCall(w) /\ calls' = calls + 1 /\ answer' = Answer(w, o, TRUE, -1)
      /\ space = "null" /\ space' \in {"null", "freed"}
      /\ vtxarray' = vtxarray /\ vtxalloc' = vtxalloc /\ patcount' = patcount
      /\ longest' = longest /\ bmg' = bmg /\ str' = str /\ val' = val /\ pc' = pc /\ s' = s /\ cur' = cur
  BY DEF CallFails
<1>2. TreeOK' /\ vtxcount' = vtxcount /\ DOMAIN vtxarray' = DOMAIN vtxarray
  BY <1>1, ArrayStays
<1>3. calls' \in 0..MaxCalls
  BY <1>1, TrieAssumption DEF MayCall, TypeOK
<1>4. answer' \in [str : Words \cup {<<>>}, val : Objects \cup {NoObject},
                   starved : BOOLEAN, ret : {0, -1}]
  BY <1>1 DEF Answer
<1>5. RestOK'
  BY <1>1, <1>2, <1>3, <1>4, TypeSplit DEF RestOK
<1>6. CallInv'
  BY <1>1, <1>2 DEF CallInv
<1> QED
  BY <1>2, <1>5, <1>6, TypeSplitNext

\* Where a walk goes that finds its edge.
LEMMA FollowFacts ==
  ASSUME TypeOK, CallInv, Follow
  PROVE  /\ pc = "walking" /\ s \in Nat /\ s + 1 \in 1..Len(str) /\ Len(str) \in Nat
         /\ cur \in DOMAIN vtxarray /\ cur' \in DOMAIN vtxarray
         /\ [from |-> cur, label |-> str[s + 1], vtx |-> cur'] \in Edges
<1>1. /\ pc = "walking" /\ s < Len(str) /\ s \in 0..Len(str) /\ str \in Seq(Letters)
      /\ IsEdge(Here, Place, str[s + 1]) /\ cur' = Here[Place + 1].vtx /\ TreeOK
  BY TypeSplit DEF Follow, Reading, EdgeThere, RestOK
<1>2. s + 1 \in 1..Len(str) /\ s \in Nat /\ Len(str) \in Nat
  BY <1>1
<1>3. str[s + 1] \in Int
  BY <1>1, <1>2, SeqFacts, TrieAssumption
<1>4. cur \in DOMAIN vtxarray
  BY <1>1 DEF CallInv
<1>5. /\ Len(Here) \in Nat /\ Labelled(Here) /\ Sorted(Here) /\ DOMAIN Here = 1..Len(Here)
      /\ \A i \in 1..Len(Here) : Here[i].vtx \in DOMAIN vtxarray
  BY <1>1, <1>4, SetFacts DEF Here
<1>6. Place \in 0..Len(Here)
  BY <1>3, <1>5, SearchCorrect DEF Place, IsPlace
<1>7. Place < Len(Here) /\ Here[Place + 1].label = str[s + 1]
  BY <1>1 DEF IsEdge
<1>8. Place + 1 \in 1..Len(Here)
  BY <1>5, <1>6, <1>7
<1>9. [from |-> cur, label |-> str[s + 1], vtx |-> cur'] \in Edges
  <2>1. Place + 1 \in DOMAIN vtxarray[cur].set
    BY <1>5, <1>8 DEF Here
  <2>2. str[s + 1] = vtxarray[cur].set[Place + 1].label /\ cur' = vtxarray[cur].set[Place + 1].vtx
    BY <1>1, <1>7 DEF Here
  <2> QED
    BY <1>4, <2>1, <2>2, EdgesAre
<1> QED
  BY <1>1, <1>2, <1>4, <1>5, <1>8, <1>9

LEMMA FollowOK ==
  ASSUME TypeOK, CallInv, Follow PROVE TypeOK' /\ CallInv'
<1>1. /\ s' = s + 1 /\ space' = space /\ vtxarray' = vtxarray /\ vtxalloc' = vtxalloc
      /\ patcount' = patcount /\ longest' = longest /\ bmg' = bmg /\ calls' = calls
      /\ str' = str /\ val' = val /\ pc' = pc /\ answer' = answer
  BY DEF Follow, dfavars, argvars
<1>2. TreeOK' /\ vtxcount' = vtxcount /\ DOMAIN vtxarray' = DOMAIN vtxarray
  BY <1>1, ArrayStays
<1>3. cur' \in DOMAIN vtxarray /\ s' \in 0..Len(str)
  BY <1>1, FollowFacts
<1>4. RestOK'
  BY <1>1, <1>2, <1>3, TypeSplit DEF RestOK
<1>5. CallInv'
  BY <1>1, <1>2, <1>3 DEF CallInv
<1> QED
  BY <1>2, <1>4, <1>5, TypeSplitNext

LEMMA RoomFacts ==
  ASSUME TypeOK, CallInv, pc = "walking"
  PROVE  /\ Room \in Nat /\ vtxcount + 1 <= Room /\ vtxcount <= Room
         /\ 0 \in DOMAIN vtxarray /\ space = "live"
<1>1. space = "live" /\ 0 \in DOMAIN vtxarray
  BY DEF CallInv
<1>2. vtxcount \in Nat /\ vtxalloc \in Nat /\ vtxcount <= vtxalloc /\ 0 \in 0..vtxcount - 1
  BY <1>1 DEF CallInv, TypeOK
<1> QED
  BY <1>1, <1>2 DEF Room, Full

LEMMA AddEdgeOK ==
  ASSUME TypeOK, CallInv, AddEdge PROVE TypeOK' /\ CallInv'
<1>1. /\ Missing /\ vtxalloc' = Room /\ vtxarray' = WithEdge /\ cur' = vtxcount /\ s' = s + 1
      /\ space' = space /\ patcount' = patcount /\ longest' = longest /\ bmg' = bmg /\ calls' = calls
      /\ str' = str /\ val' = val /\ pc' = pc /\ answer' = answer
  BY DEF AddEdge, argvars
<1>2. /\ TreeOK' /\ vtxcount' = vtxcount + 1 /\ vtxcount \in Nat
      /\ DOMAIN vtxarray' = (DOMAIN vtxarray) \cup {vtxcount}
      /\ \A v \in DOMAIN vtxarray' : vtxarray'[v] \in Vertex
  BY <1>1, TreeGrows
<1>3. pc = "walking" /\ s < Len(str) /\ s \in 0..Len(str) /\ Len(str) \in Nat
  <2>1. str \in Seq(Letters) /\ s \in 0..Len(str)
    BY DEF TypeOK
  <2> QED
    BY <1>1, <2>1, SeqFacts DEF Missing, Reading
<1>4. /\ Room \in Nat /\ vtxcount + 1 <= Room /\ 0 \in DOMAIN vtxarray /\ space = "live"
  BY <1>3, RoomFacts
<1>5. s' \in 0..Len(str) /\ cur' \in DOMAIN vtxarray'
  BY <1>1, <1>2, <1>3
<1>6. RestOK'
  BY <1>1, <1>2, <1>4, <1>5, TypeSplit DEF RestOK
<1>7. CallInv'
  BY <1>1, <1>2, <1>4, <1>5 DEF CallInv
<1> QED
  BY <1>2, <1>6, <1>7, TypeSplitNext

\* What a call returns has the type of an answer.
LEMMA ReturnOK ==
  ASSUME TypeOK, CallInv, NEW starved \in BOOLEAN, NEW ret \in {0, -1}, Return(starved, ret)
  PROVE  /\ answer' \in [str : Words \cup {<<>>}, val : Objects \cup {NoObject},
                         starved : BOOLEAN, ret : {0, -1}]
         /\ pc' = "idle"
  BY DEF Return, Answer, CallInv, TypeOK

LEMMA AddEdgeFailsOK ==
  ASSUME TypeOK, CallInv, AddEdgeFails PROVE TypeOK' /\ CallInv'
<1>1. /\ Missing /\ (vtxalloc' = vtxalloc \/ vtxalloc' = Room) /\ Return(TRUE, -1)
      /\ space' = space /\ vtxarray' = vtxarray
      /\ patcount' = patcount /\ longest' = longest /\ bmg' = bmg /\ calls' = calls
      /\ str' = str /\ val' = val /\ s' = s /\ cur' = cur
  BY DEF AddEdgeFails, argvars
<1>2. TreeOK' /\ vtxcount' = vtxcount /\ DOMAIN vtxarray' = DOMAIN vtxarray
  BY <1>1, ArrayStays
<1>3. /\ Room \in Nat /\ vtxcount <= Room /\ space = "live"
  BY <1>1, RoomFacts DEF Missing, Reading
<1>4. /\ answer' \in [str : Words \cup {<<>>}, val : Objects \cup {NoObject},
                      starved : BOOLEAN, ret : {0, -1}]
      /\ pc' = "idle"
  BY <1>1, ReturnOK
<1>5. RestOK'
  BY <1>1, <1>2, <1>3, <1>4, TypeSplit DEF RestOK
<1>6. CallInv'
  BY <1>1, <1>2, <1>3, <1>4 DEF CallInv
<1> QED
  BY <1>2, <1>5, <1>6, TypeSplitNext

LEMMA DuplicateOK ==
  ASSUME TypeOK, CallInv, Duplicate PROVE TypeOK' /\ CallInv'
<1>1. /\ pc = "walking" /\ Return(FALSE, -1)
      /\ space' = space /\ vtxarray' = vtxarray /\ vtxalloc' = vtxalloc
      /\ patcount' = patcount /\ longest' = longest /\ bmg' = bmg /\ calls' = calls
      /\ str' = str /\ val' = val /\ s' = s /\ cur' = cur
  BY DEF Duplicate, Arrived, dfavars, argvars
<1>2. TreeOK' /\ vtxcount' = vtxcount /\ DOMAIN vtxarray' = DOMAIN vtxarray
  BY <1>1, ArrayStays
<1>3. space = "live"
  BY <1>1, RoomFacts
<1>4. /\ answer' \in [str : Words \cup {<<>>}, val : Objects \cup {NoObject},
                      starved : BOOLEAN, ret : {0, -1}]
      /\ pc' = "idle"
  BY <1>1, ReturnOK
<1>5. RestOK'
  BY <1>1, <1>2, <1>4, TypeSplit DEF RestOK
<1>6. CallInv'
  BY <1>1, <1>2, <1>3, <1>4 DEF CallInv
<1> QED
  BY <1>2, <1>5, <1>6, TypeSplitNext

\* The object hangs on the vertex that the walk came to; no edge changes.
LEMMA EnterFacts ==
  ASSUME TypeOK, CallInv, Enter
  PROVE  /\ TreeOK' /\ vtxcount' = vtxcount /\ DOMAIN vtxarray' = DOMAIN vtxarray
         /\ \A v \in DOMAIN vtxarray : /\ vtxarray'[v] \in Vertex
                                       /\ vtxarray'[v].set = vtxarray[v].set
                                       /\ vtxarray'[v].val = IF v = cur THEN val ELSE vtxarray[v].val
         /\ cur \in DOMAIN vtxarray /\ val \in Objects
<1>1. pc = "walking" /\ vtxarray' = [vtxarray EXCEPT ![cur].val = val]
  BY DEF Enter, Arrived
<1>2. cur \in DOMAIN vtxarray /\ val \in Objects /\ \A v \in DOMAIN vtxarray : vtxarray[v] \in Vertex
  BY <1>1 DEF CallInv
<1>3. DOMAIN vtxarray' = DOMAIN vtxarray
  BY <1>1
<1>4. \A v \in DOMAIN vtxarray : /\ vtxarray'[v] \in Vertex
                                 /\ vtxarray'[v].set = vtxarray[v].set
                                 /\ vtxarray'[v].val = IF v = cur THEN val ELSE vtxarray[v].val
  <2> SUFFICES ASSUME NEW v \in DOMAIN vtxarray
               PROVE  /\ vtxarray'[v] \in Vertex
                      /\ vtxarray'[v].set = vtxarray[v].set
                      /\ vtxarray'[v].val = IF v = cur THEN val ELSE vtxarray[v].val
    OBVIOUS
  <2>1. CASE v = cur
    <3>1. vtxarray'[v] = [vtxarray[v] EXCEPT !.val = val]
      BY <1>1, <2>1
    <3> QED
      BY <1>2, <2>1, <3>1 DEF Vertex
  <2>2. CASE v # cur
    <3>1. vtxarray'[v] = vtxarray[v]
      BY <1>1, <2>2
    <3> QED
      BY <1>2, <2>2, <3>1
  <2> QED
    BY <2>1, <2>2
<1>5. \A v \in DOMAIN vtxarray : vtxarray'[v].val \in Objects \cup {NoObject}
  BY <1>2, <1>4 DEF Vertex
<1>6. TreeOK
  BY TypeSplit
<1>7. TreeOK' /\ vtxcount' = vtxcount
  BY <1>3, <1>4, <1>5, <1>6, TreeStays
<1> QED
  BY <1>2, <1>3, <1>4, <1>7

LEMMA EnterOK ==
  ASSUME TypeOK, CallInv, Enter PROVE TypeOK' /\ CallInv'
<1>1. /\ pc = "walking" /\ Return(FALSE, 0) /\ patcount' = patcount + 1
      /\ longest' \in {s, longest} /\ bmg' \in Prepared \cup {NoTables}
      /\ space' = space /\ vtxalloc' = vtxalloc
      /\ calls' = calls /\ str' = str /\ val' = val /\ s' = s /\ cur' = cur
  BY DEF Enter, Arrived, argvars
<1>2. /\ TreeOK' /\ vtxcount' = vtxcount /\ DOMAIN vtxarray' = DOMAIN vtxarray
      /\ \A v \in DOMAIN vtxarray : vtxarray'[v] \in Vertex
  BY EnterFacts
<1>3. space = "live"
  BY <1>1, RoomFacts
<1>4. /\ answer' \in [str : Words \cup {<<>>}, val : Objects \cup {NoObject},
                      starved : BOOLEAN, ret : {0, -1}]
      /\ pc' = "idle"
  BY <1>1, ReturnOK
<1>5. str \in Seq(Letters) /\ val \in Objects \cup {NoObject} /\ s \in Nat /\ longest \in Nat /\ patcount \in Nat
  BY DEF TypeOK
<1>6. bmg' \in [ptr : {"null", "freed", "set"}, match : Seq(Letters), val : Objects \cup {NoObject}]
  <2>1. bmg' \in {Tables(str, val), NoTables, StaleTables}
    BY <1>1 DEF Prepared
  <2>2. <<>> \in Seq(Letters)
    OBVIOUS
  <2>3. CASE bmg' = Tables(str, val)
    BY <1>5, <2>3 DEF Tables
  <2>4. CASE bmg' = NoTables
    BY <2>2, <2>4 DEF NoTables
  <2>5. CASE bmg' = StaleTables
    BY <2>2, <2>5 DEF StaleTables
  <2> QED
    BY <2>1, <2>3, <2>4, <2>5
<1>7. longest' \in Nat /\ patcount' \in Nat
  BY <1>1, <1>5
<1>8. RestOK'
  BY <1>1, <1>2, <1>4, <1>6, <1>7, TypeSplit DEF RestOK
<1>9. CallInv'
  BY <1>1, <1>2, <1>3, <1>4 DEF CallInv
<1> QED
  BY <1>2, <1>8, <1>9, TypeSplitNext

LEMMA StutterOK ==
  ASSUME TypeOK, CallInv, UNCHANGED vars PROVE TypeOK' /\ CallInv'
<1>1. /\ space' = space /\ vtxarray' = vtxarray /\ vtxalloc' = vtxalloc
      /\ patcount' = patcount /\ longest' = longest /\ bmg' = bmg /\ calls' = calls
      /\ str' = str /\ val' = val /\ s' = s /\ cur' = cur /\ pc' = pc /\ answer' = answer
  BY DEF vars, dfavars, argvars
<1>2. TreeOK' /\ vtxcount' = vtxcount /\ DOMAIN vtxarray' = DOMAIN vtxarray
  BY <1>1, ArrayStays
<1>3. RestOK'
  BY <1>1, <1>2, TypeSplit DEF RestOK
<1>4. CallInv'
  BY <1>1, <1>2 DEF CallInv
<1> QED
  BY <1>2, <1>3, <1>4, TypeSplitNext

LEMMA StepOK ==
  ASSUME TypeOK, CallInv, [Next]_vars PROVE TypeOK' /\ CallInv'
  BY CallNullOK, CallOK, CallFailsOK, FollowOK, AddEdgeOK, AddEdgeFailsOK, DuplicateOK, EnterOK,
     StutterOK DEF Next

\* The vertex array never outgrows its room, its edge arrays stay strictly sorted, as
\* edge_search() needs them, and its vertices stay a tree, however often augment_dfa()
\* grows the array, gives up for want of memory in the middle of a pattern, and is called again.
THEOREM TypeCorrect == Spec => []TypeOK
<1>1. Init => TypeOK /\ CallInv
  BY InitOK
<1>2. (TypeOK /\ CallInv) /\ [Next]_vars => (TypeOK /\ CallInv)'
  BY StepOK
<1> QED
  BY <1>1, <1>2, PTL DEF Spec

-----------------------------------------------------------------------------
(* Paths, and what the exact matcher makes of them.                         *)

\* The first n characters of w lead from the root along the edges E to v, over the
\* vertices of p.
IsPath(E, p, w, n, v) ==
  /\ n \in Nat /\ p \in [0..n -> Nat]
  /\ p[0] = 0 /\ p[n] = v
  /\ \A i \in 0..n - 1 : [from |-> p[i], label |-> w[i + 1], vtx |-> p[i + 1]] \in E

LEMMA PathEmpty ==
  ASSUME NEW E, NEW w PROVE \E p : IsPath(E, p, w, 0, 0)
<1> DEFINE p == [i \in 0..0 |-> 0]
<1>1. p \in [0..0 -> Nat] /\ p[0] = 0 /\ 0..0 - 1 = {}
  OBVIOUS
<1> QED
  BY <1>1 DEF IsPath

LEMMA PathKept ==
  ASSUME NEW E, NEW F, E \subseteq F, NEW p, NEW w, NEW n, NEW v, IsPath(E, p, w, n, v)
  PROVE  IsPath(F, p, w, n, v)
  BY DEF IsPath

LEMMA PathLonger ==
  ASSUME NEW E, NEW p, NEW w, NEW n, NEW v, IsPath(E, p, w, n, v),
         NEW u \in Nat, [from |-> v, label |-> w[n + 1], vtx |-> u] \in E
  PROVE  \E q : IsPath(E, q, w, n + 1, u)
<1> DEFINE q == [i \in 0..n + 1 |-> IF i = n + 1 THEN u ELSE p[i]]
<1>1. /\ n \in Nat /\ p \in [0..n -> Nat] /\ p[0] = 0 /\ p[n] = v
      /\ \A i \in 0..n - 1 : [from |-> p[i], label |-> w[i + 1], vtx |-> p[i + 1]] \in E
  BY DEF IsPath
<1>2. q \in [0..n + 1 -> Nat] /\ q[0] = 0 /\ q[n + 1] = u
  BY <1>1
<1>3. ASSUME NEW i \in 0..(n + 1) - 1
      PROVE  [from |-> q[i], label |-> w[i + 1], vtx |-> q[i + 1]] \in E
  <2>1. CASE i = n
    <3>1. q[i] = v /\ q[i + 1] = u
      BY <1>1, <2>1
    <3> HIDE DEF q
    <3> QED
      BY <2>1, <3>1
  <2>2. CASE i # n
    <3>1. i \in 0..n - 1 /\ q[i] = p[i] /\ q[i + 1] = p[i + 1]
      BY <1>1, <2>2
    <3> HIDE DEF q
    <3> QED
      BY <1>1, <3>1
  <2> QED
    BY <2>1, <2>2
<1>4. n + 1 \in Nat
  BY <1>1
<1> HIDE DEF q
<1> QED
  BY <1>2, <1>3, <1>4 DEF IsPath

LEMMA PathInTree ==
  ASSUME TypeOK, CallInv, 0 \in DOMAIN vtxarray,
         NEW p, NEW w, NEW n, NEW v, IsPath(Edges, p, w, n, v), NEW i \in 0..n
  PROVE  p[i] \in DOMAIN vtxarray
<1>1. /\ n \in Nat /\ p \in [0..n -> Nat] /\ p[0] = 0
      /\ \A j \in 0..n - 1 : [from |-> p[j], label |-> w[j + 1], vtx |-> p[j + 1]] \in Edges
  BY DEF IsPath
<1>2. CASE i = 0
  BY <1>1, <1>2
<1>3. CASE i # 0
  <2>1. i - 1 \in 0..n - 1 /\ (i - 1) + 1 = i
    BY <1>1, <1>3
  <2>2. [from |-> p[i - 1], label |-> w[i], vtx |-> p[i]] \in Edges
    BY <1>1, <2>1
  <2>3. \A e \in Edges : e.vtx \in DOMAIN vtxarray
    BY EdgeEnds, TypeSplit
  <2> QED
    BY <2>2, <2>3
<1> QED
  BY <1>2, <1>3

\* With the character of an edge the matcher takes it.
LEMMA StepAlong ==
  ASSUME TypeOK, CallInv, NEW u, NEW c, NEW v, [from |-> u, label |-> c, vtx |-> v] \in Edges
  PROVE  StepTo(u, c, NoVertex) = v
<1> DEFINE e == [from |-> u, label |-> c, vtx |-> v]
<1>1. /\ u \in DOMAIN vtxarray /\ c \in Letters
      /\ \E i \in 1..Len(vtxarray[u].set) : /\ vtxarray[u].set[i].label = c
                                            /\ vtxarray[u].set[i].vtx = v
  <2>1. e \in Edges /\ e.from = u /\ e.label = c /\ e.vtx = v
    OBVIOUS
  <2> HIDE DEF e
  <2> QED
    BY <2>1, EdgeEnds, TypeSplit
<1>2. PICK set : set = vtxarray[u].set
  OBVIOUS
<1>3. PICK i \in 1..Len(set) : set[i].label = c /\ set[i].vtx = v
  BY <1>1, <1>2
<1>4. c \in Int
  BY <1>1, TrieAssumption
<1>5. Len(set) \in Nat /\ Labelled(set) /\ Sorted(set)
  BY <1>1, <1>2, SetFacts, TypeSplit
<1>6. PICK pos : pos = EdgeSearch(set, c)
  OBVIOUS
<1>7. /\ pos \in 0..Len(set)
      /\ \A j \in 1..Len(set) : IF j <= pos THEN set[j].label < c ELSE set[j].label >= c
  BY <1>4, <1>5, <1>6, SearchCorrect DEF IsPlace
<1>8. ~(i <= pos)
  BY <1>3, <1>4, <1>7
<1>9. pos + 1 \in 1..Len(set) /\ pos < Len(set) /\ ~(pos + 1 <= pos) /\ pos + 1 <= i
  BY <1>5, <1>7, <1>8
<1>10. set[pos + 1].label >= c /\ set[pos + 1].label \in Int
  BY <1>5, <1>7, <1>9 DEF Labelled
<1>11. i = pos + 1
  <2>1. CASE pos + 1 < i
    <3>1. set[pos + 1].label < set[i].label
      BY <1>5, <1>9, <2>1 DEF Sorted
    <3> QED
      BY <1>3, <1>4, <1>10, <3>1
  <2> QED
    BY <1>7, <1>9, <2>1
<1>12. IsEdge(set, pos, c)
  BY <1>3, <1>9, <1>11 DEF IsEdge
<1> QED
  BY <1>2, <1>3, <1>6, <1>11, <1>12 DEF StepTo

\* And without an edge it is lost.
LEMMA StepLost ==
  ASSUME TypeOK, CallInv, NEW u \in DOMAIN vtxarray, NEW c \in Int, NEW lost,
         StepTo(u, c, lost) # lost
  PROVE  [from |-> u, label |-> c, vtx |-> StepTo(u, c, lost)] \in Edges
<1>1. PICK set : set = vtxarray[u].set
  OBVIOUS
<1>2. PICK pos : pos = EdgeSearch(set, c)
  OBVIOUS
<1>3. IsEdge(set, pos, c) /\ StepTo(u, c, lost) = set[pos + 1].vtx
  BY <1>1, <1>2 DEF StepTo
<1>4. Len(set) \in Nat /\ Labelled(set) /\ Sorted(set) /\ DOMAIN set = 1..Len(set)
  BY <1>1, SetFacts, TypeSplit
<1>5. pos \in 0..Len(set)
  BY <1>2, <1>4, SearchCorrect DEF IsPlace
<1>6. pos + 1 \in DOMAIN set /\ set[pos + 1].label = c
  BY <1>3, <1>4, <1>5 DEF IsEdge
<1> QED
  BY <1>1, <1>3, <1>6, EdgesAre

\* A recursion over the characters of a string, as those of the matchers: from vertex
\* v at the i-th it stops with what yield gives, or goes on where next says.
Descend(n, stop, yield, next, from, i, v) ==
  IF i = n \/ v \in stop[i] THEN yield[i][v] ELSE from[i + 1][next[i][v]]

Descends(n, stop, yield, next, D, from) ==
  from = [i \in 0..n |-> [v \in D |-> Descend(n, stop, yield, next, from, i, v)]]

LEMMA DescendSame ==
  ASSUME NEW n \in Nat, NEW stop, NEW yield, NEW next, NEW i \in 0..n, NEW v, NEW g, NEW h,
         i + 1 \in 0..n => h[i + 1] = g[i + 1]
  PROVE  Descend(n, stop, yield, next, h, i, v) = Descend(n, stop, yield, next, g, i, v)
<1>1. i # n => i + 1 \in 0..n
  OBVIOUS
<1> QED
  BY <1>1 DEF Descend

\* The function that such a recursion defines exists.
LEMMA DescentExists ==
  ASSUME NEW n \in Nat, NEW stop, NEW yield, NEW next, NEW D
  PROVE  \E from : Descends(n, stop, yield, next, D, from)
<1> DEFINE Solves(g, k) == \A i \in k..n : g[i] = [v \in D |-> Descend(n, stop, yield, next, g, i, v)]
           T == {k \in 0..n : \E g : Solves(g, k)}
<1>1. n \in T
  <2> DEFINE g == [i \in 0..n |-> [v \in D |-> yield[n][v]]]
  <2>1. n \in 0..n /\ n..n = {n}
    OBVIOUS
  <2>2. g[n] = [v \in D |-> yield[n][v]]
    BY <2>1
  <2> HIDE DEF g
  <2>3. \A v \in D : Descend(n, stop, yield, next, g, n, v) = yield[n][v]
    BY DEF Descend
  <2>4. g[n] = [v \in D |-> Descend(n, stop, yield, next, g, n, v)]
    BY <2>2, <2>3
  <2>5. Solves(g, n)
    BY <2>1, <2>4
  <2> QED
    BY <2>1, <2>5
<1>2. PICK k \in T : \A j \in T : k <= j
  <2>1. T \subseteq 0..n /\ 0..n \subseteq Nat
    OBVIOUS
  <2>2. T # {}
    BY <1>1
  <2> HIDE DEF T
  <2>3. T \in SUBSET Nat
    BY <2>1
  <2> QED
    BY <2>2, <2>3, LeastNatural
<1>3. k \in 0..n
  OBVIOUS
<1>4. PICK g : Solves(g, k)
  OBVIOUS
<1>5. CASE k # 0
  <2> DEFINE d == k - 1
             h == [i \in 0..n |-> IF i = d THEN [v \in D |-> Descend(n, stop, yield, next, g, d, v)] ELSE g[i]]
  <2>1. d \in 0..n /\ d < k
    BY <1>3, <1>5
  <2>2. h[d] = [v \in D |-> Descend(n, stop, yield, next, g, d, v)] /\ \A i \in k..n : h[i] = g[i]
    BY <1>3, <2>1
  <2>3. ASSUME NEW i \in d..n PROVE h[i] = [v \in D |-> Descend(n, stop, yield, next, h, i, v)]
    <3>1. i \in 0..n /\ (i + 1 \in 0..n => i + 1 \in k..n)
      BY <1>3, <2>1
    <3>2. i + 1 \in 0..n => h[i + 1] = g[i + 1]
      BY <2>2, <3>1
    <3> HIDE DEF h, d
    <3>3. \A v \in D : Descend(n, stop, yield, next, h, i, v) = Descend(n, stop, yield, next, g, i, v)
      BY <3>1, <3>2, DescendSame
    <3>4. CASE i = d
      BY <2>2, <3>3, <3>4
    <3>5. CASE i # d
      <4>1. i \in k..n
        BY <1>3, <3>1, <3>5 DEF d
      <4>2. h[i] = g[i] /\ g[i] = [v \in D |-> Descend(n, stop, yield, next, g, i, v)]
        BY <1>4, <2>2, <4>1
      <4> QED
        BY <3>3, <4>2
    <3> QED
      BY <3>4, <3>5
  <2>4. d \in T
    <3> HIDE DEF h
    <3>1. Solves(h, d)
      BY <2>3
    <3> QED
      BY <2>1, <3>1
  <2> QED
    <3> HIDE DEF T
    <3> QED
      BY <1>2, <1>3, <2>1, <2>4
<1>6. CASE k = 0
  <2> DEFINE from == [i \in 0..n |-> g[i]]
  <2>1. \A i \in 0..n : from[i] = g[i] /\ g[i] = [v \in D |-> Descend(n, stop, yield, next, g, i, v)]
    BY <1>4, <1>6
  <2>2. ASSUME NEW i \in 0..n PROVE from[i] = [v \in D |-> Descend(n, stop, yield, next, from, i, v)]
    <3>1. i + 1 \in 0..n => from[i + 1] = g[i + 1]
      BY <2>1
    <3> HIDE DEF from
    <3>2. \A v \in D : Descend(n, stop, yield, next, from, i, v) = Descend(n, stop, yield, next, g, i, v)
      BY <3>1, DescendSame
    <3> QED
      BY <2>1, <3>2
  <2>3. from = [i \in 0..n |-> from[i]]
    OBVIOUS
  <2>4. PICK f : f = from
    OBVIOUS
  <2> HIDE DEF from
  <2>5. f = [i \in 0..n |-> [v \in D |-> Descend(n, stop, yield, next, f, i, v)]]
    BY <2>2, <2>3, <2>4
  <2> QED
    BY <2>5 DEF Descends
<1> QED
  BY <1>5, <1>6

\* One step of match_dfactx_string() at the i-th character, where from says what the
\* rest of the string makes of a vertex.
Onward(w, from, i, v) ==
  IF v = NoVertex THEN NoObject
  ELSE IF i = Len(w) THEN vtxarray[v].val
  ELSE from[i + 1][StepTo(v, w[i + 1], NoVertex)]

LEMMA WalkExists ==
  ASSUME NEW w, Len(w) \in Nat, NEW D
  PROVE  \E from : from = [i \in 0..Len(w) |-> [v \in D |-> Onward(w, from, i, v)]]
<1>1. PICK n : n = Len(w)
  OBVIOUS
<1>2. PICK stop : stop = [i \in 0..n |-> {NoVertex}]
  OBVIOUS
<1>3. PICK yield : yield = [i \in 0..n |-> [v \in D |-> IF v = NoVertex THEN NoObject ELSE vtxarray[v].val]]
  OBVIOUS
<1>4. PICK next : next = [i \in 0..n |-> [v \in D |-> StepTo(v, w[i + 1], NoVertex)]]
  OBVIOUS
<1>5. n \in Nat
  BY <1>1
<1>6. PICK from : Descends(n, stop, yield, next, D, from)
  BY <1>5, DescentExists
<1>7. ASSUME NEW i \in 0..n, NEW v \in D
      PROVE  Descend(n, stop, yield, next, from, i, v) = Onward(w, from, i, v)
  <2>1. /\ stop[i] = {NoVertex} /\ next[i][v] = StepTo(v, w[i + 1], NoVertex)
        /\ yield[i][v] = IF v = NoVertex THEN NoObject ELSE vtxarray[v].val
    BY <1>2, <1>3, <1>4
  <2> QED
    BY <1>1, <2>1 DEF Descend, Onward
<1>8. from = [i \in 0..n |-> [v \in D |-> Onward(w, from, i, v)]]
  BY <1>6, <1>7 DEF Descends
<1> QED
  BY <1>1, <1>8

LEMMA MatchIs ==
  ASSUME NEW w, Len(w) \in Nat, 0 \in DOMAIN vtxarray
  PROVE  \E from : /\ Match(w) = from[0][0]
                   /\ \A i \in 0..Len(w) : \A v \in DOMAIN vtxarray \cup {NoVertex} :
                        from[i][v] = Onward(w, from, i, v)
<1>1. PICK D : D = DOMAIN vtxarray \cup {NoVertex}
  OBVIOUS
<1>2. PICK from : from = CHOOSE f : f = [i \in 0..Len(w) |-> [v \in D |-> Onward(w, f, i, v)]]
  OBVIOUS
<1>3. from = [i \in 0..Len(w) |-> [v \in D |-> Onward(w, from, i, v)]]
  <2>1. \E f : f = [i \in 0..Len(w) |-> [v \in D |-> Onward(w, f, i, v)]]
    BY WalkExists
  <2> QED
    BY <1>2, <2>1
<1>4. Match(w) = from[0][0]
  BY <1>1, <1>2 DEF Match, Onward
<1>5. \A i \in 0..Len(w) : \A v \in D : from[i][v] = Onward(w, from, i, v)
  <2>1. \A f : f = [i \in 0..Len(w) |-> [v \in D |-> Onward(w, from, i, v)]] =>
          \A i \in 0..Len(w) : \A v \in D : f[i][v] = Onward(w, from, i, v)
    OBVIOUS
  <2> QED
    BY <1>3, <2>1
<1> QED
  BY <1>1, <1>4, <1>5

\* A string that leads to a vertex yields the vertex's object.
LEMMA MatchAlong ==
  ASSUME TypeOK, CallInv, 0 \in DOMAIN vtxarray, NEW w, Len(w) \in Nat, NEW p, NEW v,
         IsPath(Edges, p, w, Len(w), v)
  PROVE  Match(w) = vtxarray[v].val
<1> DEFINE n == Len(w)
<1>1. PICK from : /\ Match(w) = from[0][0]
                  /\ \A i \in 0..n : \A u \in DOMAIN vtxarray \cup {NoVertex} :
                       from[i][u] = Onward(w, from, i, u)
  BY MatchIs
<1>2. \A i \in 0..n : p[i] \in DOMAIN vtxarray
  BY PathInTree
<1>3. DOMAIN vtxarray \subseteq Nat
  BY DEF CallInv, TypeOK
<1>4. /\ p[0] = 0 /\ p[n] = v
      /\ \A i \in 0..n - 1 : [from |-> p[i], label |-> w[i + 1], vtx |-> p[i + 1]] \in Edges
  BY DEF IsPath
<1>5. \A i \in 0..n : p[i] # NoVertex
  BY <1>2, <1>3 DEF NoVertex
<1> DEFINE T == {k \in 0..n : from[k][p[k]] = vtxarray[v].val}
<1>6. from[n][p[n]] = vtxarray[v].val
  <2>1. n \in 0..n
    OBVIOUS
  <2>2. from[n][p[n]] = Onward(w, from, n, p[n]) /\ p[n] # NoVertex
    BY <1>1, <1>2, <1>5, <2>1
  <2> QED
    BY <1>4, <2>2 DEF Onward
<1>7. PICK k \in T : \A j \in T : k <= j
  <2>1. T \subseteq 0..n /\ 0..n \subseteq Nat
    OBVIOUS
  <2>2. T # {}
    BY <1>6
  <2> HIDE DEF T
  <2>3. T \in SUBSET Nat
    BY <2>1
  <2> QED
    BY <2>2, <2>3, LeastNatural
<1>8. k \in 0..n /\ from[k][p[k]] = vtxarray[v].val
  OBVIOUS
<1>9. CASE k # 0
  <2>1. /\ k - 1 \in 0..n - 1 /\ k - 1 \in 0..n /\ (k - 1) + 1 = k /\ k - 1 # n /\ ~(k <= k - 1)
    BY <1>8, <1>9
  <2>2. StepTo(p[k - 1], w[k], NoVertex) = p[k]
    <3>1. [from |-> p[k - 1], label |-> w[k], vtx |-> p[k]] \in Edges
      BY <1>4, <2>1
    <3> QED
      BY <3>1, StepAlong
  <2>3. from[k - 1][p[k - 1]] = Onward(w, from, k - 1, p[k - 1]) /\ p[k - 1] # NoVertex
    BY <1>1, <1>2, <1>5, <2>1
  <2>4. Onward(w, from, k - 1, p[k - 1]) = from[k][p[k]]
    BY <2>1, <2>2, <2>3 DEF Onward
  <2>5. k - 1 \in T
    BY <1>8, <2>1, <2>3, <2>4
  <2> QED
    <3> HIDE DEF T
    <3> QED
      BY <1>7, <2>1, <2>5
<1> QED
  BY <1>1, <1>4, <1>8, <1>9

\* A string that yields an object leads to a vertex.
LEMMA MatchLeads ==
  ASSUME TypeOK, CallInv, 0 \in DOMAIN vtxarray, NEW w, Len(w) \in Nat,
         \A i \in 1..Len(w) : w[i] \in Int, Match(w) # NoObject
  PROVE  \E p, v : IsPath(Edges, p, w, Len(w), v)
<1> DEFINE n == Len(w)
<1>1. PICK from : /\ Match(w) = from[0][0]
                  /\ \A i \in 0..n : \A u \in DOMAIN vtxarray \cup {NoVertex} :
                       from[i][u] = Onward(w, from, i, u)
  BY MatchIs
<1> DEFINE T == {k \in 0..n : \E p, v : IsPath(Edges, p, w, n - k, v) /\ from[n - k][v] # NoObject}
<1>2. n \in T
  <2>1. \E p : IsPath(Edges, p, w, 0, 0)
    BY PathEmpty
  <2>2. n - n = 0 /\ n \in 0..n
    OBVIOUS
  <2> QED
    BY <1>1, <2>1, <2>2
<1>3. PICK k \in T : \A j \in T : k <= j
  <2>1. T \subseteq 0..n /\ 0..n \subseteq Nat
    OBVIOUS
  <2>2. T # {}
    BY <1>2
  <2> HIDE DEF T
  <2>3. T \in SUBSET Nat
    BY <2>1
  <2> QED
    BY <2>2, <2>3, LeastNatural
<1>4. k \in 0..n
  OBVIOUS
<1>5. PICK p, v : IsPath(Edges, p, w, n - k, v) /\ from[n - k][v] # NoObject
  OBVIOUS
<1>6. CASE k = 0
  <2>1. n - k = n
    BY <1>6
  <2> QED
    BY <1>5, <2>1
<1>7. CASE k # 0
  <2>1. PICK i : i = n - k
    OBVIOUS
  <2>2. /\ i \in 0..n /\ i # n /\ i + 1 \in 0..n /\ i + 1 \in 1..n /\ n - (k - 1) = i + 1
        /\ k - 1 \in 0..n /\ ~(k <= k - 1) /\ i \in 0..i
    BY <1>4, <1>7, <2>1
  <2>3. v \in DOMAIN vtxarray /\ p[i] = v
    <3>1. IsPath(Edges, p, w, i, v)
      BY <1>5, <2>1
    <3>2. p[i] = v
      BY <3>1 DEF IsPath
    <3>3. p[i] \in DOMAIN vtxarray
      BY <2>2, <3>1, PathInTree
    <3> QED
      BY <3>2, <3>3
  <2>4. v # NoVertex
    <3>1. DOMAIN vtxarray \subseteq Nat
      BY DEF CallInv, TypeOK
    <3> QED
      BY <2>3, <3>1 DEF NoVertex
  <2>5. PICK u : u = StepTo(v, w[i + 1], NoVertex)
    OBVIOUS
  <2>6. from[i][v] = from[i + 1][u]
    <3>1. from[i][v] = Onward(w, from, i, v)
      BY <1>1, <2>2, <2>3
    <3> QED
      BY <2>2, <2>4, <2>5, <3>1 DEF Onward
  <2>7. from[i + 1][u] # NoObject
    BY <1>5, <2>1, <2>6
  <2>8. u # NoVertex
    <3>1. from[i + 1][NoVertex] = Onward(w, from, i + 1, NoVertex)
      BY <1>1, <2>2
    <3>2. Onward(w, from, i + 1, NoVertex) = NoObject
      BY DEF Onward
    <3> QED
      BY <2>7, <3>1, <3>2
  <2>9. [from |-> v, label |-> w[i + 1], vtx |-> u] \in Edges
    <3>1. w[i + 1] \in Int
      BY <2>2
    <3> QED
      BY <2>3, <2>5, <2>8, <3>1, StepLost
  <2>10. u \in Nat
    <3>1. \A e \in Edges : e.vtx \in Nat
      BY EdgeEnds, TypeSplit
    <3> QED
      BY <2>9, <3>1
  <2>11. \E q : IsPath(Edges, q, w, i + 1, u)
    <3>1. IsPath(Edges, p, w, i, v)
      BY <1>5, <2>1
    <3> QED
      BY <2>9, <2>10, <3>1, PathLonger
  <2>12. k - 1 \in T
    BY <2>2, <2>7, <2>11
  <2> QED
    <3> HIDE DEF T
    <3> QED
      BY <1>3, <2>2, <2>12
<1> QED
  BY <1>6, <1>7

\* Everything that is known of Match, as a state predicate.
MatchKnown ==
  \A w \in Seq(Letters) :
    /\ \A p, v : IsPath(Edges, p, w, Len(w), v) => Match(w) = vtxarray[v].val
    /\ Match(w) # NoObject => \E p, v : IsPath(Edges, p, w, Len(w), v)
    /\ \A p, v : IsPath(Edges, p, w, Len(w), v) => v \in DOMAIN vtxarray

LEMMA MatchRight == TypeOK /\ CallInv /\ space = "live" => MatchKnown
<1> SUFFICES ASSUME TypeOK, CallInv, space = "live", NEW w \in Seq(Letters)
             PROVE  /\ \A p, v : IsPath(Edges, p, w, Len(w), v) => Match(w) = vtxarray[v].val
                    /\ Match(w) # NoObject => \E p, v : IsPath(Edges, p, w, Len(w), v)
                    /\ \A p, v : IsPath(Edges, p, w, Len(w), v) => v \in DOMAIN vtxarray
  BY DEF MatchKnown
<1>1. 0 \in DOMAIN vtxarray
  BY DEF CallInv
<1>2. Len(w) \in Nat /\ \A i \in 1..Len(w) : w[i] \in Int
  BY SeqFacts, TrieAssumption
<1>3. \A p, v : IsPath(Edges, p, w, Len(w), v) => Match(w) = vtxarray[v].val
  BY <1>1, <1>2, MatchAlong
<1>4. Match(w) # NoObject => \E p, v : IsPath(Edges, p, w, Len(w), v)
  BY <1>1, <1>2, MatchLeads
<1>5. ASSUME NEW p, NEW v, IsPath(Edges, p, w, Len(w), v) PROVE v \in DOMAIN vtxarray
  <2>1. Len(w) \in 0..Len(w)
    BY <1>2
  <2>2. p[Len(w)] \in DOMAIN vtxarray
    BY <1>1, <1>5, <2>1, PathInTree
  <2> QED
    BY <1>5, <2>2 DEF IsPath
<1> QED
  BY <1>3, <1>4, <1>5

LEMMA MatchRightNext == (TypeOK /\ CallInv /\ space = "live")' => MatchKnown'
  BY MatchRight, PTL

-----------------------------------------------------------------------------
(* Where the walk and the tables stand.                                     *)

\* An object hangs where a pattern leads.
ValuesInv ==
  \A v \in DOMAIN vtxarray : vtxarray[v].val # NoObject =>
    \E w \in Words : \E p : IsPath(Edges, p, w, Len(w), v)

\* No two edges end at one vertex; while augment_dfa() walks, the characters it has
\* read lead to cur; and the tables' pattern leads to the tables' object, and is the
\* only one.
PathInv ==
  /\ \A e, f \in Edges : e.vtx = f.vtx => e = f
  /\ pc = "walking" => \E p : IsPath(Edges, p, str, s, cur)
  /\ bmg.ptr = "set" =>
       /\ patcount = 1 /\ bmg.val # NoObject
       /\ \E p, v : IsPath(Edges, p, bmg.match, Len(bmg.match), v) /\ vtxarray[v].val = bmg.val

IInv == TypeOK /\ CallInv /\ PathInv /\ ValuesInv

LEMMA PathInvInit ==
  ASSUME Init PROVE PathInv
<1>1. vtxarray = <<>> /\ pc = "idle" /\ bmg.ptr = "null"
  BY DEF Init, NoTables
<1>2. Edges = {}
  BY <1>1 DEF Edges
<1> QED
  BY <1>1, <1>2 DEF PathInv

LEMMA EdgesStay ==
  ASSUME UNCHANGED vtxarray PROVE Edges' = Edges
  BY DEF Edges

\* Steps that leave the dfa alone and do not walk on.
LEMMA PathInvStays ==
  ASSUME IInv, UNCHANGED <<vtxarray, patcount, bmg>>,
         pc' = "idle" \/ UNCHANGED <<pc, str, s, cur>>
  PROVE  PathInv'
<1>1. Edges' = Edges
  BY EdgesStay
<1> QED
  BY <1>1 DEF IInv, PathInv

LEMMA PathInvCall ==
  ASSUME IInv, NEW w \in Words, NEW o \in Objects, Call(w, o) PROVE PathInv'
<1>1. pc' = "walking" /\ str' = w /\ s' = 0 /\ cur' = 0
  BY DEF Call
<1>2. \E p : IsPath(Edges', p, w, 0, 0)
  BY PathEmpty
<1>3. CASE space = "null"
  <2>1. Create
    BY <1>3 DEF Call
  <2>2. Edges' = {}
    BY <2>1, CreateOK DEF IInv
  <2>3. bmg'.ptr # "set"
    BY <2>1 DEF Create, NoTables
  <2> QED
    BY <1>1, <1>2, <2>2, <2>3 DEF PathInv
<1>4. CASE space # "null"
  <2>1. UNCHANGED <<vtxarray, patcount, bmg>>
    BY <1>4 DEF Call, dfavars
  <2>2. Edges' = Edges
    BY <2>1, EdgesStay
  <2> QED
    BY <1>1, <1>2, <2>1, <2>2 DEF IInv, PathInv
<1> QED
  BY <1>3, <1>4

LEMMA PathInvFollow ==
  ASSUME IInv, Follow PROVE PathInv'
<1>1. UNCHANGED <<vtxarray, patcount, bmg, str, pc>> /\ s' = s + 1
  BY DEF Follow, dfavars, argvars
<1>2. Edges' = Edges
  BY <1>1, EdgesStay
<1>3. /\ pc = "walking" /\ [from |-> cur, label |-> str[s + 1], vtx |-> cur'] \in Edges
      /\ cur' \in Nat
  <2>1. /\ pc = "walking" /\ [from |-> cur, label |-> str[s + 1], vtx |-> cur'] \in Edges
        /\ cur' \in DOMAIN vtxarray
    BY FollowFacts DEF IInv
  <2>2. DOMAIN vtxarray \subseteq Nat
    BY DEF IInv, TypeOK, CallInv
  <2> QED
    BY <2>1, <2>2
<1>4. PICK p : IsPath(Edges, p, str, s, cur)
  BY <1>3 DEF IInv, PathInv
<1>5. \E q : IsPath(Edges, q, str, s + 1, cur')
  BY <1>3, <1>4, PathLonger
<1> QED
  BY <1>1, <1>2, <1>5 DEF IInv, PathInv

LEMMA PathInvAddEdge ==
  ASSUME IInv, AddEdge PROVE PathInv'
<1>1. /\ Missing /\ vtxarray' = WithEdge /\ cur' = vtxcount
      /\ UNCHANGED <<patcount, bmg, str, pc>> /\ s' = s + 1
  BY DEF AddEdge, argvars
<1>2. /\ vtxcount \in Nat /\ vtxcount \notin DOMAIN vtxarray
      /\ \A v \in DOMAIN vtxarray : vtxarray'[v].val = vtxarray[v].val
      /\ Edges' = Edges \cup {[from |-> cur, label |-> str[s + 1], vtx |-> vtxcount]}
  BY <1>1, TreeGrows DEF IInv
<1>3. \A e \in Edges : e.vtx \in DOMAIN vtxarray
  BY EdgeEnds, TypeSplit DEF IInv
<1>4. \A e, f \in Edges' : e.vtx = f.vtx => e = f
  BY <1>2, <1>3 DEF IInv, PathInv
<1>5. PICK p : IsPath(Edges, p, str, s, cur)
  BY <1>1 DEF IInv, PathInv, Missing, Reading
<1>6. \E q : IsPath(Edges', q, str, s + 1, cur')
  <2>1. IsPath(Edges', p, str, s, cur)
    BY <1>2, <1>5, PathKept
  <2>2. [from |-> cur, label |-> str[s + 1], vtx |-> cur'] \in Edges'
    BY <1>1, <1>2
  <2> QED
    BY <1>1, <1>2, <2>1, <2>2, PathLonger
<1>7. ASSUME bmg.ptr = "set"
      PROVE  /\ patcount = 1 /\ bmg.val # NoObject
             /\ \E q, v : IsPath(Edges', q, bmg.match, Len(bmg.match), v) /\ vtxarray'[v].val = bmg.val
  <2>1. PICK q, v : IsPath(Edges, q, bmg.match, Len(bmg.match), v) /\ vtxarray[v].val = bmg.val
    BY <1>7 DEF IInv, PathInv
  <2>2. bmg.match \in Seq(Letters)
    BY DEF IInv, TypeOK
  <2>3. space = "live"
    BY <1>1 DEF IInv, CallInv, Missing, Reading
  <2>4. v \in DOMAIN vtxarray
    BY <2>1, <2>2, <2>3, MatchRight DEF IInv, MatchKnown
  <2>5. IsPath(Edges', q, bmg.match, Len(bmg.match), v)
    BY <1>2, <2>1, PathKept
  <2> QED
    BY <1>2, <1>7, <2>1, <2>4, <2>5 DEF IInv, PathInv
<1> QED
  BY <1>1, <1>4, <1>6, <1>7 DEF PathInv

LEMMA PathInvEnter ==
  ASSUME IInv, Enter PROVE PathInv'
<1>1. /\ pc = "walking" /\ s = Len(str) /\ pc' = "idle" /\ patcount' = patcount + 1
      /\ IF patcount = 0 THEN bmg' \in Prepared ELSE bmg' = NoTables
  BY DEF Enter, Arrived, Return
<1>2. /\ DOMAIN vtxarray' = DOMAIN vtxarray /\ cur \in DOMAIN vtxarray /\ val \in Objects
      /\ \A v \in DOMAIN vtxarray : /\ vtxarray'[v].set = vtxarray[v].set
                                    /\ vtxarray'[v].val = IF v = cur THEN val ELSE vtxarray[v].val
  BY EnterFacts DEF IInv
<1>3. Edges' = Edges
  BY <1>2 DEF Edges
<1>4. ASSUME bmg'.ptr = "set"
      PROVE  /\ patcount' = 1 /\ bmg'.val # NoObject
             /\ \E p, v : IsPath(Edges, p, bmg'.match, Len(bmg'.match), v) /\ vtxarray'[v].val = bmg'.val
  <2>1. NoTables.ptr # "set" /\ StaleTables.ptr # "set"
    BY DEF NoTables, StaleTables
  <2>2. patcount = 0 /\ bmg' = Tables(str, val)
    BY <1>1, <1>4, <2>1 DEF Prepared
  <2>3. bmg'.match = str /\ bmg'.val = val
    BY <2>2 DEF Tables
  <2>4. PICK p : IsPath(Edges, p, str, Len(str), cur)
    BY <1>1 DEF IInv, PathInv
  <2>5. vtxarray'[cur].val = val /\ val # NoObject
    BY <1>2, TrieAssumption
  <2> QED
    BY <1>1, <2>2, <2>3, <2>4, <2>5
<1> QED
  BY <1>1, <1>3, <1>4 DEF IInv, PathInv

LEMMA PathInvStep ==
  ASSUME IInv, [Next]_vars PROVE PathInv'
<1>1. ASSUME NEW w \in Words, CallNull(w) PROVE PathInv'
  BY <1>1, PathInvStays DEF CallNull, dfavars
<1>2. ASSUME NEW w \in Words, NEW o \in Objects, CallFails(w, o) PROVE PathInv'
  BY <1>2, PathInvStays DEF CallFails
<1>3. CASE AddEdgeFails
  BY <1>3, PathInvStays DEF AddEdgeFails, Return
<1>4. CASE Duplicate
  BY <1>4, PathInvStays DEF Duplicate, Return, dfavars
<1>5. CASE UNCHANGED vars
  BY <1>5, PathInvStays DEF vars, dfavars, argvars
<1> QED
  BY <1>1, <1>2, <1>3, <1>4, <1>5, PathInvCall, PathInvFollow, PathInvAddEdge, PathInvEnter DEF Next

LEMMA ValuesStay ==
  ASSUME IInv, UNCHANGED vtxarray PROVE ValuesInv'
<1>1. Edges' = Edges
  BY EdgesStay
<1> QED
  BY <1>1 DEF IInv, ValuesInv

LEMMA ValuesInvStep ==
  ASSUME IInv, [Next]_vars PROVE ValuesInv'
<1>1. ASSUME NEW w \in Words, CallNull(w) PROVE ValuesInv'
  BY <1>1, ValuesStay DEF CallNull, dfavars
<1>2. ASSUME NEW w \in Words, NEW o \in Objects, Call(w, o) PROVE ValuesInv'
  <2>1. CASE space = "null"
    <3>1. Create
      BY <1>2, <2>1 DEF Call
    <3>2. \A v \in DOMAIN vtxarray' : vtxarray'[v].val = NoObject
      BY <3>1, CreateOK DEF IInv
    <3> QED
      BY <3>2 DEF ValuesInv
  <2>2. CASE space # "null"
    BY <1>2, <2>2, ValuesStay DEF Call, dfavars
  <2> QED
    BY <2>1, <2>2
<1>3. ASSUME NEW w \in Words, NEW o \in Objects, CallFails(w, o) PROVE ValuesInv'
  BY <1>3, ValuesStay DEF CallFails
<1>4. CASE Follow
  BY <1>4, ValuesStay DEF Follow, dfavars
<1>5. CASE AddEdge
  <2>1. PICK c : c = vtxcount
    OBVIOUS
  <2>2. Missing /\ vtxarray' = WithEdge
    BY <1>5 DEF AddEdge
  <2>3. /\ DOMAIN vtxarray' = (DOMAIN vtxarray) \cup {c}
        /\ vtxarray'[c] = NewVertex
        /\ \A v \in DOMAIN vtxarray : vtxarray'[v].val = vtxarray[v].val
        /\ Edges \subseteq Edges'
    BY <2>1, <2>2, TreeGrows DEF IInv
  <2>4. NewVertex.val = NoObject
    BY DEF NewVertex
  <2>5. ASSUME NEW v \in DOMAIN vtxarray', vtxarray'[v].val # NoObject
        PROVE  \E w \in Words : \E p : IsPath(Edges', p, w, Len(w), v)
    <3>1. v \in DOMAIN vtxarray /\ vtxarray[v].val # NoObject
      BY <2>3, <2>4, <2>5
    <3>2. PICK w \in Words : \E p : IsPath(Edges, p, w, Len(w), v)
      BY <3>1 DEF IInv, ValuesInv
    <3>3. PICK p : IsPath(Edges, p, w, Len(w), v)
      BY <3>2
    <3>4. IsPath(Edges', p, w, Len(w), v)
      BY <2>3, <3>3, PathKept
    <3> QED
      BY <3>4
  <2> QED
    BY <2>5 DEF ValuesInv
<1>6. CASE AddEdgeFails
  BY <1>6, ValuesStay DEF AddEdgeFails
<1>7. CASE Duplicate
  BY <1>7, ValuesStay DEF Duplicate, dfavars
<1>8. CASE Enter
  <2>1. /\ DOMAIN vtxarray' = DOMAIN vtxarray
        /\ \A v \in DOMAIN vtxarray : /\ vtxarray'[v].set = vtxarray[v].set
                                      /\ vtxarray'[v].val = IF v = cur THEN val ELSE vtxarray[v].val
    BY <1>8, EnterFacts DEF IInv
  <2>2. Edges' = Edges
    BY <2>1 DEF Edges
  <2>3. PICK w : w = str
    OBVIOUS
  <2>4. w \in Words /\ \E p : IsPath(Edges, p, w, Len(w), cur)
    BY <1>8, <2>3 DEF Enter, Arrived, IInv, CallInv, PathInv
  <2> QED
    BY <2>1, <2>2, <2>4 DEF IInv, ValuesInv
<1>9. CASE UNCHANGED vars
  BY <1>9, ValuesStay DEF vars, dfavars
<1> QED
  BY <1>1, <1>2, <1>3, <1>4, <1>5, <1>6, <1>7, <1>8, <1>9 DEF Next

LEMMA IInvHolds == Spec => []IInv
<1>1. Init => IInv
  <2>1. Init => ValuesInv
    BY DEF Init, ValuesInv
  <2> QED
    BY <2>1, InitOK, PathInvInit DEF IInv
<1>2. IInv /\ [Next]_vars => IInv'
  BY StepOK, PathInvStep, ValuesInvStep DEF IInv
<1> QED
  BY <1>1, <1>2, PTL DEF Spec

\* The Boyer-Moore tables are used only while the dfa has one pattern, and it is theirs:
\* in no history of calls, failed ones and duplicates among them, does the search for
\* one pattern hide another.
THEOREM SolePatternCorrect == Spec => []SolePattern
<1>1. ASSUME IInv, bmg.ptr = "set"
      PROVE  patcount = 1 /\ Match(bmg.match) = bmg.val /\ bmg.val # NoObject
  <2>1. PICK p, v : IsPath(Edges, p, bmg.match, Len(bmg.match), v) /\ vtxarray[v].val = bmg.val
    BY <1>1 DEF IInv, PathInv
  <2>2. bmg.match \in Seq(Letters) /\ bmg # NoTables
    BY <1>1 DEF IInv, TypeOK, NoTables
  <2>3. space = "live"
    BY <1>1, <2>2 DEF IInv, CallInv
  <2>4. Match(bmg.match) = vtxarray[v].val
    BY <1>1, <2>1, <2>2, <2>3, MatchRight DEF IInv, MatchKnown
  <2> QED
    BY <1>1, <2>1, <2>4 DEF IInv, PathInv
<1>2. IInv => SolePattern
  BY <1>1 DEF SolePattern
<1> QED
  BY <1>2, IInvHolds, PTL

-----------------------------------------------------------------------------
(* The automaton implements the map.                                        *)

\* Strings that lead to one vertex are equal as far as the paths go, from the end.
LEMMA PathsMeet ==
  ASSUME IInv, NEW p, NEW w, NEW m, NEW q, NEW u, NEW n, NEW v,
         IsPath(Edges, p, w, m, v), IsPath(Edges, q, u, n, v), m <= n,
         NEW k \in 0..m
  PROVE  p[m - k] = q[n - k]
<1>1. /\ m \in Nat /\ p[m] = v
      /\ \A i \in 0..m - 1 : [from |-> p[i], label |-> w[i + 1], vtx |-> p[i + 1]] \in Edges
  BY DEF IsPath
<1>2. /\ n \in Nat /\ q[n] = v
      /\ \A i \in 0..n - 1 : [from |-> q[i], label |-> u[i + 1], vtx |-> q[i + 1]] \in Edges
  BY DEF IsPath
<1> DEFINE T == {j \in 0..m : p[m - j] # q[n - j]}
<1>3. SUFFICES ASSUME T # {} PROVE FALSE
  OBVIOUS
<1>4. PICK j \in T : \A i \in T : j <= i
  <2>1. T \subseteq 0..m /\ 0..m \subseteq Nat
    BY <1>1
  <2> HIDE DEF T
  <2>2. T \in SUBSET Nat
    BY <2>1
  <2> QED
    BY <1>3, <2>2, LeastNatural
<1>5. j \in 0..m /\ p[m - j] # q[n - j]
  OBVIOUS
<1>6. j # 0
  <2>1. m - 0 = m /\ n - 0 = n
    BY <1>1, <1>2
  <2> QED
    BY <1>1, <1>2, <1>5, <2>1
<1>7. /\ j - 1 \in 0..m /\ ~(j <= j - 1)
      /\ m - j \in 0..m - 1 /\ (m - j) + 1 = m - (j - 1)
      /\ n - j \in 0..n - 1 /\ (n - j) + 1 = n - (j - 1)
  BY <1>1, <1>2, <1>5, <1>6
<1>8. p[m - (j - 1)] = q[n - (j - 1)]
  <2>1. j - 1 \notin T
    <3> HIDE DEF T
    <3> QED
      BY <1>4, <1>7
  <2> QED
    BY <1>7, <2>1
<1> DEFINE e == [from |-> p[m - j], label |-> w[(m - j) + 1], vtx |-> p[(m - j) + 1]]
           f == [from |-> q[n - j], label |-> u[(n - j) + 1], vtx |-> q[(n - j) + 1]]
<1>9. e \in Edges /\ f \in Edges
  BY <1>1, <1>2, <1>7
<1>10. e.vtx = f.vtx /\ e.from = p[m - j] /\ f.from = q[n - j]
  BY <1>7, <1>8
<1> HIDE DEF e, f
<1>11. e = f
  BY <1>9, <1>10 DEF IInv, PathInv
<1> QED
  BY <1>5, <1>10, <1>11

LEMMA PathsAsLong ==
  ASSUME IInv, NEW p, NEW w, NEW m, NEW q, NEW u, NEW n, NEW v,
         IsPath(Edges, p, w, m, v), IsPath(Edges, q, u, n, v), m <= n
  PROVE  m = n
<1>1. m \in Nat /\ n \in Nat /\ p[0] = 0
  BY DEF IsPath
<1>2. SUFFICES ASSUME m # n PROVE FALSE
  OBVIOUS
<1>3. q[n - m] = 0
  <2>1. m \in 0..m /\ m - m = 0
    BY <1>1
  <2>2. p[m - m] = q[n - m]
    BY <2>1, PathsMeet
  <2> QED
    BY <1>1, <2>1, <2>2
<1>4. (n - m) - 1 \in 0..n - 1 /\ ((n - m) - 1) + 1 = n - m
  BY <1>1, <1>2
<1>5. PICK i \in 0..n - 1 : i + 1 = n - m
  BY <1>4
<1>6. [from |-> q[i], label |-> u[i + 1], vtx |-> q[i + 1]] \in Edges
  BY DEF IsPath
<1>7. \A e \in Edges : e.from \in Nat /\ e.vtx \in Nat /\ e.from < e.vtx
  BY EdgeEnds, TypeSplit DEF IInv
<1>8. q[i] \in Nat /\ q[i + 1] \in Nat /\ q[i] < q[i + 1]
  BY <1>6, <1>7
<1>9. q[i + 1] = 0
  BY <1>3, <1>5
<1> QED
  BY <1>8, <1>9

\* Different strings lead to different vertices.
LEMMA PathsDiffer ==
  ASSUME IInv, NEW w \in Seq(Letters), NEW u \in Seq(Letters), NEW p, NEW q, NEW v,
         IsPath(Edges, p, w, Len(w), v), IsPath(Edges, q, u, Len(u), v)
  PROVE  w = u
<1>1. Len(w) \in Nat /\ Len(u) \in Nat
  OBVIOUS
<1>2. Len(w) = Len(u)
  <2>1. CASE Len(w) <= Len(u)
    BY <2>1, PathsAsLong
  <2>2. CASE Len(u) <= Len(w)
    BY <2>2, PathsAsLong
  <2> QED
    BY <1>1, <2>1, <2>2
<1>3. PICK n : n = Len(w)
  OBVIOUS
<1>4. /\ n \in Nat /\ IsPath(Edges, p, w, n, v) /\ IsPath(Edges, q, u, n, v) /\ n <= n
  BY <1>1, <1>2, <1>3
<1>5. ASSUME NEW i \in 0..n PROVE p[i] = q[i]
  <2>1. n - i \in 0..n /\ n - (n - i) = i
    BY <1>4
  <2>2. p[n - (n - i)] = q[n - (n - i)]
    BY <1>4, <2>1, PathsMeet
  <2> QED
    BY <2>1, <2>2
<1>6. ASSUME NEW i \in 1..n PROVE w[i] = u[i]
  <2>1. i - 1 \in 0..n - 1 /\ (i - 1) + 1 = i /\ i \in 0..n /\ i - 1 \in 0..n
    BY <1>4
  <2>2. PICK j \in 0..n - 1 : j + 1 = i
    BY <2>1
  <2>3. /\ [from |-> p[j], label |-> w[j + 1], vtx |-> p[j + 1]] \in Edges
        /\ [from |-> q[j], label |-> u[j + 1], vtx |-> q[j + 1]] \in Edges
    BY <1>4 DEF IsPath
  <2>4. p[j + 1] = q[j + 1]
    BY <1>5, <2>1, <2>2
  <2>5. \A e, f \in Edges : e.vtx = f.vtx => e = f
    BY DEF IInv, PathInv
  <2>6. [from |-> p[j], label |-> w[j + 1], vtx |-> p[j + 1]] =
          [from |-> q[j], label |-> u[j + 1], vtx |-> q[j + 1]]
    BY <2>3, <2>4, <2>5
  <2>7. w[j + 1] = u[j + 1]
    BY <2>6
  <2> QED
    BY <2>2, <2>7
<1> QED
  BY <1>1, <1>2, <1>3, <1>6

\* A string yields the same as before when the paths there were are there with the
\* same objects at their ends, and new ones lead to no object.
LEMMA MatchSame ==
  ASSUME MatchKnown, MatchKnown', NEW w \in Seq(Letters),
         \A p, v : IsPath(Edges, p, w, Len(w), v) =>
           IsPath(Edges', p, w, Len(w), v) /\ vtxarray'[v].val = vtxarray[v].val,
         \A p, v : IsPath(Edges', p, w, Len(w), v) =>
           (\E q, u : IsPath(Edges, q, w, Len(w), u)) \/ vtxarray'[v].val = NoObject
  PROVE  Match(w)' = Match(w)
<1>1. /\ \A p, v : IsPath(Edges, p, w, Len(w), v) => Match(w) = vtxarray[v].val
      /\ Match(w) # NoObject => \E p, v : IsPath(Edges, p, w, Len(w), v)
  BY DEF MatchKnown
<1>2. /\ \A p, v : IsPath(Edges', p, w, Len(w), v) => Match(w)' = vtxarray'[v].val
      /\ Match(w)' # NoObject => \E p, v : IsPath(Edges', p, w, Len(w), v)
  BY DEF MatchKnown
<1>3. CASE \E q, u : IsPath(Edges, q, w, Len(w), u)
  BY <1>1, <1>2, <1>3
<1>4. CASE ~\E q, u : IsPath(Edges, q, w, Len(w), u)
  BY <1>1, <1>2, <1>4
<1> QED
  BY <1>3, <1>4

LEMMA MatchStays ==
  ASSUME MatchKnown, MatchKnown', UNCHANGED vtxarray, NEW w \in Seq(Letters)
  PROVE  Match(w)' = Match(w)
<1>1. Edges' = Edges
  BY EdgesStay
<1> QED
  BY <1>1, MatchSame

\* No string yields anything else for a new vertex without an object.
LEMMA MatchAddEdge ==
  ASSUME IInv, AddEdge, MatchKnown, MatchKnown', NEW w \in Seq(Letters)
  PROVE  Match(w)' = Match(w)
<1>1. PICK c : c = vtxcount
  OBVIOUS
<1> DEFINE new == [from |-> cur, label |-> str[s + 1], vtx |-> c]
<1>2. /\ cur \in DOMAIN vtxarray /\ c \notin DOMAIN vtxarray
      /\ vtxarray'[c] = NewVertex
      /\ \A v \in DOMAIN vtxarray : vtxarray'[v].val = vtxarray[v].val
      /\ Edges' = Edges \cup {new}
  BY <1>1, TreeGrows DEF IInv, AddEdge
<1>3. NewVertex.val = NoObject /\ new.from = cur /\ new.vtx = c
  BY DEF NewVertex
<1>4. \A e \in Edges : e.from \in DOMAIN vtxarray
  BY EdgeEnds, TypeSplit DEF IInv
<1> HIDE DEF new
<1>5. \A e \in Edges' : e.from # c
  BY <1>2, <1>3, <1>4
<1>6. ASSUME NEW p, NEW v, IsPath(Edges, p, w, Len(w), v)
      PROVE  IsPath(Edges', p, w, Len(w), v) /\ vtxarray'[v].val = vtxarray[v].val
  <2>1. v \in DOMAIN vtxarray
    BY <1>6 DEF MatchKnown
  <2> QED
    BY <1>2, <1>6, <2>1, PathKept
<1>7. ASSUME NEW p, NEW v, IsPath(Edges', p, w, Len(w), v), vtxarray'[v].val # NoObject
      PROVE  IsPath(Edges, p, w, Len(w), v)
  <2>1. v # c
    BY <1>2, <1>3, <1>7
  <2>2. PICK n : n = Len(w)
    OBVIOUS
  <2>3. /\ n \in Nat /\ p \in [0..n -> Nat] /\ p[0] = 0 /\ p[n] = v
        /\ \A i \in 0..n - 1 : [from |-> p[i], label |-> w[i + 1], vtx |-> p[i + 1]] \in Edges'
    BY <1>7, <2>2 DEF IsPath
  <2>4. ASSUME NEW i \in 0..n PROVE p[i] # c
    <3>1. CASE i = n
      BY <2>1, <2>3, <3>1
    <3>2. CASE i # n
      <4>1. i \in 0..n - 1
        BY <2>3, <3>2
      <4>2. [from |-> p[i], label |-> w[i + 1], vtx |-> p[i + 1]] \in Edges'
        BY <2>3, <4>1
      <4> QED
        BY <1>5, <4>2
    <3> QED
      BY <3>1, <3>2
  <2>5. ASSUME NEW i \in 0..n - 1
        PROVE  [from |-> p[i], label |-> w[i + 1], vtx |-> p[i + 1]] \in Edges
    <3>1. i + 1 \in 0..n
      BY <2>3
    <3>2. p[i + 1] # c
      BY <2>4, <3>1
    <3>3. [from |-> p[i], label |-> w[i + 1], vtx |-> p[i + 1]] # new
      BY <1>3, <3>2
    <3> QED
      BY <1>2, <2>3, <3>3
  <2> QED
    BY <2>2, <2>3, <2>5 DEF IsPath
<1> QED
  BY <1>6, <1>7, MatchSame

\* The entered string yields its object, every other what it did.
LEMMA MatchEnter ==
  ASSUME IInv, Enter, MatchKnown, MatchKnown'
  PROVE  /\ str \in Words /\ val \in Objects /\ val # NoObject
         /\ Match(str) = NoObject
         /\ \A w \in Seq(Letters) : Match(w)' = IF w = str THEN val ELSE Match(w)
<1>1. pc = "walking" /\ s = Len(str) /\ vtxarray[cur].val = NoObject
  BY DEF Enter, Arrived
<1>2. /\ DOMAIN vtxarray' = DOMAIN vtxarray /\ cur \in DOMAIN vtxarray /\ val \in Objects
      /\ \A v \in DOMAIN vtxarray : /\ vtxarray'[v].set = vtxarray[v].set
                                    /\ vtxarray'[v].val = IF v = cur THEN val ELSE vtxarray[v].val
  BY EnterFacts DEF IInv
<1>3. Edges' = Edges
  BY <1>2 DEF Edges
<1>4. PICK t : t = str
  OBVIOUS
<1>5. t \in Words /\ t \in Seq(Letters)
  BY <1>1, <1>4, TrieAssumption DEF IInv, CallInv
<1>6. PICK p : IsPath(Edges, p, t, Len(t), cur)
  BY <1>1, <1>4 DEF IInv, PathInv
<1>7. Match(t) = NoObject
  BY <1>1, <1>5, <1>6 DEF MatchKnown
<1>8. Match(t)' = val
  <2>1. IsPath(Edges', p, t, Len(t), cur)
    BY <1>3, <1>6
  <2>2. \A q, v : IsPath(Edges', q, t, Len(t), v) => Match(t)' = vtxarray'[v].val
    BY <1>5 DEF MatchKnown
  <2> QED
    BY <1>2, <2>1, <2>2
<1>9. ASSUME NEW w \in Seq(Letters), w # t PROVE Match(w)' = Match(w)
  <2>1. ASSUME NEW q, NEW v, IsPath(Edges, q, w, Len(w), v)
        PROVE  vtxarray'[v].val = vtxarray[v].val
    <3>1. v \in DOMAIN vtxarray
      BY <2>1 DEF MatchKnown
    <3>2. v # cur
      BY <1>5, <1>6, <1>9, <2>1, PathsDiffer
    <3> QED
      BY <1>2, <3>1, <3>2
  <2> QED
    BY <1>3, <2>1, MatchSame
<1>10. val # NoObject
  BY <1>2, TrieAssumption
<1> QED
  BY <1>2, <1>4, <1>5, <1>7, <1>8, <1>9, <1>10

LEMMA MatchCreate ==
  ASSUME IInv, Create, MatchKnown', NEW w \in Seq(Letters)
  PROVE  Match(w)' = NoObject
<1>1. DOMAIN vtxarray' = {0} /\ \A v \in DOMAIN vtxarray' : vtxarray'[v].val = NoObject
  BY CreateOK DEF IInv
<1>2. /\ \A p, v : IsPath(Edges', p, w, Len(w), v) => Match(w)' = vtxarray'[v].val
      /\ Match(w)' # NoObject => \E p, v : IsPath(Edges', p, w, Len(w), v)
      /\ \A p, v : IsPath(Edges', p, w, Len(w), v) => v \in DOMAIN vtxarray'
  BY DEF MatchKnown
<1> QED
  BY <1>1, <1>2

\* What is there after a step in which no string's match changes.
LEMMA ContentsStay ==
  ASSUME space = "live", space' = "live", \A w \in Probes : Match(w)' = Match(w)
  PROVE  Contents' = Contents
<1> DEFINE now == {p \in Probes : Match(p) # NoObject}
           next == {p \in Probes : Match(p)' # NoObject}
<1>1. now = next
  OBVIOUS
<1>2. Contents = [w \in now |-> Match(w)]
  BY DEF Contents
<1>3. Contents' = [w \in next |-> Match(w)']
  BY DEF Contents
<1>4. \A w \in now : Match(w)' = Match(w)
  OBVIOUS
<1> HIDE DEF now, next
<1> QED
  BY <1>1, <1>2, <1>3, <1>4

LEMMA ContentsUnchanged ==
  ASSUME IInv, IInv', UNCHANGED vtxarray, space' = space \/ (space = "null" /\ space' = "freed")
  PROVE  Contents' = Contents
<1>1. CASE space = "live"
  <2>1. space' = "live"
    BY <1>1
  <2>2. MatchKnown /\ MatchKnown'
    BY <1>1, <2>1, MatchRight, MatchRightNext DEF IInv
  <2>3. \A w \in Probes : Match(w)' = Match(w)
    BY <2>2, MatchStays, ProbesAssumption
  <2> QED
    BY <1>1, <2>1, <2>3, ContentsStay
<1>2. CASE space # "live"
  BY <1>2 DEF Contents
<1> QED
  BY <1>1, <1>2

LEMMA MapStutters ==
  ASSUME Contents' = Contents, answer' = answer PROVE UNCHANGED Map!vars
  BY DEF Map!vars

LEMMA MapRefuses ==
  ASSUME NEW w \in Words, NEW o \in Objects \cup {NoObject}, NEW starved \in BOOLEAN,
         answer' = Answer(w, o, starved, -1), Contents' = Contents,
         o = NoObject \/ starved \/ w \in DOMAIN Contents
  PROVE  Map!Next
<1>1. Map!Refuse(w, o, starved)
  BY DEF Map!Refuse, Map!Answer, Answer
<1> QED
  BY <1>1 DEF Map!Next

LEMMA MapCall ==
  ASSUME IInv, IInv', NEW w \in Words, NEW o \in Objects, Call(w, o)
  PROVE  Contents' = Contents /\ answer' = answer
<1>1. answer' = answer
  BY DEF Call
<1>2. CASE space = "null"
  <2>1. Create
    BY <1>2 DEF Call
  <2>2. space' = "live"
    BY <2>1 DEF Create
  <2>3. MatchKnown'
    BY <2>2, MatchRightNext DEF IInv
  <2>4. \A u \in Probes : Match(u)' = NoObject
    BY <2>1, <2>3, MatchCreate, ProbesAssumption
  <2> DEFINE D == {p \in Probes : Match(p)' # NoObject}
  <2>5. D = {}
    BY <2>4
  <2>6. Contents' = [u \in D |-> Match(u)']
    BY <2>2 DEF Contents
  <2> HIDE DEF D
  <2>7. Contents' = <<>>
    BY <2>5, <2>6
  <2>8. Contents = <<>>
    BY <1>2 DEF Contents
  <2> QED
    BY <1>1, <2>7, <2>8
<1>3. CASE space # "null"
  <2>1. UNCHANGED vtxarray /\ space' = space
    BY <1>3 DEF Call, dfavars
  <2> QED
    BY <1>1, <2>1, ContentsUnchanged
<1> QED
  BY <1>2, <1>3

LEMMA MapAddEdge ==
  ASSUME IInv, IInv', AddEdge PROVE Contents' = Contents /\ answer' = answer
<1>1. answer' = answer /\ space' = space /\ pc = "walking"
  BY DEF AddEdge, Missing, Reading
<1>2. space = "live" /\ space' = "live"
  BY <1>1 DEF IInv, CallInv
<1>3. MatchKnown /\ MatchKnown'
  BY <1>2, MatchRight, MatchRightNext DEF IInv
<1>4. \A w \in Probes : Match(w)' = Match(w)
  BY <1>3, MatchAddEdge, ProbesAssumption
<1> QED
  BY <1>1, <1>2, <1>4, ContentsStay

LEMMA MapEnter ==
  ASSUME IInv, IInv', Enter PROVE Map!Next
<1>1. answer' = Answer(str, val, FALSE, 0) /\ space' = space /\ pc = "walking"
  BY DEF Enter, Arrived, Return
<1>2. space = "live" /\ space' = "live"
  BY <1>1 DEF IInv, CallInv
<1>3. MatchKnown /\ MatchKnown'
  BY <1>2, MatchRight, MatchRightNext DEF IInv
<1>4. PICK t : t = str
  OBVIOUS
<1>5. /\ t \in Words /\ t \in Probes /\ val \in Objects /\ val # NoObject /\ Match(t) = NoObject
      /\ \A w \in Probes : Match(w)' = IF w = t THEN val ELSE Match(w)
  BY <1>3, <1>4, MatchEnter, ProbesAssumption
<1> DEFINE now == {p \in Probes : Match(p) # NoObject}
           next == {p \in Probes : Match(p)' # NoObject}
<1>6. Contents = [w \in now |-> Match(w)] /\ Contents' = [w \in next |-> Match(w)']
  BY <1>2 DEF Contents
<1>7. next = now \cup {t}
  BY <1>5
<1>8. t \notin now /\ now \subseteq Probes
  BY <1>5
<1> HIDE DEF now, next
<1>9. DOMAIN Contents = now /\ \A w \in now : Contents[w] = Match(w)
  BY <1>6
<1>10. \A w \in now \cup {t} : Match(w)' = IF w = t THEN val ELSE Contents[w]
  BY <1>5, <1>8, <1>9
<1>11. Contents' = [w \in now \cup {t} |-> IF w = t THEN val ELSE Contents[w]]
  BY <1>6, <1>7, <1>10
<1>12. Map!Enter(t, val)
  BY <1>1, <1>4, <1>5, <1>8, <1>9, <1>11 DEF Map!Enter, Map!Answer, Answer
<1> QED
  BY <1>5, <1>12 DEF Map!Next

LEMMA MapDuplicate ==
  ASSUME IInv, IInv', Duplicate PROVE Map!Next
<1>1. /\ pc = "walking" /\ s = Len(str) /\ vtxarray[cur].val # NoObject
      /\ answer' = Answer(str, val, FALSE, -1) /\ UNCHANGED vtxarray /\ space' = space
  BY DEF Duplicate, Arrived, Return, dfavars
<1>2. Contents' = Contents
  BY <1>1, ContentsUnchanged
<1>3. space = "live" /\ str \in Words /\ val \in Objects \cup {NoObject}
  BY <1>1 DEF IInv, CallInv
<1>4. str \in Probes /\ str \in Seq(Letters)
  BY <1>3, ProbesAssumption
<1>5. PICK p : IsPath(Edges, p, str, Len(str), cur)
  BY <1>1 DEF IInv, PathInv
<1>6. Match(str) # NoObject
  BY <1>1, <1>3, <1>4, <1>5, MatchRight DEF IInv, MatchKnown
<1>7. str \in DOMAIN Contents
  BY <1>3, <1>4, <1>6 DEF Contents
<1> QED
  BY <1>1, <1>2, <1>3, <1>7, MapRefuses

LEMMA MapStep ==
  ASSUME IInv, IInv', [Next]_vars PROVE [Map!Next]_(Map!vars)
<1>1. ASSUME NEW w \in Words, CallNull(w) PROVE Map!Next
  <2>1. UNCHANGED vtxarray /\ space' = space /\ answer' = Answer(w, NoObject, FALSE, -1)
    BY <1>1 DEF CallNull, dfavars
  <2> QED
    BY <2>1, ContentsUnchanged, MapRefuses
<1>2. ASSUME NEW w \in Words, NEW o \in Objects, Call(w, o) PROVE UNCHANGED Map!vars
  BY <1>2, MapCall, MapStutters
<1>3. ASSUME NEW w \in Words, NEW o \in Objects, CallFails(w, o) PROVE Map!Next
  <2>1. /\ UNCHANGED vtxarray /\ answer' = Answer(w, o, TRUE, -1)
        /\ space = "null" /\ (space' = space \/ space' = "freed")
    BY <1>3 DEF CallFails
  <2>2. Contents' = Contents
    BY <2>1, ContentsUnchanged
  <2> QED
    BY <2>1, <2>2, MapRefuses
<1>4. CASE Follow
  <2>1. UNCHANGED vtxarray /\ space' = space /\ answer' = answer
    BY <1>4 DEF Follow, dfavars
  <2> QED
    BY <2>1, ContentsUnchanged, MapStutters
<1>5. CASE AddEdge
  BY <1>5, MapAddEdge, MapStutters
<1>6. CASE AddEdgeFails
  <2>1. /\ UNCHANGED vtxarray /\ space' = space /\ pc = "walking"
        /\ answer' = Answer(str, val, TRUE, -1)
    BY <1>6 DEF AddEdgeFails, Missing, Reading, Return
  <2>2. Contents' = Contents
    BY <2>1, ContentsUnchanged
  <2>3. str \in Words /\ val \in Objects \cup {NoObject}
    BY <2>1 DEF IInv, CallInv
  <2> QED
    BY <2>1, <2>2, <2>3, MapRefuses
<1>7. CASE Duplicate
  BY <1>7, MapDuplicate
<1>8. CASE Enter
  BY <1>8, MapEnter
<1>9. CASE UNCHANGED vars
  <2>1. UNCHANGED vtxarray /\ space' = space /\ answer' = answer
    BY <1>9 DEF vars, dfavars
  <2> QED
    BY <2>1, ContentsUnchanged, MapStutters
<1> QED
  BY <1>1, <1>2, <1>3, <1>4, <1>5, <1>6, <1>7, <1>8, <1>9 DEF Next

\* augment_dfa() is the map it promises to be, as match_dfactx_string() reads it: a call
\* adds its pattern and changes what no other string yields, or returns -1 and changes
\* nothing, for all patterns and objects, wherever the array moves or an allocation fails.
THEOREM MapImplemented == Spec => ImplementsMap
<1>1. Init => Map!Init
  <2> SUFFICES ASSUME Init PROVE Map!Init
    OBVIOUS
  <2>1. space = "null" /\ answer = Answer(<<>>, NoObject, FALSE, 0)
    BY DEF Init
  <2>2. Contents = <<>>
    BY <2>1 DEF Contents
  <2> QED
    BY <2>1, <2>2 DEF Map!Init, Map!Answer, Answer
<1>2. IInv /\ IInv' /\ [Next]_vars => [Map!Next]_(Map!vars)
  BY MapStep
<1> QED
  BY <1>1, <1>2, IInvHolds, PTL DEF Spec, ImplementsMap, Map!Spec

-----------------------------------------------------------------------------
(* The search for several patterns.                                         *)

\* One step of match_dfactx_against_nstring() at the i-th character.
Searching(w, from, i, v) ==
  IF i = Len(w) THEN NoObject
  ELSE IF vtxarray[v].val # NoObject THEN vtxarray[v].val
  ELSE from[i + 1][StepTo(v, w[i + 1], 0)]

LEMMA SearchIs ==
  ASSUME NEW w, Len(w) \in Nat, 0 \in DOMAIN vtxarray
  PROVE  \E from : /\ MatchWalk(w) = from[0][0]
                   /\ \A i \in 0..Len(w) : \A v \in DOMAIN vtxarray :
                        from[i][v] = Searching(w, from, i, v)
<1>1. PICK n : n = Len(w)
  OBVIOUS
<1>2. PICK D : D = DOMAIN vtxarray
  OBVIOUS
<1>3. PICK stop : stop = [i \in 0..n |-> {v \in D : vtxarray[v].val # NoObject}]
  OBVIOUS
<1>4. PICK yield : yield = [i \in 0..n |-> [v \in D |-> IF i = n THEN NoObject ELSE vtxarray[v].val]]
  OBVIOUS
<1>5. PICK next : next = [i \in 0..n |-> [v \in D |-> StepTo(v, w[i + 1], 0)]]
  OBVIOUS
<1>6. n \in Nat
  BY <1>1
<1>7. PICK g : Descends(n, stop, yield, next, D, g)
  BY <1>6, DescentExists
<1>8. ASSUME NEW i \in 0..n, NEW v \in D
      PROVE  Descend(n, stop, yield, next, g, i, v) = Searching(w, g, i, v)
  <2>1. /\ v \in stop[i] <=> vtxarray[v].val # NoObject
        /\ next[i][v] = StepTo(v, w[i + 1], 0)
        /\ yield[i][v] = IF i = n THEN NoObject ELSE vtxarray[v].val
    BY <1>3, <1>4, <1>5
  <2> QED
    BY <1>1, <2>1 DEF Descend, Searching
<1>9. \E f : f = [i \in 0..Len(w) |-> [v \in D |-> Searching(w, f, i, v)]]
  <2>1. g = [i \in 0..n |-> [v \in D |-> Searching(w, g, i, v)]]
    BY <1>7, <1>8 DEF Descends
  <2> QED
    BY <1>1, <2>1
<1>10. PICK from : from = CHOOSE f : f = [i \in 0..Len(w) |-> [v \in D |-> Searching(w, f, i, v)]]
  OBVIOUS
<1>11. from = [i \in 0..Len(w) |-> [v \in D |-> Searching(w, from, i, v)]]
  BY <1>9, <1>10
<1>12. MatchWalk(w) = from[0][0]
  BY <1>2, <1>10 DEF MatchWalk, Searching
<1>13. \A i \in 0..Len(w) : \A v \in D : from[i][v] = Searching(w, from, i, v)
  <2>1. \A f : f = [i \in 0..Len(w) |-> [v \in D |-> Searching(w, from, i, v)]] =>
          \A i \in 0..Len(w) : \A v \in D : f[i][v] = Searching(w, from, i, v)
    OBVIOUS
  <2> QED
    BY <1>11, <2>1
<1> QED
  BY <1>2, <1>12, <1>13

\* The characters of text from offset o on.
From(text, o) == [j \in 1..Len(text) - o |-> text[o + j]]

\* The vertex v is where some of the characters before offset i lead, up to there.
Behind(text, i, v) == \E o \in 0..i : \E p : IsPath(Edges, p, From(text, o), i - o, v)

LEMMA BehindRoot ==
  ASSUME NEW text, NEW i \in Nat PROVE Behind(text, i, 0)
<1>1. i \in 0..i /\ i - i = 0
  OBVIOUS
<1>2. \E p : IsPath(Edges, p, From(text, i), 0, 0)
  BY PathEmpty
<1> QED
  BY <1>1, <1>2 DEF Behind

LEMMA BehindStep ==
  ASSUME IInv, NEW text \in Seq(Int), NEW i \in 0..Len(text) - 1, NEW v \in DOMAIN vtxarray,
         0 \in DOMAIN vtxarray, Behind(text, i, v), NEW u, u = StepTo(v, text[i + 1], 0)
  PROVE  Behind(text, i + 1, u) /\ u \in DOMAIN vtxarray
<1>1. Len(text) \in Nat /\ i \in Nat /\ i + 1 \in Nat /\ i + 1 \in 1..Len(text)
  OBVIOUS
<1>2. CASE u = 0
  BY <1>1, <1>2, BehindRoot
<1>3. CASE u # 0
  <2>1. text[i + 1] \in Int
    BY <1>1
  <2>2. [from |-> v, label |-> text[i + 1], vtx |-> u] \in Edges
    BY <1>3, <2>1, StepLost DEF IInv
  <2>3. u \in Nat /\ u \in DOMAIN vtxarray
    <3>1. \A e \in Edges : e.vtx \in Nat /\ e.vtx \in DOMAIN vtxarray
      BY EdgeEnds, TypeSplit DEF IInv
    <3> QED
      BY <2>2, <3>1
  <2>4. PICK o \in 0..i : \E p : IsPath(Edges, p, From(text, o), i - o, v)
    BY DEF Behind
  <2>5. PICK p : IsPath(Edges, p, From(text, o), i - o, v)
    BY <2>4
  <2>6. PICK w : w = From(text, o)
    OBVIOUS
  <2>7. (i - o) + 1 \in 1..Len(text) - o /\ o + ((i - o) + 1) = i + 1 /\ (i + 1) - o = (i - o) + 1
        /\ o \in 0..i + 1
    BY <1>1
  <2>8. w[(i - o) + 1] = text[i + 1]
    BY <2>6, <2>7 DEF From
  <2>9. \E q : IsPath(Edges, q, w, (i - o) + 1, u)
    BY <2>2, <2>3, <2>5, <2>6, <2>8, PathLonger
  <2>10. PICK m : m = (i - o) + 1
    OBVIOUS
  <2>11. \E q : IsPath(Edges, q, w, m, u)
    BY <2>9, <2>10
  <2>12. \E q : IsPath(Edges, q, From(text, o), (i + 1) - o, u)
    BY <2>6, <2>7, <2>10, <2>11
  <2> QED
    BY <2>3, <2>7, <2>12 DEF Behind
<1> QED
  BY <1>2, <1>3

LEMMA PartFacts ==
  ASSUME NEW E, NEW q \in Seq(E), NEW o \in Nat, NEW n \in Nat, o + n <= Len(q)
  PROVE  /\ SubSeq(q, o + 1, o + n) \in Seq(E) /\ Len(SubSeq(q, o + 1, o + n)) = n
         /\ \A j \in 1..n : SubSeq(q, o + 1, o + n)[j] = q[o + j]
<1>1. PICK first : first = o + 1
  OBVIOUS
<1>2. PICK last : last = o + n
  OBVIOUS
<1>3. first \in 1..Len(q) + 1 /\ last \in 0..Len(q) /\ last - first + 1 = n /\ Len(q) \in Nat
  BY <1>1, <1>2
<1>4. PICK r : r = SubSeq(q, first, last)
  OBVIOUS
<1>5. r \in Seq(E) /\ Len(r) = n /\ \A j \in 1..n : r[j] = q[first + j - 1]
  BY <1>3, <1>4
<1>6. \A j \in 1..n : first + j - 1 = o + j
  BY <1>1
<1> QED
  BY <1>1, <1>2, <1>4, <1>5, <1>6

\* A pattern that leads to where the search stands occurs in the text.
LEMMA BehindOccurs ==
  ASSUME IInv, NEW text \in Seq(Int), NEW i \in 0..Len(text), NEW v, Behind(text, i, v),
         NEW w \in Seq(Letters), NEW q, IsPath(Edges, q, w, Len(w), v)
  PROVE  Occurs(w, text)
<1>1. PICK o \in 0..i : \E p : IsPath(Edges, p, From(text, o), i - o, v)
  BY DEF Behind
<1>2. PICK p : IsPath(Edges, p, From(text, o), i - o, v)
  BY <1>1
<1>3. PICK n : n = i - o
  OBVIOUS
<1>4. /\ n \in Nat /\ p \in [0..n -> Nat] /\ p[0] = 0 /\ p[n] = v
      /\ \A j \in 0..n - 1 : [from |-> p[j], label |-> From(text, o)[j + 1], vtx |-> p[j + 1]] \in Edges
  BY <1>2, <1>3 DEF IsPath
<1>5. Len(text) \in Nat /\ o + n = i /\ n <= Len(text) - o /\ o \in Nat
  BY <1>3
<1>6. PICK u : u = SubSeq(text, o + 1, o + n)
  OBVIOUS
<1>7. u \in Seq(Int) /\ Len(u) = n /\ \A j \in 1..n : u[j] = text[o + j]
  <2>1. o + n <= Len(text) /\ o \in Nat /\ n \in Nat
    BY <1>4, <1>5
  <2>2. /\ SubSeq(text, o + 1, o + n) \in Seq(Int) /\ Len(SubSeq(text, o + 1, o + n)) = n
        /\ \A j \in 1..n : SubSeq(text, o + 1, o + n)[j] = text[o + j]
    BY ONLY text \in Seq(Int), <2>1, PartFacts, Zenon
  <2> QED
    BY ONLY <1>6, <2>2, Zenon
<1>8. \A j \in 0..n - 1 : From(text, o)[j + 1] = u[j + 1]
  <2>1. \A j \in 0..n - 1 : j + 1 \in 1..n /\ j + 1 \in 1..Len(text) - o
    BY <1>4, <1>5
  <2> QED
    BY <1>7, <2>1 DEF From
<1>9. \A j \in 0..n - 1 : [from |-> p[j], label |-> u[j + 1], vtx |-> p[j + 1]] \in Edges
  BY <1>4, <1>8
<1>10. IsPath(Edges, p, u, Len(u), v)
  BY <1>4, <1>7, <1>9 DEF IsPath
<1>11. u \in Seq(Letters)
  <2>1. \A e \in Edges : e.label \in Letters
    BY EdgeEnds, TypeSplit DEF IInv
  <2>2. \A j \in 0..n - 1 : u[j + 1] \in Letters
    BY <1>9, <2>1
  <2>3. ASSUME NEW j \in 1..n PROVE u[j] \in Letters
    <3>1. j - 1 \in 0..n - 1 /\ (j - 1) + 1 = j
      BY <1>4
    <3> QED
      BY <2>2, <3>1
  <2>4. u \in [1..n -> Letters]
    BY <1>7, <2>3
  <2> QED
    BY <1>4, <2>4
<1>12. u = w
  BY <1>10, <1>11, PathsDiffer
<1>13. o \in 0..Len(text) - Len(w) /\ SubSeq(text, o + 1, o + Len(w)) = w
  <2>1. Len(w) = n
    BY <1>7, <1>12
  <2>2. o \in 0..Len(text) - n
    BY <1>4, <1>5
  <2> QED
    BY <1>6, <1>12, <2>1, <2>2
<1> QED
  BY <1>13 DEF Occurs

LEMMA SearchFinds ==
  ASSUME IInv, space = "live", NEW text \in Seq(Int), MatchWalk(text) # NoObject
  PROVE  \E w \in Words : Match(w) = MatchWalk(text) /\ Occurs(w, text)
<1>1. 0 \in DOMAIN vtxarray /\ MatchKnown
  BY MatchRight DEF IInv, CallInv
<1>2. PICK n : n = Len(text)
  OBVIOUS
<1>3. n \in Nat
  BY <1>2
<1>4. PICK found : found = MatchWalk(text)
  OBVIOUS
<1>5. PICK from : /\ MatchWalk(text) = from[0][0]
                  /\ \A i \in 0..n : \A v \in DOMAIN vtxarray :
                       from[i][v] = Searching(text, from, i, v)
  BY <1>1, <1>2, <1>3, SearchIs
<1> DEFINE T == {k \in 0..n : \E v \in DOMAIN vtxarray :
                   Behind(text, n - k, v) /\ from[n - k][v] = found}
<1>6. n \in T
  <2>1. n \in 0..n /\ n - n = 0
    BY <1>3
  <2>2. Behind(text, 0, 0)
    BY BehindRoot
  <2> QED
    BY <1>1, <1>4, <1>5, <2>1, <2>2
<1>7. PICK k \in T : \A j \in T : k <= j
  <2>1. T \subseteq 0..n /\ 0..n \subseteq Nat
    BY <1>3
  <2> HIDE DEF T
  <2>2. T \in SUBSET Nat /\ T # {}
    BY <1>6, <2>1
  <2> QED
    BY <2>2, LeastNatural
<1>8. k \in 0..n
  OBVIOUS
<1>9. PICK v \in DOMAIN vtxarray : Behind(text, n - k, v) /\ from[n - k][v] = found
  OBVIOUS
<1>10. PICK i : i = n - k
  OBVIOUS
<1>11. i \in 0..n /\ from[i][v] = Searching(text, from, i, v) /\ from[i][v] = found /\ found # NoObject
  <2>1. i \in 0..n
    BY <1>3, <1>8, <1>10
  <2> QED
    BY <1>4, <1>5, <1>9, <1>10, <2>1
<1>12. i # n
  BY <1>2, <1>11 DEF Searching
<1>13. CASE vtxarray[v].val # NoObject
  <2>1. found = vtxarray[v].val
    BY <1>2, <1>11, <1>12, <1>13 DEF Searching
  <2>2. PICK w \in Words : \E q : IsPath(Edges, q, w, Len(w), v)
    BY <1>13 DEF IInv, ValuesInv
  <2>3. PICK q : IsPath(Edges, q, w, Len(w), v)
    BY <2>2
  <2>4. w \in Seq(Letters)
    BY TrieAssumption
  <2>5. Match(w) = found
    BY <1>1, <2>1, <2>3, <2>4 DEF MatchKnown
  <2>6. Occurs(w, text)
    BY <1>2, <1>9, <1>10, <1>11, <2>3, <2>4, BehindOccurs
  <2> QED
    BY <1>4, <2>5, <2>6
<1>14. CASE vtxarray[v].val = NoObject
  <2>1. PICK u : u = StepTo(v, text[i + 1], 0)
    OBVIOUS
  <2>2. from[i][v] = from[i + 1][u]
    BY <1>2, <1>11, <1>12, <1>14, <2>1 DEF Searching
  <2>3. /\ i \in 0..n - 1 /\ k - 1 \in 0..n /\ n - (k - 1) = i + 1 /\ ~(k <= k - 1)
    BY <1>3, <1>8, <1>10, <1>11, <1>12
  <2>4. Behind(text, i + 1, u) /\ u \in DOMAIN vtxarray
    BY <1>1, <1>2, <1>9, <1>10, <2>1, <2>3, BehindStep
  <2>5. k - 1 \in T
    BY <1>11, <2>2, <2>3, <2>4
  <2> QED
    <3> HIDE DEF T
    <3> QED
      BY <1>7, <2>3, <2>5
<1> QED
  BY <1>13, <1>14

\* The search for several patterns, which starts afresh at the root when a character leads
\* nowhere, never reports an object whose pattern is not in the text.  (That it misses some
\* that are is another matter.)
THEOREM ReportsCorrect == Spec => []ReportsOccur
<1>1. ASSUME IInv, Settled, bmg.ptr = "null", NEW text \in Texts, MatchAgainst(text) # NoObject
      PROVE  \E w \in DOMAIN Contents : Contents[w] = MatchAgainst(text) /\ Occurs(w, text)
  <2>1. space = "live"
    BY <1>1 DEF Settled
  <2>2. MatchAgainst(text) = MatchWalk(text)
    BY <1>1 DEF MatchAgainst
  <2>3. text \in Seq(Int)
    BY ProbesAssumption
  <2>4. PICK w \in Words : Match(w) = MatchWalk(text) /\ Occurs(w, text)
    BY <1>1, <2>1, <2>2, <2>3, SearchFinds
  <2>5. w \in DOMAIN Contents /\ Contents[w] = Match(w)
    BY <1>1, <2>1, <2>2, <2>4, ProbesAssumption DEF Contents
  <2> QED
    BY <2>2, <2>4, <2>5
<1>2. IInv => ReportsOccur
  BY <1>1 DEF ReportsOccur
<1> QED
  BY <1>2, IInvHolds, PTL

-----------------------------------------------------------------------------
(* The search for one pattern.                                              *)

\* The greatest and the least of a set of integers within bounds.
LEMMA MaxRight ==
  ASSUME NEW a \in Int, NEW b \in Int, NEW S, S \subseteq a..b, S # {}
  PROVE  Max(S) \in S /\ \A y \in S : y <= Max(S)
<1>1. \A y \in S : y \in Int /\ b - y \in Nat
  OBVIOUS
<1> DEFINE T == {b - x : x \in S}
<1>2. T \subseteq Nat /\ T # {}
  BY <1>1
<1>3. PICK n \in T : \A k \in T : n <= k
  <2> HIDE DEF T
  <2> QED
    BY <1>2, LeastNatural
<1>4. PICK x \in S : n = b - x
  BY <1>3
<1>5. ASSUME NEW y \in S PROVE x >= y /\ y <= x
  <2>1. b - y \in T
    OBVIOUS
  <2>2. n <= b - y
    BY <1>3, <2>1
  <2> QED
    BY <1>1, <1>4, <2>2
<1>6. Max(S) \in S /\ \A y \in S : Max(S) >= y
  BY <1>5 DEF Max
<1> QED
  BY <1>1, <1>6

LEMMA MinRight ==
  ASSUME NEW a \in Int, NEW b \in Int, NEW S, S \subseteq a..b, S # {}
  PROVE  Min(S) \in S /\ \A y \in S : Min(S) <= y
<1>1. \A y \in S : y \in Int /\ y - a \in Nat
  OBVIOUS
<1> DEFINE T == {x - a : x \in S}
<1>2. T \subseteq Nat /\ T # {}
  BY <1>1
<1>3. PICK n \in T : \A k \in T : n <= k
  <2> HIDE DEF T
  <2> QED
    BY <1>2, LeastNatural
<1>4. PICK x \in S : n = x - a
  BY <1>3
<1>5. ASSUME NEW y \in S PROVE x <= y
  <2>1. y - a \in T
    OBVIOUS
  <2>2. n <= y - a
    BY <1>3, <2>1
  <2> QED
    BY <1>1, <1>4, <2>2
<1> QED
  BY <1>5 DEF Min

\* The pattern's last k characters are what the text has up to offset i.
Ends(pat, text, i, k) == \A d \in 0..k - 1 : text[i - d + 1] = pat[Len(pat) - d]

\* How many characters agree before the first that does not.
LEMMA AgreedRight ==
  ASSUME NEW pat \in Seq(Int), NEW text, NEW i
  PROVE  LET k == Agreed(pat, text, i)
         IN k \in 0..Len(pat) /\ Ends(pat, text, i, k) /\ (k < Len(pat) => ~Ends(pat, text, i, k + 1))
<1> DEFINE S == {k \in 0..Len(pat) : Ends(pat, text, i, k)}
<1>1. Len(pat) \in Nat /\ Len(pat) \in Int /\ 0 \in Int
  OBVIOUS
<1>2. 0 \in S
  BY <1>1 DEF Ends
<1>3. Agreed(pat, text, i) = Max(S)
  BY DEF Agreed, Ends
<1>4. Max(S) \in S /\ \A y \in S : y <= Max(S)
  <2>1. S \subseteq 0..Len(pat)
    OBVIOUS
  <2> HIDE DEF S
  <2> QED
    BY <1>1, <1>2, <2>1, MaxRight
<1>5. PICK k : k = Max(S)
  OBVIOUS
<1>6. k < Len(pat) => ~Ends(pat, text, i, k + 1)
  <2>1. k \in 0..Len(pat) /\ Ends(pat, text, i, k)
    BY <1>4, <1>5
  <2>2. ASSUME k < Len(pat), Ends(pat, text, i, k + 1) PROVE FALSE
    <3>1. k + 1 \in S
      BY <1>1, <2>1, <2>2
    <3>2. k + 1 <= k
      BY <1>4, <1>5, <3>1
    <3> QED
      BY <2>1, <3>2
  <2> QED
    BY <2>2
<1> QED
  BY <1>3, <1>4, <1>5, <1>6

\* The characters at the next place of the pattern's end to try, if its last k are found here.
LEMMA Delta1Right ==
  ASSUME NEW pat \in Seq(Int), Len(pat) > 0, NEW c
  PROVE  /\ Delta1(pat, c) \in 1..Len(pat)
         /\ \A z \in 0..Len(pat) - 2 : pat[z + 1] = c => Delta1(pat, c) <= Len(pat) - 1 - z
<1> DEFINE at == {z \in 0..Len(pat) - 2 : pat[z + 1] = c}
<1>1. Len(pat) \in Nat /\ Len(pat) - 2 \in Int /\ 0 \in Int
  OBVIOUS
<1>2. CASE at = {}
  <2>1. Delta1(pat, c) = Len(pat)
    BY <1>2 DEF Delta1
  <2>2. \A z \in 0..Len(pat) - 2 : pat[z + 1] # c
    BY <1>2
  <2> QED
    BY <1>1, <2>1, <2>2
<1>3. CASE at # {}
  <2>1. at \subseteq 0..Len(pat) - 2
    OBVIOUS
  <2>2. Max(at) \in at /\ \A y \in at : y <= Max(at)
    <3> HIDE DEF at
    <3> QED
      BY <1>1, <1>3, <2>1, MaxRight
  <2>3. Delta1(pat, c) = Len(pat) - 1 - Max(at)
    BY <1>3 DEF Delta1
  <2>4. PICK m : m = Max(at)
    OBVIOUS
  <2>5. m \in 0..Len(pat) - 2 /\ \A z \in 0..Len(pat) - 2 : pat[z + 1] = c => z <= m
    BY <2>2, <2>4
  <2>6. PICK n : n = Len(pat)
    OBVIOUS
  <2>7. Delta1(pat, c) = n - 1 - m /\ n \in Nat /\ m \in 0..n - 2
    BY <1>1, <2>3, <2>4, <2>5, <2>6
  <2>8. \A z \in 0..n - 2 : pat[z + 1] = c => n - 1 - m <= n - 1 - z
    <3>1. ASSUME NEW z \in 0..n - 2, pat[z + 1] = c PROVE n - 1 - m <= n - 1 - z
      <4>1. z <= m
        BY <2>5, <2>6, <3>1
      <4> QED
        BY <2>7, <4>1
    <3> QED
      BY <3>1
  <2>9. n - 1 - m \in 1..n
    BY <2>7
  <2> QED
    BY <2>6, <2>7, <2>8, <2>9
<1> QED
  BY <1>2, <1>3

\* Where a suffix stands again in the pattern behind another character, the table of
\* suffix lengths has it, and what it has lies within the pattern.
LEMMA SuffixRight ==
  ASSUME NEW pat \in Seq(Int), Len(pat) > 0, NEW p \in 0..Len(pat) - 2, NEW k \in 0..p,
         \A d \in 0..k - 1 : pat[p - d + 1] = pat[Len(pat) - d],
         pat[p - k + 1] # pat[Len(pat) - k]
  PROVE  p \in Recurs(pat, k)
<1> DEFINE S == {z \in 0..p : z = p \/ pat[p - z + 1] # pat[Len(pat) - z]}
<1>1. k \in S /\ S \subseteq 0..p /\ p \in Int /\ 0 \in Int
  OBVIOUS
<1>2. \A z \in S : k <= z
  <2>1. ASSUME NEW z \in 0..p, z < k PROVE z \notin S
    <3>1. z \in 0..k - 1 /\ z # p
      BY <2>1
    <3> QED
      BY <3>1
  <2> QED
    BY <2>1
<1>3. Min(S) \in S /\ \A y \in S : Min(S) <= y
  <2> HIDE DEF S
  <2> QED
    BY <1>1, MinRight
<1>4. Min(S) = k
  <2>1. PICK x : x = Min(S)
    OBVIOUS
  <2>2. x \in 0..p /\ x <= k /\ k <= x
    BY <1>1, <1>2, <1>3, <2>1
  <2> QED
    BY <1>1, <2>1, <2>2
<1>5. SuffixLength(pat, p) = k
  BY <1>4 DEF SuffixLength
<1> QED
  BY <1>5 DEF Recurs

LEMMA SuffixWithin ==
  ASSUME NEW pat \in Seq(Int), NEW k \in Nat, NEW p \in Recurs(pat, k)
  PROVE  p \in 0..Len(pat) - 2 /\ k <= p
<1> DEFINE S == {z \in 0..p : z = p \/ pat[p - z + 1] # pat[Len(pat) - z]}
<1>1. p \in 0..Len(pat) - 2 /\ SuffixLength(pat, p) = k /\ Len(pat) \in Nat
  BY DEF Recurs
<1>2. p \in S /\ S \subseteq 0..p /\ p \in Int /\ 0 \in Int
  BY <1>1
<1>3. Min(S) \in S
  <2> HIDE DEF S
  <2> QED
    BY <1>1, <1>2, MinRight
<1>4. Min(S) = k
  BY <1>1 DEF SuffixLength
<1> QED
  BY <1>1, <1>2, <1>3, <1>4

\* delta2 shifts by one character at least, and not past the suffix's other places nor past
\* a start of the pattern that is its end.
LEMMA Delta2Right ==
  ASSUME NEW pat \in Seq(Int), NEW k \in 0..Len(pat) - 1
  PROVE  LET shift == Delta2(pat, Len(pat) - 1 - k) - k IN
         /\ shift \in 1..Len(pat) /\ Delta2(pat, Len(pat) - 1 - k) \in Int
         /\ \A p \in Recurs(pat, k) : shift <= Len(pat) - 1 - p
         /\ \A q \in Len(pat) - k..Len(pat) : PrefixAt(pat, q) => shift <= q
<1>1. Len(pat) \in Nat /\ k \in Nat
  OBVIOUS
<1>2. PICK m : m = Len(pat)
  OBVIOUS
<1>3. m \in Nat /\ m \in Int /\ m - 2 \in Int /\ 0 \in Int /\ (m - 1) - (m - 1 - k) = k /\ (m - 1 - k) + 1 = m - k
  BY <1>1, <1>2
<1>4. PICK again : again = Recurs(pat, k)
  OBVIOUS
<1>5. again \subseteq 0..m - 2 /\ \A p \in again : k <= p
  BY <1>1, <1>2, <1>4, SuffixWithin
<1> DEFINE heads == {q \in m - k..m : PrefixAt(pat, q)}
<1>6. Delta2(pat, m - 1 - k) = IF again # {} THEN m - 1 - Max(again) + k ELSE Min(heads) + k
  BY <1>2, <1>3, <1>4 DEF Delta2
<1>7. CASE again # {}
  <2>1. Max(again) \in again /\ \A y \in again : y <= Max(again)
    BY <1>3, <1>5, <1>7, MaxRight
  <2>2. PICK last : last = Max(again)
    OBVIOUS
  <2>3. last \in 0..m - 2 /\ k <= last /\ \A p \in again : p <= last
    BY <1>5, <2>1, <2>2
  <2>4. Delta2(pat, m - 1 - k) - k = m - 1 - last /\ Delta2(pat, m - 1 - k) \in Int
    BY <1>1, <1>3, <1>6, <1>7, <2>2, <2>3
  <2>5. m - 1 - last \in 1..m
    BY <1>3, <2>3
  <2>6. ASSUME NEW p \in again PROVE m - 1 - last <= m - 1 - p
    <3>1. p \in 0..m - 2 /\ p <= last
      BY <1>5, <2>3
    <3> QED
      BY <1>3, <2>3, <3>1
  <2>7. \A q \in m - k..m : m - 1 - last <= q
    BY <1>1, <1>3, <2>3
  <2> QED
    BY <1>2, <1>4, <2>4, <2>5, <2>6, <2>7
<1>8. CASE again = {}
  <2>1. m \in heads
    <3>1. SubSeq(pat, m + 1, m) = <<>> /\ SubSeq(pat, 1, 0) = <<>> /\ m - m = 0
      BY <1>2, <1>3
    <3>2. PrefixAt(pat, m)
      BY <1>2, <3>1 DEF PrefixAt
    <3>3. m \in m - k..m
      BY <1>1, <1>3
    <3> QED
      BY <3>2, <3>3
  <2>2. heads \subseteq m - k..m /\ m - k \in Int
    BY <1>1, <1>3
  <2>3. Min(heads) \in heads /\ \A y \in heads : Min(heads) <= y
    <3> HIDE DEF heads
    <3> QED
      BY <1>3, <2>1, <2>2, MinRight
  <2>4. PICK first : first = Min(heads)
    OBVIOUS
  <2>5. first \in m - k..m /\ \A q \in m - k..m : PrefixAt(pat, q) => first <= q
    BY <2>3, <2>4
  <2>6. Delta2(pat, m - 1 - k) - k = first /\ Delta2(pat, m - 1 - k) \in Int
    BY <1>1, <1>3, <1>6, <1>8, <2>4, <2>5
  <2> QED
    BY <1>1, <1>2, <1>4, <1>8, <2>5, <2>6
<1> QED
  BY <1>7, <1>8

\* Sequences are equal when their elements are.
LEMMA SameSeq ==
  ASSUME NEW E, NEW u \in Seq(E), NEW v \in Seq(E), Len(u) = Len(v), \A j \in 1..Len(u) : u[j] = v[j]
  PROVE  u = v
  OBVIOUS

\* The pattern stands in the text with its end at offset i.
Hit(pat, text, i) == i < Len(text) /\ Ends(pat, text, i, Len(pat))

\* Where the search puts the pattern's end when its last k characters are found at i.
Further(pat, text, i, k) ==
  i - k + Max({Delta1(pat, text[i - k + 1]), Delta2(pat, Len(pat) - 1 - k)})

\* The search goes on, and passes no place at which the pattern stands.
LEMMA NoneSkipped ==
  ASSUME NEW pat \in Seq(Int), Len(pat) > 0, NEW text \in Seq(Int),
         NEW i \in Len(pat) - 1..Len(text) - 1, NEW k \in 0..Len(pat) - 1,
         Ends(pat, text, i, k), ~Ends(pat, text, i, k + 1)
  PROVE  /\ Further(pat, text, i, k) \in i + 1..i + Len(pat)
         /\ \A e \in i..Len(text) - 1 : Hit(pat, text, e) => Further(pat, text, i, k) <= e
<1>1. PICK m : m = Len(pat)
  OBVIOUS
<1>2. PICK n : n = Len(text)
  OBVIOUS
<1>3. m \in Nat /\ m > 0 /\ n \in Nat /\ i \in m - 1..n - 1 /\ k \in 0..m - 1 /\ i \in Nat /\ k \in Nat
  BY <1>1, <1>2
<1>4. PICK c : c = text[i - k + 1]
  OBVIOUS
<1>5. PICK x : x = Delta1(pat, c)
  OBVIOUS
<1>6. PICK y : y = Delta2(pat, m - 1 - k) - k
  OBVIOUS
<1>7. x \in 1..m /\ \A z \in 0..m - 2 : pat[z + 1] = c => x <= m - 1 - z
  BY <1>1, <1>5, Delta1Right
<1>8. /\ y \in 1..m /\ Delta2(pat, m - 1 - k) \in Int
      /\ \A p \in Recurs(pat, k) : y <= m - 1 - p
      /\ \A q \in m - k..m : PrefixAt(pat, q) => y <= q
  BY <1>1, <1>6, Delta2Right
<1>9. PICK w : w = Max({x, y + k})
  OBVIOUS
<1>10. w \in Int /\ w >= x /\ w >= y + k /\ (w = x \/ w = y + k)
  <2>1. {x, y + k} \subseteq 1..m + k /\ {x, y + k} # {} /\ 1 \in Int /\ m + k \in Int
    BY <1>3, <1>7, <1>8
  <2>2. w \in {x, y + k} /\ \A z \in {x, y + k} : z <= w
    BY <1>9, <2>1, MaxRight
  <2> QED
    BY <1>3, <1>7, <1>8, <2>2
<1>11. Further(pat, text, i, k) = i - k + w
  <2>1. Delta2(pat, m - 1 - k) = y + k
    BY <1>1, <1>3, <1>6, <1>8
  <2> QED
    BY <1>1, <1>4, <1>5, <1>9, <2>1 DEF Further
<1>12. \A d \in 0..k - 1 : text[i - d + 1] = pat[m - d]
  BY <1>1 DEF Ends
<1>13. c # pat[m - k]
  <2>1. PICK d \in 0..(k + 1) - 1 : text[i - d + 1] # pat[m - d]
    <3>1. ~(\A d \in 0..(k + 1) - 1 : text[i - d + 1] = pat[Len(pat) - d])
      BY DEF Ends
    <3> QED
      BY ONLY <1>1, <3>1
  <2>2. d = k
    <3>1. d \in Int /\ 0 <= d /\ d <= k
      BY <1>3
    <3>2. d \in 0..k - 1 => FALSE
      BY ONLY <1>12, <2>1
    <3> QED
      BY ONLY <1>3, <3>1, <3>2
  <2> QED
    BY <1>4, <2>1, <2>2
<1>14. ASSUME NEW e \in i..n - 1, Hit(pat, text, e) PROVE i - k + x <= e /\ i + y <= e
  <2>1. \A d \in 0..m - 1 : text[e - d + 1] = pat[m - d]
    BY <1>1, <1>14 DEF Hit, Ends
  <2>2. e # i
    <3>1. ASSUME e = i PROVE FALSE
      <4>1. text[i - k + 1] = pat[m - k]
        BY <1>3, <2>1, <3>1
      <4> QED
        BY <1>4, <1>13, <4>1
    <3> QED
      BY <3>1
  <2>3. PICK far : far = e - i
    OBVIOUS
  <2>4. far \in Nat /\ far > 0 /\ e = i + far /\ e \in Nat
    BY <1>3, <2>2, <2>3
  <2>5. x <= far + k
    <3>1. CASE far + k >= m
      BY <1>3, <1>7, <2>4, <3>1
    <3>2. CASE far + k < m
      <4>1. PICK z : z = m - 1 - (far + k)
        OBVIOUS
      <4>2. z \in 0..m - 2 /\ far + k \in 0..m - 1 /\ e - (far + k) + 1 = i - k + 1 /\ m - (far + k) = z + 1
        BY <1>3, <2>4, <3>2, <4>1
      <4>3. pat[z + 1] = c
        <5>1. text[e - (far + k) + 1] = pat[m - (far + k)]
          BY <2>1, <4>2
        <5> QED
          BY <1>4, <4>2, <5>1
      <4>4. x <= m - 1 - z
        BY <1>7, <4>2, <4>3
      <4> QED
        BY <1>3, <1>7, <2>4, <4>1, <4>4
    <3> QED
      BY <1>3, <2>4, <3>1, <3>2
  <2>6. y <= far
    <3>1. CASE far >= m
      BY <1>3, <1>8, <2>4, <3>1
    <3> DEFINE p == m - 1 - far
    <3>2. CASE far < m /\ k <= p
      <4>1. p \in 0..m - 2 /\ k \in 0..p
        BY <1>3, <2>4, <3>2
      <4>2. ASSUME NEW d \in 0..k PROVE pat[p - d + 1] = text[i - d + 1]
        <5>1. far + d \in 0..m - 1 /\ e - (far + d) + 1 = i - d + 1 /\ m - (far + d) = p - d + 1
          BY <1>3, <2>4, <4>1
        <5>2. text[e - (far + d) + 1] = pat[m - (far + d)]
          BY <2>1, <5>1
        <5> QED
          BY <5>1, <5>2
      <4>3. \A d \in 0..k - 1 : pat[p - d + 1] = pat[m - d]
        <5>1. \A d \in 0..k - 1 : d \in 0..k
          BY <1>3
        <5> QED
          BY <1>12, <4>2, <5>1
      <4>4. pat[p - k + 1] # pat[m - k]
        <5>1. k \in 0..k
          BY <1>3
        <5> QED
          BY <1>4, <1>13, <4>2, <5>1
      <4>5. p \in Recurs(pat, k)
        <5> HIDE DEF p
        <5> QED
          BY <1>1, <4>1, <4>3, <4>4, SuffixRight
      <4>6. y <= m - 1 - p
        BY <1>8, <4>5
      <4> QED
        BY <1>3, <1>8, <2>4, <4>6
    <3>3. CASE far < m /\ ~(k <= p)
      <4>1. far \in m - k..m /\ far \in 1..m - 1
        BY <1>3, <2>4, <3>3
      <4>2. ASSUME NEW j \in 1..m - far PROVE pat[far + j] = pat[j]
        <5>1. PICK d : d = m - far - j
          OBVIOUS
        <5>2. d \in 0..k - 1 /\ far + d \in 0..m - 1 /\ e - (far + d) + 1 = i - d + 1
              /\ m - (far + d) = j /\ m - d = far + j
          BY <1>3, <2>4, <3>3, <4>1, <5>1
        <5>3. text[i - d + 1] = pat[far + j]
          BY <1>12, <5>2
        <5>4. text[i - d + 1] = pat[j]
          BY <2>1, <5>2
        <5> QED
          BY <5>3, <5>4
      <4>3. PrefixAt(pat, far)
        <5>1. PICK n2 : n2 = m - far
          OBVIOUS
        <5>2. n2 \in Nat /\ far \in Nat /\ far + n2 = m /\ 0 + n2 = n2 /\ 0 + 1 = 1 /\ n2 <= m
          BY <1>3, <4>1, <5>1
        <5>3. PICK u : u = SubSeq(pat, far + 1, m)
          OBVIOUS
        <5>4. PICK v : v = SubSeq(pat, 1, n2)
          OBVIOUS
        <5>5. u \in Seq(Int) /\ Len(u) = n2 /\ \A j \in 1..n2 : u[j] = pat[far + j]
          <6>1. /\ SubSeq(pat, far + 1, far + n2) \in Seq(Int) /\ Len(SubSeq(pat, far + 1, far + n2)) = n2
                /\ \A j \in 1..n2 : SubSeq(pat, far + 1, far + n2)[j] = pat[far + j]
            BY SMTT(30), <1>1, <5>2, PartFacts
          <6> QED
            BY <5>2, <5>3, <6>1
        <5>6. v \in Seq(Int) /\ Len(v) = n2 /\ \A j \in 1..n2 : v[j] = pat[j]
          <6>1. /\ SubSeq(pat, 0 + 1, 0 + n2) \in Seq(Int) /\ Len(SubSeq(pat, 0 + 1, 0 + n2)) = n2
                /\ \A j \in 1..n2 : SubSeq(pat, 0 + 1, 0 + n2)[j] = pat[0 + j]
            <7>1. 0 \in Nat /\ 0 + n2 <= Len(pat)
              BY <1>1, <5>2
            <7> QED
              BY SMTT(30), <5>2, <7>1, PartFacts
          <6>2. \A j \in 1..n2 : 0 + j = j
            BY <5>2
          <6> QED
            BY <5>2, <5>4, <6>1, <6>2
        <5>7. u = v
          <6>1. \A j \in 1..n2 : u[j] = v[j]
            BY <4>2, <5>1, <5>5, <5>6
          <6> QED
            BY <5>5, <5>6, <6>1, SameSeq
        <5>8. SubSeq(pat, far + 1, m) = SubSeq(pat, 1, m - far)
          BY <5>1, <5>3, <5>4, <5>7
        <5> QED
          BY <1>1, <5>8 DEF PrefixAt
      <4> QED
        BY <1>8, <4>1, <4>3
    <3> QED
      BY <1>3, <2>4, <3>1, <3>2, <3>3
  <2> QED
    BY <1>3, <1>7, <1>8, <2>4, <2>5, <2>6
<1>15. i - k + w \in i + 1..i + m
  BY <1>3, <1>7, <1>8, <1>10
<1>16. \A e \in i..n - 1 : Hit(pat, text, e) => i - k + w <= e
  <2> SUFFICES ASSUME NEW e \in i..n - 1, Hit(pat, text, e) PROVE i - k + w <= e
    OBVIOUS
  <2>1. i - k + x <= e /\ i + y <= e
    BY <1>14
  <2> QED
    BY <1>3, <1>7, <1>8, <1>10, <2>1
<1> QED
  BY <1>1, <1>2, <1>11, <1>15, <1>16

\* bmg_against_nstring(): the loop with the pattern's end at i.
Tries(pat, text, from, i) ==
  /\ i < Len(text)
  /\ LET k == Agreed(pat, text, i) IN k = Len(pat) \/ from[Further(pat, text, i, k)]

\* If the loop is right further on, it is right here.
LEMMA HitWhenAgreed ==
  ASSUME NEW pat \in Seq(Int), Len(pat) > 0, NEW text \in Seq(Int), NEW i \in Len(pat) - 1..Len(text) - 1,
         NEW from,
         \A j \in i + 1..Len(text) + 2 * Len(pat) : from[j] <=> \E e \in j..Len(text) - 1 : Hit(pat, text, e)
  PROVE  Tries(pat, text, from, i) <=> \E e \in i..Len(text) - 1 : Hit(pat, text, e)
<1>1. PICK k : k = Agreed(pat, text, i)
  OBVIOUS
<1>2. k \in 0..Len(pat) /\ Ends(pat, text, i, k) /\ (k < Len(pat) => ~Ends(pat, text, i, k + 1))
  BY <1>1, AgreedRight
<1>3. i \in Nat /\ i < Len(text) /\ Len(pat) \in Nat /\ Len(text) \in Nat /\ i \in i..Len(text) - 1
  OBVIOUS
<1>4. CASE k = Len(pat)
  <2>1. Hit(pat, text, i)
    BY <1>2, <1>3, <1>4 DEF Hit
  <2> QED
    BY <1>1, <1>3, <1>4, <2>1 DEF Tries
<1>5. CASE k # Len(pat)
  <2>1. k \in 0..Len(pat) - 1 /\ ~Ends(pat, text, i, k + 1)
    BY <1>2, <1>3, <1>5
  <2>2. PICK j : j = Further(pat, text, i, k)
    OBVIOUS
  <2>3. j \in i + 1..i + Len(pat) /\ \A e \in i..Len(text) - 1 : Hit(pat, text, e) => j <= e
    BY <1>2, <2>1, <2>2, NoneSkipped
  <2>4. j \in i + 1..Len(text) + 2 * Len(pat)
    BY <1>3, <2>3
  <2>5. from[j] <=> \E e \in j..Len(text) - 1 : Hit(pat, text, e)
    BY <2>4
  <2>6. (\E e \in j..Len(text) - 1 : Hit(pat, text, e)) <=> \E e \in i..Len(text) - 1 : Hit(pat, text, e)
    <3>1. ASSUME NEW e \in j..Len(text) - 1 PROVE e \in i..Len(text) - 1
      BY <1>3, <2>3
    <3>2. ASSUME NEW e \in i..Len(text) - 1, Hit(pat, text, e) PROVE e \in j..Len(text) - 1
      BY <1>3, <2>3, <3>2
    <3> QED
      BY <3>1, <3>2
  <2>7. Tries(pat, text, from, i) <=> from[j]
    BY <1>1, <1>3, <1>5, <2>2 DEF Tries
  <2> QED
    BY <2>5, <2>6, <2>7
<1> QED
  BY <1>4, <1>5

\* What the search reports is whether the pattern ends anywhere in the text.
LEMMA SearchEnds ==
  ASSUME NEW pat \in Seq(Int), Len(pat) > 0, NEW text \in Seq(Int)
  PROVE  BmgAgainst(pat, text) <=> \E e \in Len(pat) - 1..Len(text) - 1 : Hit(pat, text, e)
<1>1. PICK m : m = Len(pat) - 1
  OBVIOUS
<1>2. PICK last : last = Len(text) + 2 * Len(pat)
  OBVIOUS
<1>3. m \in Nat /\ last \in Nat /\ Len(text) \in Nat /\ Len(pat) \in Nat /\ m < last /\ Len(text) - 1 < last
      /\ Len(pat) = m + 1
  BY <1>1, <1>2
<1>4. PICK found : found = CHOOSE f : f = [i \in m..last |-> Tries(pat, text, f, i)]
  OBVIOUS
<1>5. BmgAgainst(pat, text) = found[m]
  BY <1>1, <1>2, <1>4 DEF BmgAgainst, Tries, Further
<1>6. \E f : f = [i \in m..last |-> Tries(pat, text, f, i)]
  <2> DEFINE g == [i \in m..last |-> \E e \in i..Len(text) - 1 : Hit(pat, text, e)]
  <2>1. ASSUME NEW i \in m..last PROVE g[i] <=> Tries(pat, text, g, i)
    <3>1. CASE i < Len(text)
      <4>1. i \in Len(pat) - 1..Len(text) - 1
        BY <1>1, <1>3, <3>1
      <4>2. \A j \in i + 1..Len(text) + 2 * Len(pat) : g[j] <=> \E e \in j..Len(text) - 1 : Hit(pat, text, e)
        <5>1. \A j \in i + 1..last : j \in m..last
          BY <1>3
        <5> QED
          BY <1>2, <5>1
      <4>3. g[i] <=> \E e \in i..Len(text) - 1 : Hit(pat, text, e)
        OBVIOUS
      <4> HIDE DEF g
      <4> QED
        BY <4>1, <4>2, <4>3, HitWhenAgreed
    <3>2. CASE ~(i < Len(text))
      <4>1. ~Tries(pat, text, g, i)
        BY <3>2 DEF Tries
      <4>2. ~\E e \in i..Len(text) - 1 : Hit(pat, text, e)
        BY <1>3, <3>2
      <4> QED
        BY <4>1, <4>2
    <3> QED
      BY <3>1, <3>2
  <2>2. \A i \in m..last : g[i] = Tries(pat, text, g, i)
    <3>1. \A i \in m..last : g[i] \in BOOLEAN
      OBVIOUS
    <3>2. \A i \in m..last : Tries(pat, text, g, i) \in BOOLEAN
      BY DEF Tries
    <3> HIDE DEF g
    <3> QED
      BY <2>1, <3>1, <3>2
  <2>3. g = [i \in m..last |-> Tries(pat, text, g, i)]
    <3>1. g = [i \in m..last |-> g[i]]
      OBVIOUS
    <3> HIDE DEF g
    <3> QED
      BY <2>2, <3>1
  <2> QED
    BY <2>3
<1>7. found = [i \in m..last |-> Tries(pat, text, found, i)]
  BY <1>4, <1>6
<1>8. \A i \in m..last : found[i] = Tries(pat, text, found, i)
  BY <1>7
<1> DEFINE Right(i) == found[i] <=> \E e \in i..Len(text) - 1 : Hit(pat, text, e)
           T == {k \in 0..last : \E i \in m..last : k = last - i /\ ~Right(i)}
<1>9. T = {}
  <2>1. SUFFICES ASSUME T # {} PROVE FALSE
    OBVIOUS
  <2>2. T \subseteq Nat
    OBVIOUS
  <2>3. PICK k \in T : \A n \in T : k <= n
    <3> HIDE DEF T
    <3> QED
      BY <2>1, <2>2, LeastNatural
  <2>4. PICK i \in m..last : k = last - i /\ ~Right(i)
    OBVIOUS
  <2>5. \A j \in i + 1..last : Right(j)
    <3>1. SUFFICES ASSUME NEW j \in i + 1..last, ~Right(j) PROVE FALSE
      OBVIOUS
    <3>2. j \in m..last /\ last - j \in 0..last /\ ~(k <= last - j)
      BY <1>3, <2>4
    <3>3. last - j \in T
      BY <3>1, <3>2
    <3> QED
      BY <2>3, <3>2, <3>3
  <2>6. CASE i < Len(text)
    <3>1. i \in Len(pat) - 1..Len(text) - 1
      BY <1>1, <1>3, <2>6
    <3>2. \A j \in i + 1..Len(text) + 2 * Len(pat) : found[j] <=> \E e \in j..Len(text) - 1 : Hit(pat, text, e)
      BY <1>2, <2>5
    <3>3. Tries(pat, text, found, i) <=> \E e \in i..Len(text) - 1 : Hit(pat, text, e)
      BY <3>1, <3>2, HitWhenAgreed
    <3> QED
      BY <1>8, <2>4, <3>3
  <2>7. CASE ~(i < Len(text))
    <3>1. ~Tries(pat, text, found, i)
      BY <2>7 DEF Tries
    <3>2. ~\E e \in i..Len(text) - 1 : Hit(pat, text, e)
      BY <1>3, <2>7
    <3> QED
      BY <1>8, <2>4, <3>1, <3>2
  <2> QED
    BY <2>6, <2>7
<1>10. Right(m)
  <2>1. m \in m..last /\ last - m \in 0..last
    BY <1>3
  <2> QED
    BY <1>9, <2>1
<1> QED
  BY <1>1, <1>5, <1>10

\* The Boyer-Moore search with its two tables finds a pattern where it occurs and
\* nowhere else, whatever the pattern repeats of itself.
THEOREM BmgCorrect ==
  ASSUME NEW pat \in Seq(Int), Len(pat) > 0, NEW text \in Seq(Int)
  PROVE  BmgAgainst(pat, text) <=> Occurs(pat, text)
<1>1. PICK m : m = Len(pat)
  OBVIOUS
<1>2. PICK n : n = Len(text)
  OBVIOUS
<1>3. m \in Nat /\ m > 0 /\ n \in Nat
  BY <1>1, <1>2
<1>4. ASSUME NEW e \in m - 1..n - 1, Hit(pat, text, e) PROVE Occurs(pat, text)
  <2>1. PICK o : o = e - (m - 1)
    OBVIOUS
  <2>2. o \in 0..n - m /\ o \in Nat /\ o + m <= n
    BY <1>3, <2>1
  <2>3. PICK u : u = SubSeq(text, o + 1, o + m)
    OBVIOUS
  <2>4. u \in Seq(Int) /\ Len(u) = m /\ \A j \in 1..m : u[j] = text[o + j]
    <3>1. /\ SubSeq(text, o + 1, o + m) \in Seq(Int) /\ Len(SubSeq(text, o + 1, o + m)) = m
          /\ \A j \in 1..m : SubSeq(text, o + 1, o + m)[j] = text[o + j]
      <4>1. o \in Nat /\ m \in Nat /\ o + m <= Len(text) /\ text \in Seq(Int)
        BY <1>2, <1>3, <2>2
      <4> QED
        BY ONLY <4>1, PartFacts
    <3> QED
      BY <2>3, <3>1
  <2>5. \A j \in 1..m : pat[j] = text[o + j]
    <3> SUFFICES ASSUME NEW j \in 1..m PROVE pat[j] = text[o + j]
      OBVIOUS
    <3>1. m - j \in 0..m - 1 /\ e - (m - j) + 1 = o + j /\ m - (m - j) = j
      BY <1>3, <2>1, <2>2
    <3>2. text[e - (m - j) + 1] = pat[m - (m - j)]
      BY <1>1, <1>4, <3>1 DEF Hit, Ends
    <3> QED
      BY <3>1, <3>2
  <2>6. u = pat
    <3>1. \A j \in 1..m : u[j] = pat[j]
      BY <2>4, <2>5
    <3>2. u \in Seq(Int) /\ Len(u) = m /\ Len(pat) = m /\ pat \in Seq(Int)
      BY <1>1, <2>4
    <3>3. Len(u) = Len(pat) /\ \A j \in 1..Len(u) : u[j] = pat[j]
      BY ONLY <3>1, <3>2
    <3> QED
      BY ONLY <3>2, <3>3, SameSeq
  <2> QED
    BY <1>1, <1>2, <2>2, <2>3, <2>6 DEF Occurs
<1>5. ASSUME Occurs(pat, text) PROVE \E e \in m - 1..n - 1 : Hit(pat, text, e)
  <2>1. PICK o \in 0..n - m : SubSeq(text, o + 1, o + m) = pat
    BY <1>1, <1>2, <1>5 DEF Occurs
  <2>2. o \in Nat /\ o + m <= n
    BY <1>3
  <2>3. \A j \in 1..m : pat[j] = text[o + j]
    <3>1. \A j \in 1..m : SubSeq(text, o + 1, o + m)[j] = text[o + j]
      BY <1>2, <1>3, <2>2, PartFacts
    <3> QED
      BY <2>1, <3>1
  <2>4. PICK e : e = o + m - 1
    OBVIOUS
  <2>5. e \in m - 1..n - 1 /\ e < n
    BY <1>3, <2>2, <2>4
  <2>6. ASSUME NEW d \in 0..m - 1 PROVE text[e - d + 1] = pat[m - d]
    <3>1. m - d \in 1..m /\ o + (m - d) = e - d + 1
      BY <1>3, <2>2, <2>4
    <3> QED
      BY <2>3, <3>1
  <2>7. Hit(pat, text, e)
    BY <1>1, <1>2, <2>5, <2>6 DEF Hit, Ends
  <2> QED
    BY <2>5, <2>7
<1> QED
  BY <1>1, <1>2, <1>4, <1>5, SearchEnds

\* augment_dfa() prepares the tables for no pattern that bmgprepare() is not defined for:
\* neither the empty one, nor one with a character that is not in delta1.
TablesInv ==
  /\ pc = "walking" /\ patcount = 0 => Tabulated(str)
  /\ bmg.ptr = "set" => Tabulated(bmg.match)

\* Every step keeps that, and so it holds of every behaviour.
LEMMA TablesInvStep ==
  ASSUME IInv, TablesInv, [Next]_vars PROVE TablesInv'
<1>0. ASSUME UNCHANGED <<patcount, bmg, str>>, pc' = "walking" => pc = "walking" PROVE TablesInv'
  BY <1>0 DEF TablesInv
<1>1. ASSUME NEW w \in Words, CallNull(w) PROVE TablesInv'
  BY <1>0, <1>1 DEF CallNull, dfavars
<1>2. ASSUME NEW w \in Words, NEW o \in Objects, Call(w, o) PROVE TablesInv'
  <2>1. str' = w /\ patcount \in Nat /\ (patcount > 0 \/ Tabulated(w))
    BY <1>2 DEF Call, MayCall, IInv, TypeOK
  <2>2. CASE space = "null"
    <3>1. patcount = 0 /\ bmg'.ptr = "null"
      BY <1>2, <2>2 DEF Call, Create, NoTables, IInv, CallInv
    <3> QED
      BY <2>1, <3>1 DEF TablesInv
  <2>3. CASE space # "null"
    <3>1. patcount' = patcount /\ bmg' = bmg
      BY <1>2, <2>3 DEF Call, dfavars
    <3> QED
      BY <2>1, <3>1 DEF TablesInv
  <2> QED
    BY <2>2, <2>3
<1>3. ASSUME NEW w \in Words, NEW o \in Objects, CallFails(w, o) PROVE TablesInv'
  BY <1>0, <1>3 DEF CallFails
<1>4. CASE Follow
  BY <1>0, <1>4 DEF Follow, dfavars, argvars
<1>5. CASE AddEdge
  BY <1>0, <1>5 DEF AddEdge, argvars
<1>6. CASE AddEdgeFails
  BY <1>0, <1>6 DEF AddEdgeFails, argvars, Return
<1>7. CASE Duplicate
  BY <1>0, <1>7 DEF Duplicate, dfavars, argvars, Return
<1>8. CASE Enter
  <2>1. pc = "walking" /\ pc' = "idle"
    BY <1>8 DEF Enter, Arrived, Return
  <2>2. CASE patcount = 0
    <3>1. bmg' \in Prepared /\ Tabulated(str)
      BY <1>8, <2>1, <2>2 DEF Enter, TablesInv
    <3>2. bmg'.ptr = "set" => bmg'.match = str
      BY <3>1 DEF Prepared, Tables, NoTables, StaleTables
    <3> QED
      BY <2>1, <3>1, <3>2 DEF TablesInv
  <2>3. CASE patcount # 0
    <3>1. bmg'.ptr = "null"
      BY <1>8, <2>3 DEF Enter, NoTables
    <3> QED
      BY <2>1, <3>1 DEF TablesInv
  <2> QED
    BY <2>2, <2>3
<1>9. CASE UNCHANGED vars
  BY <1>0, <1>9 DEF vars, dfavars, argvars
<1> QED
  BY <1>1, <1>2, <1>3, <1>4, <1>5, <1>6, <1>7, <1>8, <1>9 DEF Next

LEMMA TablesHold == Spec => []TablesInv
<1>1. Init => TablesInv
  BY DEF Init, NoTables, TablesInv
<1>2. IInv /\ TablesInv /\ [Next]_vars => TablesInv'
  BY TablesInvStep
<1> QED
  BY <1>1, <1>2, IInvHolds, PTL DEF Spec

\* What the search reports while there is one pattern.
LEMMA SoleFound ==
  ASSUME IInv, TablesInv, bmg.ptr = "set", NEW text \in Seq(Int)
  PROVE  MatchAgainst(text) = IF Occurs(bmg.match, text) THEN bmg.val ELSE NoObject
<1>1. PICK w : w = bmg.match
  OBVIOUS
<1>2. w \in Seq(Int) /\ Len(w) > 0
  <2>1. w \in Seq(Letters) /\ w # <<>>
    BY <1>1 DEF IInv, TypeOK, TablesInv, Tabulated
  <2>2. Letters \subseteq Int
    BY TrieAssumption
  <2>3. w \in Seq(Int)
    <3>1. PICK n : n = Len(w)
      OBVIOUS
    <3>2. n \in Nat /\ w = [i \in 1..n |-> w[i]] /\ \A i \in 1..n : w[i] \in Letters
      BY ONLY <2>1, <3>1
    <3>3. \A i \in 1..n : w[i] \in Int
      BY <2>2, <3>2
    <3>4. \A u : u = [i \in 1..n |-> w[i]] => u \in Seq(Int)
      BY ONLY <3>2, <3>3
    <3> QED
      BY ONLY <3>2, <3>4
  <2>4. Len(w) # 0 /\ Len(w) \in Nat
    <3>1. w # <<>>
      BY <2>1
    <3> QED
      BY ONLY <2>3, <3>1
  <2> QED
    BY <2>3, <2>4
<1>3. BmgAgainst(w, text) <=> Occurs(w, text)
  BY <1>2, BmgCorrect
<1>4. MatchAgainst(text) = IF BmgAgainst(bmg.match, text) THEN bmg.val ELSE NoObject
  <2>1. bmg.ptr # "null"
    OBVIOUS
  <2> HIDE DEF BmgAgainst
  <2> QED
    BY <2>1, Zenon DEF MatchAgainst
<1>5. BmgAgainst(bmg.match, text) <=> Occurs(bmg.match, text)
  BY ONLY <1>1, <1>3, Zenon
<1> QED
  BY ONLY <1>4, <1>5, Zenon

\* With one pattern in the dfa, whatever calls and failures led there, the Boyer-Moore
\* search finds it in a text of any length if and only if it occurs there.
THEOREM BmgFound == Spec => []BmgExact
<1>1. ASSUME IInv, TablesInv PROVE BmgExact
  <2>1. ASSUME bmg.ptr = "set", NEW text \in Texts
        PROVE  MatchAgainst(text) = IF Occurs(bmg.match, text) THEN bmg.val ELSE NoObject
    <3>1. text \in Seq(Int)
      BY ProbesAssumption
    <3> QED
      BY <1>1, <2>1, <3>1, SoleFound
  <2> QED
    BY <2>1 DEF BmgExact
<1> QED
  BY <1>1, IInvHolds, TablesHold, PTL

\* edge_search() returns how many labels of a sorted edge array are less than the one
\* looked for, in every array of any length.
THEOREM SearchPlaces == Spec => []SearchExact
<1>1. ASSUME NEW set \in Arrays, NEW c \in Labels
      PROVE  EdgeSearch(set, c) = Cardinality({i \in 1..Len(set) : set[i].label < c})
  <2>1. PICK p : p = EdgeSearch(set, c)
    OBVIOUS
  <2>2. Len(set) \in Nat /\ Sorted(set) /\ Labelled(set) /\ c \in Int
    BY ArraysAssumption DEF Labelled
  <2>3. IsPlace(set, c, p)
    BY <2>1, <2>2, SearchCorrect
  <2>4. p \in 0..Len(set) /\ {i \in 1..Len(set) : set[i].label < c} = 1..p
    <3>1. p \in 0..Len(set)
      BY <2>3 DEF IsPlace
    <3>2. \A i \in 1..Len(set) : set[i].label < c <=> i <= p
      <4> SUFFICES ASSUME NEW i \in 1..Len(set) PROVE set[i].label < c <=> i <= p
        OBVIOUS
      <4>1. set[i].label \in Int /\ c \in Int
        BY <2>2 DEF Labelled
      <4>2. CASE i <= p
        BY <2>3, <4>2 DEF IsPlace
      <4>3. CASE ~(i <= p)
        <5>1. set[i].label >= c
          BY <2>3, <4>3 DEF IsPlace
        <5> QED
          BY <4>1, <4>3, <5>1
      <4> QED
        BY <4>2, <4>3
    <3> QED
      BY <2>2, <3>1, <3>2
  <2>5. Cardinality(1..p) = p
    <3>1. 1 \in Int /\ p \in Int /\ p >= 0
      BY <2>2, <2>4
    <3>2. Cardinality(1..p) = IF 1 > p THEN 0 ELSE p - 1 + 1
      BY <3>1, FS_Interval
    <3> QED
      BY <3>1, <3>2
  <2> QED
    BY <2>1, <2>4, <2>5
<1>2. SearchExact
  BY <1>1 DEF SearchExact
<1> QED
  BY <1>2, PTL

-----------------------------------------------------------------------------
(* Sequences joined to one.                                                 *)

\* Two sequences joined.
LEMMA JoinFacts ==
  ASSUME NEW E, NEW u \in Seq(E), NEW v \in Seq(E)
  PROVE  /\ u \o v \in Seq(E) /\ Len(u \o v) = Len(u) + Len(v)
         /\ \A i \in 1..Len(u) : (u \o v)[i] = u[i]
         /\ \A i \in Len(u) + 1..Len(u) + Len(v) : (u \o v)[i] = v[i - Len(u)]
  OBVIOUS

\* One step of FlattenSeq(), where f says what comes of fewer pieces.
Joined(f, seqs, i) == IF i = 1 THEN seqs[i] ELSE f[i - 1] \o seqs[i]

\* The function that joins the first pieces of seqs exists.
LEMMA JoinExists ==
  ASSUME NEW n \in Nat, NEW seqs
  PROVE  \E f : f = [i \in 1..n |-> Joined(f, seqs, i)]
<1> DEFINE Solves(g, k) == \A i \in 1..k : g[i] = Joined(g, seqs, i)
           T == {k \in 0..n : ~\E g : Solves(g, k)}
<1>1. T = {}
  <2> SUFFICES ASSUME T # {} PROVE FALSE
    OBVIOUS
  <2>1. PICK k \in T : \A j \in T : k <= j
    <3>1. T \in SUBSET Nat
      OBVIOUS
    <3> HIDE DEF T
    <3> QED
      BY <3>1, LeastNatural
  <2>2. k \in 0..n /\ ~\E g : Solves(g, k)
    OBVIOUS
  <2>3. k # 0
    <3>1. \A g : Solves(g, 0)
      OBVIOUS
    <3> HIDE DEF Solves
    <3> QED
      BY <2>2, <3>1
  <2>4. k - 1 \in 0..n /\ ~(k <= k - 1) /\ k \in 1..n
    BY <2>2, <2>3
  <2>5. PICK g : Solves(g, k - 1)
    <3>1. k - 1 \notin T
      <4> HIDE DEF T
      <4> QED
        BY <2>1, <2>4
    <3> HIDE DEF Solves
    <3> QED
      BY <2>4, <3>1
  <2> DEFINE h == [i \in 1..n |-> IF i = k THEN Joined(g, seqs, k) ELSE g[i]]
  <2>6. h[k] = Joined(g, seqs, k) /\ \A i \in 1..k - 1 : h[i] = g[i]
    BY <2>4
  <2> HIDE DEF h
  <2>7. ASSUME NEW i \in 1..k PROVE h[i] = Joined(h, seqs, i)
    <3>1. Joined(h, seqs, i) = Joined(g, seqs, i)
      <4>1. i # 1 => i - 1 \in 1..k - 1
        BY <2>4
      <4>2. i # 1 => h[i - 1] = g[i - 1]
        BY <2>6, <4>1
      <4> QED
        BY <4>2 DEF Joined
    <3>2. CASE i = k
      BY <2>6, <3>1, <3>2
    <3>3. CASE i # k
      <4>1. i \in 1..k - 1
        BY <2>4, <3>3
      <4>2. g[i] = Joined(g, seqs, i)
        BY <2>5, <4>1
      <4> QED
        BY <2>6, <3>1, <4>1, <4>2
    <3> QED
      BY <3>2, <3>3
  <2>8. Solves(h, k)
    BY <2>7
  <2> QED
    BY <2>2, <2>8
<1>2. PICK g : Solves(g, n)
  <2>1. n \in 0..n /\ n \notin T
    BY <1>1
  <2> HIDE DEF Solves
  <2> QED
    BY <2>1
<1>3. PICK f : f = [i \in 1..n |-> g[i]]
  OBVIOUS
<1>4. ASSUME NEW i \in 1..n PROVE f[i] = Joined(f, seqs, i)
  <2>1. i # 1 => i - 1 \in 1..n
    OBVIOUS
  <2>2. f[i] = g[i] /\ (i # 1 => f[i - 1] = g[i - 1])
    BY <1>3, <2>1
  <2>3. g[i] = Joined(g, seqs, i)
    BY <1>2
  <2> QED
    BY <2>2, <2>3 DEF Joined
<1>5. f = [i \in 1..n |-> f[i]]
  BY <1>3
<1> QED
  BY <1>4, <1>5

\* FlattenSeq() is what that function says of all pieces.
LEMMA FlattenIs ==
  ASSUME NEW seqs, Len(seqs) \in Nat, Len(seqs) # 0
  PROVE  \E f : /\ FlattenSeq(seqs) = f[Len(seqs)]
                /\ \A i \in 1..Len(seqs) : f[i] = Joined(f, seqs, i)
<1>1. PICK f : f = CHOOSE g : g = [i \in 1..Len(seqs) |-> Joined(g, seqs, i)]
  OBVIOUS
<1>2. f = [i \in 1..Len(seqs) |-> Joined(f, seqs, i)]
  <2>1. \E g : g = [i \in 1..Len(seqs) |-> Joined(g, seqs, i)]
    BY JoinExists
  <2> QED
    BY <1>1, <2>1
<1>3. FlattenSeq(seqs) = f[Len(seqs)]
  BY <1>1 DEF FlattenSeq, Joined
<1>4. \A i \in 1..Len(seqs) : f[i] = Joined(f, seqs, i)
  <2>1. \A g : g = [i \in 1..Len(seqs) |-> Joined(f, seqs, i)] =>
          \A i \in 1..Len(seqs) : g[i] = Joined(f, seqs, i)
    OBVIOUS
  <2> QED
    BY <1>2, <2>1
<1> QED
  BY <1>3, <1>4

\* flat has the elements of the first n pieces and no others, each piece behind the
\* ones before it and in its own order.
Pieced(flat, seqs, n) ==
  /\ \A i \in 1..n : \A j \in 1..Len(seqs[i]) : \E k \in 1..Len(flat) : flat[k] = seqs[i][j]
  /\ \A k \in 1..Len(flat) : \E i \in 1..n : \E j \in 1..Len(seqs[i]) : flat[k] = seqs[i][j]
  /\ \A k, l \in 1..Len(flat) : k < l =>
       \E i, x \in 1..n : \E j \in 1..Len(seqs[i]), y \in 1..Len(seqs[x]) :
         /\ flat[k] = seqs[i][j] /\ flat[l] = seqs[x][y]
         /\ i < x \/ (i = x /\ j < y)

\* One piece, and one piece more.
LEMMA PiecedFirst ==
  ASSUME NEW seqs, Len(seqs[1]) \in Nat
  PROVE  Pieced(seqs[1], seqs, 1)
<1>1. 1..1 = {1}
  OBVIOUS
<1> QED
  BY <1>1 DEF Pieced

LEMMA PiecedLonger ==
  ASSUME NEW E, NEW n \in Nat, NEW seqs, \A i \in 1..n : Len(seqs[i]) \in Nat,
         seqs[n + 1] \in Seq(E), NEW flat \in Seq(E), Pieced(flat, seqs, n)
  PROVE  Pieced(flat \o seqs[n + 1], seqs, n + 1)
<1>1. PICK more : more = seqs[n + 1]
  OBVIOUS
<1>2. PICK both : both = flat \o more
  OBVIOUS
<1>3. PICK m : m = Len(flat)
  OBVIOUS
<1>4. PICK d : d = Len(more)
  OBVIOUS
<1>5. /\ m \in Nat /\ d \in Nat /\ Len(both) = m + d
      /\ \A i \in 1..m : both[i] = flat[i]
      /\ \A i \in m + 1..m + d : both[i] = more[i - m]
  BY <1>1, <1>2, <1>3, <1>4, JoinFacts
<1>6. \A k \in 1..m + d : k \in 1..m \/ (k \in m + 1..m + d /\ k - m \in 1..d)
  <2>1. m \in Nat /\ d \in Nat
    BY <1>5
  <2> SUFFICES ASSUME NEW k \in 1..m + d, k \notin 1..m
               PROVE  k \in m + 1..m + d /\ k - m \in 1..d
    OBVIOUS
  <2> QED
    BY <2>1
<1>7. n + 1 \in 1..n + 1 /\ 1..n \subseteq 1..n + 1
  OBVIOUS
<1>8. ASSUME NEW i \in 1..n + 1, NEW j \in 1..Len(seqs[i])
      PROVE  \E k \in 1..m + d : both[k] = seqs[i][j]
  <2>1. CASE i \in 1..n
    <3>1. PICK k \in 1..m : flat[k] = seqs[i][j]
      BY <1>3, <2>1 DEF Pieced
    <3>2. k \in 1..m + d
      BY <1>5
    <3> QED
      BY <1>5, <3>1, <3>2
  <2>2. CASE i \notin 1..n
    <3>1. i = n + 1
      BY <2>2
    <3>2. j \in 1..d
      BY <1>1, <1>4, <3>1
    <3>3. m + j \in m + 1..m + d /\ m + j \in 1..m + d /\ (m + j) - m = j
      BY <1>5, <3>2
    <3>4. both[m + j] = more[j]
      BY <1>5, <3>3
    <3> QED
      BY <1>1, <3>1, <3>3, <3>4
  <2> QED
    BY <2>1, <2>2
<1>9. ASSUME NEW k \in m + 1..m + d
      PROVE  both[k] = seqs[n + 1][k - m] /\ k - m \in 1..Len(seqs[n + 1])
  <2>1. k - m \in 1..d
    BY <1>5
  <2> QED
    BY <1>1, <1>4, <1>5, <2>1
<1>10. ASSUME NEW k \in 1..m + d
       PROVE  \E i \in 1..n + 1 : \E j \in 1..Len(seqs[i]) : both[k] = seqs[i][j]
  <2>1. CASE k \in 1..m
    <3>1. PICK i \in 1..n : \E j \in 1..Len(seqs[i]) : flat[k] = seqs[i][j]
      BY <1>3, <2>1 DEF Pieced
    <3> QED
      BY <1>5, <1>7, <2>1, <3>1
  <2>2. CASE k \in m + 1..m + d
    BY <1>7, <1>9, <2>2
  <2> QED
    BY <1>6, <2>1, <2>2
<1>11. ASSUME NEW k \in 1..m + d, NEW l \in 1..m + d, k < l
       PROVE  \E i, x \in 1..n + 1 : \E j \in 1..Len(seqs[i]), y \in 1..Len(seqs[x]) :
                /\ both[k] = seqs[i][j] /\ both[l] = seqs[x][y]
                /\ i < x \/ (i = x /\ j < y)
  <2>1. CASE k \in 1..m /\ l \in 1..m
    <3>1. PICK i \in 1..n, x \in 1..n : \E j \in 1..Len(seqs[i]), y \in 1..Len(seqs[x]) :
            /\ flat[k] = seqs[i][j] /\ flat[l] = seqs[x][y]
            /\ i < x \/ (i = x /\ j < y)
      BY <1>3, <1>11, <2>1 DEF Pieced
    <3>2. both[k] = flat[k] /\ both[l] = flat[l] /\ i \in 1..n + 1 /\ x \in 1..n + 1
      BY <1>5, <1>7, <2>1
    <3> QED
      BY <3>1, <3>2
  <2>2. CASE k \in 1..m /\ l \in m + 1..m + d
    <3>1. PICK i \in 1..n : \E j \in 1..Len(seqs[i]) : flat[k] = seqs[i][j]
      BY <1>3, <2>2 DEF Pieced
    <3>2. PICK j \in 1..Len(seqs[i]) : flat[k] = seqs[i][j]
      BY <3>1
    <3>3. PICK x \in 1..n + 1 : x = n + 1
      BY <1>7
    <3>4. both[l] = seqs[x][l - m] /\ l - m \in 1..Len(seqs[x])
      BY <1>9, <2>2, <3>3
    <3>5. both[k] = seqs[i][j] /\ i \in 1..n + 1 /\ i < x
      BY <1>5, <1>7, <2>2, <3>2, <3>3
    <3> QED
      BY ONLY <3>2, <3>3, <3>4, <3>5
  <2>3. CASE k \in m + 1..m + d /\ l \in m + 1..m + d
    <3>1. /\ both[k] = seqs[n + 1][k - m] /\ k - m \in 1..Len(seqs[n + 1])
          /\ both[l] = seqs[n + 1][l - m] /\ l - m \in 1..Len(seqs[n + 1])
      BY <1>9, <2>3
    <3>2. k - m < l - m
      BY <1>5, <1>11
    <3> QED
      BY <1>7, <3>1, <3>2
  <2>4. ~(k \in m + 1..m + d /\ l \in 1..m)
    BY <1>5, <1>11
  <2> QED
    BY <1>6, <2>1, <2>2, <2>3, <2>4
<1>12. Pieced(both, seqs, n + 1)
  BY <1>5, <1>8, <1>10, <1>11 DEF Pieced
<1> QED
  BY <1>1, <1>2, <1>12

\* FlattenSeq() of any number of pieces.
LEMMA FlattenFacts ==
  ASSUME NEW E, NEW n \in Nat, NEW seqs, seqs = [i \in 1..n |-> seqs[i]],
         \A i \in 1..n : seqs[i] \in Seq(E)
  PROVE  FlattenSeq(seqs) \in Seq(E) /\ Pieced(FlattenSeq(seqs), seqs, n)
<1>1. seqs \in Seq(Seq(E)) /\ Len(seqs) = n
  <2>1. seqs \in [1..n -> Seq(E)]
    OBVIOUS
  <2> QED
    BY <2>1
<1>2. CASE n = 0
  <2>1. FlattenSeq(seqs) = seqs
    BY <1>1, <1>2 DEF FlattenSeq
  <2>2. seqs = <<>>
    BY <1>1, <1>2
  <2>3. <<>> \in Seq(E) /\ Len(<<>>) = 0 /\ 1..0 = {}
    OBVIOUS
  <2>4. Pieced(<<>>, seqs, 0)
    BY <2>3 DEF Pieced
  <2> QED
    BY <1>2, <2>1, <2>2, <2>3, <2>4
<1>3. CASE n # 0
  <2>1. PICK f : /\ FlattenSeq(seqs) = f[n]
                 /\ \A i \in 1..n : f[i] = Joined(f, seqs, i)
    <3>1. Len(seqs) \in Nat /\ Len(seqs) # 0 /\ Len(seqs) = n
      BY <1>1, <1>3
    <3>2. \E f : /\ FlattenSeq(seqs) = f[Len(seqs)]
                 /\ \A i \in 1..Len(seqs) : f[i] = Joined(f, seqs, i)
      BY ONLY <3>1, FlattenIs
    <3> QED
      BY ONLY <3>1, <3>2
  <2> DEFINE Good(i) == f[i] \in Seq(E) /\ Pieced(f[i], seqs, i)
             T == {i \in 1..n : ~Good(i)}
  <2>2. T = {}
    <3> SUFFICES ASSUME T # {} PROVE FALSE
      OBVIOUS
    <3>1. PICK k \in T : \A j \in T : k <= j
      <4>1. T \in SUBSET Nat
        OBVIOUS
      <4> HIDE DEF T
      <4> QED
        BY <4>1, LeastNatural
    <3>2. k \in 1..n /\ ~Good(k)
      OBVIOUS
    <3>3. f[k] = Joined(f, seqs, k) /\ seqs[k] \in Seq(E)
      BY <2>1, <3>2
    <3>4. CASE k = 1
      <4>1. f[1] = seqs[1] /\ Len(seqs[1]) \in Nat
        BY <3>3, <3>4 DEF Joined
      <4>2. Pieced(seqs[1], seqs, 1)
        BY <4>1, PiecedFirst
      <4> QED
        BY <3>2, <3>3, <3>4, <4>1, <4>2
    <3>5. CASE k # 1
      <4>1. k - 1 \in 1..n /\ ~(k <= k - 1) /\ k - 1 \in Nat /\ (k - 1) + 1 = k
        BY <3>2, <3>5
      <4>2. Good(k - 1)
        <5>1. k - 1 \notin T
          <6> HIDE DEF T
          <6> QED
            BY <3>1, <4>1
        <5> HIDE DEF Good
        <5> QED
          BY <4>1, <5>1
      <4>3. PICK i : i = k - 1
        OBVIOUS
      <4>4. f[k] = f[i] \o seqs[i + 1] /\ i \in Nat /\ k = i + 1
        BY <3>3, <3>5, <4>1, <4>3 DEF Joined
      <4>5. f[i] \in Seq(E) /\ Pieced(f[i], seqs, i)
        BY <4>2, <4>3
      <4>6. seqs[i + 1] \in Seq(E) /\ \A j \in 1..i : Len(seqs[j]) \in Nat
        <5>1. \A j \in 1..i : j \in 1..n
          BY <3>2, <4>4
        <5> QED
          BY <3>3, <4>4, <5>1
      <4>7. Pieced(f[i] \o seqs[i + 1], seqs, i + 1)
        BY <4>4, <4>5, <4>6, PiecedLonger
      <4>8. f[i] \o seqs[i + 1] \in Seq(E)
        BY <4>5, <4>6
      <4> QED
        BY <3>2, <4>4, <4>7, <4>8
    <3> QED
      BY <3>4, <3>5
  <2>3. n \in 1..n
    BY <1>3
  <2>4. Good(n)
    BY <2>2, <2>3
  <2> QED
    BY <2>1, <2>4
<1> QED
  BY <1>2, <1>3

-----------------------------------------------------------------------------
(* The order of strings.                                                    *)

\* A character in front of a string.
LEMMA PrependFacts ==
  ASSUME NEW E, NEW c \in E, NEW w \in Seq(E)
  PROVE  /\ <<c>> \o w \in Seq(E) /\ Len(<<c>> \o w) = Len(w) + 1 /\ (<<c>> \o w)[1] = c
         /\ \A j \in 1..Len(w) : (<<c>> \o w)[j + 1] = w[j]
<1>1. PICK one : one = <<c>>
  OBVIOUS
<1>2. one \in Seq(E) /\ Len(one) = 1 /\ one[1] = c
  BY <1>1
<1>3. PICK q : q = one \o w
  OBVIOUS
<1>4. PICK n : n = Len(w)
  OBVIOUS
<1>5. /\ one \o w \in Seq(E) /\ Len(one \o w) = Len(one) + Len(w)
      /\ \A i \in 1..Len(one) : (one \o w)[i] = one[i]
      /\ \A i \in Len(one) + 1..Len(one) + Len(w) : (one \o w)[i] = w[i - Len(one)]
  BY ONLY <1>2, w \in Seq(E), JoinFacts
<1>6. /\ n \in Nat /\ q \in Seq(E) /\ Len(q) = 1 + n /\ \A i \in 1..1 : q[i] = one[i]
      /\ \A i \in 2..1 + n : q[i] = w[i - 1]
  BY <1>2, <1>3, <1>4, <1>5
<1>7. ASSUME NEW j \in 1..n PROVE q[j + 1] = w[j]
  <2>1. j + 1 \in 2..1 + n /\ (j + 1) - 1 = j
    BY <1>6
  <2> QED
    BY <1>6, <2>1
<1>8. q[1] = c
  BY <1>2, <1>6
<1> QED
  BY <1>1, <1>3, <1>4, <1>6, <1>7, <1>8

\* LexLess by characters.
LEMMA LexIs ==
  ASSUME NEW u \in Seq(Int), NEW w \in Seq(Int)
  PROVE  LexLess(u, w) <=>
           \/ Len(u) < Len(w) /\ \A j \in 1..Len(u) : u[j] = w[j]
           \/ \E i \in 1..Len(u) : /\ i \in 1..Len(w) /\ u[i] < w[i]
                                   /\ \A j \in 1..i - 1 : u[j] = w[j]
<1>1. PICK m : m = Len(u)
  OBVIOUS
<1>2. PICK n : n = Len(w)
  OBVIOUS
<1>3. m \in Nat /\ n \in Nat /\ DOMAIN u = 1..m /\ DOMAIN w = 1..n
  BY <1>1, <1>2
<1>4. ASSUME NEW q \in Seq(Int), NEW k \in Nat, k <= Len(q)
      PROVE  /\ SubSeq(q, 1, k) \in Seq(Int) /\ Len(SubSeq(q, 1, k)) = k
             /\ \A j \in 1..k : SubSeq(q, 1, k)[j] = q[j]
  <2>1. 0 + k = k /\ 0 + 1 = 1 /\ 0 \in Nat /\ \A j \in 1..k : 0 + j = j
    OBVIOUS
  <2>2. /\ SubSeq(q, 0 + 1, 0 + k) \in Seq(Int) /\ Len(SubSeq(q, 0 + 1, 0 + k)) = k
        /\ \A j \in 1..k : SubSeq(q, 0 + 1, 0 + k)[j] = q[0 + j]
    BY <1>4, <2>1, PartFacts
  <2> QED
    BY <2>1, <2>2
<1>5. ASSUME m < n PROVE SubSeq(w, 1, m) = u <=> \A j \in 1..m : u[j] = w[j]
  <2>1. PICK q : q = SubSeq(w, 1, m)
    OBVIOUS
  <2>2. q \in Seq(Int) /\ Len(q) = m /\ \A j \in 1..m : q[j] = w[j]
    BY <1>2, <1>3, <1>4, <1>5, <2>1
  <2>3. (\A j \in 1..m : q[j] = u[j]) => q = u
    BY <1>1, <2>2, SameSeq
  <2> QED
    BY <2>1, <2>2, <2>3
<1>6. ASSUME NEW i \in 1..m, i \in 1..n
      PROVE  SubSeq(u, 1, i - 1) = SubSeq(w, 1, i - 1) <=> \A j \in 1..i - 1 : u[j] = w[j]
  <2>1. PICK k : k = i - 1
    OBVIOUS
  <2>2. k \in Nat /\ k <= m /\ k <= n
    BY <1>3, <1>6, <2>1
  <2>3. PICK q : q = SubSeq(u, 1, k)
    OBVIOUS
  <2>4. PICK r : r = SubSeq(w, 1, k)
    OBVIOUS
  <2>5. /\ q \in Seq(Int) /\ Len(q) = k /\ \A j \in 1..k : q[j] = u[j]
        /\ r \in Seq(Int) /\ Len(r) = k /\ \A j \in 1..k : r[j] = w[j]
    BY <1>1, <1>2, <1>4, <2>2, <2>3, <2>4
  <2>6. (\A j \in 1..k : q[j] = r[j]) => q = r
    BY <2>5, SameSeq
  <2> QED
    BY <2>1, <2>3, <2>4, <2>5, <2>6
<1>7. DOMAIN u \cap DOMAIN w = {i \in 1..m : i \in 1..n}
  BY <1>3
<1>8. CASE LexLess(u, w)
  BY <1>1, <1>2, <1>5, <1>6, <1>7, <1>8 DEF LexLess
<1>9. CASE \/ m < n /\ \A j \in 1..m : u[j] = w[j]
           \/ \E i \in 1..m : /\ i \in 1..n /\ u[i] < w[i]
                              /\ \A j \in 1..i - 1 : u[j] = w[j]
  BY <1>1, <1>2, <1>5, <1>6, <1>7, <1>9 DEF LexLess
<1> QED
  BY <1>1, <1>2, <1>8, <1>9

\* The empty string comes before all others, a string with a lesser first character
\* before one with a greater, and what follows the same character decides.
LEMMA LexFirst ==
  ASSUME NEW c \in Int, NEW w \in Seq(Int)
  PROVE  LexLess(<<>>, <<c>> \o w)
<1>1. PICK q : q = <<c>> \o w
  OBVIOUS
<1>2. q \in Seq(Int) /\ Len(q) = Len(w) + 1
  BY <1>1, PrependFacts
<1>3. PICK none : none = <<>>
  OBVIOUS
<1>4. none \in Seq(Int) /\ Len(none) < Len(q) /\ 1..Len(none) = {}
  <2>1. none \in Seq(Int) /\ Len(none) = 0
    BY <1>3
  <2> QED
    BY <1>2, <2>1
<1>5. LexLess(none, q)
  BY <1>2, <1>4, LexIs
<1> QED
  BY <1>1, <1>3, <1>5

LEMMA LexHead ==
  ASSUME NEW c \in Int, NEW d \in Int, c < d, NEW u \in Seq(Int), NEW w \in Seq(Int)
  PROVE  LexLess(<<c>> \o u, <<d>> \o w)
<1>1. PICK q : q = <<c>> \o u
  OBVIOUS
<1>2. PICK r : r = <<d>> \o w
  OBVIOUS
<1>3. /\ q \in Seq(Int) /\ Len(q) = Len(u) + 1 /\ q[1] = c
      /\ r \in Seq(Int) /\ Len(r) = Len(w) + 1 /\ r[1] = d
  BY <1>1, <1>2, PrependFacts
<1>4. 1 \in 1..Len(q) /\ 1 \in 1..Len(r) /\ 1..1 - 1 = {}
  BY <1>3
<1>5. LexLess(q, r)
  BY <1>3, <1>4, LexIs
<1> QED
  BY <1>1, <1>2, <1>5

LEMMA LexTail ==
  ASSUME NEW c \in Int, NEW u \in Seq(Int), NEW w \in Seq(Int), LexLess(u, w)
  PROVE  LexLess(<<c>> \o u, <<c>> \o w)
<1>1. PICK q : q = <<c>> \o u
  OBVIOUS
<1>2. PICK r : r = <<c>> \o w
  OBVIOUS
<1>3. PICK m : m = Len(u)
  OBVIOUS
<1>4. PICK n : n = Len(w)
  OBVIOUS
<1>5. /\ m \in Nat /\ n \in Nat
      /\ q \in Seq(Int) /\ Len(q) = m + 1 /\ q[1] = c /\ \A j \in 1..m : q[j + 1] = u[j]
      /\ r \in Seq(Int) /\ Len(r) = n + 1 /\ r[1] = c /\ \A j \in 1..n : r[j + 1] = w[j]
  BY <1>1, <1>2, <1>3, <1>4, PrependFacts
<1>6. ASSUME NEW k \in Nat, k <= m, k <= n, \A j \in 1..k : u[j] = w[j], NEW j \in 1..k + 1
      PROVE  q[j] = r[j]
  <2>1. CASE j = 1
    BY <1>5, <2>1
  <2>2. CASE j # 1
    <3>1. PICK i : i = j - 1
      OBVIOUS
    <3>2. i \in 1..k /\ i \in 1..m /\ i \in 1..n /\ j = i + 1
      BY <1>5, <1>6, <2>2, <3>1
    <3> QED
      BY <1>5, <1>6, <3>2
  <2> QED
    BY <2>1, <2>2
<1>7. \/ m < n /\ \A j \in 1..m : u[j] = w[j]
      \/ \E i \in 1..m : /\ i \in 1..n /\ u[i] < w[i]
                         /\ \A j \in 1..i - 1 : u[j] = w[j]
  BY <1>3, <1>4, LexIs
<1>8. CASE m < n /\ \A j \in 1..m : u[j] = w[j]
  <2>1. \A j \in 1..m + 1 : q[j] = r[j]
    <3>1. m \in Nat /\ m <= m /\ m <= n
      BY <1>5, <1>8
    <3> QED
      BY <1>6, <1>8, <3>1
  <2>2. Len(q) < Len(r) /\ \A j \in 1..Len(q) : q[j] = r[j]
    BY <1>5, <1>8, <2>1
  <2> QED
    BY <1>1, <1>2, <1>5, <2>2, LexIs
<1>9. ASSUME NEW i \in 1..m, i \in 1..n, u[i] < w[i], \A j \in 1..i - 1 : u[j] = w[j]
      PROVE  LexLess(q, r)
  <2>1. PICK k : k = i - 1
    OBVIOUS
  <2>2. PICK x : x = i + 1
    OBVIOUS
  <2>3. k \in Nat /\ k <= m /\ k <= n /\ k + 1 = x - 1 /\ x \in 1..m + 1 /\ x \in 1..n + 1
    BY <1>5, <1>9, <2>1, <2>2
  <2>4. \A j \in 1..x - 1 : q[j] = r[j]
    BY <1>6, <1>9, <2>1, <2>3
  <2>5. q[x] < r[x]
    BY <1>5, <1>9, <2>2
  <2>6. x \in 1..Len(q) /\ x \in 1..Len(r)
    BY <1>5, <2>3
  <2> QED
    BY <1>5, <2>4, <2>5, <2>6, LexIs
<1> QED
  BY <1>1, <1>2, <1>7, <1>8, <1>9

-----------------------------------------------------------------------------
(* What walk_dfa() calls back with.                                         *)

Callback == [str : Seq(Letters), val : Objects]

\* The characters of w lead from vertex v to u.
Leads(v, w, u) ==
  \E p \in [0..Len(w) -> Nat] :
    /\ p[0] = v /\ p[Len(w)] = u
    /\ \A i \in 0..Len(w) - 1 : [from |-> p[i], label |-> w[i + 1], vtx |-> p[i + 1]] \in Edges

\* r has the objects below v with the strings that lead to them, in their order.
Walked(r, v) ==
  /\ r \in Seq(Callback)
  /\ \A i \in 1..Len(r) : \E u \in DOMAIN vtxarray :
       Leads(v, r[i].str, u) /\ vtxarray[u].val = r[i].val
  /\ \A w \in Seq(Letters), u \in DOMAIN vtxarray :
       Leads(v, w, u) /\ vtxarray[u].val # NoObject =>
         \E i \in 1..Len(r) : r[i].str = w /\ r[i].val = vtxarray[u].val
  /\ \A i, j \in 1..Len(r) : i < j => LexLess(r[i].str, r[j].str)

\* The dfa's strings can be compared.
LEMMA StringsAre ==
  ASSUME NEW w \in Seq(Letters) PROVE w \in Seq(Int)
<1>1. /\ w \in [1..Len(w) -> Letters] /\ Len(w) \in Nat
      /\ Letters \subseteq Int
  BY TrieAssumption
<1>2. w \in [1..Len(w) -> Int]
  BY <1>1
<1> QED
  BY <1>1, <1>2

\* From the root these are the paths that Match was told by; the empty string leads
\* nowhere else, and any other one over the vertex at the end of its first edge.
LEMMA LeadsFromRoot ==
  ASSUME NEW w, Len(w) \in Nat, NEW u
  PROVE  Leads(0, w, u) <=> \E p : IsPath(Edges, p, w, Len(w), u)
  BY DEF Leads, IsPath

LEMMA LeadsNowhere ==
  ASSUME NEW v \in Nat, NEW w, Len(w) = 0, NEW u
  PROVE  Leads(v, w, u) <=> u = v
<1>1. 0..0 - 1 = {} /\ 0 \in 0..0
  OBVIOUS
<1>2. ASSUME u = v PROVE Leads(v, w, u)
  <2>1. PICK p : p = [i \in 0..0 |-> v]
    OBVIOUS
  <2>2. p \in [0..0 -> Nat] /\ p[0] = v
    BY <2>1
  <2> QED
    BY <1>1, <1>2, <2>2 DEF Leads
<1> QED
  BY <1>1, <1>2 DEF Leads

LEMMA LeadsOn ==
  ASSUME NEW v \in Nat, NEW c \in Letters, NEW x, [from |-> v, label |-> c, vtx |-> x] \in Edges,
         NEW w \in Seq(Letters), NEW u, Leads(x, w, u)
  PROVE  Leads(v, <<c>> \o w, u)
<1>1. PICK n : n = Len(w)
  OBVIOUS
<1>2. PICK q : q = <<c>> \o w
  OBVIOUS
<1>3. n \in Nat /\ Len(q) = n + 1 /\ q[1] = c /\ \A j \in 1..n : q[j + 1] = w[j]
  BY <1>1, <1>2, PrependFacts
<1>4. PICK p \in [0..n -> Nat] :
        /\ p[0] = x /\ p[n] = u
        /\ \A i \in 0..n - 1 : [from |-> p[i], label |-> w[i + 1], vtx |-> p[i + 1]] \in Edges
  BY <1>1 DEF Leads
<1>5. PICK r : r = [i \in 0..n + 1 |-> IF i = 0 THEN v ELSE p[i - 1]]
  OBVIOUS
<1>6. r[0] = v /\ \A i \in 1..n + 1 : r[i] = p[i - 1] /\ r[i] \in Nat
  <2>1. 0 \in 0..n + 1 /\ \A i \in 1..n + 1 : i \in 0..n + 1 /\ i # 0 /\ i - 1 \in 0..n
    BY <1>3
  <2> QED
    BY <1>4, <1>5, <2>1
<1>7. r \in [0..n + 1 -> Nat]
  <2>1. \A i \in 0..n + 1 : i = 0 \/ i \in 1..n + 1
    BY <1>3
  <2>2. \A i \in 0..n + 1 : r[i] \in Nat
    BY <1>6, <2>1
  <2> QED
    BY <1>5, <2>2
<1>8. r[n + 1] = u
  <2>1. n + 1 \in 1..n + 1 /\ (n + 1) - 1 = n
    BY <1>3
  <2> QED
    BY <1>4, <1>6, <2>1
<1>9. ASSUME NEW i \in 0..(n + 1) - 1
      PROVE  [from |-> r[i], label |-> q[i + 1], vtx |-> r[i + 1]] \in Edges
  <2>1. CASE i = 0
    <3>1. r[0 + 1] = x /\ q[0 + 1] = c
      <4>1. 1 \in 1..n + 1 /\ 1 - 1 = 0 /\ 0 + 1 = 1
        BY <1>3
      <4> QED
        BY <1>3, <1>4, <1>6, <4>1
    <3> QED
      BY <1>6, <2>1, <3>1
  <2>2. CASE i # 0
    <3>1. PICK k : k = i - 1
      OBVIOUS
    <3>2. k \in 0..n - 1 /\ i = k + 1 /\ i \in 1..n + 1 /\ i + 1 \in 1..n + 1 /\ (i + 1) - 1 = k + 1
          /\ k + 1 \in 1..n
      BY <1>3, <2>2, <3>1
    <3>3. r[i] = p[k] /\ r[i + 1] = p[k + 1] /\ q[i + 1] = w[k + 1]
      BY <1>3, <1>6, <3>1, <3>2
    <3> QED
      BY <1>4, <3>2, <3>3
  <2> QED
    BY <2>1, <2>2
<1>10. Leads(v, q, u)
  BY <1>3, <1>6, <1>7, <1>8, <1>9 DEF Leads
<1> QED
  BY <1>2, <1>10

LEMMA LeadsBack ==
  ASSUME NEW v \in Nat, NEW w \in Seq(Letters), Len(w) # 0, NEW u, Leads(v, w, u)
  PROVE  \E x, rest : /\ [from |-> v, label |-> w[1], vtx |-> x] \in Edges
                      /\ rest \in Seq(Letters) /\ w = <<w[1]>> \o rest /\ Leads(x, rest, u)
<1>1. PICK n : n = Len(w) - 1
  OBVIOUS
<1>2. n \in Nat /\ Len(w) = n + 1 /\ w[1] \in Letters
  BY <1>1
<1>3. PICK p \in [0..n + 1 -> Nat] :
        /\ p[0] = v /\ p[n + 1] = u
        /\ \A i \in 0..(n + 1) - 1 : [from |-> p[i], label |-> w[i + 1], vtx |-> p[i + 1]] \in Edges
  BY <1>2 DEF Leads
<1>4. PICK one, rest : one = 1 /\ rest = SubSeq(w, one + 1, one + n)
  OBVIOUS
<1>5. rest \in Seq(Letters) /\ Len(rest) = n /\ \A j \in 1..n : rest[j] = w[1 + j]
  <2>1. one \in Nat /\ one + n <= Len(w)
    BY <1>2, <1>4
  <2>2. /\ SubSeq(w, one + 1, one + n) \in Seq(Letters) /\ Len(SubSeq(w, one + 1, one + n)) = n
        /\ \A j \in 1..n : SubSeq(w, one + 1, one + n)[j] = w[one + j]
    BY ONLY <1>2, <2>1, w \in Seq(Letters), PartFacts
  <2> QED
    BY <1>4, <2>2
<1>6. w = <<w[1]>> \o rest
  <2>1. PICK q : q = <<w[1]>> \o rest
    OBVIOUS
  <2>2. /\ q \in Seq(Letters) /\ Len(q) = n + 1 /\ q[1] = w[1]
        /\ \A j \in 1..n : q[j + 1] = rest[j]
    BY <1>2, <1>5, <2>1, PrependFacts
  <2>3. ASSUME NEW j \in 1..n + 1 PROVE w[j] = q[j]
    <3>1. CASE j = 1
      BY <2>2, <3>1
    <3>2. CASE j # 1
      <4>1. PICK i : i = j - 1
        OBVIOUS
      <4>2. i \in 1..n /\ j = i + 1 /\ 1 + i = i + 1
        BY <1>2, <3>2, <4>1
      <4> QED
        BY <1>5, <2>2, <4>2
    <3> QED
      BY <3>1, <3>2
  <2>4. w = q
    BY <1>2, <2>2, <2>3, SameSeq
  <2> QED
    BY <2>1, <2>4
<1>7. [from |-> v, label |-> w[1], vtx |-> p[1]] \in Edges
  <2>1. 0 \in 0..(n + 1) - 1 /\ 0 + 1 = 1
    BY <1>2
  <2> QED
    BY <1>3, <2>1
<1>8. PICK q : q = [i \in 0..n |-> p[i + 1]]
  OBVIOUS
<1>9. /\ q \in [0..n -> Nat] /\ \A i \in 0..n : q[i] = p[i + 1]
  <2>1. \A i \in 0..n : i + 1 \in 0..n + 1
    BY <1>2
  <2> QED
    BY <1>8, <2>1
<1>10. q[0] = p[1] /\ q[n] = u
  <2>1. 0 \in 0..n /\ n \in 0..n /\ 0 + 1 = 1
    BY <1>2
  <2> QED
    BY <1>3, <1>9, <2>1
<1>11. ASSUME NEW i \in 0..n - 1
       PROVE  [from |-> q[i], label |-> rest[i + 1], vtx |-> q[i + 1]] \in Edges
  <2>1. PICK k : k = i + 1
    OBVIOUS
  <2>2. k \in 0..(n + 1) - 1 /\ k \in 1..n /\ i \in 0..n /\ k \in 0..n /\ 1 + k = k + 1
    BY <1>2, <2>1
  <2>3. [from |-> p[k], label |-> w[k + 1], vtx |-> p[k + 1]] \in Edges
    BY <1>3, <2>2
  <2>4. q[i] = p[k] /\ q[k] = p[k + 1] /\ rest[k] = w[k + 1]
    BY <1>5, <1>9, <2>1, <2>2
  <2> QED
    BY <2>1, <2>3, <2>4
<1>12. Leads(p[1], rest, u)
  BY <1>5, <1>9, <1>10, <1>11 DEF Leads
<1> QED
  BY <1>5, <1>6, <1>7, <1>12

\* The parts of walk_dfa()'s recursion, where f says what the walk makes of the
\* vertices below: the vertex's own object, what lies behind one edge, and all of it.
OwnObject(v) ==
  IF vtxarray[v].val = NoObject THEN <<>> ELSE <<[str |-> <<>>, val |-> vtxarray[v].val]>>
EdgeBelow(f, e) ==
  [i \in DOMAIN f[e.vtx] |-> [str |-> <<e.label>> \o f[e.vtx][i].str, val |-> f[e.vtx][i].val]]
Visit(f, v) ==
  OwnObject(v) \o FlattenSeq([i \in DOMAIN vtxarray[v].set |-> EdgeBelow(f, vtxarray[v].set[i])])

\* It only looks at later vertices.
LEMMA VisitSame ==
  ASSUME TypeOK, CallInv, NEW v \in DOMAIN vtxarray, NEW g, NEW h,
         \A x \in DOMAIN vtxarray : v < x => g[x] = h[x]
  PROVE  Visit(g, v) = Visit(h, v)
<1>1. PICK set : set = vtxarray[v].set
  OBVIOUS
<1>2. \A i \in DOMAIN set : g[set[i].vtx] = h[set[i].vtx]
  BY <1>1, SetFacts, TypeSplit
<1>3. \A i \in DOMAIN set : EdgeBelow(g, set[i]) = EdgeBelow(h, set[i])
  BY <1>2 DEF EdgeBelow
<1>4. [i \in DOMAIN set |-> EdgeBelow(g, set[i])] = [i \in DOMAIN set |-> EdgeBelow(h, set[i])]
  BY <1>3
<1> QED
  BY <1>1, <1>4 DEF Visit

\* The function that walk_dfa()'s recursion defines exists: edges lead to later vertices.
LEMMA VisitExists ==
  ASSUME TypeOK, CallInv
  PROVE  \E f : f = [v \in DOMAIN vtxarray |-> Visit(f, v)]
<1>1. PICK n : n = vtxcount
  OBVIOUS
<1>2. n \in Nat /\ DOMAIN vtxarray = 0..n - 1
  BY <1>1 DEF CallInv, TypeOK
<1> DEFINE Solves(g, k) == \A v \in k..n - 1 : g[v] = Visit(g, v)
           T == {k \in 0..n : \E g : Solves(g, k)}
<1>3. n \in T
  <2>1. n \in 0..n /\ n..n - 1 = {}
    BY <1>2
  <2>2. \A g : Solves(g, n)
    BY <2>1
  <2> HIDE DEF Solves
  <2> QED
    BY <2>1, <2>2
<1>4. PICK k \in T : \A j \in T : k <= j
  <2>1. T \in SUBSET Nat
    BY <1>2
  <2> HIDE DEF T
  <2> QED
    BY <1>3, <2>1, LeastNatural
<1>5. k \in 0..n
  OBVIOUS
<1>6. PICK g : Solves(g, k)
  OBVIOUS
<1>7. k = 0
  <2> SUFFICES ASSUME k # 0 PROVE FALSE
    OBVIOUS
  <2>1. PICK d : d = k - 1
    OBVIOUS
  <2>2. d \in 0..n /\ d \in 0..n - 1 /\ ~(k <= d) /\ \A v \in d..n - 1 : v = d \/ v \in k..n - 1
    BY <1>2, <1>5, <2>1
  <2>3. PICK h : h = [v \in 0..n - 1 |-> IF v = d THEN Visit(g, d) ELSE g[v]]
    OBVIOUS
  <2>4. h[d] = Visit(g, d) /\ \A v \in 0..n - 1 : v # d => h[v] = g[v]
    BY <2>2, <2>3
  <2>5. ASSUME NEW v \in d..n - 1 PROVE h[v] = Visit(h, v)
    <3>1. v \in 0..n - 1 /\ d <= v /\ d \in Nat /\ v \in Nat
      BY <1>2, <2>2
    <3>2. \A x \in DOMAIN vtxarray : v < x => g[x] = h[x]
      BY <1>2, <2>4, <3>1
    <3>3. Visit(g, v) = Visit(h, v)
      BY <1>2, <3>1, <3>2, VisitSame
    <3>4. CASE v = d
      BY <2>4, <3>3, <3>4
    <3>5. CASE v # d
      <4>1. v \in k..n - 1
        BY <2>2, <3>5
      <4>2. g[v] = Visit(g, v)
        BY <1>6, <4>1
      <4> QED
        BY <2>4, <3>1, <3>3, <3>5, <4>2
    <3> QED
      BY <3>4, <3>5
  <2>6. Solves(h, d)
    BY <2>5
  <2>7. d \in T
    <3> HIDE DEF Solves
    <3> QED
      BY <2>2, <2>6
  <2> HIDE DEF T
  <2> QED
    BY <1>4, <2>2, <2>7
<1>8. PICK f : f = [v \in DOMAIN vtxarray |-> g[v]]
  OBVIOUS
<1>9. \A v \in DOMAIN vtxarray : f[v] = g[v] /\ g[v] = Visit(g, v)
  BY <1>2, <1>6, <1>7, <1>8
<1>10. \A v \in DOMAIN vtxarray : f[v] = Visit(f, v)
  <2> SUFFICES ASSUME NEW v \in DOMAIN vtxarray PROVE f[v] = Visit(f, v)
    OBVIOUS
  <2>1. Visit(g, v) = Visit(f, v)
    BY <1>9, VisitSame
  <2> QED
    BY <1>9, <2>1
<1>11. f = [v \in DOMAIN vtxarray |-> f[v]]
  BY <1>8
<1> QED
  BY <1>10, <1>11

\* walk_dfa() starts it at the root.
LEMMA WalkIs ==
  ASSUME TypeOK, CallInv, space = "live"
  PROVE  \E f : WalkDfa = f[0] /\ \A v \in DOMAIN vtxarray : f[v] = Visit(f, v)
<1>1. PICK f : f = CHOOSE g : g = [v \in DOMAIN vtxarray |-> Visit(g, v)]
  OBVIOUS
<1>2. f = [v \in DOMAIN vtxarray |-> Visit(f, v)]
  BY <1>1, VisitExists
<1>3. WalkDfa = f[0]
  BY <1>1 DEF WalkDfa, Visit, OwnObject, EdgeBelow
<1>4. \A v \in DOMAIN vtxarray : f[v] = Visit(f, v)
  <2>1. \A g : g = [v \in DOMAIN vtxarray |-> Visit(f, v)] =>
          \A v \in DOMAIN vtxarray : g[v] = Visit(f, v)
    OBVIOUS
  <2> QED
    BY <1>2, <2>1
<1> QED
  BY <1>3, <1>4

\* b is right about what lies behind e, an edge of v.
EdgeRight(b, v, e) ==
  /\ b \in Seq(Callback)
  /\ \A j \in 1..Len(b) : \E u \in DOMAIN vtxarray :
       Leads(v, b[j].str, u) /\ vtxarray[u].val = b[j].val
  /\ \A j \in 1..Len(b) : \E w \in Seq(Letters) : b[j].str = <<e.label>> \o w
  /\ \A w \in Seq(Letters), u \in DOMAIN vtxarray :
       Leads(e.vtx, w, u) /\ vtxarray[u].val # NoObject =>
         \E j \in 1..Len(b) : b[j].str = <<e.label>> \o w /\ b[j].val = vtxarray[u].val
  /\ \A i, j \in 1..Len(b) : i < j => LexLess(b[i].str, b[j].str)

\* What lies behind an edge, when the walk is right about the vertex it leads to.
LEMMA PieceWalked ==
  ASSUME TypeOK, CallInv, NEW v \in DOMAIN vtxarray, NEW e,
         e.label \in Letters, e.vtx \in DOMAIN vtxarray,
         [from |-> v, label |-> e.label, vtx |-> e.vtx] \in Edges,
         NEW f, Walked(f[e.vtx], e.vtx), NEW b, b = EdgeBelow(f, e)
  PROVE  EdgeRight(b, v, e)
<1>1. PICK c, x, r : c = e.label /\ x = e.vtx /\ r = f[e.vtx]
  OBVIOUS
<1>2. /\ c \in Letters /\ x \in DOMAIN vtxarray /\ v \in Nat
      /\ [from |-> v, label |-> c, vtx |-> x] \in Edges
  <2>1. DOMAIN vtxarray \subseteq Nat
    BY DEF TypeOK, CallInv
  <2> QED
    BY <1>1, <2>1
<1>3. PICK n : n = Len(r)
  OBVIOUS
<1>4. n \in Nat /\ DOMAIN r = 1..n /\ \A j \in 1..n : r[j] \in Callback
  <2>1. r \in Seq(Callback)
    BY <1>1 DEF Walked
  <2> QED
    BY <1>3, <2>1, SeqFacts
<1>5. \A j \in 1..n : r[j].str \in Seq(Letters) /\ r[j].val \in Objects
  BY <1>4 DEF Callback
<1>6. b = [j \in 1..n |-> [str |-> <<c>> \o r[j].str, val |-> r[j].val]]
  BY <1>1, <1>4 DEF EdgeBelow
<1>7. \A j \in 1..n : b[j].str = <<c>> \o r[j].str /\ b[j].val = r[j].val
  BY <1>6
<1>8. \A j \in 1..n : b[j] \in Callback
  <2> SUFFICES ASSUME NEW j \in 1..n PROVE b[j] \in Callback
    OBVIOUS
  <2>1. <<c>> \o r[j].str \in Seq(Letters)
    BY <1>2, <1>5, PrependFacts
  <2>2. b[j] = [str |-> <<c>> \o r[j].str, val |-> r[j].val]
    BY <1>6
  <2> QED
    BY <1>5, <2>1, <2>2 DEF Callback
<1>9. b \in Seq(Callback) /\ Len(b) = n
  <2>1. b \in [1..n -> Callback]
    BY <1>6, <1>8
  <2> QED
    BY <1>4, <2>1
<1>10. ASSUME NEW j \in 1..n
       PROVE  \E u \in DOMAIN vtxarray : Leads(v, b[j].str, u) /\ vtxarray[u].val = b[j].val
  <2>1. PICK u \in DOMAIN vtxarray : Leads(x, r[j].str, u) /\ vtxarray[u].val = r[j].val
    BY <1>1, <1>3 DEF Walked
  <2>2. Leads(v, <<c>> \o r[j].str, u)
    BY <1>2, <1>5, <2>1, LeadsOn
  <2> QED
    BY <1>7, <2>1, <2>2
<1>11. ASSUME NEW w \in Seq(Letters), NEW u \in DOMAIN vtxarray,
              Leads(x, w, u), vtxarray[u].val # NoObject
       PROVE  \E j \in 1..n : b[j].str = <<c>> \o w /\ b[j].val = vtxarray[u].val
  <2>1. PICK j \in 1..n : r[j].str = w /\ r[j].val = vtxarray[u].val
    BY <1>1, <1>3, <1>11 DEF Walked
  <2> QED
    BY <1>7, <2>1
<1>12. ASSUME NEW i \in 1..n, NEW j \in 1..n, i < j PROVE LexLess(b[i].str, b[j].str)
  <2>1. LexLess(r[i].str, r[j].str)
    BY <1>1, <1>3, <1>12 DEF Walked
  <2>2. c \in Int /\ r[i].str \in Seq(Int) /\ r[j].str \in Seq(Int)
    <3>1. Letters \subseteq Int
      BY TrieAssumption
    <3> QED
      BY <1>2, <1>5, <3>1, StringsAre
  <2>3. LexLess(<<c>> \o r[i].str, <<c>> \o r[j].str)
    BY <2>1, <2>2, LexTail
  <2> QED
    BY <1>7, <2>3
<1> QED
  BY ZenonT(30), <1>1, <1>5, <1>7, <1>9, <1>10, <1>11, <1>12 DEF EdgeRight

\* The walk from a vertex, when it is right about the vertices its edges lead to.
LEMMA VisitWalked ==
  ASSUME TypeOK, CallInv, NEW v \in DOMAIN vtxarray, NEW f,
         \A i \in DOMAIN vtxarray[v].set : Walked(f[vtxarray[v].set[i].vtx], vtxarray[v].set[i].vtx)
  PROVE  Walked(Visit(f, v), v)
<1>1. PICK set, n : set = vtxarray[v].set /\ n = Len(vtxarray[v].set)
  OBVIOUS
<1>2. /\ n \in Nat /\ DOMAIN set = 1..n /\ v \in Nat
      /\ \A i \in 1..n : /\ set[i].label \in Letters /\ set[i].label \in Int
                         /\ set[i].vtx \in DOMAIN vtxarray
      /\ \A i, j \in 1..n : i < j => set[i].label < set[j].label
  <2>1. DOMAIN vtxarray \subseteq Nat
    BY DEF TypeOK, CallInv
  <2> QED
    BY <1>1, <2>1, SetFacts, TypeSplit, TrieAssumption DEF Sorted
<1>3. \A i \in 1..n : [from |-> v, label |-> set[i].label, vtx |-> set[i].vtx] \in Edges
  BY <1>1, <1>2, EdgesAre
<1>4. PICK seqs : seqs = [i \in 1..n |-> EdgeBelow(f, set[i])]
  OBVIOUS
<1>5. ASSUME NEW i \in 1..n PROVE EdgeRight(seqs[i], v, set[i])
  <2>1. PICK e, b : e = set[i] /\ b = EdgeBelow(f, e)
    OBVIOUS
  <2>2. /\ e.label \in Letters /\ e.vtx \in DOMAIN vtxarray /\ Walked(f[e.vtx], e.vtx)
        /\ [from |-> v, label |-> e.label, vtx |-> e.vtx] \in Edges
    BY <1>1, <1>2, <1>3, <2>1
  <2>3. EdgeRight(b, v, e)
    BY <2>1, <2>2, PieceWalked
  <2>4. seqs[i] = b
    BY <1>4, <2>1
  <2> QED
    BY <2>1, <2>3, <2>4
<1>6. PICK flat : flat = FlattenSeq(seqs)
  OBVIOUS
<1>7. flat \in Seq(Callback) /\ Pieced(flat, seqs, n)
  <2>1. seqs = [i \in 1..n |-> seqs[i]]
    BY <1>4
  <2>2. \A i \in 1..n : seqs[i] \in Seq(Callback)
    BY <1>5 DEF EdgeRight
  <2>3. FlattenSeq(seqs) \in Seq(Callback) /\ Pieced(FlattenSeq(seqs), seqs, n)
    BY ONLY <1>2, <2>1, <2>2, FlattenFacts
  <2> QED
    BY <1>6, <2>3
<1>8. PICK m : m = Len(flat)
  OBVIOUS
<1>9. m \in Nat
  BY <1>7, <1>8
<1>10. ASSUME NEW k \in 1..m
       PROVE  /\ \E u \in DOMAIN vtxarray : Leads(v, flat[k].str, u) /\ vtxarray[u].val = flat[k].val
              /\ LexLess(<<>>, flat[k].str)
  <2>1. PICK i \in 1..n : \E j \in 1..Len(seqs[i]) : flat[k] = seqs[i][j]
    BY <1>7, <1>8 DEF Pieced
  <2>2. PICK b, e : b = seqs[i] /\ e = set[i]
    OBVIOUS
  <2>3. EdgeRight(b, v, e)
    BY <1>5, <2>2
  <2>4. PICK j \in 1..Len(b) : flat[k] = b[j]
    BY <2>1, <2>2
  <2>5. PICK w \in Seq(Letters) : b[j].str = <<e.label>> \o w
    BY ONLY <2>3, <2>4 DEF EdgeRight
  <2>6. LexLess(<<>>, flat[k].str)
    BY <1>2, <2>2, <2>4, <2>5, StringsAre, LexFirst
  <2>7. \E u \in DOMAIN vtxarray : Leads(v, b[j].str, u) /\ vtxarray[u].val = b[j].val
    BY ONLY <2>3, <2>4 DEF EdgeRight
  <2> QED
    BY <2>4, <2>6, <2>7
<1>11. ASSUME NEW k \in 1..m, NEW l \in 1..m, k < l
       PROVE  LexLess(flat[k].str, flat[l].str)
  <2>1. PICK i \in 1..n, x \in 1..n : \E j \in 1..Len(seqs[i]), y \in 1..Len(seqs[x]) :
          /\ flat[k] = seqs[i][j] /\ flat[l] = seqs[x][y]
          /\ i < x \/ (i = x /\ j < y)
    BY <1>7, <1>8, <1>11 DEF Pieced
  <2>2. PICK j \in 1..Len(seqs[i]), y \in 1..Len(seqs[x]) :
          /\ flat[k] = seqs[i][j] /\ flat[l] = seqs[x][y]
          /\ i < x \/ (i = x /\ j < y)
    BY <2>1
  <2>3. CASE i < x
    <3>0. PICK b, e, h, g : b = seqs[i] /\ e = set[i] /\ h = seqs[x] /\ g = set[x]
      OBVIOUS
    <3>1. PICK w \in Seq(Letters) : flat[k].str = <<e.label>> \o w
      <4>1. EdgeRight(b, v, e) /\ j \in 1..Len(b) /\ flat[k] = b[j]
        BY <1>5, <2>2, <3>0
      <4>2. \E w \in Seq(Letters) : b[j].str = <<e.label>> \o w
        BY ONLY <4>1 DEF EdgeRight
      <4> QED
        BY <4>1, <4>2
    <3>2. PICK q \in Seq(Letters) : flat[l].str = <<g.label>> \o q
      <4>1. EdgeRight(h, v, g) /\ y \in 1..Len(h) /\ flat[l] = h[y]
        BY <1>5, <2>2, <3>0
      <4>2. \E t \in Seq(Letters) : h[y].str = <<g.label>> \o t
        BY ONLY <4>1 DEF EdgeRight
      <4> QED
        BY <4>1, <4>2
    <3>3. PICK c, d : c = e.label /\ d = g.label
      OBVIOUS
    <3>4. c \in Int /\ d \in Int /\ c < d
      BY <1>2, <2>3, <3>0, <3>3
    <3>5. LexLess(<<c>> \o w, <<d>> \o q)
      BY <3>4, StringsAre, LexHead
    <3> QED
      BY <3>1, <3>2, <3>3, <3>5
  <2>4. CASE i = x /\ j < y
    BY <1>5, <2>2, <2>4 DEF EdgeRight
  <2> QED
    BY <2>2, <2>3, <2>4
<1>12. ASSUME NEW w \in Seq(Letters), NEW u \in DOMAIN vtxarray,
              Leads(v, w, u), vtxarray[u].val # NoObject, Len(w) # 0
       PROVE  \E k \in 1..m : flat[k].str = w /\ flat[k].val = vtxarray[u].val
  <2>1. PICK x, rest : /\ [from |-> v, label |-> w[1], vtx |-> x] \in Edges
                       /\ rest \in Seq(Letters) /\ w = <<w[1]>> \o rest /\ Leads(x, rest, u)
    BY <1>2, <1>12, LeadsBack
  <2>2. PICK i \in 1..n : set[i].label = w[1] /\ set[i].vtx = x
    <3>1. PICK e : e = [from |-> v, label |-> w[1], vtx |-> x]
      OBVIOUS
    <3>2. /\ e \in Edges /\ e.from = v /\ e.label = w[1] /\ e.vtx = x
      BY <2>1, <3>1
    <3>3. \E i \in 1..Len(vtxarray[e.from].set) : /\ vtxarray[e.from].set[i].label = e.label
                                                  /\ vtxarray[e.from].set[i].vtx = e.vtx
      BY <3>2, EdgeEnds, TypeSplit
    <3> QED
      BY <1>1, <3>2, <3>3
  <2>3. PICK j \in 1..Len(seqs[i]) : /\ seqs[i][j].str = <<set[i].label>> \o rest
                                     /\ seqs[i][j].val = vtxarray[u].val
    BY <1>5, <1>12, <2>1, <2>2 DEF EdgeRight
  <2>4. PICK k \in 1..m : flat[k] = seqs[i][j]
    BY <1>7, <1>8 DEF Pieced
  <2> QED
    BY <2>1, <2>2, <2>3, <2>4
<1>13. PICK own, r : own = OwnObject(v) /\ r = own \o flat
  OBVIOUS
<1>14. Visit(f, v) = r
  BY <1>1, <1>2, <1>4, <1>6, <1>13 DEF Visit
<1>15. CASE vtxarray[v].val = NoObject
  <2>1. r = flat
    BY <1>7, <1>13, <1>15 DEF OwnObject
  <2>2. ASSUME NEW w \in Seq(Letters), NEW u \in DOMAIN vtxarray,
               Leads(v, w, u), vtxarray[u].val # NoObject
        PROVE  \E k \in 1..m : flat[k].str = w /\ flat[k].val = vtxarray[u].val
    <3>1. Len(w) # 0
      BY <1>2, <1>15, <2>2, LeadsNowhere
    <3> QED
      BY <1>12, <2>2, <3>1
  <2>3. Walked(flat, v)
    BY <1>7, <1>8, <1>10, <1>11, <2>2 DEF Walked
  <2> QED
    BY <1>14, <2>1, <2>3
<1>16. CASE vtxarray[v].val # NoObject
  <2>1. PICK first : first = [str |-> <<>>, val |-> vtxarray[v].val]
    OBVIOUS
  <2>2. /\ own = <<first>> /\ first \in Callback /\ first.str = <<>> /\ Len(first.str) = 0
        /\ first.val = vtxarray[v].val
    <3>1. vtxarray[v].val \in Objects /\ <<>> \in Seq(Letters) /\ Len(<<>>) = 0
      BY <1>16 DEF TypeOK
    <3> QED
      BY <1>13, <1>16, <2>1, <3>1 DEF OwnObject, Callback
  <2>3. /\ r \in Seq(Callback) /\ Len(r) = m + 1 /\ r[1] = first
        /\ \A j \in 1..m : r[j + 1] = flat[j]
    BY <1>7, <1>8, <1>13, <2>2, PrependFacts
  <2>4. ASSUME NEW k \in 1..m + 1
        PROVE  k = 1 \/ \E j \in 1..m : k = j + 1 /\ r[k] = flat[j]
    <3>1. CASE k # 1
      <4>1. PICK j : j = k - 1
        OBVIOUS
      <4>2. j \in 1..m /\ k = j + 1
        BY <1>9, <3>1, <4>1
      <4> QED
        BY <2>3, <4>2
    <3> QED
      BY <3>1
  <2>5. ASSUME NEW k \in 1..m + 1
        PROVE  \E u \in DOMAIN vtxarray : Leads(v, r[k].str, u) /\ vtxarray[u].val = r[k].val
    <3>1. CASE k = 1
      <4>1. Leads(v, first.str, v)
        BY <1>2, <2>2, LeadsNowhere
      <4> QED
        BY <2>2, <2>3, <3>1, <4>1
    <3>2. CASE k # 1
      BY <1>10, <2>4, <3>2
    <3> QED
      BY <3>1, <3>2
  <2>6. ASSUME NEW w \in Seq(Letters), NEW u \in DOMAIN vtxarray,
               Leads(v, w, u), vtxarray[u].val # NoObject
        PROVE  \E k \in 1..m + 1 : r[k].str = w /\ r[k].val = vtxarray[u].val
    <3>1. CASE Len(w) = 0
      <4>1. w = <<>> /\ u = v
        BY <1>2, <2>6, <3>1, LeadsNowhere
      <4>2. 1 \in 1..m + 1
        BY <1>9
      <4> QED
        BY <2>2, <2>3, <4>1, <4>2
    <3>2. CASE Len(w) # 0
      <4>1. PICK k \in 1..m : flat[k].str = w /\ flat[k].val = vtxarray[u].val
        BY <1>12, <2>6, <3>2
      <4>2. k + 1 \in 1..m + 1
        BY <1>9
      <4> QED
        BY <2>3, <4>1, <4>2
    <3> QED
      BY <3>1, <3>2
  <2>7. ASSUME NEW k \in 1..m + 1, NEW l \in 1..m + 1, k < l
        PROVE  LexLess(r[k].str, r[l].str)
    <3>1. PICK j \in 1..m : l = j + 1 /\ r[l] = flat[j]
      <4>1. l # 1
        BY <1>9, <2>7
      <4> QED
        BY <2>4, <4>1
    <3>2. CASE k = 1
      BY <1>10, <2>2, <2>3, <3>1, <3>2
    <3>3. CASE k # 1
      <4>1. PICK i \in 1..m : k = i + 1 /\ r[k] = flat[i]
        BY <2>4, <3>3
      <4>2. i < j
        BY <1>9, <2>7, <3>1, <4>1
      <4> QED
        BY <1>11, <3>1, <4>1, <4>2
    <3> QED
      BY <3>2, <3>3
  <2>8. Walked(r, v)
    BY <2>3, <2>5, <2>6, <2>7 DEF Walked
  <2> QED
    BY <1>14, <2>8
<1> QED
  BY <1>15, <1>16

\* The walk from every vertex is right: there is no last vertex from which it is not.
LEMMA AllWalked ==
  ASSUME TypeOK, CallInv, NEW f, \A v \in DOMAIN vtxarray : f[v] = Visit(f, v),
         NEW v \in DOMAIN vtxarray
  PROVE  Walked(f[v], v)
<1>1. PICK n : n = vtxcount
  OBVIOUS
<1>2. n \in Nat /\ DOMAIN vtxarray = 0..n - 1
  BY <1>1 DEF CallInv, TypeOK
<1> DEFINE T == {k \in 0..n - 1 : ~Walked(f[n - 1 - k], n - 1 - k)}
<1>3. T = {}
  <2> SUFFICES ASSUME T # {} PROVE FALSE
    OBVIOUS
  <2>1. PICK k \in T : \A j \in T : k <= j
    <3>1. T \in SUBSET Nat
      BY <1>2
    <3> HIDE DEF T
    <3> QED
      BY <3>1, LeastNatural
  <2>2. PICK x : x = n - 1 - k
    OBVIOUS
  <2>3. k \in 0..n - 1 /\ x \in DOMAIN vtxarray /\ ~Walked(f[x], x)
    BY <1>2, <2>2
  <2>4. ASSUME NEW y \in DOMAIN vtxarray, x < y PROVE Walked(f[y], y)
    <3>1. PICK j : j = n - 1 - y
      OBVIOUS
    <3>2. j \in 0..n - 1 /\ ~(k <= j) /\ n - 1 - j = y
      BY <1>2, <2>2, <2>3, <2>4, <3>1
    <3>3. j \notin T
      <4> HIDE DEF T
      <4> QED
        BY <2>1, <3>2
    <3> QED
      BY <3>2, <3>3
  <2>5. \A i \in DOMAIN vtxarray[x].set :
          vtxarray[x].set[i].vtx \in DOMAIN vtxarray /\ x < vtxarray[x].set[i].vtx
    BY <2>3, SetFacts, TypeSplit
  <2>6. Walked(Visit(f, x), x)
    BY <2>3, <2>4, <2>5, VisitWalked
  <2> QED
    BY <2>3, <2>6
<1>4. n - 1 - v \in 0..n - 1 /\ n - 1 - (n - 1 - v) = v
  BY <1>2
<1>5. n - 1 - v \notin T
  BY <1>3
<1> QED
  BY <1>4, <1>5

\* walk_dfa() calls back for each pattern that was entered, once, in the order of the
\* strings and with its object, and for nothing else: not for what a failed call left
\* behind, and not twice.
THEOREM WalkCorrect == Spec => []WalkInOrder
<1>1. ASSUME IInv, space = "live" PROVE WalkInOrder
  <2>1. PICK walk, map : walk = WalkDfa /\ map = Contents
    OBVIOUS
  <2>2. map = [w \in {p \in Probes : Match(p) # NoObject} |-> Match(w)]
    BY <1>1, <2>1 DEF Contents
  <2>3. \A w : w \in DOMAIN map <=> w \in Probes /\ Match(w) # NoObject
    BY <2>2
  <2>4. \A w \in DOMAIN map : map[w] = Match(w)
    BY <2>2
  <2>5. TypeOK /\ CallInv /\ 0 \in DOMAIN vtxarray /\ MatchKnown /\ ValuesInv
    BY <1>1, MatchRight DEF IInv, CallInv
  <2>6. Walked(walk, 0)
    <3>1. PICK f : WalkDfa = f[0] /\ \A v \in DOMAIN vtxarray : f[v] = Visit(f, v)
      BY <1>1, <2>5, WalkIs
    <3>2. Walked(f[0], 0)
      BY <2>5, <3>1, AllWalked
    <3> QED
      BY <2>1, <3>1, <3>2
  <2>7. /\ walk \in Seq(Callback) /\ Len(walk) \in Nat /\ DOMAIN walk = 1..Len(walk)
        /\ \A i \in 1..Len(walk) : walk[i] \in Callback
    <3>1. walk \in Seq(Callback)
      BY <2>6 DEF Walked
    <3> QED
      BY <3>1, SeqFacts
  <2>8. ASSUME NEW i \in 1..Len(walk)
        PROVE  \E w \in DOMAIN map : walk[i] = [str |-> w, val |-> map[w]]
    <3>1. PICK u \in DOMAIN vtxarray : Leads(0, walk[i].str, u) /\ vtxarray[u].val = walk[i].val
      BY <2>6 DEF Walked
    <3>2. PICK w, o : w \in Seq(Letters) /\ o \in Objects /\ walk[i] = [str |-> w, val |-> o]
      <4>1. walk[i] \in Callback
        BY <2>7
      <4> QED
        BY ONLY <4>1 DEF Callback
    <3>3. Leads(0, w, u) /\ vtxarray[u].val = o /\ o # NoObject
      BY <3>1, <3>2, TrieAssumption
    <3>4. PICK p : IsPath(Edges, p, w, Len(w), u)
      BY <3>2, <3>3, LeadsFromRoot
    <3>5. Match(w) = o
      BY <2>5, <3>2, <3>3, <3>4 DEF MatchKnown
    <3>6. PICK q \in Words : \E r : IsPath(Edges, r, q, Len(q), u)
      BY <2>5, <3>3 DEF ValuesInv
    <3>7. q \in Seq(Letters) /\ q \in Probes
      BY TrieAssumption, ProbesAssumption
    <3>8. w = q
      BY <1>1, <3>2, <3>4, <3>6, <3>7, PathsDiffer
    <3>9. w \in DOMAIN map /\ map[w] = o
      BY <2>3, <2>4, <3>3, <3>5, <3>7, <3>8
    <3> QED
      BY <3>2, <3>9
  <2>9. ASSUME NEW w \in DOMAIN map
        PROVE  \E i \in 1..Len(walk) : walk[i] = [str |-> w, val |-> map[w]]
    <3>1. w \in Seq(Letters) /\ Match(w) # NoObject /\ map[w] = Match(w)
      BY <2>3, <2>4, ProbesAssumption
    <3>2. PICK p, u : IsPath(Edges, p, w, Len(w), u)
      BY <2>5, <3>1 DEF MatchKnown
    <3>3. u \in DOMAIN vtxarray /\ Match(w) = vtxarray[u].val
      BY <2>5, <3>1, <3>2 DEF MatchKnown
    <3>4. Leads(0, w, u)
      BY <3>1, <3>2, LeadsFromRoot
    <3>5. PICK i \in 1..Len(walk) : walk[i].str = w /\ walk[i].val = vtxarray[u].val
      BY <2>6, <3>1, <3>3, <3>4 DEF Walked
    <3>6. walk[i] = [str |-> walk[i].str, val |-> walk[i].val]
      <4>1. walk[i] \in Callback
        BY <2>7
      <4> QED
        BY ONLY <4>1 DEF Callback
    <3> QED
      BY <3>1, <3>3, <3>5, <3>6
  <2>10. {walk[i] : i \in DOMAIN walk} = {[str |-> w, val |-> map[w]] : w \in DOMAIN map}
    <3>1. PICK D : D = DOMAIN map
      OBVIOUS
    <3>2. \A i \in 1..Len(walk) : \E w \in D : walk[i] = [str |-> w, val |-> map[w]]
      BY <2>8, <3>1
    <3>3. \A w \in D : \E i \in 1..Len(walk) : walk[i] = [str |-> w, val |-> map[w]]
      BY <2>9, <3>1
    <3> QED
      BY ONLY <2>7, <3>1, <3>2, <3>3
  <2>11. ASSUME NEW i \in 1..Len(walk) - 1 PROVE LexLess(walk[i].str, walk[i + 1].str)
    <3>1. i \in 1..Len(walk) /\ i + 1 \in 1..Len(walk) /\ i < i + 1
      BY <2>7
    <3> QED
      BY <2>6, <3>1 DEF Walked
  <2> QED
    BY <2>1, <2>10, <2>11 DEF WalkInOrder
<1>2. ASSUME space # "live" PROVE WalkInOrder
  <2>1. WalkDfa = <<>> /\ Contents = <<>>
    BY <1>2 DEF WalkDfa, Contents
  <2>2. DOMAIN <<>> = {} /\ 1..Len(<<>>) - 1 = {}
    OBVIOUS
  <2> QED
    BY <2>1, <2>2 DEF WalkInOrder
<1>3. IInv => WalkInOrder
  BY <1>1, <1>2
<1> QED
  BY <1>3, IInvHolds, PTL
=============================================================================
