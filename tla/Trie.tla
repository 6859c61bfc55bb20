-------------------------------- MODULE Trie --------------------------------
(***************************************************************************)
(* The automaton of src/lib/aac.c: a tree of vertices in one dynamic       *)
(* array, each with a dynamic array of edges kept in the order of their    *)
(* labels.  augment_dfa() follows or makes one edge per character of the   *)
(* pattern, and hangs the object on the vertex it arrives at; the matchers *)
(* and walk_dfa() only read.  One thread at a time calls augment_dfa().    *)
(*                                                                         *)
(* vtxarray is a function on 0..vtxcount-1, empty as long as *space is     *)
(* NULL; vertices are offsets into it, as in the code.  A position in an   *)
(* edge array is the code's offset too: the edge at pos is set[pos + 1].   *)
(***************************************************************************)
EXTENDS Matcher, SequencesExt

CONSTANTS
  Letters,    \* the characters, as C's char: may be negative
  Words,      \* the strings that are offered as patterns
  Objects,    \* what is entered with them
  NoObject,   \* NULL
  FirstAlloc, \* the vertices allocated for a new dfa; 1024 in the code
  MaxCalls,   \* bound: the calls of augment_dfa() in one behaviour
  Faults      \* the allocations that may fail in this run

FaultKinds == {"space", "vtxarray", "grow", "edge", "strdup", "delta2"}

ASSUME TrieAssumption ==
  /\ Letters \subseteq Int \ {0}
  /\ Words \subseteq Seq(Letters)
  /\ NoObject \notin Objects
  /\ FirstAlloc \in Nat \ {0}
  /\ MaxCalls \in Nat
  /\ Faults \subseteq FaultKinds

VARIABLES
  space,    \* the caller's pointer: "null", "live" or "freed"
  vtxarray, \* the vertices: edges and object
  vtxalloc, \* how many there is room for
  patcount, \* patterns entered
  longest,  \* of the longest pattern
  bmg,      \* the sole pattern's tables
  calls,    \* calls so far
  pc,       \* augment_dfa(): "idle" or "walking"
  str,      \* its arguments
  val,
  s,        \* characters of str consumed
  cur,      \* the vertex they lead to
  answer    \* the last call's arguments, whether an allocation failed, its result

dfavars == <<space, vtxarray, vtxalloc, patcount, longest, bmg>>
argvars == <<calls, str, val>>
vars == <<dfavars, argvars, pc, s, cur, answer>>

Answer(w, o, starved, ret) == [str |-> w, val |-> o, starved |-> starved, ret |-> ret]

NewVertex == [set |-> <<>>, val |-> NoObject]
\* The tables' pattern pointer is "null", "freed", or "set" to match.
NoTables == [ptr |-> "null", match |-> <<>>, val |-> NoObject]
StaleTables == [ptr |-> "freed", match |-> <<>>, val |-> NoObject]
Tables(w, o) == [ptr |-> "set", match |-> w, val |-> o]

vtxcount == Cardinality(DOMAIN vtxarray)

Init ==
  /\ space = "null" /\ vtxarray = <<>> /\ vtxalloc = 0
  /\ patcount = 0 /\ longest = 0 /\ bmg = NoTables
  /\ calls = 0 /\ pc = "idle" /\ str = <<>> /\ val = NoObject /\ s = 0 /\ cur = 0
  /\ answer = Answer(<<>>, NoObject, FALSE, 0)

MayFail(kind) == kind \in Faults

-----------------------------------------------------------------------------
(* Reading the automaton.                                                   *)

\* Mutation: the search goes on below the place before the one that was compared.
EdgeSearch_Short(set, c) ==
  LET n == Len(set)
      top == IF n \in {1, 2} /\ set[n].label >= c THEN n - 1 ELSE n
      loop[min \in 0..n] == [max \in 0..n |->
        LET pos == min + (max - min) \div 2 IN
        IF min >= max THEN pos
        ELSE IF c < set[pos + 1].label THEN loop[min][IF pos = 0 THEN 0 ELSE pos - 1]
        ELSE IF c > set[pos + 1].label THEN loop[pos + 1][max]
        ELSE pos]
  IN loop[0][top]

\* edge_search(): where the edge labelled c is, or would have to be.
EdgeSearch(set, c) ==
  LET n == Len(set)
      top == IF n \in {1, 2} /\ set[n].label >= c THEN n - 1 ELSE n
      loop[min \in 0..n] == [max \in 0..n |->
        LET pos == min + (max - min) \div 2 IN
        IF min >= max THEN pos
        ELSE IF c < set[pos + 1].label THEN loop[min][pos]
        ELSE IF c > set[pos + 1].label THEN loop[pos + 1][max]
        ELSE pos]
  IN loop[0][top]

IsEdge(set, pos, c) == pos < Len(set) /\ set[pos + 1].label = c

\* One character of a matcher: the vertex at the edge's end, or where it goes if lost.
StepTo(v, c, lost) ==
  LET set == vtxarray[v].set
      pos == EdgeSearch(set, c)
  IN IF IsEdge(set, pos, c) THEN set[pos + 1].vtx ELSE lost

NoVertex == -1

\* match_dfactx_string() and match_dfactx_nstring() in a new context.
Match(w) ==
  LET from[i \in 0..Len(w)] == [v \in DOMAIN vtxarray \cup {NoVertex} |->
        IF v = NoVertex THEN NoObject
        ELSE IF i = Len(w) THEN vtxarray[v].val
        ELSE from[i + 1][StepTo(v, w[i + 1], NoVertex)]]
  IN from[0][0]

\* Mutation: a character with no edge is passed over.
MatchWalk_Stays(w) ==
  LET from[i \in 0..Len(w)] == [v \in DOMAIN vtxarray |->
        IF i = Len(w) THEN NoObject
        ELSE IF vtxarray[v].val # NoObject THEN vtxarray[v].val
        ELSE from[i + 1][StepTo(v, w[i + 1], v)]]
  IN from[0][0]

\* The walk of match_dfactx_against_nstring(): an object is looked for before each
\* character, and a character that leads nowhere is consumed.
MatchWalk(w) ==
  LET from[i \in 0..Len(w)] == [v \in DOMAIN vtxarray |->
        IF i = Len(w) THEN NoObject
        ELSE IF vtxarray[v].val # NoObject THEN vtxarray[v].val
        ELSE from[i + 1][StepTo(v, w[i + 1], 0)]]
  IN from[0][0]

\* match_dfactx_against_nstring() in a new context.
MatchAgainst(w) ==
  IF bmg.ptr # "null"
  THEN IF BmgAgainst(bmg.match, w) THEN bmg.val ELSE NoObject
  ELSE MatchWalk(w)

\* walk_dfa(): what the callback gets, in order, if it wants to go on each time.
WalkDfa ==
  LET recurse[v \in DOMAIN vtxarray] ==
        LET vtx == vtxarray[v]
            below(e) == LET rest == recurse[e.vtx] IN
              [i \in DOMAIN rest |-> [str |-> <<e.label>> \o rest[i].str, val |-> rest[i].val]]
        IN (IF vtx.val = NoObject THEN <<>> ELSE <<[str |-> <<>>, val |-> vtx.val]>>)
           \o FlattenSeq([i \in DOMAIN vtx.set |-> below(vtx.set[i])])
  IN IF space = "live" THEN recurse[0] ELSE <<>>

-----------------------------------------------------------------------------
(* augment_dfa().                                                           *)

\* bmgprepare() is undefined for the empty pattern and for codes over 127.
Tabulated(w) == w # <<>> /\ \A i \in DOMAIN w : w[i] > 0

\* A call the program can make and that is defined: after a failure that left
\* *space or bmg.match dangling, there is none.
MayCall(w) ==
  /\ calls < MaxCalls /\ pc = "idle"
  /\ space # "freed" /\ bmg # StaleTables
  /\ patcount > 0 \/ Tabulated(w)

Return(starved, ret) ==
  /\ answer' = Answer(str, val, starved, ret)
  /\ pc' = "idle"

\* A call with NULL for an object is refused before anything is looked at.
CallNull(w) ==
  /\ MayCall(w)
  /\ calls' = calls + 1
  /\ answer' = Answer(w, NoObject, FALSE, -1)
  /\ UNCHANGED <<dfavars, str, val, pc, s, cur>>

\* A new dfa: the root, and room for FirstAlloc vertices.
Create ==
  /\ space' = "live" /\ vtxarray' = [v \in {0} |-> NewVertex] /\ vtxalloc' = FirstAlloc
  /\ patcount' = 0 /\ longest' = 1 /\ bmg' = NoTables

Call(w, o) ==
  /\ MayCall(w)
  /\ calls' = calls + 1 /\ str' = w /\ val' = o
  /\ s' = 0 /\ cur' = 0 /\ pc' = "walking"
  /\ IF space = "null" THEN Create ELSE UNCHANGED dfavars
  /\ UNCHANGED answer

\* Without memory for the vertices *space is freed, and the caller's pointer stays.
CallFails(w, o) ==
  /\ MayCall(w) /\ space = "null"
  /\ calls' = calls + 1
  /\ \/ MayFail("space") /\ UNCHANGED space
     \/ MayFail("vtxarray") /\ space' = "freed"
  /\ answer' = Answer(w, o, TRUE, -1)
  /\ UNCHANGED <<vtxarray, vtxalloc, patcount, longest, bmg, str, val, pc, s, cur>>

Reading == pc = "walking" /\ s < Len(str)
Here == vtxarray[cur].set
Place == EdgeSearch(Here, str[s + 1])
EdgeThere == IsEdge(Here, Place, str[s + 1])

Follow ==
  /\ Reading /\ EdgeThere
  /\ cur' = Here[Place + 1].vtx /\ s' = s + 1
  /\ UNCHANGED <<dfavars, argvars, pc, answer>>

Missing == Reading /\ ~EdgeThere
Full == vtxcount = vtxalloc
Room == IF Full THEN 2 * vtxalloc ELSE vtxalloc

\* The array with a new vertex, and an edge to it put into cur's set at Place.
WithEdge ==
  [v \in 0..vtxcount |->
     IF v = vtxcount THEN NewVertex
     ELSE IF v = cur
     THEN [vtxarray[v] EXCEPT
             !.set = InsertAt(@, Place + 1, [label |-> str[s + 1], vtx |-> vtxcount])]
     ELSE vtxarray[v]]

\* Mutations: the array is never grown; cur still points into the old array when
\* the edge is written; the edge is put behind all others.
AddEdge_NoGrowth ==
  /\ Missing
  /\ vtxarray' = WithEdge
  /\ cur' = vtxcount /\ s' = s + 1
  /\ UNCHANGED <<space, vtxalloc, patcount, longest, bmg, argvars, pc, answer>>

AddEdge_CurNotMoved ==
  /\ Missing
  /\ vtxalloc' = Room
  /\ vtxarray' = IF Full THEN [v \in 0..vtxcount |-> IF v = vtxcount THEN NewVertex ELSE vtxarray[v]]
                 ELSE WithEdge
  /\ cur' = vtxcount /\ s' = s + 1
  /\ UNCHANGED <<space, patcount, longest, bmg, argvars, pc, answer>>

AddEdge_Appended ==
  /\ Missing
  /\ vtxalloc' = Room
  /\ vtxarray' = [v \in 0..vtxcount |->
       IF v = vtxcount THEN NewVertex
       ELSE IF v = cur
       THEN [vtxarray[v] EXCEPT !.set = Append(@, [label |-> str[s + 1], vtx |-> vtxcount])]
       ELSE vtxarray[v]]
  /\ cur' = vtxcount /\ s' = s + 1
  /\ UNCHANGED <<space, patcount, longest, bmg, argvars, pc, answer>>

AddEdge ==
  /\ Missing
  /\ vtxalloc' = Room
  /\ vtxarray' = WithEdge
  /\ cur' = vtxcount /\ s' = s + 1
  /\ UNCHANGED <<space, patcount, longest, bmg, argvars, pc, answer>>

\* The first realloc() fails, or the second one after the array may have grown.
AddEdgeFails ==
  /\ Missing
  /\ \/ Full /\ MayFail("grow") /\ UNCHANGED vtxalloc
     \/ MayFail("edge") /\ vtxalloc' = Room
  /\ Return(TRUE, -1)
  /\ UNCHANGED <<space, vtxarray, patcount, longest, bmg, argvars, s, cur>>

Arrived == pc = "walking" /\ s = Len(str)

Duplicate ==
  /\ Arrived /\ vtxarray[cur].val # NoObject
  /\ Return(FALSE, -1)
  /\ UNCHANGED <<dfavars, argvars, s, cur>>

\* bmgprepare(), whose result is not looked at.
Prepared ==
  {Tables(str, val)}
  \cup (IF MayFail("strdup") THEN {NoTables} ELSE {})
  \cup (IF MayFail("delta2") THEN {StaleTables} ELSE {})

\* Mutation: the tables stay when a second pattern comes.
Enter_TablesKept ==
  /\ Arrived /\ vtxarray[cur].val = NoObject
  /\ longest' = IF s > longest THEN s ELSE longest
  /\ patcount' = patcount + 1
  /\ IF patcount = 0 THEN bmg' \in Prepared ELSE UNCHANGED bmg
  /\ vtxarray' = [vtxarray EXCEPT ![cur].val = val]
  /\ Return(FALSE, 0)
  /\ UNCHANGED <<space, vtxalloc, argvars, s, cur>>

Enter ==
  /\ Arrived /\ vtxarray[cur].val = NoObject
  /\ longest' = IF s > longest THEN s ELSE longest
  /\ patcount' = patcount + 1
  /\ IF patcount = 0 THEN bmg' \in Prepared ELSE bmg' = NoTables
  /\ vtxarray' = [vtxarray EXCEPT ![cur].val = val]
  /\ Return(FALSE, 0)
  /\ UNCHANGED <<space, vtxalloc, argvars, s, cur>>

Next ==
  \/ \E w \in Words :
       \/ CallNull(w)
       \/ \E o \in Objects : Call(w, o) \/ CallFails(w, o)
  \/ Follow \/ AddEdge \/ AddEdgeFails \/ Duplicate \/ Enter

Spec == Init /\ [][Next]_vars

-----------------------------------------------------------------------------
(* What it is all for.                                                      *)

Edges == UNION {{[from |-> v, label |-> vtxarray[v].set[i].label, vtx |-> vtxarray[v].set[i].vtx] :
                   i \in DOMAIN vtxarray[v].set} : v \in DOMAIN vtxarray}

\* Every edge array is strictly sorted, and every vertex but the root hangs on one
\* edge, of an older vertex: edge_search() needs the one, walk_dfa() the other.
SortedTree ==
  /\ \A v \in DOMAIN vtxarray : \A i, j \in DOMAIN vtxarray[v].set :
       i < j => vtxarray[v].set[i].label < vtxarray[v].set[j].label
  /\ \A e \in Edges : e.from < e.vtx
  /\ \A v \in DOMAIN vtxarray \ {0} : Cardinality({e \in Edges : e.vtx = v}) = 1

\* The variables have their types, the array never holds more than there is room for,
\* and the vertices in it are a sorted tree.
TypeOK ==
  /\ space \in {"null", "live", "freed"}
  /\ DOMAIN vtxarray = 0..vtxcount - 1
  /\ \A v \in DOMAIN vtxarray :
       /\ vtxarray[v].set \in Seq([label : Letters, vtx : DOMAIN vtxarray])
       /\ vtxarray[v].val \in Objects \cup {NoObject}
  /\ SortedTree
  /\ vtxalloc \in Nat /\ vtxcount <= vtxalloc
  /\ patcount \in Nat /\ longest \in Nat
  /\ bmg \in [ptr : {"null", "freed", "set"}, match : Seq(Letters), val : Objects \cup {NoObject}]
  /\ calls \in 0..MaxCalls /\ pc \in {"idle", "walking"}
  /\ str \in Seq(Letters) /\ val \in Objects \cup {NoObject}
  /\ s \in 0..Len(str) /\ cur \in DOMAIN vtxarray \cup {0}
  /\ answer \in [str : Words \cup {<<>>}, val : Objects \cup {NoObject},
                 starved : BOOLEAN, ret : {0, -1}]

\* The tables are those of the one pattern there is: with a second one, the search
\* for the first alone would hide all others.
SolePattern ==
  bmg.ptr = "set" => /\ patcount = 1
                     /\ Match(bmg.match) = bmg.val /\ bmg.val # NoObject
=============================================================================
