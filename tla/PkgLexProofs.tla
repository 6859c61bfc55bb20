---------------------------- MODULE PkgLexProofs ----------------------------
(***************************************************************************)
(* Proofs about PkgLex: for every text, every chunk size of at least two   *)
(* and every number of lexers, the list that comes back is what the text   *)
(* says, as if one lexer had read it from end to end:                      *)
(*                                                                         *)
(*   BegunOnce              no record is begun twice                       *)
(*   TypeOK                 no lexer reads outside the text                *)
(*   ListExact              one object for each record that is listed      *)
(*   RefusedWhenMalformed   no object out of a malformed record            *)
(*   ChainsMatchList        the trie's chains hold what the list holds     *)
(*   RootsAreFirst          a trie that is built has none but listed        *)
(*                          objects, the first ones while memory lasts     *)
(*                                                                         *)
(* The first invariant, IInv, is about chunks: how they tile the text that *)
(* has been handed out (Tiled), what a lexer's state knows of the          *)
(* characters it has just passed (Knows), and that a record begun inside a *)
(* chunk that is still being lexed lies behind its lexer (Behind).  The    *)
(* second is about objects: a record start is ahead of a lexer that has    *)
(* its chunk, or in a lexer's hands, or has been read to its end           *)
(* (NotMissed, Kept), and a lexer's fields are what the lines say that it  *)
(* has passed (Reads).                                                     *)
(***************************************************************************)
EXTENDS PkgLex, FiniteSetTheorems, TLAPS

Active(l) == pc[l] \in {"skip", "lex"}
InChunk(l, p) == lo[l] <= p /\ p < hi[l]

LexTypes ==
  /\ pp \in Inputs
  /\ offset \in 0..Len0
  /\ pc \in [Lexers -> LexerPCs] /\ st \in [Lexers -> States]
  /\ lo \in [Lexers -> 0..Len0] /\ hi \in [Lexers -> 0..Len0] /\ cur \in [Lexers -> 0..Len0]
  /\ begun \in [Positions -> Nat]

\* Chunks in hand lie before offset and apart from each other; only the first
\* starts before the third character.
Tiled ==
  /\ offset < Len0 => offset = 0 \/ offset >= 2
  /\ \A l \in Lexers : Active(l) =>
       /\ lo[l] < hi[l] /\ hi[l] <= offset
       /\ pc[l] = "skip" => lo[l] >= 2
  /\ \A l, m \in Lexers : Active(l) /\ Active(m) /\ l # m => hi[l] <= lo[m] \/ hi[m] <= lo[l]

\* Between two records the lexer has an empty line, or the text's start, behind it.
AfterEmptyLine(c) == c = 0 \/ (Newline(c - 1) /\ (c = 1 \/ Newline(c - 2)))

KnowsAt(l) ==
  /\ pc[l] = "skip" => /\ cur[l] >= lo[l] - 2 /\ cur[l] <= hi[l]
                       /\ st[l] = "NLINE" => cur[l] >= lo[l] - 1
  /\ pc[l] = "lex" => /\ cur[l] >= lo[l]
                      /\ st[l] = "RESET" /\ cur[l] < hi[l] => AfterEmptyLine(cur[l])
  /\ Active(l) /\ st[l] = "NLINE" => cur[l] >= 1 /\ Newline(cur[l] - 1)

Knows == \A l \in Lexers : KnowsAt(l)

Behind ==
  \A p \in Positions : begun[p] > 0 =>
    /\ begun[p] = 1 /\ RecordStart(p) /\ p < offset
    /\ \A l \in Lexers : Active(l) /\ InChunk(l, p) => pc[l] = "lex" /\ p < cur[l]

IInv == LexTypes /\ Tiled /\ Knows /\ Behind

-----------------------------------------------------------------------------

LEMMA TextFacts ==
  ASSUME pp \in Inputs
  PROVE  /\ Len0 \in Nat /\ pp.csize \in Nat /\ pp.csize >= 2
         /\ Positions = 0..(Len0 - 1)
  BY LexAssumption DEF Len0, Positions

LEMMA InitInv == ASSUME Init PROVE IInv
<1>1. pp \in Inputs /\ Len0 \in Nat
  BY TextFacts DEF Init
<1>2. LexTypes
  BY <1>1 DEF Init, LexTypes, LexerPCs, States
<1>3. /\ offset = 0 /\ \A l \in Lexers : pc[l] \notin {"skip", "lex"}
      /\ \A p \in Positions : begun[p] = 0
  BY DEF Init
<1>4. Tiled
  BY <1>3 DEF Tiled, Active
<1>5. Knows
  BY <1>3 DEF Knows, KnowsAt, Active
<1>6. Behind
  BY <1>3 DEF Behind
<1> QED BY <1>2, <1>4, <1>5, <1>6 DEF IInv

-----------------------------------------------------------------------------
(* A step of one lexer: the others' state is untouched, so that it is       *)
(* enough to look at the mover.                                             *)

Frame(l) ==
  /\ pp' = pp
  /\ \A m \in Lexers \ {l} : /\ pc'[m] = pc[m] /\ st'[m] = st[m] /\ cur'[m] = cur[m]
                            /\ lo'[m] = lo[m] /\ hi'[m] = hi[m]

\* The mover stays in its chunk, going forward, or begins one that is new.
SameChunk(l) ==
  /\ Active(l) /\ lo'[l] = lo[l] /\ hi'[l] = hi[l] /\ cur'[l] >= cur[l]
  /\ pc[l] = "lex" => pc'[l] = "lex"

LEMMA TiledMove ==
  ASSUME LexTypes, LexTypes', Tiled, NEW l \in Lexers, Frame(l),
         offset' >= offset, offset' < Len0 => offset' = 0 \/ offset' >= 2,
         Active(l)' => /\ lo'[l] < hi'[l] /\ hi'[l] <= offset'
                       /\ pc'[l] = "skip" => lo'[l] >= 2
                       /\ SameChunk(l) \/ lo'[l] >= offset
  PROVE  Tiled'
<1>1. Len0' = Len0 /\ offset \in Nat /\ offset' \in Nat /\ Len0 \in Nat
  BY TextFacts DEF Frame, Len0, LexTypes
<1>2. \A m \in Lexers : lo[m] \in Nat /\ hi[m] \in Nat /\ lo'[m] \in Nat /\ hi'[m] \in Nat
  BY <1>1, TextFacts DEF LexTypes
<1>3. \A m \in Lexers \ {l} : (Active(m)' <=> Active(m)) /\ lo'[m] = lo[m] /\ hi'[m] = hi[m]
                             /\ pc'[m] = pc[m]
  BY DEF Frame, Active
<1>4. \A m \in Lexers : Active(m)' =>
        lo'[m] < hi'[m] /\ hi'[m] <= offset' /\ (pc'[m] = "skip" => lo'[m] >= 2)
  BY <1>1, <1>2, <1>3 DEF Tiled
<1>5. \A m \in Lexers \ {l} : Active(m)' /\ Active(l)' =>
        hi'[l] <= lo'[m] \/ hi'[m] <= lo'[l]
  BY <1>1, <1>2, <1>3 DEF Tiled, SameChunk
<1>6. \A m, n \in Lexers : Active(m)' /\ Active(n)' /\ m # n =>
        hi'[m] <= lo'[n] \/ hi'[n] <= lo'[m]
  BY <1>3, <1>5 DEF Tiled
<1> QED BY <1>1, <1>4, <1>6 DEF Tiled

LEMMA KnowsMove ==
  ASSUME Knows, NEW l \in Lexers, Frame(l), KnowsAt(l)'
  PROVE  Knows'
<1>1. \A c : (Newline(c)' <=> Newline(c)) /\ (AfterEmptyLine(c)' <=> AfterEmptyLine(c))
  BY DEF Frame, Newline, AfterEmptyLine, CharAt, Positions, Len0
<1>2. ASSUME NEW m \in Lexers \ {l} PROVE KnowsAt(m)'
  <2>1. KnowsAt(m)
    BY DEF Knows
  <2>2. /\ pc'[m] = pc[m] /\ st'[m] = st[m] /\ cur'[m] = cur[m]
        /\ lo'[m] = lo[m] /\ hi'[m] = hi[m]
    BY DEF Frame
  <2> QED BY <1>1, <2>1, <2>2 DEF KnowsAt, Active, AfterEmptyLine, Newline, CharAt, Positions,
                                  Len0, Frame
<1> QED BY <1>2 DEF Knows

LEMMA BehindMove ==
  ASSUME LexTypes, LexTypes', Behind, NEW l \in Lexers, Frame(l),
         begun' = begun, offset' >= offset,
         Active(l)' => SameChunk(l) \/ lo'[l] >= offset
  PROVE  Behind'
<1>1. /\ Positions' = Positions /\ offset \in Nat /\ offset' \in Nat
      /\ \A p : RecordStart(p)' <=> RecordStart(p)
  BY TextFacts DEF Frame, Positions, Len0, LexTypes, RecordStart, Newline, CharAt
<1>2. SUFFICES ASSUME NEW p \in Positions, begun[p] > 0
      PROVE  /\ begun[p] = 1 /\ RecordStart(p) /\ p < offset'
             /\ \A m \in Lexers : Active(m)' /\ InChunk(m, p)' => pc'[m] = "lex" /\ p < cur'[m]
  BY <1>1 DEF Behind
<1>3. p \in Nat
  <2>1. Len0 \in Nat /\ Positions = 0..(Len0 - 1)
    BY TextFacts DEF LexTypes
  <2> QED BY <1>2, <2>1
<1>4. /\ begun[p] = 1 /\ RecordStart(p) /\ p < offset
      /\ \A m \in Lexers : Active(m) /\ InChunk(m, p) => pc[m] = "lex" /\ p < cur[m]
  BY <1>2 DEF Behind
<1>5. ASSUME NEW m \in Lexers \ {l}, Active(m)', InChunk(m, p)'
      PROVE  pc'[m] = "lex" /\ p < cur'[m]
  <2>1. pc'[m] = pc[m] /\ cur'[m] = cur[m] /\ lo'[m] = lo[m] /\ hi'[m] = hi[m]
    BY DEF Frame
  <2>2. Active(m) /\ InChunk(m, p)
    BY <1>5, <2>1 DEF Active, InChunk
  <2> QED BY <1>4, <2>1, <2>2
<1>6. ASSUME Active(l)', InChunk(l, p)'
      PROVE  pc'[l] = "lex" /\ p < cur'[l]
  <2>1. cur[l] \in Nat /\ cur'[l] \in Nat /\ lo'[l] \in Nat
    BY TextFacts DEF LexTypes
  <2>2. SameChunk(l)
    BY <1>1, <1>3, <1>4, <1>6, <2>1 DEF InChunk
  <2>3. pc[l] = "lex" /\ p < cur[l]
    BY <1>4, <1>6, <2>2 DEF SameChunk, InChunk
  <2> QED BY <1>3, <2>1, <2>2, <2>3 DEF SameChunk
<1> QED BY <1>1, <1>3, <1>4, <1>5, <1>6

LEMMA TakeChunkInv ==
  ASSUME IInv, NEW l \in Lexers, TakeChunk(l)
  PROVE  IInv'
<1> USE DEF IInv, Active
<1>1. Len0 \in Nat /\ pp.csize \in Nat /\ pp.csize >= 2 /\ pp' = pp /\ begun' = begun
      /\ Positions' = Positions /\ Len0' = Len0 /\ Positions = 0..(Len0 - 1)
  BY TextFacts DEF LexTypes, TakeChunk, callvars, Positions, Len0
<1>2. /\ offset \in Nat /\ offset < Len0 /\ (offset = 0 \/ offset >= 2)
      /\ offset' \in 0..Len0 /\ offset' > offset /\ (offset' < Len0 => offset' >= 2)
  <2>1. offset \in Nat /\ offset < Len0 /\ (offset = 0 \/ offset >= 2)
    BY <1>1 DEF LexTypes, Tiled, TakeChunk
  <2>2. offset' = IF Len0 - offset < pp.csize THEN Len0 ELSE offset + pp.csize
    BY DEF TakeChunk, NextOffset
  <2> QED BY <1>1, <2>1, <2>2
<1>3. ChunkEnd \in 0..Len0 /\ ChunkEnd > offset /\ ChunkEnd <= offset'
  BY <1>1, <1>2 DEF TakeChunk, ChunkEnd, NextOffset
<1>4. /\ lo' = [lo EXCEPT ![l] = offset] /\ hi' = [hi EXCEPT ![l] = ChunkEnd]
      /\ pc[l] = "offset" /\ offset \in 0..Len0
  BY <1>1, <1>2 DEF TakeChunk, At
<1>5. \/ /\ offset = 0 /\ cur' = [cur EXCEPT ![l] = 0]
         /\ st' = [st EXCEPT ![l] = "RESET"] /\ pc' = [pc EXCEPT ![l] = "lex"]
      \/ /\ offset >= 2 /\ cur' = [cur EXCEPT ![l] = offset - 2] /\ offset - 2 \in 0..Len0
         /\ st' = [st EXCEPT ![l] = "PDATA"] /\ pc' = [pc EXCEPT ![l] = "skip"]
  BY <1>1, <1>2 DEF TakeChunk, SkipFrom, SetState, Goto
<1>6. LexTypes'
  <2>1. lo' \in [Lexers -> 0..Len0] /\ hi' \in [Lexers -> 0..Len0]
    BY <1>3, <1>4 DEF LexTypes
  <2>2. cur' \in [Lexers -> 0..Len0] /\ 0 \in 0..Len0
    <3>1. cur \in [Lexers -> 0..Len0] /\ 0 \in 0..Len0
      BY <1>1 DEF LexTypes
    <3> QED BY <1>5, <3>1
  <2>3. pc' \in [Lexers -> LexerPCs] /\ st' \in [Lexers -> States]
    BY <1>5 DEF LexTypes, LexerPCs, States
  <2> QED BY <1>1, <1>2, <2>1, <2>2, <2>3 DEF LexTypes
<1>7. Frame(l)
  BY <1>1, <1>4, <1>5 DEF Frame, LexTypes
<1>8. lo'[l] = offset /\ hi'[l] = ChunkEnd /\ (pc'[l] = "skip" => offset >= 2)
  BY <1>4, <1>5 DEF LexTypes
<1>9. Tiled' /\ Behind'
  BY <1>1, <1>2, <1>3, <1>6, <1>7, <1>8, TiledMove, BehindMove
<1>10. KnowsAt(l)'
  <2>1. \/ pc'[l] = "lex" /\ cur'[l] = 0 /\ st'[l] = "RESET" /\ offset = 0
        \/ pc'[l] = "skip" /\ cur'[l] = offset - 2 /\ st'[l] = "PDATA"
    <3>1. /\ pc \in [Lexers -> LexerPCs] /\ cur \in [Lexers -> 0..Len0]
          /\ st \in [Lexers -> States]
      BY DEF LexTypes
    <3> QED BY <1>5, <3>1
  <2>2. lo'[l] = offset /\ hi'[l] = ChunkEnd /\ offset \in Nat /\ ChunkEnd \in Nat
        /\ ChunkEnd > offset
    BY <1>2, <1>3, <1>8
  <2>3. CASE pc'[l] = "lex" /\ cur'[l] = 0 /\ st'[l] = "RESET" /\ offset = 0
    BY <2>2, <2>3 DEF KnowsAt, AfterEmptyLine
  <2>4. CASE pc'[l] = "skip" /\ cur'[l] = offset - 2 /\ st'[l] = "PDATA"
    BY <2>2, <2>4 DEF KnowsAt
  <2> QED BY <2>1, <2>3, <2>4
<1> QED BY <1>6, <1>7, <1>9, <1>10, KnowsMove

\* Every other step leaves offset alone and keeps the lexer in its chunk, or out of
\* any; all but LexChar leave begun alone too.
LEMMA StepInChunk ==
  ASSUME IInv, NEW l \in Lexers, LexTypes', Frame(l), offset' = offset, begun' = begun,
         Active(l)' => SameChunk(l), KnowsAt(l)'
  PROVE  IInv'
<1> USE DEF IInv
<1>1. offset \in Nat
  BY TextFacts DEF LexTypes
<1>2. offset' >= offset /\ (offset' < Len0 => offset' = 0 \/ offset' >= 2)
  BY <1>1 DEF Tiled
<1>3. Active(l)' => /\ lo'[l] < hi'[l] /\ hi'[l] <= offset'
                    /\ pc'[l] = "skip" => lo'[l] >= 2
  BY DEF Tiled, SameChunk, Active
<1>4. Tiled'
  BY <1>2, <1>3, TiledMove
<1>5. Behind'
  BY <1>2, BehindMove
<1> QED BY <1>4, <1>5, KnowsMove

\* What a lexer in its chunk knows, with the types that the steps below need.
LEMMA AtWork ==
  ASSUME IInv, NEW l \in Lexers, Active(l)
  PROVE  /\ Len0 \in Nat /\ Positions = 0..(Len0 - 1) /\ pp \in Inputs
         /\ lo[l] \in Nat /\ hi[l] \in 0..Len0 /\ cur[l] \in 0..Len0 /\ lo[l] < hi[l]
         /\ hi[l] <= offset /\ offset \in 0..Len0
         /\ cur \in [Lexers -> 0..Len0] /\ pc \in [Lexers -> LexerPCs] /\ st \in [Lexers -> States]
         /\ KnowsAt(l)
<1>1. Len0 \in Nat /\ Positions = 0..(Len0 - 1)
  BY TextFacts DEF IInv, LexTypes
<1> QED BY <1>1 DEF IInv, LexTypes, Tiled, Knows

\* A step that gives the lexer a new label, and nothing to begin, outside a chunk.
LEMMA LeavesChunk ==
  ASSUME IInv, NEW l \in Lexers, NEW label \in {"offset", "splice", "err", "done", "failed"},
         pc' = [pc EXCEPT ![l] = label],
         UNCHANGED <<pp, offset, lo, hi, cur, st, begun>>
  PROVE  IInv'
<1>1. label \in LexerPCs /\ Len0' = Len0 /\ Positions' = Positions
  BY DEF LexerPCs, Len0, Positions
<1>2. LexTypes'
  BY <1>1 DEF IInv, LexTypes
<1>3. pc'[l] = label /\ \A m \in Lexers \ {l} : pc'[m] = pc[m]
  BY DEF IInv, LexTypes
<1>4. Frame(l) /\ ~Active(l)' /\ KnowsAt(l)'
  BY <1>3 DEF Frame, Active, KnowsAt
<1> QED BY <1>2, <1>4, StepInChunk

\* A step that moves the lexer on by one character, or leaves it there.
LEMMA MovesOn ==
  ASSUME IInv, NEW l \in Lexers, Active(l), NEW s \in States, NEW label \in {"skip", "lex"},
         NEW c \in {cur[l], cur[l] + 1}, c <= Len0,
         pc[l] = "lex" => label = "lex",
         cur' = [cur EXCEPT ![l] = c], st' = [st EXCEPT ![l] = s],
         pc' = [pc EXCEPT ![l] = label],
         UNCHANGED <<pp, offset, lo, hi>>
  PROVE  /\ Frame(l) /\ SameChunk(l) /\ Len0' = Len0 /\ Positions' = Positions
         /\ begun' \in [Positions -> Nat] => LexTypes'
         /\ pc'[l] = label /\ st'[l] = s /\ cur'[l] = c /\ lo'[l] = lo[l] /\ hi'[l] = hi[l]
         /\ \A i : (Newline(i)' <=> Newline(i)) /\ (AfterEmptyLine(i)' <=> AfterEmptyLine(i))
<1>1. Len0' = Len0 /\ Positions' = Positions
      /\ \A i : (Newline(i)' <=> Newline(i)) /\ (AfterEmptyLine(i)' <=> AfterEmptyLine(i))
  BY DEF Len0, Positions, Newline, AfterEmptyLine, CharAt
<1>2. label \in LexerPCs /\ c \in 0..Len0 /\ c >= cur[l]
  BY AtWork DEF LexerPCs
<1>3. pc'[l] = label /\ st'[l] = s /\ cur'[l] = c /\ lo'[l] = lo[l] /\ hi'[l] = hi[l]
  BY AtWork
<1>4. \A m \in Lexers \ {l} : pc'[m] = pc[m] /\ st'[m] = st[m] /\ cur'[m] = cur[m]
  BY AtWork
<1>5. Frame(l) /\ SameChunk(l)
  BY <1>2, <1>3, <1>4 DEF Frame, SameChunk
<1>6. begun' \in [Positions -> Nat] => LexTypes'
  BY <1>1, <1>2 DEF IInv, LexTypes
<1> QED BY <1>1, <1>3, <1>5, <1>6

-----------------------------------------------------------------------------
(* One lemma per step.                                                      *)

LEMMA SkipCharInv ==
  ASSUME IInv, NEW l \in Lexers, SkipChar(l)
  PROVE  IInv'
<1>1. /\ pc[l] = "skip" /\ cur[l] < hi[l] /\ cur' = [cur EXCEPT ![l] = cur[l] + 1]
      /\ UNCHANGED <<pp, offset, lo, hi, begun>>
  BY DEF SkipChar, At, Step, callvars
<1>2. Active(l)
  BY <1>1 DEF Active
<1>3. cur[l] + 1 <= Len0 /\ cur[l] \in Positions
  BY <1>1, <1>2, AtWork
<1>4. PICK s \in States, label \in {"skip", "lex"} :
        /\ st' = [st EXCEPT ![l] = s] /\ pc' = [pc EXCEPT ![l] = label]
        /\ \/ CharAt(cur[l]) = NL /\ st[l] = "NLINE" /\ s = "RESET" /\ label = "lex"
           \/ CharAt(cur[l]) = NL /\ s = "NLINE" /\ label = "skip"
           \/ s = "PDATA" /\ label = "skip"
  <2>1. "RESET" \in States /\ "NLINE" \in States /\ "PDATA" \in States
    BY DEF States
  <2>2. pc = [pc EXCEPT ![l] = "skip"]
    BY <1>1, <1>2, AtWork
  <2> QED BY <2>1, <2>2 DEF SkipChar, SetState, Goto
<1>5. begun' \in [Positions -> Nat]
  BY <1>1 DEF IInv, LexTypes
<1>6. /\ Frame(l) /\ SameChunk(l) /\ LexTypes'
      /\ pc'[l] = label /\ st'[l] = s /\ cur'[l] = cur[l] + 1 /\ lo'[l] = lo[l] /\ hi'[l] = hi[l]
      /\ \A i : (Newline(i)' <=> Newline(i)) /\ (AfterEmptyLine(i)' <=> AfterEmptyLine(i))
  BY <1>1, <1>2, <1>3, <1>4, <1>5, MovesOn
<1>7. KnowsAt(l)
  BY <1>2, AtWork
<1>8. CharAt(cur[l]) = NL => Newline(cur[l])
  BY <1>3 DEF Newline
<1>9. cur[l] \in Nat /\ lo[l] \in Nat /\ hi[l] \in Nat
  BY <1>2, AtWork
<1>10. KnowsAt(l)'
  BY <1>1, <1>2, <1>4, <1>6, <1>7, <1>8, <1>9 DEF KnowsAt, AfterEmptyLine
<1> QED BY <1>1, <1>6, <1>10, StepInChunk

LEMMA SkipAllInv ==
  ASSUME IInv, NEW l \in Lexers, SkipAll(l)
  PROVE  IInv'
<1>1. /\ pc[l] = "skip" /\ cur[l] = hi[l]
      /\ st' = [st EXCEPT ![l] = "RESET"] /\ pc' = [pc EXCEPT ![l] = "lex"]
      /\ UNCHANGED <<pp, offset, lo, hi, cur, begun>>
  BY DEF SkipAll, At, SetState, Goto, callvars
<1>2. Active(l)
  BY <1>1 DEF Active
<1>3. cur' = [cur EXCEPT ![l] = cur[l]] /\ cur[l] <= Len0 /\ lo[l] < hi[l]
      /\ lo[l] \in Nat /\ hi[l] \in Nat
  BY <1>1, <1>2, AtWork
<1>4. begun' \in [Positions -> Nat] /\ "RESET" \in States
  BY <1>1 DEF IInv, LexTypes, States
<1>5. /\ Frame(l) /\ SameChunk(l) /\ LexTypes'
      /\ pc'[l] = "lex" /\ st'[l] = "RESET" /\ cur'[l] = cur[l] /\ lo'[l] = lo[l] /\ hi'[l] = hi[l]
  BY <1>1, <1>2, <1>3, <1>4, MovesOn
<1>6. KnowsAt(l)'
  BY <1>1, <1>3, <1>5 DEF KnowsAt
<1> QED BY <1>1, <1>5, <1>6, StepInChunk

\* The loop's condition keeps the lexer inside the text.
LEMMA LexingFacts ==
  ASSUME IInv, NEW l \in Lexers, Lexing(l)
  PROVE  /\ pc[l] = "lex" /\ Active(l) /\ KnowsAt(l)
         /\ cur[l] \in Positions /\ cur[l] + 1 <= Len0 /\ cur[l] >= lo[l]
         /\ cur[l] \in Nat /\ lo[l] \in Nat /\ hi[l] \in Nat
         /\ st[l] = "RESET" => cur[l] < hi[l] /\ AfterEmptyLine(cur[l])
         /\ pc = [pc EXCEPT ![l] = "lex"] /\ st = [st EXCEPT ![l] = st[l]] /\ st[l] \in States
<1>1. pc[l] = "lex" /\ Active(l)
  BY DEF Lexing, At, Active
<1>2. cur[l] < Len0 /\ (st[l] = "RESET" => cur[l] < hi[l])
  BY <1>1, AtWork DEF Lexing
<1>3. KnowsAt(l)
  BY <1>1, AtWork
<1>4. cur[l] >= lo[l] /\ (st[l] = "RESET" => AfterEmptyLine(cur[l]))
  BY <1>1, <1>2, <1>3 DEF KnowsAt
<1> QED BY <1>1, <1>2, <1>3, <1>4, AtWork

\* A newline moves the lexer on: what is behind it then is a newline.
LEMMA NewlineInv ==
  ASSUME IInv, NEW l \in Lexers, Lexing(l), CharAt(cur[l]) = NL,
         NEW s \in States, st' = [st EXCEPT ![l] = s],
         s = "RESET" => AfterEmptyLine(cur[l] + 1),
         cur' = [cur EXCEPT ![l] = cur[l] + 1],
         UNCHANGED <<pp, offset, lo, hi, pc, begun>>
  PROVE  IInv'
<1>1. pc' = [pc EXCEPT ![l] = "lex"]
  BY LexingFacts
<1>2. begun' \in [Positions -> Nat]
  BY DEF IInv, LexTypes
<1>3. /\ Frame(l) /\ SameChunk(l) /\ LexTypes'
      /\ pc'[l] = "lex" /\ st'[l] = s /\ cur'[l] = cur[l] + 1 /\ lo'[l] = lo[l] /\ hi'[l] = hi[l]
      /\ \A i : (Newline(i)' <=> Newline(i)) /\ (AfterEmptyLine(i)' <=> AfterEmptyLine(i))
  BY <1>1, <1>2, LexingFacts, MovesOn
<1>4. Newline(cur[l])
  BY LexingFacts DEF Newline
<1>5. KnowsAt(l)'
  BY <1>3, <1>4, LexingFacts DEF KnowsAt
<1> QED BY <1>3, <1>5, StepInChunk

LEMMA LexNewlineInv ==
  ASSUME IInv, NEW l \in Lexers, LexBlank(l) \/ LexLine(l) \/ GoodRecord(l)
  PROVE  IInv'
<1>1. "RESET" \in States /\ "NLINE" \in States
  BY DEF States
<1>2. CASE LexBlank(l)
  <2>1. /\ Lexing(l) /\ CharAt(cur[l]) = NL /\ st[l] = "RESET" /\ st' = st
        /\ cur' = [cur EXCEPT ![l] = cur[l] + 1]
        /\ UNCHANGED <<pp, offset, lo, hi, pc, begun>>
    BY <1>2 DEF LexBlank, Step, callvars, linevars
  <2>2. st' = [st EXCEPT ![l] = "RESET"] /\ AfterEmptyLine(cur[l]) /\ cur[l] \in Positions
        /\ cur[l] \in Nat
    BY <2>1, LexingFacts
  <2>3. AfterEmptyLine(cur[l] + 1)
    BY <2>1, <2>2 DEF AfterEmptyLine, Newline
  <2> QED BY <1>1, <2>1, <2>2, <2>3, NewlineInv
<1>3. CASE LexLine(l) /\ Repeated(l)
  <2>1. /\ pc' = [pc EXCEPT ![l] = "err"]
        /\ UNCHANGED <<pp, offset, lo, hi, cur, st, begun>>
    BY <1>3 DEF LexLine, Goto, callvars
  <2> QED BY <2>1, LeavesChunk
<1>4. CASE LexLine(l) /\ ~Repeated(l)
  <2>1. /\ Lexing(l) /\ CharAt(cur[l]) = NL /\ st' = [st EXCEPT ![l] = "NLINE"]
        /\ cur' = [cur EXCEPT ![l] = cur[l] + 1]
        /\ UNCHANGED <<pp, offset, lo, hi, pc, begun>>
    BY <1>4 DEF LexLine, Step, SetState, callvars
  <2> QED BY <1>1, <2>1, NewlineInv
<1>5. CASE GoodRecord(l)
  <2>1. /\ Lexing(l) /\ CharAt(cur[l]) = NL /\ st[l] = "NLINE"
        /\ st' = [st EXCEPT ![l] = "RESET"] /\ cur' = [cur EXCEPT ![l] = cur[l] + 1]
        /\ UNCHANGED <<pp, offset, lo, hi, pc, begun>>
    BY <1>5 DEF GoodRecord, EndsRecord, Step, SetState, callvars
  <2>2. KnowsAt(l) /\ Active(l) /\ cur[l] \in Positions /\ cur[l] \in Nat
    BY <2>1, LexingFacts
  <2>3. AfterEmptyLine(cur[l] + 1)
    BY <2>1, <2>2 DEF AfterEmptyLine, Newline, KnowsAt
  <2> QED BY <1>1, <2>1, <2>3, NewlineInv
<1> QED BY <1>2, <1>3, <1>4, <1>5

\* The step that begins a record: no lexer has begun it before, because it lies in
\* this lexer's chunk and not behind the lexer.
LEMMA LexCharInv ==
  ASSUME IInv, NEW l \in Lexers, LexChar(l)
  PROVE  IInv'
<1> DEFINE c == cur[l]
<1>1. /\ Lexing(l) /\ CharAt(c) # NL /\ cur' = [cur EXCEPT ![l] = c + 1]
      /\ UNCHANGED <<pp, offset, lo, hi, pc>>
      /\ begun' = IF st[l] = "RESET" THEN [begun EXCEPT ![c] = @ + 1] ELSE begun
  BY DEF LexChar, Step, callvars
<1>2. /\ Active(l) /\ pc[l] = "lex" /\ c \in Positions /\ c + 1 <= Len0 /\ c >= lo[l] /\ c \in Nat
      /\ lo[l] \in Nat /\ hi[l] \in Nat
      /\ st[l] = "RESET" => c < hi[l] /\ AfterEmptyLine(c)
      /\ pc = [pc EXCEPT ![l] = "lex"] /\ st = [st EXCEPT ![l] = st[l]] /\ st[l] \in States
  BY <1>1, LexingFacts
<1>3. PICK s \in States \ {"RESET", "NLINE"} : st' = [st EXCEPT ![l] = s]
  <2>1. CASE st[l] \in {"RESET", "NLINE"}
    <3> DEFINE t == CASE CharAt(c) \in Names -> "PKG" [] CharAt(c) = "V" -> "VER"
                      [] CharAt(c) = "S" -> "STAT" [] OTHER -> "PDATA"
    <3>1. t \in {"PKG", "VER", "STAT", "PDATA"}
      OBVIOUS
    <3>2. t \in States \ {"RESET", "NLINE"}
      BY <3>1 DEF States
    <3>3. st' = [st EXCEPT ![l] = t]
      BY <2>1 DEF LexChar, SetState
    <3> QED BY <3>2, <3>3
  <2>2. CASE st[l] \notin {"RESET", "NLINE"}
    <3>1. st' = st
      BY <2>2 DEF LexChar
    <3> QED BY <1>2, <2>2, <3>1
  <2> QED BY <2>1, <2>2
<1>4. begun \in [Positions -> Nat]
  BY DEF IInv, LexTypes
<1>5. begun' \in [Positions -> Nat]
  BY <1>1, <1>2, <1>4
<1>6. pc' = [pc EXCEPT ![l] = "lex"]
  BY <1>1, <1>2
<1>7. /\ Frame(l) /\ SameChunk(l) /\ LexTypes' /\ Positions' = Positions
      /\ pc'[l] = "lex" /\ st'[l] = s /\ cur'[l] = c + 1 /\ lo'[l] = lo[l] /\ hi'[l] = hi[l]
      /\ \A i : (Newline(i)' <=> Newline(i)) /\ (AfterEmptyLine(i)' <=> AfterEmptyLine(i))
  BY <1>1, <1>2, <1>3, <1>5, <1>6, MovesOn
<1>8. KnowsAt(l)'
  BY <1>2, <1>3, <1>7 DEF KnowsAt
<1>9. CASE st[l] # "RESET"
  BY <1>1, <1>7, <1>8, <1>9, StepInChunk
<1>10. CASE st[l] = "RESET"
  <2>1. RecordStart(c)
    BY <1>1, <1>2, <1>10 DEF RecordStart, AfterEmptyLine, Newline
  <2>2. InChunk(l, c) /\ c < offset
    BY <1>2, <1>10, AtWork DEF InChunk
  <2>3. begun[c] = 0
    <3>1. begun[c] \in Nat
      BY <1>2, <1>4
    <3>2. ~(begun[c] > 0)
      BY <1>2, <2>2 DEF IInv, Behind
    <3> QED BY <3>1, <3>2
  <2>4. begun' = [begun EXCEPT ![c] = 1]
    BY <1>1, <1>10, <2>3
  <2>5. \A p : RecordStart(p)' <=> RecordStart(p)
    BY <1>1, <1>7 DEF RecordStart
  <2>6. ASSUME NEW p \in Positions, begun'[p] > 0
        PROVE  /\ begun'[p] = 1 /\ RecordStart(p) /\ p < offset
               /\ \A m \in Lexers : Active(m)' /\ InChunk(m, p)' => pc'[m] = "lex" /\ p < cur'[m]
    <3>1. CASE p = c
      <4>1. begun'[p] = 1
        BY <1>4, <2>4, <3>1
      <4>2. ASSUME NEW m \in Lexers, Active(m)', InChunk(m, p)'
            PROVE  m = l
        <5>1. Active(m) /\ InChunk(m, p)
          BY <1>1, <4>2 DEF Active, InChunk
        <5>2. lo[m] \in Nat /\ hi[m] \in Nat
          BY <5>1, AtWork
        <5> QED BY <1>2, <2>2, <3>1, <5>1, <5>2 DEF IInv, Tiled, InChunk
      <4> QED BY <1>2, <1>7, <2>1, <2>2, <3>1, <4>1, <4>2
    <3>2. CASE p # c
      <4>1. begun'[p] = begun[p]
        BY <1>4, <2>4, <3>2
      <4>2. /\ begun[p] = 1 /\ RecordStart(p) /\ p < offset
            /\ \A m \in Lexers : Active(m) /\ InChunk(m, p) => pc[m] = "lex" /\ p < cur[m]
        BY <2>6, <4>1 DEF IInv, Behind
      <4>3. ASSUME NEW m \in Lexers, Active(m)', InChunk(m, p)'
            PROVE  pc'[m] = "lex" /\ p < cur'[m]
        <5>1. Active(m) /\ InChunk(m, p)
          BY <1>1, <4>3 DEF Active, InChunk
        <5>2. pc[m] = "lex" /\ p < cur[m]
          BY <4>2, <5>1
        <5>3. cur[m] \in Nat /\ p \in Nat /\ (m # l => cur'[m] = cur[m])
          BY <1>2, <1>7, <5>1, AtWork DEF Frame
        <5> QED BY <1>1, <1>7, <5>2, <5>3
      <4> QED BY <4>1, <4>2, <4>3
    <3> QED BY <3>1, <3>2
  <2>7. Behind'
    BY <1>1, <1>7, <2>5, <2>6 DEF Behind
  <2>8. offset \in Nat /\ offset' = offset
    BY <1>1, <1>2, AtWork
  <2>9. Tiled'
    <3>1. lo'[l] < hi'[l] /\ hi'[l] <= offset' /\ (offset' < Len0 => offset' = 0 \/ offset' >= 2)
      BY <1>2, <1>7, <2>8, AtWork DEF IInv, Tiled
    <3> QED BY <1>7, <2>8, <3>1, TiledMove DEF IInv
  <2>10. Knows'
    BY <1>7, <1>8, KnowsMove DEF IInv
  <2> QED BY <1>7, <2>7, <2>9, <2>10 DEF IInv
<1> QED BY <1>9, <1>10

LEMMA LeavingInv ==
  ASSUME IInv, NEW l \in Lexers,
         NoMoreChunks(l) \/ BadRecord(l) \/ EndChunk(l) \/ Splice(l) \/ Free(l)
  PROVE  IInv'
<1>1. UNCHANGED <<pp, offset, lo, hi, cur, st, begun>>
  BY DEF NoMoreChunks, BadRecord, EndChunk, Splice, Free, callvars, linevars
<1>2. PICK label \in {"offset", "splice", "err", "done", "failed"} :
        pc' = [pc EXCEPT ![l] = label]
  BY DEF NoMoreChunks, BadRecord, EndChunk, Splice, Free, Goto
<1> QED BY <1>1, <1>2, LeavesChunk

\* What the caller does, and stuttering, leaves all of this alone.
LEMMA CallerInv ==
  ASSUME IInv, UNCHANGED <<pp, offset, pc, st, lo, hi, cur, begun>>
  PROVE  IInv'
<1>1. Len0' = Len0 /\ Positions' = Positions
  BY DEF Len0, Positions
<1>2. \A i : (Newline(i)' <=> Newline(i)) /\ (RecordStart(i)' <=> RecordStart(i))
             /\ (AfterEmptyLine(i)' <=> AfterEmptyLine(i))
  BY DEF Newline, RecordStart, AfterEmptyLine, CharAt, Positions, Len0
<1>3. LexTypes' /\ Tiled'
  BY <1>1 DEF IInv, LexTypes, Tiled, Active
<1>4. Knows'
  BY <1>2 DEF IInv, Knows, KnowsAt, Active
<1>5. Behind'
  BY <1>1, <1>2 DEF IInv, Behind, Active, InChunk
<1> QED BY <1>3, <1>4, <1>5 DEF IInv

LEMMA StepInv == IInv /\ [Next]_vars => IInv'
<1> SUFFICES ASSUME IInv, [Next]_vars PROVE IInv'
  OBVIOUS
<1>1. ASSUME NEW l \in Lexers, LexerStep(l) PROVE IInv'
  BY <1>1, TakeChunkInv, SkipCharInv, SkipAllInv, LexCharInv, LexNewlineInv, LeavingInv
     DEF LexerStep
<1>2. CASE Call \/ Return \/ UNCHANGED vars
  <2>1. UNCHANGED <<pp, offset, pc, st, lo, hi, cur, begun>>
    BY <1>2 DEF Call, Return, lexvars, vars, callvars, listvars, linevars
  <2> QED BY <2>1, CallerInv
<1> QED BY <1>1, <1>2 DEF Next, Returned

-----------------------------------------------------------------------------

\* Whatever the text, the chunk size and the number of lexers, a record is begun
\* once at most, and nothing is begun that is not a record: the search from two
\* characters before a chunk finds the first record that starts in it, and the
\* condition of lex_chunk()'s loop leaves the next chunk's records alone.
THEOREM BegunOnceCorrect == Spec => []BegunOnce
<1>1. Init => IInv
  BY InitInv
<1>2. IInv => BegunOnce
  <2> SUFFICES ASSUME IInv, NEW p \in Positions
               PROVE  begun[p] <= 1 /\ (begun[p] = 1 => RecordStart(p))
    BY DEF BegunOnce
  <2>1. begun[p] \in Nat
    BY DEF IInv, LexTypes
  <2> QED BY <2>1 DEF IInv, Behind
<1> QED BY <1>1, <1>2, StepInv, PTL DEF Spec

-----------------------------------------------------------------------------
(* The objects: what the lexers make of the records.                        *)

Object == [rec : Nat, name : Names, ver : BOOLEAN]

ListTypes ==
  /\ main \in {"calling", "lexing", "returned"} /\ ret \in {"none", "null", "list"}
  /\ err \in BOOLEAN /\ rec \in [Lexers -> Nat] /\ delim \in [Lexers -> Names \cup {"null"}]
  /\ field \in [Lexers -> [name : Names \cup {"null"}, ver : BOOLEAN, stat : BOOLEAN]]
  /\ pobjs \in Seq(Object) /\ pcount = Len(pobjs) /\ root = [n \in Names |-> root[n]]
  /\ mine \in [Lexers -> Seq(Object)] /\ chain \in [Names -> Seq(Object)]

InRecord(l) == pc[l] = "lex" /\ st[l] # "RESET"
Live(l) == pc[l] \notin {"done", "failed"}
Lost == \E l \in Lexers : pc[l] \in {"err", "failed"}

-----------------------------------------------------------------------------
(* The record that a lexer is in.                                           *)

\* A line of the record at p begins at h; the lines of some kinds that begin before h.
LineStart(p, h) == h \in Positions /\ ~Newline(h) /\ (h = p \/ Newline(h - 1))
Past(p, h, kinds) == {i \in p..(h - 1) : LineStart(p, i) /\ CharAt(i) \in kinds}

\* The fields are those of the lines that begin before h.
FieldsRight(l, h) ==
  /\ IF field[l].name = "null" THEN Past(rec[l], h, Names) = {}
     ELSE \E i \in Positions : Past(rec[l], h, Names) = {i} /\ CharAt(i) = field[l].name
  /\ IF field[l].ver THEN \E i \in Positions : Past(rec[l], h, {"V"}) = {i}
     ELSE Past(rec[l], h, {"V"}) = {}
  /\ IF field[l].stat THEN \E i \in Positions : Past(rec[l], h, {"S"}) = {i}
     ELSE Past(rec[l], h, {"S"}) = {}

\* The state says how the line begins that the lexer is in.
KindRight(l, ch) ==
  /\ st[l] = "PKG" <=> ch \in Names
  /\ st[l] = "VER" <=> ch = "V"
  /\ st[l] = "STAT" <=> ch = "S"
  /\ ch \in Names => delim[l] = ch

\* The lexer is in the line that begins at h, or about to read what is at h.
AtLine(l, h) ==
  /\ rec[l] <= h /\ FieldsRight(l, h)
  /\ IF st[l] = "NLINE" THEN h = cur[l]
     ELSE /\ h < cur[l] /\ LineStart(rec[l], h) /\ KindRight(l, CharAt(h))
          /\ \A i \in h..(cur[l] - 1) : ~Newline(i)

Progress(l) ==
  /\ RecordStart(rec[l]) /\ begun[rec[l]] = 1
  /\ InChunk(l, rec[l]) /\ rec[l] < cur[l]
  /\ \A q \in EmptyLines(rec[l]) : q >= cur[l]
  /\ \E h \in 0..Len0 : AtLine(l, h)

\* Between two records a lexer has no fields.
ReadsAt(l) ==
  /\ InRecord(l) => Progress(l)
  /\ Active(l) /\ ~InRecord(l) => field[l] = NoFields

Reads == \A l \in Lexers : ReadsAt(l)

-----------------------------------------------------------------------------
(* No record is missed.                                                     *)

\* What a lexer in search of a record knows of the newline behind it.
SkipKnowsAt(l) ==
  pc[l] = "skip" /\ cur[l] >= lo[l] - 1 /\ Newline(cur[l] - 1) => st[l] = "NLINE"

SkipKnows == \A l \in Lexers : SkipKnowsAt(l)

\* The lexer has not come to p yet; it is there only between records.
Ahead(l, p) ==
  /\ Active(l) /\ InChunk(l, p) /\ cur[l] <= p
  /\ pc[l] = "skip" \/ st[l] # "RESET" => cur[l] < p

Noticed(p) == begun[p] = 1 \/ \E l \in Lexers : Ahead(l, p)

NotMissed == Lost \/ \A p \in Positions : RecordStart(p) /\ p < offset => Noticed(p)

\* The objects that have been made and not freed.
InMine(o) == \E l \in Lexers : Live(l) /\ o \in Objects(mine[l])
InMade(o) == o \in Objects(pobjs) \/ InMine(o)

InHands(p) == \E l \in Lexers : InRecord(l) /\ rec[l] = p

Read(p) == WellFormed(p) /\ (Listed(p) => InMade(ObjectOf(p)))

Kept == Lost \/ \A p \in Positions : begun[p] = 1 => InHands(p) \/ Read(p)

\* A lexer has failed for a reason.
Blame == Lost => pp.faults # {} \/ \E p \in RecordStarts : ~WellFormed(p)

-----------------------------------------------------------------------------
(* No object is wrong.                                                      *)

\* An object stands for a record that has been read to its end.
ObjectRight(o) ==
  /\ o.rec \in Positions /\ RecordStart(o.rec) /\ begun[o.rec] = 1 /\ ~InHands(o.rec)
  /\ Listed(o.rec) /\ o = ObjectOf(o.rec)

ObjectsRight == \A o \in Object : InMade(o) => ObjectRight(o)

\* A lexer's list is in file order, and what the lexer comes to next comes after it.
Sorted(list) == \A i, j \in 1..Len(list) : i < j => list[i].rec < list[j].rec

Before(l, r) ==
  /\ r < offset
  /\ pc[l] = "skip" => r < lo[l]
  /\ pc[l] = "lex" => r < cur[l]
  /\ InRecord(l) => r < rec[l]

MineBefore(l) == \A i \in 1..Len(mine[l]) : Before(l, mine[l][i].rec)

MineSorted == \A l \in Lexers : Live(l) => Sorted(mine[l]) /\ MineBefore(l)

\* No two lists have an object of the same record, and no list has two.
Disjoint(list, other) ==
  \A i \in 1..Len(list), j \in 1..Len(other) : list[i].rec # other[j].rec
Once(list) == \A i, j \in 1..Len(list) : list[i].rec = list[j].rec => i = j

MineApart ==
  /\ \A l, m \in Lexers : Live(l) /\ Live(m) /\ l # m => Disjoint(mine[l], mine[m])
  /\ \A l \in Lexers : Live(l) => Disjoint(mine[l], pobjs)
  /\ Once(pobjs)

\* The chains hold the objects by name, each once.
ChainsRight ==
  Lost \/ (pp.dfa = "filter" =>
    \A n \in Names :
      /\ \A o \in Object : o \in Objects(chain[n]) <=> (InMade(o) /\ o.name = n)
      /\ Once(chain[n]))

\* The trie's objects are those of the list, but for the names that were lost; a list
\* is spliced at most once.
EnteredFrom(list, n) ==
  \E lost \in SUBSET (1..Len(list)) :
    /\ lost = {} \/ MayFail("augment")
    /\ root[n] = FirstNamed(list, lost, n)

RootsRight ==
  /\ \A n \in Names : IF pp.dfa = "build" THEN EnteredFrom(pobjs, n) ELSE root[n] = -1
  /\ pp.dfa = "build" => /\ Sorted(pobjs)
                         /\ \A l \in Lexers : pc[l] # "done" => pobjs = <<>>

\* Where the lexers and the caller stand.
EndSeen == \A l \in pp.crew : pc[l] \in {"splice", "done"} => offset = Len0
OnlyCrew == \A l \in Lexers \ pp.crew : pc[l] = "done"
Report ==
  /\ main = "returned" <=> ret # "none"
  /\ ret = "list" => \A l \in Lexers : pc[l] = "done"
  /\ ret = "null" => Lost \/ pp.faults # {}
  /\ ret = "null" => \E l \in Lexers : pc[l] # "done"
  /\ main = "calling" => \A l \in pp.crew : pc[l] = "offset"

ListInv ==
  /\ ListTypes /\ Reads /\ SkipKnows /\ NotMissed /\ Kept /\ Blame
  /\ ObjectsRight /\ MineSorted /\ MineApart /\ ChainsRight /\ RootsRight
  /\ EndSeen /\ OnlyCrew /\ Report

-----------------------------------------------------------------------------
(* The text: it stays the same during a call.                               *)

LEMMA TextSame ==
  ASSUME pp' = pp
  PROVE  /\ Len0' = Len0 /\ Positions' = Positions /\ RecordStarts' = RecordStarts
         /\ \A i : (Newline(i)' <=> Newline(i)) /\ CharAt(i)' = CharAt(i)
         /\ \A p : /\ RecordStart(p)' <=> RecordStart(p)
                   /\ EmptyLines(p)' = EmptyLines(p) /\ Heads(p)' = Heads(p)
                   /\ WellFormed(p)' <=> WellFormed(p)
                   /\ Listed(p)' <=> Listed(p)
                   /\ ObjectOf(p)' = ObjectOf(p)
         /\ \A p, h : LineStart(p, h)' <=> LineStart(p, h)
         /\ \A p, h, kinds : Past(p, h, kinds)' = Past(p, h, kinds)
<1> USE DEF Len0, Positions, CharAt
<1>1. /\ Len0' = Len0 /\ Positions' = Positions
      /\ \A i : (Newline(i)' <=> Newline(i)) /\ CharAt(i)' = CharAt(i)
  BY DEF Newline
<1>2. \A p : (RecordStart(p)' <=> RecordStart(p)) /\ EmptyLines(p)' = EmptyLines(p)
  BY DEF RecordStart, EmptyLines, Newline
<1>3. \A p : Heads(p)' = Heads(p)
  BY DEF Heads, EmptyLines, Newline
<1>4. RecordStarts' = RecordStarts
  BY DEF RecordStarts, RecordStart, Newline
<1>5. \A p : (WellFormed(p)' <=> WellFormed(p))
  BY DEF WellFormed, Lines, Heads, EmptyLines, Newline
<1>6. \A p : (Listed(p)' <=> Listed(p)) /\ ObjectOf(p)' = ObjectOf(p)
  BY DEF Listed, ObjectOf, NameOf, Lines, Heads, EmptyLines, Newline
<1>7. \A p, h : LineStart(p, h)' <=> LineStart(p, h)
  BY DEF LineStart, Newline
<1>8. \A p, h, kinds : Past(p, h, kinds)' = Past(p, h, kinds)
  BY DEF Past, LineStart, Newline
<1> QED BY <1>1, <1>2, <1>3, <1>4, <1>5, <1>6, <1>7, <1>8

LEMMA NameFacts ==
  /\ "null" \notin Names /\ "V" \notin Names /\ "S" \notin Names /\ NL \notin Names
  /\ NL # "V" /\ NL # "S"
  BY LexAssumption DEF NL

\* The lines of a record are finitely many.
LEMMA LinesFinite ==
  ASSUME pp \in Inputs, NEW p, NEW kinds
  PROVE  IsFiniteSet(Lines(p, kinds))
<1>1. Len0 \in Nat /\ Positions = 0..(Len0 - 1)
  BY TextFacts
<1>2. IsFiniteSet(Positions)
  BY <1>1, FS_Interval
<1>3. Lines(p, kinds) \in SUBSET Positions
  BY DEF Lines, Heads
<1> QED BY <1>2, <1>3, FS_Subset

\* A lexer at the empty line of its record has passed all of the record's lines.
LEMMA AllLinesPast ==
  ASSUME pp \in Inputs, NEW p \in Nat, NEW c \in EmptyLines(p), \A q \in EmptyLines(p) : q >= c,
         NEW kinds
  PROVE  Lines(p, kinds) = Past(p, c, kinds)
<1>1. Len0 \in Nat /\ Positions = 0..(Len0 - 1) /\ c \in Positions
  BY TextFacts DEF EmptyLines
<1>2. EmptyLines(p) \subseteq Positions
  BY DEF EmptyLines
<1>3. \A i \in Positions : (\A q \in EmptyLines(p) : i < q) <=> i < c
  BY <1>1, <1>2
<1>4. \A i : i \in Heads(p) <=> i \in p..(c - 1) /\ LineStart(p, i)
  BY <1>1, <1>3 DEF Heads, LineStart
<1> QED BY <1>4 DEF Lines, Past

\* Passing the line that begins at h adds h to the lines passed.
LEMMA LinePassed ==
  ASSUME pp \in Inputs, NEW p \in Nat, NEW h \in Nat, NEW c \in Nat, p <= h, h < c,
         LineStart(p, h), \A i \in h..(c - 1) : ~Newline(i),
         NEW kinds
  PROVE  Past(p, c + 1, kinds) = Past(p, h, kinds) \cup {i \in {h} : CharAt(i) \in kinds}
<1>1. ASSUME NEW i \in (h + 1)..c PROVE ~LineStart(p, i)
  <2>1. i \in Nat /\ i # p /\ i - 1 \in h..(c - 1)
    OBVIOUS
  <2>2. ~Newline(i - 1)
    BY <2>1
  <2> QED BY <2>1, <2>2 DEF LineStart
<1>2. p..((c + 1) - 1) = (p..(h - 1)) \cup {h} \cup ((h + 1)..c)
  OBVIOUS
<1> QED BY <1>1, <1>2 DEF Past

-----------------------------------------------------------------------------
(* What a lexer's fields say of its record.                                 *)

LEMMA OneOrNone ==
  ASSUME NEW S, NEW b \in BOOLEAN, IF b THEN \E i : S = {i} ELSE S = {}
  PROVE  /\ b <=> Cardinality(S) = 1
         /\ b <=> S # {}
         /\ Cardinality(S) <= 1
<1>1. CASE b
  <2>1. PICK i : S = {i}
    BY <1>1
  <2>2. Cardinality(S) = 1
    BY <2>1, FS_Singleton
  <2> QED BY <1>1, <2>1, <2>2
<1>2. CASE ~b
  <2>1. S = {} /\ Cardinality(S) = 0
    BY <1>2, FS_EmptySet
  <2> QED BY <1>2, <2>1
<1> QED BY <1>1, <1>2

\* At the empty line that ends the record: the fields are the record's.
LEMMA RecordEnd ==
  ASSUME pp \in Inputs, NEW l \in Lexers, rec[l] \in Nat, Progress(l),
         st[l] = "NLINE", cur[l] \in EmptyLines(rec[l]),
         field[l] \in [name : Names \cup {"null"}, ver : BOOLEAN, stat : BOOLEAN]
  PROVE  /\ Complete(field[l]) <=> WellFormed(rec[l])
         /\ Complete(field[l]) => /\ Selected(field[l]) <=> Listed(rec[l])
                                  /\ Pkgobj(l) = ObjectOf(rec[l])
<1> DEFINE p == rec[l]
           f == field[l]
<1>1. FieldsRight(l, cur[l])
  BY DEF Progress, AtLine
<1>2. \A kinds : Lines(p, kinds) = Past(p, cur[l], kinds) /\ IsFiniteSet(Lines(p, kinds))
  BY AllLinesPast, LinesFinite DEF Progress
<1>3. IF f.name = "null" THEN Lines(p, Names) = {}
      ELSE \E i \in Positions : Lines(p, Names) = {i} /\ CharAt(i) = f.name
  BY <1>1, <1>2 DEF FieldsRight
<1>4. IF f.ver THEN \E i \in Positions : Lines(p, {"V"}) = {i} ELSE Lines(p, {"V"}) = {}
  BY <1>1, <1>2 DEF FieldsRight
<1>5. IF f.stat THEN \E i \in Positions : Lines(p, {"S"}) = {i} ELSE Lines(p, {"S"}) = {}
  BY <1>1, <1>2 DEF FieldsRight
<1>6. /\ f.name # "null" <=> Cardinality(Lines(p, Names)) = 1
      /\ f.name # "null" => NameOf(p) = f.name
  <2>1. CASE f.name = "null"
    BY <1>3, <2>1, FS_EmptySet
  <2>2. CASE f.name # "null"
    <3>1. PICK i \in Positions : Lines(p, Names) = {i} /\ CharAt(i) = f.name
      BY <1>3, <2>2
    <3>2. (CHOOSE j \in Lines(p, Names) : TRUE) = i
      BY <3>1
    <3> QED BY <2>2, <3>1, <3>2, FS_Singleton DEF NameOf
  <2> QED BY <2>1, <2>2
<1>7. /\ f.ver <=> Cardinality(Lines(p, {"V"})) = 1
      /\ f.ver <=> Lines(p, {"V"}) # {}
  BY <1>4, OneOrNone
<1>8. /\ Cardinality(Lines(p, {"S"})) <= 1
      /\ f.stat <=> Lines(p, {"S"}) # {}
  BY <1>5, OneOrNone
<1>9. EmptyLines(p) # {}
  OBVIOUS
<1>10. f.ver \in BOOLEAN /\ f.stat \in BOOLEAN
  OBVIOUS
<1>11. Complete(f) <=> WellFormed(p)
  BY <1>6, <1>7, <1>8, <1>9 DEF Complete, WellFormed
<1>12. Complete(f) => (Selected(f) <=> Listed(p))
  BY <1>6, <1>8 DEF Complete, Selected, Listed
<1>13. Complete(f) => Pkgobj(l) = ObjectOf(p)
  BY <1>6, <1>7, <1>10 DEF Complete, Pkgobj, ObjectOf
<1> QED BY <1>11, <1>12, <1>13

\* A second line of a kind: the record is malformed.
LEMMA RepeatedMalformed ==
  ASSUME pp \in Inputs, NEW l \in Lexers, rec[l] \in Nat, cur[l] \in Nat, Progress(l),
         st[l] # "NLINE", Repeated(l),
         field[l] \in [name : Names \cup {"null"}, ver : BOOLEAN, stat : BOOLEAN]
  PROVE  ~WellFormed(rec[l])
<1> DEFINE p == rec[l]
<1>1. PICK h \in 0..Len0 :
        /\ p <= h /\ h < cur[l] /\ FieldsRight(l, h) /\ LineStart(p, h) /\ KindRight(l, CharAt(h))
  BY DEF Progress, AtLine
<1>2. Len0 \in Nat /\ Positions = 0..(Len0 - 1) /\ h \in Nat /\ h \in Positions
  BY <1>1, TextFacts DEF LineStart
<1>3. ASSUME NEW i \in p..(cur[l] - 1), NEW kinds, LineStart(p, i), CharAt(i) \in kinds
      PROVE  i \in Lines(p, kinds)
  <2>1. \A q \in EmptyLines(p) : q \in Nat /\ q >= cur[l]
    BY <1>2 DEF Progress, EmptyLines
  <2>2. \A q \in EmptyLines(p) : i < q
    BY <2>1
  <2> QED BY <1>2, <1>3, <2>2 DEF Lines, Heads, LineStart
<1>4. ASSUME NEW kinds, CharAt(h) \in kinds, Past(p, h, kinds) # {}
      PROVE  Cardinality(Lines(p, kinds)) \in Nat /\ Cardinality(Lines(p, kinds)) > 1
  <2>1. PICK i \in Past(p, h, kinds) : TRUE
    BY <1>4
  <2>2. i \in p..(h - 1) /\ LineStart(p, i) /\ CharAt(i) \in kinds
    BY <2>1 DEF Past
  <2>3. {i, h} \in SUBSET Lines(p, kinds) /\ i # h
    BY <1>1, <1>2, <1>3, <1>4, <2>2
  <2>4. IsFiniteSet(Lines(p, kinds)) /\ Cardinality(Lines(p, kinds)) \in Nat
    BY LinesFinite, FS_CardinalityType
  <2>5. Cardinality(Lines(p, kinds)) # 0 /\ Cardinality(Lines(p, kinds)) # 1
    BY <2>3, <2>4, FS_EmptySet, FS_Singleton
  <2> QED BY <2>4, <2>5
<1>5. CASE st[l] = "PKG" /\ field[l].name # "null"
  <2>1. CharAt(h) \in Names /\ Past(p, h, Names) # {}
    BY <1>1, <1>5 DEF KindRight, FieldsRight
  <2> QED BY <1>4, <2>1 DEF WellFormed
<1>6. CASE st[l] = "VER" /\ field[l].ver
  <2>1. CharAt(h) \in {"V"} /\ Past(p, h, {"V"}) # {}
    BY <1>1, <1>6 DEF KindRight, FieldsRight
  <2>2. Cardinality(Lines(p, {"V"})) > 1 /\ Cardinality(Lines(p, {"V"})) \in Nat
    BY <1>4, <2>1
  <2>3. Lines(p, {"V"}) # {}
    BY <2>2, FS_EmptySet
  <2> QED BY <2>2, <2>3 DEF WellFormed
<1>7. CASE st[l] = "STAT" /\ field[l].stat
  <2>1. CharAt(h) \in {"S"} /\ Past(p, h, {"S"}) # {}
    BY <1>1, <1>7 DEF KindRight, FieldsRight
  <2>2. Cardinality(Lines(p, {"S"})) > 1 /\ Cardinality(Lines(p, {"S"})) \in Nat
    BY <1>4, <2>1
  <2> QED BY <2>2 DEF WellFormed
<1> QED BY <1>5, <1>6, <1>7 DEF Repeated

-----------------------------------------------------------------------------
(* One lexer's step, as the others see it: they stay where they are, and    *)
(* the mover begins a record or goes on with the one it has.                *)

Stays(m) ==
  /\ pc'[m] = pc[m] /\ st'[m] = st[m] /\ cur'[m] = cur[m] /\ lo'[m] = lo[m] /\ hi'[m] = hi[m]
  /\ rec'[m] = rec[m] /\ delim'[m] = delim[m] /\ field'[m] = field[m]

OthersStay(l) ==
  /\ Frame(l)
  /\ \A m \in Lexers \ {l} : rec'[m] = rec[m] /\ delim'[m] = delim[m] /\ field'[m] = field[m]

Begins(l) ==
  /\ InRecord(l)' /\ rec'[l] \in Positions /\ begun[rec'[l]] = 0
  /\ begun' = [begun EXCEPT ![rec'[l]] = 1]

Move(l) ==
  /\ OthersStay(l) /\ main = "lexing" /\ UNCHANGED <<main, ret, err>>
  /\ Live(l) /\ (pc[l] = "err" => pc'[l] = "failed")
  /\ \/ ~InRecord(l) /\ Begins(l)
     \/ begun' = begun /\ (InRecord(l)' => InRecord(l) /\ rec'[l] = rec[l])

LEMMA MoveFacts ==
  ASSUME IInv, NEW l \in Lexers, Move(l)
  PROVE  /\ pp' = pp /\ (Lost => Lost')
         /\ \A p \in Positions : begun[p] = 1 => begun'[p] = 1
         /\ \A p \in Positions : begun'[p] = 1 => begun[p] = 1 \/ (InRecord(l)' /\ rec'[l] = p)
         /\ \A p \in Positions : begun[p] = 1 /\ InHands(p)' => InHands(p)
         /\ \A m \in Lexers \ {l} : /\ InRecord(m)' <=> InRecord(m)
                                    /\ Live(m)' <=> Live(m)
                                    /\ rec'[m] = rec[m] /\ pc'[m] = pc[m]
<1>1. pp' = pp /\ begun \in [Positions -> Nat]
  BY DEF Move, OthersStay, Frame, IInv, LexTypes
<1>2. \A m \in Lexers \ {l} : /\ InRecord(m)' <=> InRecord(m)
                              /\ Live(m)' <=> Live(m)
                              /\ rec'[m] = rec[m] /\ pc'[m] = pc[m]
  BY DEF Move, OthersStay, Frame, InRecord, Live
<1>3. Lost => Lost'
  BY <1>2 DEF Lost, Move, Live
<1>4. \A p \in Positions : begun[p] = 1 => begun'[p] = 1
  BY <1>1 DEF Move, Begins
<1>5. \A p \in Positions : begun'[p] = 1 => begun[p] = 1 \/ (InRecord(l)' /\ rec'[l] = p)
  BY <1>1 DEF Move, Begins
<1>6. ASSUME NEW p \in Positions, begun[p] = 1, InHands(p)'
      PROVE  InHands(p)
  <2>1. PICK m \in Lexers : InRecord(m)' /\ rec'[m] = p
    BY <1>6 DEF InHands
  <2>2. CASE m = l
    BY <1>6, <2>1, <2>2 DEF Move, Begins, InHands
  <2>3. CASE m # l
    BY <1>2, <2>1, <2>3 DEF InHands
  <2> QED BY <2>2, <2>3
<1> QED BY <1>1, <1>2, <1>3, <1>4, <1>5, <1>6

\* A lexer that stays where it is goes on knowing what it knows.
LEMMA ReadsStay ==
  ASSUME pp' = pp, \A p \in Positions : begun[p] = 1 => begun'[p] = 1,
         NEW m, Stays(m), ReadsAt(m), SkipKnowsAt(m)
  PROVE  ReadsAt(m)' /\ SkipKnowsAt(m)'
<1>1. /\ pc'[m] = pc[m] /\ st'[m] = st[m] /\ cur'[m] = cur[m]
      /\ lo'[m] = lo[m] /\ hi'[m] = hi[m]
      /\ rec'[m] = rec[m] /\ delim'[m] = delim[m] /\ field'[m] = field[m]
  BY DEF Stays
<1>2. (InRecord(m)' <=> InRecord(m)) /\ (Active(m)' <=> Active(m))
  BY <1>1 DEF InRecord, Active
<1>3. ASSUME NEW h PROVE AtLine(m, h)' <=> AtLine(m, h)
  <2>1. FieldsRight(m, h)' <=> FieldsRight(m, h)
    BY <1>1, TextSame DEF FieldsRight
  <2>2. /\ CharAt(h)' = CharAt(h) /\ (LineStart(rec[m], h)' <=> LineStart(rec[m], h))
        /\ \A i : Newline(i)' <=> Newline(i)
    BY <1>1, TextSame DEF LineStart
  <2>3. KindRight(m, CharAt(h))' <=> KindRight(m, CharAt(h))
    BY <1>1, <2>2 DEF KindRight
  <2> QED BY <1>1, <2>1, <2>2, <2>3 DEF AtLine
<1>4. ASSUME Progress(m) PROVE Progress(m)'
  <2>1. RecordStart(rec[m])' /\ EmptyLines(rec[m])' = EmptyLines(rec[m]) /\ Len0' = Len0
    <3>1. PICK r : r = rec[m]
      OBVIOUS
    <3>2. (RecordStart(r)' <=> RecordStart(r)) /\ EmptyLines(r)' = EmptyLines(r) /\ Len0' = Len0
      BY TextSame
    <3>3. r = rec'[m] /\ RecordStart(r)
      BY <1>1, <1>4, <3>1 DEF Progress
    <3> QED BY <3>1, <3>2, <3>3 DEF RecordStart, EmptyLines
  <2>2. begun'[rec[m]] = 1
    BY <1>4 DEF Progress, RecordStart
  <2> QED BY <1>1, <1>3, <1>4, <2>1, <2>2 DEF Progress, InChunk
<1>5. ReadsAt(m)'
  BY <1>1, <1>2, <1>4 DEF ReadsAt, NoFields
<1>6. SkipKnowsAt(m)'
  <2>1. PICK c : c = cur[m] - 1
    OBVIOUS
  <2>2. Newline(c)' <=> Newline(c)
    BY TextSame
  <2> QED BY <1>1, <2>1, <2>2 DEF SkipKnowsAt, Newline
<1> QED BY <1>5, <1>6

LEMMA ReadsMove ==
  ASSUME IInv, Reads, SkipKnows, NEW l \in Lexers, Move(l), ReadsAt(l)', SkipKnowsAt(l)'
  PROVE  Reads' /\ SkipKnows'
<1>1. /\ pp' = pp /\ \A p \in Positions : begun[p] = 1 => begun'[p] = 1
  BY MoveFacts
<1>2. ASSUME NEW m \in Lexers \ {l} PROVE ReadsAt(m)' /\ SkipKnowsAt(m)'
  <2>1. Stays(m) /\ ReadsAt(m) /\ SkipKnowsAt(m)
    BY DEF Move, OthersStay, Frame, Stays, Reads, SkipKnows
  <2> QED BY <1>1, <2>1, ReadsStay
<1> QED BY <1>2 DEF Reads, SkipKnows

\* What was ahead of the mover it begins or still has ahead; so is what it takes.
LEMMA NotMissedMove ==
  ASSUME IInv, NotMissed, NEW l \in Lexers, Move(l),
         ~Lost' => \A p \in Positions : RecordStart(p) =>
                     /\ Ahead(l, p) => begun'[p] = 1 \/ Ahead(l, p)'
                     /\ offset <= p /\ p < offset' => Ahead(l, p)'
  PROVE  NotMissed'
<1>1. /\ pp' = pp /\ (Lost => Lost') /\ \A p \in Positions : begun[p] = 1 => begun'[p] = 1
      /\ Positions' = Positions /\ \A p : RecordStart(p)' <=> RecordStart(p)
  BY MoveFacts, TextSame
<1>2. SUFFICES ASSUME ~Lost', NEW p \in Positions, RecordStart(p), p < offset'
               PROVE  Noticed(p)'
  BY <1>1 DEF NotMissed
<1>3. offset \in Nat /\ p \in Nat
  BY TextFacts DEF IInv, LexTypes
<1>4. CASE p >= offset
  <2>1. Ahead(l, p)'
    BY <1>2, <1>3, <1>4
  <2> QED BY <2>1 DEF Noticed
<1>5. CASE p < offset
  <2>1. Noticed(p)
    BY <1>1, <1>2, <1>5 DEF NotMissed
  <2>2. CASE begun[p] = 1
    BY <1>1, <2>2 DEF Noticed
  <2>3. ASSUME NEW m \in Lexers, Ahead(m, p) PROVE Noticed(p)'
    <3>1. CASE m = l
      <4>1. begun'[p] = 1 \/ Ahead(l, p)'
        BY <1>2, <2>3, <3>1
      <4> QED BY <4>1 DEF Noticed
    <3>2. CASE m # l
      <4>1. /\ pc'[m] = pc[m] /\ st'[m] = st[m] /\ cur'[m] = cur[m]
            /\ lo'[m] = lo[m] /\ hi'[m] = hi[m]
        BY <3>2 DEF Move, OthersStay, Frame
      <4>2. Ahead(m, p)'
        BY <2>3, <4>1 DEF Ahead, Active, InChunk
      <4> QED BY <4>2 DEF Noticed
    <3> QED BY <3>1, <3>2
  <2> QED BY <2>1, <2>2, <2>3 DEF Noticed
<1> QED BY <1>3, <1>4, <1>5

\* The mover keeps its record in hand or has read it; nobody's objects are lost.
LEMMA KeptMove ==
  ASSUME IInv, Kept, NEW l \in Lexers, Move(l),
         ~Lost' => /\ \A p : InRecord(l) /\ rec[l] = p => (InRecord(l)' /\ rec'[l] = p) \/ Read(p)'
                   /\ \A o : InMade(o) => InMade(o)'
  PROVE  Kept'
<1>1. /\ pp' = pp /\ (Lost => Lost')
      /\ \A p \in Positions : begun'[p] = 1 => begun[p] = 1 \/ (InRecord(l)' /\ rec'[l] = p)
      /\ Positions' = Positions
      /\ \A m \in Lexers \ {l} : (InRecord(m)' <=> InRecord(m)) /\ rec'[m] = rec[m]
  BY MoveFacts, TextSame
<1>2. SUFFICES ASSUME ~Lost', NEW p \in Positions, begun'[p] = 1
               PROVE  InHands(p)' \/ Read(p)'
  BY <1>1 DEF Kept
<1>3. CASE begun[p] # 1
  BY <1>1, <1>2, <1>3 DEF InHands
<1>4. CASE InHands(p)
  <2>1. PICK m \in Lexers : InRecord(m) /\ rec[m] = p
    BY <1>4 DEF InHands
  <2>2. CASE m = l
    <3>1. (InRecord(l)' /\ rec'[l] = p) \/ Read(p)'
      BY <1>2, <2>1, <2>2
    <3>2. CASE InRecord(l)' /\ rec'[l] = p
      BY <3>2 DEF InHands
    <3> QED BY <2>1, <2>2, <3>1, <3>2
  <2>3. CASE m # l
    BY <1>1, <2>1, <2>3 DEF InHands
  <2> QED BY <2>2, <2>3
<1>5. CASE Read(p)
  <2>1. /\ WellFormed(p)' <=> WellFormed(p)
        /\ Listed(p)' <=> Listed(p)
        /\ ObjectOf(p)' = ObjectOf(p)
    BY <1>1, TextSame
  <2>2. PICK o : o = ObjectOf(p)
    OBVIOUS
  <2>3. InMade(o) => InMade(o)'
    BY <1>2
  <2>4. InMade(o)' => InMade(ObjectOf(p))'
    BY <2>1, <2>2 DEF InMade, InMine
  <2> QED BY <1>5, <2>1, <2>2, <2>3, <2>4 DEF Read
<1> QED BY <1>1, <1>2, <1>3, <1>4, <1>5 DEF Kept

\* No object comes to be wrong, if those that are new are right.
LEMMA ObjectsMove ==
  ASSUME IInv, ObjectsRight, NEW l \in Lexers, Move(l),
         \A o \in Object : InMade(o)' => InMade(o) \/ ObjectRight(o)'
  PROVE  ObjectsRight'
<1>1. /\ pp' = pp /\ Positions' = Positions
      /\ \A p \in Positions : begun[p] = 1 => begun'[p] = 1
      /\ \A p \in Positions : begun[p] = 1 /\ InHands(p)' => InHands(p)
  BY MoveFacts, TextSame
<1>2. ASSUME NEW o \in Object, InMade(o) PROVE ObjectRight(o)'
  <2>1. ObjectRight(o)
    BY <1>2 DEF ObjectsRight
  <2>2. PICK p : p = o.rec
    OBVIOUS
  <2>3. /\ p \in Positions /\ RecordStart(p) /\ begun[p] = 1 /\ ~InHands(p)
        /\ Listed(p) /\ o = ObjectOf(p)
    BY <2>1, <2>2 DEF ObjectRight
  <2>4. RecordStart(p)' /\ begun'[p] = 1 /\ ~InHands(p)' /\ Listed(p)' /\ o = ObjectOf(p)'
    BY <1>1, <2>3, TextSame
  <2>5. p \in Positions' /\ p = o.rec
    BY <1>1, <2>2, <2>3
  <2> QED BY <2>2, <2>4, <2>5 DEF ObjectRight
<1> QED BY <1>2 DEF ObjectsRight, Object

-----------------------------------------------------------------------------
(* Lists of objects.                                                        *)

LEMMA ListFacts ==
  ASSUME NEW q \in Seq(Object), NEW i \in 1..Len(q)
  PROVE  /\ Len(q) \in Nat /\ q[i] \in Object /\ q[i] \in Objects(q)
         /\ q[i].rec \in Nat /\ q[i].name \in Names
<1>1. Len(q) \in Nat /\ q[i] \in Object
  OBVIOUS
<1> QED BY <1>1 DEF Object, Objects

LEMMA AppendFacts ==
  ASSUME NEW q \in Seq(Object), NEW o \in Object
  PROVE  /\ Append(q, o) \in Seq(Object) /\ Len(Append(q, o)) = Len(q) + 1 /\ Len(q) \in Nat
         /\ Append(q, o)[Len(q) + 1] = o
         /\ \A i \in 1..Len(q) : Append(q, o)[i] = q[i]
         /\ \A x : x \in Objects(Append(q, o)) <=> (x \in Objects(q) \/ x = o)
<1>1. /\ Append(q, o) \in Seq(Object) /\ Len(Append(q, o)) = Len(q) + 1 /\ Len(q) \in Nat
      /\ Append(q, o)[Len(q) + 1] = o
      /\ \A i \in 1..Len(q) : Append(q, o)[i] = q[i]
  OBVIOUS
<1>2. 1..(Len(q) + 1) = (1..Len(q)) \cup {Len(q) + 1}
  BY <1>1
<1>3. \A x : x \in Objects(Append(q, o)) <=> (x \in Objects(q) \/ x = o)
  BY <1>1, <1>2 DEF Objects
<1> QED BY <1>1, <1>3

LEMMA ConcatFacts ==
  ASSUME NEW q \in Seq(Object), NEW s \in Seq(Object)
  PROVE  /\ q \o s \in Seq(Object) /\ Len(q \o s) = Len(q) + Len(s)
         /\ Len(q) \in Nat /\ Len(s) \in Nat
         /\ \A i \in 1..Len(q) : (q \o s)[i] = q[i]
         /\ \A i \in 1..Len(s) : (q \o s)[Len(q) + i] = s[i]
         /\ \A i \in 1..Len(q \o s) : i \in 1..Len(q) \/ \E j \in 1..Len(s) : i = Len(q) + j
         /\ \A x : x \in Objects(q \o s) <=> (x \in Objects(q) \/ x \in Objects(s))
<1>1. /\ q \o s \in Seq(Object) /\ Len(q \o s) = Len(q) + Len(s)
      /\ Len(q) \in Nat /\ Len(s) \in Nat
      /\ \A i \in 1..Len(q) : (q \o s)[i] = q[i]
  OBVIOUS
<1>2. ASSUME NEW i \in 1..Len(s) PROVE (q \o s)[Len(q) + i] = s[i]
  <2>1. Len(q) + i \in 1..(Len(q) + Len(s)) /\ Len(q) + i > Len(q) /\ (Len(q) + i) - Len(q) = i
    BY <1>1
  <2> QED BY <1>1, <2>1
<1>3. ASSUME NEW i \in 1..Len(q \o s)
      PROVE  i \in 1..Len(q) \/ \E j \in 1..Len(s) : i = Len(q) + j
  <2>1. i \in Nat /\ i >= 1 /\ i <= Len(q) + Len(s)
    BY <1>1
  <2>2. CASE i <= Len(q)
    BY <1>1, <2>1, <2>2
  <2>3. CASE i > Len(q)
    <3>1. i - Len(q) \in 1..Len(s) /\ i = Len(q) + (i - Len(q))
      BY <1>1, <2>1, <2>3
    <3> QED BY <3>1
  <2> QED BY <1>1, <2>1, <2>2, <2>3
<1>4. ASSUME NEW x PROVE x \in Objects(q \o s) <=> (x \in Objects(q) \/ x \in Objects(s))
  <2>1. ASSUME x \in Objects(q \o s) PROVE x \in Objects(q) \/ x \in Objects(s)
    <3>1. PICK i \in 1..Len(q \o s) : x = (q \o s)[i]
      BY <2>1 DEF Objects
    <3> QED BY <1>1, <1>2, <1>3, <3>1 DEF Objects
  <2>2. ASSUME x \in Objects(q) PROVE x \in Objects(q \o s)
    <3>1. PICK i \in 1..Len(q) : x = q[i]
      BY <2>2 DEF Objects
    <3>2. i \in 1..Len(q \o s) /\ x = (q \o s)[i]
      BY <1>1, <3>1
    <3> QED BY <3>2 DEF Objects
  <2>3. ASSUME x \in Objects(s) PROVE x \in Objects(q \o s)
    <3>1. PICK i \in 1..Len(s) : x = s[i]
      BY <2>3 DEF Objects
    <3>2. Len(q) + i \in 1..Len(q \o s) /\ x = (q \o s)[Len(q) + i]
      BY <1>1, <1>2, <3>1
    <3> QED BY <3>2 DEF Objects
  <2> QED BY <2>1, <2>2, <2>3
<1> QED BY <1>1, <1>2, <1>3, <1>4

\* Two lists in one: each record once, if it is so in both and they share none.
LEMMA OnceConcat ==
  ASSUME NEW q \in Seq(Object), NEW s \in Seq(Object), Once(q), Once(s), Disjoint(q, s)
  PROVE  Once(q \o s)
<1> SUFFICES ASSUME NEW i \in 1..Len(q \o s), NEW j \in 1..Len(q \o s),
                    (q \o s)[i].rec = (q \o s)[j].rec
             PROVE  i = j
  BY DEF Once
<1>1. CASE i \in 1..Len(q) /\ j \in 1..Len(q)
  BY <1>1, ConcatFacts DEF Once
<1>2. ASSUME NEW k \in 1..Len(s), i = Len(q) + k, j \in 1..Len(q)
      PROVE  FALSE
  BY <1>2, ConcatFacts DEF Disjoint
<1>3. ASSUME NEW k \in 1..Len(s), j = Len(q) + k, i \in 1..Len(q)
      PROVE  FALSE
  BY <1>3, ConcatFacts DEF Disjoint
<1>4. ASSUME NEW k \in 1..Len(s), i = Len(q) + k, NEW n \in 1..Len(s), j = Len(q) + n
      PROVE  i = j
  BY <1>4, ConcatFacts DEF Once
<1> QED BY <1>1, <1>2, <1>3, <1>4, ConcatFacts

LEMMA SortedOnce ==
  ASSUME NEW q \in Seq(Object), Sorted(q)
  PROVE  Once(q)
<1> SUFFICES ASSUME NEW i \in 1..Len(q), NEW j \in 1..Len(q), q[i].rec = q[j].rec, i # j
             PROVE  FALSE
  BY DEF Once
<1>1. Len(q) \in Nat /\ q[i].rec \in Nat /\ q[j].rec \in Nat
  BY ListFacts
<1>2. i < j \/ j < i
  BY <1>1
<1> QED BY <1>1, <1>2 DEF Sorted

\* A list that is once for each of its records has as many objects as elements.
LEMMA OnceCount ==
  ASSUME NEW q \in Seq(Object), Once(q)
  PROVE  Len(q) = Cardinality(Objects(q))
<1>1. Len(q) \in Nat /\ q \in [1..Len(q) -> Object]
  OBVIOUS
<1>2. \A i, j \in 1..Len(q) : q[i] = q[j] => i = j
  BY DEF Once
<1>3. q \in Bijection(1..Len(q), Objects(q))
  <2>1. q \in [1..Len(q) -> Objects(q)]
    BY <1>1 DEF Objects
  <2>2. q \in Injection(1..Len(q), Objects(q))
    BY <1>2, <2>1 DEF Injection, IsInjective
  <2>3. q \in Surjection(1..Len(q), Objects(q))
    BY <2>1 DEF Surjection, Objects
  <2> QED BY <2>2, <2>3 DEF Bijection
<1>4. ExistsBijection(1..Len(q), Objects(q))
  BY <1>3 DEF ExistsBijection
<1> QED BY <1>1, <1>4, FS_CountingElements

-----------------------------------------------------------------------------
(* The steps that lex: they leave every list alone.                         *)

Quiet(l) ==
  /\ Move(l) /\ Live(l)' /\ offset' \in Nat /\ offset' >= offset
  /\ UNCHANGED <<listvars, chain, mine>>
  /\ rec' \in [Lexers -> Nat] /\ delim' \in [Lexers -> Names \cup {"null"}]
  /\ field' \in [Lexers -> [name : Names \cup {"null"}, ver : BOOLEAN, stat : BOOLEAN]]
  /\ offset' # offset => offset < Len0
  /\ pc'[l] = "splice" => offset' = Len0

LEMMA QuietMade ==
  ASSUME IInv, NEW l \in Lexers, Quiet(l)
  PROVE  /\ \A m \in Lexers : Live(m)' <=> Live(m)
         /\ \A o : InMade(o)' <=> InMade(o)
         /\ \A m \in Lexers : pc'[m] \in {"done", "failed"} <=> pc[m] \in {"done", "failed"}
         /\ \A m \in Lexers : pc'[m] = "done" <=> pc[m] = "done"
<1>1. \A m \in Lexers \ {l} : (Live(m)' <=> Live(m)) /\ pc'[m] = pc[m]
  BY MoveFacts DEF Quiet
<1>2. Live(l) /\ Live(l)'
  BY DEF Quiet, Move
<1>3. \A m \in Lexers : Live(m)' <=> Live(m)
  BY <1>1, <1>2
<1>4. \A o : InMade(o)' <=> InMade(o)
  BY <1>3 DEF InMade, InMine, Quiet, Objects, listvars
<1> QED BY <1>1, <1>2, <1>3, <1>4 DEF Live

LEMMA QuietObjects ==
  ASSUME IInv, ListInv, NEW l \in Lexers, Quiet(l), MineBefore(l)'
  PROVE  /\ ListTypes' /\ ObjectsRight' /\ MineSorted' /\ MineApart'
         /\ ChainsRight' /\ RootsRight' /\ OnlyCrew' /\ Report'
<1>1. /\ pp' = pp /\ (Lost => Lost') /\ main = "lexing" /\ main' = main /\ ret' = ret /\ err' = err
      /\ UNCHANGED <<pobjs, pcount, root, chain, mine>>
  BY MoveFacts DEF Quiet, Move, listvars
<1>2. /\ \A m \in Lexers : Live(m)' <=> Live(m)
      /\ \A o : InMade(o)' <=> InMade(o)
      /\ \A m \in Lexers : pc'[m] = "done" <=> pc[m] = "done"
  BY QuietMade
<1>3. ListTypes'
  BY <1>1 DEF ListInv, ListTypes, Quiet
<1>4. ObjectsRight'
  BY <1>2, ObjectsMove DEF ListInv, Quiet
<1>5. MineSorted'
  <2>1. ASSUME NEW m \in Lexers \ {l}, Live(m) PROVE MineBefore(m)'
    <3>1. /\ pc'[m] = pc[m] /\ st'[m] = st[m] /\ cur'[m] = cur[m] /\ lo'[m] = lo[m]
          /\ rec'[m] = rec[m] /\ offset' >= offset /\ mine' = mine
      BY <1>1 DEF Quiet, Move, OthersStay, Frame
    <3>2. offset \in Nat /\ offset' \in Int /\ mine[m] \in Seq(Object) /\ Len(mine[m]) \in Nat
      <4>1. offset \in Nat /\ mine[m] \in Seq(Object)
        BY TextFacts DEF IInv, LexTypes, ListInv, ListTypes
      <4>2. offset' \in Int
        BY DEF Quiet
      <4> QED BY <4>1, <4>2
    <3>3. ASSUME NEW i \in 1..Len(mine[m]) PROVE Before(m, mine[m][i].rec)'
      <4>1. Before(m, mine[m][i].rec)
        BY <2>1 DEF ListInv, MineSorted, MineBefore
      <4>2. mine[m][i].rec \in Nat
        BY <3>2, ListFacts
      <4> QED BY <3>1, <3>2, <4>1, <4>2 DEF Before, InRecord
    <3> QED BY <3>1, <3>3 DEF MineBefore
  <2> QED BY <1>1, <1>2, <2>1 DEF ListInv, MineSorted, Sorted
<1>6. MineApart'
  BY <1>1, <1>2 DEF ListInv, MineApart, Disjoint, Once
<1>7. ChainsRight'
  <2>1. SUFFICES ASSUME ~Lost, pp.dfa = "filter", NEW n \in Names
                 PROVE  /\ \A o \in Object : o \in Objects(chain[n])' <=> (InMade(o)' /\ o.name = n)
                        /\ Once(chain[n])'
    BY <1>1 DEF ChainsRight
  <2>2. /\ \A o \in Object : o \in Objects(chain[n]) <=> (InMade(o) /\ o.name = n)
        /\ Once(chain[n])
    BY <2>1 DEF ListInv, ChainsRight
  <2>3. Objects(chain[n])' = Objects(chain[n]) /\ (Once(chain[n])' <=> Once(chain[n]))
    BY <1>1 DEF Objects, Once
  <2> QED BY <1>2, <2>2, <2>3
<1>8. RootsRight'
  BY <1>1, <1>2 DEF ListInv, RootsRight, EnteredFrom, MayFail
<1>9. OnlyCrew'
  BY <1>1, <1>2 DEF ListInv, OnlyCrew
<1>10. Report'
  BY <1>1 DEF ListInv, Report
<1> QED BY <1>3, <1>4, <1>5, <1>6, <1>7, <1>8, <1>9, <1>10

\* It is enough to look at what the mover knows, leaves behind and has before it.
LEMMA QuietStep ==
  ASSUME IInv, ListInv, NEW l \in Lexers, Quiet(l),
         ReadsAt(l)', SkipKnowsAt(l)', MineBefore(l)',
         ~Lost' => \A p \in Positions : RecordStart(p) =>
                     /\ Ahead(l, p) => begun'[p] = 1 \/ Ahead(l, p)'
                     /\ offset <= p /\ p < offset' => Ahead(l, p)',
         ~Lost' => \A p : InRecord(l) /\ rec[l] = p => InRecord(l)' /\ rec'[l] = p,
         pc'[l] = "err" => pp.faults # {} \/ \E p \in RecordStarts : ~WellFormed(p)
  PROVE  ListInv'
<1>1. /\ ListTypes' /\ ObjectsRight' /\ MineSorted' /\ MineApart'
      /\ ChainsRight' /\ RootsRight' /\ OnlyCrew' /\ Report'
  BY QuietObjects
<1>2. Move(l)
  BY DEF Quiet
<1>3. Reads' /\ SkipKnows'
  BY <1>2, ReadsMove DEF ListInv
<1>4. NotMissed'
  BY <1>2, NotMissedMove DEF ListInv
<1>5. Kept'
  <2>1. \A o : InMade(o)' <=> InMade(o)
    BY QuietMade
  <2> QED BY <1>2, <2>1, KeptMove DEF ListInv
<1>6. /\ pp' = pp /\ Len0' = Len0 /\ RecordStarts' = RecordStarts
      /\ \A p : WellFormed(p)' <=> WellFormed(p)
      /\ \A m \in Lexers \ {l} : pc'[m] = pc[m]
  BY <1>2, MoveFacts, TextSame
<1>7. Blame'
  <2>1. SUFFICES ASSUME Lost'
                 PROVE  pp.faults # {} \/ \E p \in RecordStarts : ~WellFormed(p)
    BY <1>6 DEF Blame
  <2>2. Lost \/ pc'[l] = "err"
    BY <1>6, <2>1 DEF Lost, Quiet, Live
  <2> QED BY <2>2 DEF ListInv, Blame
<1>8. EndSeen'
  <2>1. SUFFICES ASSUME NEW m \in pp.crew, m \in Lexers, pc'[m] \in {"splice", "done"}
                 PROVE  offset' = Len0
    <3>1. pp.crew \subseteq Lexers
      BY LexAssumption DEF IInv, LexTypes
    <3> QED BY <1>6, <3>1 DEF EndSeen
  <2>2. CASE m = l
    BY <2>1, <2>2 DEF Quiet, Live
  <2>3. CASE m # l
    <3>1. offset = Len0 /\ Len0 \in Nat
      BY <1>6, <2>1, <2>3, TextFacts DEF ListInv, EndSeen, IInv, LexTypes
    <3> QED BY <3>1 DEF Quiet
  <2> QED BY <2>2, <2>3
<1> QED BY <1>1, <1>3, <1>4, <1>5, <1>7, <1>8 DEF ListInv

-----------------------------------------------------------------------------
(* One lemma per step that lexes.                                           *)

LEMMA LexerFacts ==
  ASSUME IInv, ListInv, NEW l \in Lexers
  PROVE  /\ Len0 \in Nat /\ Positions = 0..(Len0 - 1) /\ pp \in Inputs /\ offset \in Nat
         /\ rec \in [Lexers -> Nat] /\ delim \in [Lexers -> Names \cup {"null"}]
         /\ field \in [Lexers -> [name : Names \cup {"null"}, ver : BOOLEAN, stat : BOOLEAN]]
         /\ mine[l] \in Seq(Object) /\ Len(mine[l]) \in Nat
         /\ cur[l] \in Nat /\ lo[l] \in Nat /\ hi[l] \in Nat /\ rec[l] \in Nat /\ pc[l] \in LexerPCs
         /\ pc \in [Lexers -> LexerPCs] /\ begun \in [Positions -> Nat]
         /\ ReadsAt(l) /\ SkipKnowsAt(l) /\ (Live(l) => MineBefore(l) /\ Sorted(mine[l]))
<1>1. Len0 \in Nat /\ Positions = 0..(Len0 - 1) /\ pp \in Inputs /\ offset \in Nat
  BY TextFacts DEF IInv, LexTypes
<1>2. cur[l] \in Nat /\ lo[l] \in Nat /\ hi[l] \in Nat /\ pc[l] \in LexerPCs
      /\ pc \in [Lexers -> LexerPCs] /\ begun \in [Positions -> Nat]
  BY <1>1 DEF IInv, LexTypes
<1>3. /\ rec \in [Lexers -> Nat] /\ delim \in [Lexers -> Names \cup {"null"}]
      /\ field \in [Lexers -> [name : Names \cup {"null"}, ver : BOOLEAN, stat : BOOLEAN]]
      /\ mine \in [Lexers -> Seq(Object)]
  BY DEF ListInv, ListTypes
<1>4. mine[l] \in Seq(Object) /\ rec[l] \in Nat
  BY <1>3
<1>5. Len(mine[l]) \in Nat
  BY <1>4
<1>6. ReadsAt(l) /\ SkipKnowsAt(l) /\ (Live(l) => MineBefore(l) /\ Sorted(mine[l]))
  BY DEF ListInv, Reads, SkipKnows, MineSorted
<1> QED BY <1>1, <1>2, <1>3, <1>4, <1>5, <1>6

LEMMA AtRecordEnd ==
  ASSUME IInv, ListInv, NEW l \in Lexers, Lexing(l), CharAt(cur[l]) = NL, st[l] = "NLINE"
  PROVE  Progress(l) /\ cur[l] \in EmptyLines(rec[l])
<1>1. /\ pc[l] = "lex" /\ Active(l) /\ KnowsAt(l) /\ cur[l] \in Positions /\ cur[l] \in Nat
  BY LexingFacts
<1>2. Progress(l)
  BY <1>1, LexerFacts DEF ReadsAt, InRecord
<1>3. Newline(cur[l]) /\ Newline(cur[l] - 1)
  BY <1>1 DEF Newline, KnowsAt
<1>4. cur[l] > rec[l]
  BY <1>1, <1>2, LexerFacts DEF Progress
<1> QED BY <1>1, <1>2, <1>3, <1>4 DEF EmptyLines

\* A lexer that leaves the loop, or finds no chunk.
LEMMA LeavingList ==
  ASSUME IInv, ListInv, NEW l \in Lexers, NEW label \in {"offset", "splice", "err"},
         main = "lexing", pc[l] \in {"offset", "lex"}, pc' = [pc EXCEPT ![l] = label],
         label = "offset" => pc[l] = "lex" /\ st[l] = "RESET" /\ cur[l] >= hi[l],
         label = "splice" => pc[l] = "offset" /\ offset = Len0,
         label = "err" => pp.faults # {} \/ \E p \in RecordStarts : ~WellFormed(p),
         UNCHANGED <<callvars, offset, listvars, chain, lo, hi, cur, linevars, mine, begun>>
  PROVE  ListInv'
<1>1. /\ UNCHANGED <<pp, main, ret, err, offset, lo, hi, cur, st, rec, delim, field, mine, begun>>
      /\ Len0' = Len0
  BY TextSame DEF callvars, linevars
<1>2. pc'[l] = label /\ \A m \in Lexers \ {l} : pc'[m] = pc[m]
  BY LexerFacts
<1>3. Live(l) /\ Live(l)' /\ ~Active(l)' /\ ~InRecord(l)'
  BY <1>2 DEF Live, Active, InRecord
<1>4. Move(l)
  BY <1>1, <1>2, <1>3 DEF Move, OthersStay, Frame
<1>5. Quiet(l)
  BY <1>1, <1>2, <1>3, <1>4, LexerFacts DEF Quiet
<1>6. ReadsAt(l)' /\ SkipKnowsAt(l)'
  BY <1>2, <1>3 DEF ReadsAt, SkipKnowsAt
<1>7. MineBefore(l)'
  BY <1>1, <1>2, <1>3, LexerFacts DEF MineBefore, Before
<1>8. ASSUME NEW p \in Positions, ~Lost' PROVE ~Ahead(l, p)
  <2>1. label # "err"
    BY <1>2, <1>8 DEF Lost
  <2> QED BY <2>1, LexerFacts DEF Ahead, Active, InChunk
<1>9. ~Lost' => ~InRecord(l)
  BY <1>2 DEF Lost, InRecord
<1>10. \A p \in Positions : ~(offset <= p /\ p < offset')
  BY <1>1, LexerFacts
<1> QED BY <1>2, <1>5, <1>6, <1>7, <1>8, <1>9, <1>10, QuietStep

LEMMA NoMoreChunksList ==
  ASSUME IInv, ListInv, NEW l \in Lexers, NoMoreChunks(l)
  PROVE  ListInv'
<1>1. /\ main = "lexing" /\ pc[l] = "offset" /\ offset = Len0 /\ pc' = [pc EXCEPT ![l] = "splice"]
      /\ UNCHANGED <<callvars, offset, listvars, chain, lo, hi, cur, linevars, mine, begun>>
  BY DEF NoMoreChunks, At, Goto
<1> QED BY <1>1, LeavingList

\* A chunk is left between two records; a text that ends inside one is malformed.
LEMMA EndChunkList ==
  ASSUME IInv, ListInv, NEW l \in Lexers, EndChunk(l)
  PROVE  ListInv'
<1> DEFINE label == IF st[l] = "RESET" THEN "offset" ELSE "err"
<1>1. /\ main = "lexing" /\ pc[l] = "lex" /\ ~Lexing(l) /\ pc' = [pc EXCEPT ![l] = label]
      /\ UNCHANGED <<callvars, offset, listvars, chain, lo, hi, cur, linevars, mine, begun>>
  BY DEF EndChunk, At, Goto
<1>2. /\ cur[l] \in Nat /\ hi[l] \in Nat /\ Len0 \in Nat /\ Positions = 0..(Len0 - 1)
      /\ cur[l] >= hi[l] /\ (st[l] # "RESET" => cur[l] >= Len0)
  BY <1>1, LexerFacts DEF Lexing, At
<1>3. ASSUME st[l] # "RESET" PROVE \E p \in RecordStarts : ~WellFormed(p)
  <2>1. Progress(l)
    BY <1>1, <1>3, LexerFacts DEF ReadsAt, InRecord
  <2>2. EmptyLines(rec[l]) = {}
    BY <1>2, <1>3, <2>1 DEF Progress, EmptyLines
  <2>3. rec[l] \in RecordStarts
    BY <2>1 DEF Progress, RecordStarts, RecordStart
  <2> QED BY <2>2, <2>3 DEF WellFormed
<1>4. label \in {"offset", "err"} /\ (label = "offset" => st[l] = "RESET")
      /\ (label = "err" => st[l] # "RESET")
  OBVIOUS
<1> HIDE DEF label
<1> QED BY <1>1, <1>2, <1>3, <1>4, LeavingList

\* create_package() fails because it is made to, or because a field is missing.
LEMMA BadRecordList ==
  ASSUME IInv, ListInv, NEW l \in Lexers, BadRecord(l)
  PROVE  ListInv'
<1>1. /\ Lexing(l) /\ CharAt(cur[l]) = NL /\ st[l] = "NLINE"
      /\ ~Complete(field[l]) \/ "package" \in pp.faults
      /\ pc' = [pc EXCEPT ![l] = "err"]
      /\ UNCHANGED <<callvars, offset, listvars, chain, lo, hi, cur, linevars, mine, begun>>
  BY DEF BadRecord, EndsRecord, MayFail, Goto
<1>2. main = "lexing" /\ pc[l] = "lex"
  BY <1>1 DEF Lexing, At
<1>3. Progress(l) /\ cur[l] \in EmptyLines(rec[l])
  BY <1>1, AtRecordEnd
<1>4. ~Complete(field[l]) => ~WellFormed(rec[l])
  BY <1>1, <1>3, LexerFacts, RecordEnd
<1>5. rec[l] \in RecordStarts
  BY <1>3 DEF Progress, RecordStarts, RecordStart
<1> QED BY <1>1, <1>2, <1>4, <1>5, LeavingList

\* The chunk that is taken begins where the one before it ends, and the lexer is
\* before its first record.
LEMMA TakeChunkList ==
  ASSUME IInv, IInv', ListInv, NEW l \in Lexers, TakeChunk(l)
  PROVE  ListInv'
<1>1. /\ main = "lexing" /\ pc[l] = "offset" /\ offset < Len0 /\ offset' = NextOffset
      /\ lo' = [lo EXCEPT ![l] = offset] /\ hi' = [hi EXCEPT ![l] = ChunkEnd]
      /\ UNCHANGED <<pp, main, ret, err, listvars, chain, rec, delim, mine, begun>>
      /\ field' = [field EXCEPT ![l] = NoFields]
  BY DEF TakeChunk, At, callvars
<1>2. /\ pp.csize \in Nat /\ pp.csize >= 2 /\ Len0 \in Nat /\ offset \in Nat /\ pp \in Inputs
      /\ Positions = 0..(Len0 - 1)
  BY LexerFacts, TextFacts
<1>3. offset' \in Nat /\ offset' > offset /\ ChunkEnd = offset'
  BY <1>1, <1>2 DEF NextOffset, ChunkEnd
<1>4. \/ /\ offset = 0 /\ cur' = [cur EXCEPT ![l] = 0]
         /\ st' = [st EXCEPT ![l] = "RESET"] /\ pc' = [pc EXCEPT ![l] = "lex"]
      \/ /\ cur' = [cur EXCEPT ![l] = offset - 2]
         /\ st' = [st EXCEPT ![l] = "PDATA"] /\ pc' = [pc EXCEPT ![l] = "skip"]
  BY <1>1 DEF TakeChunk, SkipFrom, SetState, Goto
<1>5. /\ lo'[l] = offset /\ hi'[l] = offset' /\ field'[l] = NoFields
      /\ \/ offset = 0 /\ cur'[l] = 0 /\ st'[l] = "RESET" /\ pc'[l] = "lex"
         \/ cur'[l] = offset - 2 /\ st'[l] = "PDATA" /\ pc'[l] = "skip"
  <2>1. /\ lo \in [Lexers -> 0..Len0] /\ hi \in [Lexers -> 0..Len0] /\ cur \in [Lexers -> 0..Len0]
        /\ st \in [Lexers -> States] /\ pc \in [Lexers -> LexerPCs]
    BY DEF IInv, LexTypes
  <2>2. field'[l] = NoFields
    BY <1>1, LexerFacts
  <2> QED BY <1>1, <1>3, <1>4, <2>1, <2>2
<1>6. \A m \in Lexers \ {l} : /\ pc'[m] = pc[m] /\ st'[m] = st[m] /\ cur'[m] = cur[m]
                              /\ lo'[m] = lo[m] /\ hi'[m] = hi[m] /\ field'[m] = field[m]
  <2>1. /\ lo \in [Lexers -> 0..Len0] /\ hi \in [Lexers -> 0..Len0] /\ cur \in [Lexers -> 0..Len0]
        /\ st \in [Lexers -> States] /\ pc \in [Lexers -> LexerPCs]
    BY DEF IInv, LexTypes
  <2>2. \A m \in Lexers \ {l} : field'[m] = field[m]
    BY <1>1, LexerFacts
  <2>3. \A m \in Lexers \ {l} : pc'[m] = pc[m] /\ st'[m] = st[m] /\ cur'[m] = cur[m]
    BY <1>4, <2>1
  <2> QED BY <1>1, <2>1, <2>2, <2>3
<1>7. Live(l) /\ Live(l)' /\ ~InRecord(l) /\ ~InRecord(l)' /\ ~Active(l)
  BY <1>1, <1>5 DEF Live, InRecord, Active
<1>8. Move(l)
  BY <1>1, <1>6, <1>7 DEF Move, OthersStay, Frame
<1>9. Quiet(l)
  <2>1. NoFields \in [name : Names \cup {"null"}, ver : BOOLEAN, stat : BOOLEAN]
    BY DEF NoFields
  <2>2. field' \in [Lexers -> [name : Names \cup {"null"}, ver : BOOLEAN, stat : BOOLEAN]]
    BY <1>1, <2>1, LexerFacts
  <2>3. rec' \in [Lexers -> Nat] /\ delim' \in [Lexers -> Names \cup {"null"}]
    BY <1>1, LexerFacts
  <2>4. pc'[l] # "splice"
    BY <1>5
  <2> QED BY <1>1, <1>2, <1>3, <1>7, <1>8, <2>2, <2>3, <2>4 DEF Quiet
<1>10. ReadsAt(l)'
  BY <1>5, <1>7 DEF ReadsAt, NoFields
<1>11. SkipKnowsAt(l)'
  BY <1>2, <1>5 DEF SkipKnowsAt
<1>12. MineBefore(l)'
  <2>1. ASSUME NEW i \in 1..Len(mine[l]) PROVE Before(l, mine[l][i].rec)'
    <3>1. mine[l][i].rec \in Nat /\ mine[l][i].rec < offset
      BY <1>7, LexerFacts, ListFacts DEF MineBefore, Before
    <3> QED BY <1>1, <1>2, <1>3, <1>5, <1>7, <3>1 DEF Before
  <2> QED BY <1>1, <2>1 DEF MineBefore
<1>13. ASSUME NEW p \in Positions, offset <= p, p < offset' PROVE Ahead(l, p)'
  BY <1>2, <1>3, <1>5, <1>13 DEF Ahead, Active, InChunk
<1> QED BY <1>5, <1>7, <1>9, <1>10, <1>11, <1>12, <1>13, QuietStep DEF Ahead

\* A step in the search for a record: it ends at the empty line before the first.
LEMMA SkipCharList ==
  ASSUME IInv, IInv', ListInv, NEW l \in Lexers, SkipChar(l)
  PROVE  ListInv'
<1> DEFINE c == cur[l]
<1>1. /\ main = "lexing" /\ pc[l] = "skip" /\ cur[l] < hi[l] /\ cur' = [cur EXCEPT ![l] = cur[l] + 1]
      /\ UNCHANGED <<pp, main, ret, err, offset, listvars, chain, lo, hi, rec, delim, field,
                     mine, begun>>
  BY DEF SkipChar, At, Step, callvars
<1>2. /\ Active(l) /\ ~InRecord(l) /\ Live(l)
      /\ c \in Positions /\ c \in Nat /\ hi[l] \in Nat /\ lo[l] \in Nat /\ lo[l] >= 2
      /\ c >= lo[l] - 2
  <2>1. Active(l) /\ ~InRecord(l) /\ Live(l)
    BY <1>1 DEF Active, InRecord, Live
  <2>2. lo[l] >= 2 /\ c >= lo[l] - 2
    BY <1>1, <2>1, AtWork DEF IInv, Tiled, KnowsAt
  <2> QED BY <1>1, <2>1, <2>2, AtWork
<1>3. PICK s \in States, label \in {"skip", "lex"} :
        /\ st' = [st EXCEPT ![l] = s] /\ pc' = [pc EXCEPT ![l] = label]
        /\ \/ CharAt(c) = NL /\ st[l] = "NLINE" /\ s = "RESET" /\ label = "lex"
           \/ CharAt(c) = NL /\ st[l] # "NLINE" /\ s = "NLINE" /\ label = "skip"
           \/ CharAt(c) # NL /\ s = "PDATA" /\ label = "skip"
  <2>1. "RESET" \in States /\ "NLINE" \in States /\ "PDATA" \in States
    BY DEF States
  <2>2. pc = [pc EXCEPT ![l] = "skip"]
    BY <1>1, LexerFacts
  <2> QED BY <2>1, <2>2 DEF SkipChar, SetState, Goto
<1>4. /\ pc'[l] = label /\ st'[l] = s /\ cur'[l] = c + 1 /\ lo'[l] = lo[l] /\ hi'[l] = hi[l]
      /\ Frame(l)
  <2>1. c + 1 <= Len0
    BY <1>2, LexerFacts
  <2> QED BY <1>1, <1>2, <1>3, <2>1, MovesOn
<1>5. ~InRecord(l)' /\ Live(l)'
  BY <1>3, <1>4 DEF InRecord, Live
<1>6. Move(l)
  BY <1>1, <1>2, <1>4, <1>5 DEF Move, OthersStay
<1>7. Quiet(l)
  BY <1>1, <1>3, <1>4, <1>5, <1>6, LexerFacts DEF Quiet
<1>8. ReadsAt(l)'
  BY <1>1, <1>2, <1>5, LexerFacts DEF ReadsAt, NoFields
<1>9. SkipKnowsAt(l)'
  <2>1. cur'[l] - 1 = c
    BY <1>2, <1>4
  <2>2. Newline(cur[l] - 1)' => CharAt(c) = NL
    BY <1>1, <2>1 DEF Newline, CharAt
  <2> QED BY <1>3, <1>4, <2>2 DEF SkipKnowsAt
<1>10. MineBefore(l)'
  <2>1. KnowsAt(l)'
    BY DEF IInv, Knows
  <2>2. pc'[l] = "lex" => cur'[l] >= lo[l]
    BY <1>4, <2>1 DEF KnowsAt
  <2>3. ASSUME NEW i \in 1..Len(mine[l]) PROVE Before(l, mine[l][i].rec)'
    <3>1. mine[l][i].rec \in Nat /\ mine[l][i].rec < offset /\ mine[l][i].rec < lo[l]
      BY <1>1, <1>2, LexerFacts, ListFacts DEF MineBefore, Before
    <3> QED BY <1>1, <1>2, <1>4, <1>5, <2>2, <3>1 DEF Before
  <2> QED BY <1>1, <2>3 DEF MineBefore
<1>11. ASSUME NEW p \in Positions, RecordStart(p), Ahead(l, p) PROVE Ahead(l, p)'
  <2>1. p \in Nat /\ c < p /\ lo[l] <= p /\ p < hi[l]
    BY <1>1, <1>11, LexerFacts DEF Ahead, InChunk
  <2>2. CASE p = c + 1
    <3>1. Newline(c) /\ Newline(c - 1)
      BY <1>2, <1>11, <2>1, <2>2 DEF RecordStart
    <3>2. st[l] = "NLINE"
      BY <1>1, <1>2, <2>1, <2>2, <3>1, LexerFacts DEF SkipKnowsAt
    <3>3. s = "RESET" /\ label = "lex"
      BY <1>3, <3>1, <3>2 DEF Newline
    <3> QED BY <1>4, <2>1, <2>2, <3>3 DEF Ahead, Active, InChunk
  <2>3. CASE p # c + 1
    BY <1>2, <1>3, <1>4, <2>1, <2>3 DEF Ahead, Active, InChunk
  <2> QED BY <2>2, <2>3
<1>12. pc'[l] # "err" /\ \A p \in Positions : ~(offset <= p /\ p < offset')
  BY <1>1, <1>3, <1>4, LexerFacts
<1> QED BY <1>2, <1>7, <1>8, <1>9, <1>10, <1>11, <1>12, QuietStep

LEMMA SkipAllList ==
  ASSUME IInv, IInv', ListInv, NEW l \in Lexers, SkipAll(l)
  PROVE  ListInv'
<1>1. /\ main = "lexing" /\ pc[l] = "skip" /\ cur[l] = hi[l]
      /\ st' = [st EXCEPT ![l] = "RESET"] /\ pc' = [pc EXCEPT ![l] = "lex"]
      /\ UNCHANGED <<pp, main, ret, err, offset, listvars, chain, lo, hi, cur, rec, delim, field,
                     mine, begun>>
  BY DEF SkipAll, At, SetState, Goto, callvars
<1>2. Active(l) /\ ~InRecord(l) /\ Live(l) /\ cur[l] \in Nat /\ hi[l] \in Nat /\ lo[l] < hi[l]
  <2>1. Active(l) /\ ~InRecord(l) /\ Live(l)
    BY <1>1 DEF Active, InRecord, Live
  <2> QED BY <2>1, AtWork, LexerFacts
<1>3. /\ pc'[l] = "lex" /\ st'[l] = "RESET" /\ \A m \in Lexers \ {l} : pc'[m] = pc[m] /\ st'[m] = st[m]
  BY <1>1 DEF IInv, LexTypes
<1>4. ~InRecord(l)' /\ Live(l)'
  BY <1>3 DEF InRecord, Live
<1>5. Move(l)
  BY <1>1, <1>2, <1>3, <1>4 DEF Move, OthersStay, Frame
<1>6. Quiet(l)
  BY <1>1, <1>3, <1>4, <1>5, LexerFacts DEF Quiet
<1>7. ReadsAt(l)' /\ SkipKnowsAt(l)'
  BY <1>1, <1>2, <1>3, <1>4, LexerFacts DEF ReadsAt, NoFields, SkipKnowsAt
<1>8. MineBefore(l)'
  <2>1. ASSUME NEW i \in 1..Len(mine[l]) PROVE Before(l, mine[l][i].rec)'
    <3>1. /\ mine[l][i].rec \in Nat /\ mine[l][i].rec < offset /\ mine[l][i].rec < lo[l]
          /\ lo[l] \in Nat
      BY <1>1, <1>2, LexerFacts, ListFacts DEF MineBefore, Before
    <3> QED BY <1>1, <1>2, <1>3, <1>4, <3>1 DEF Before
  <2> QED BY <1>1, <2>1 DEF MineBefore
<1>9. \A p \in Positions : ~Ahead(l, p)
  BY <1>1, <1>2, LexerFacts DEF Ahead, InChunk
<1>10. pc'[l] # "err" /\ \A p \in Positions : ~(offset <= p /\ p < offset')
  BY <1>1, <1>3, LexerFacts
<1> QED BY <1>2, <1>6, <1>7, <1>8, <1>9, <1>10, QuietStep

\* A newline between two records.
LEMMA LexBlankList ==
  ASSUME IInv, IInv', ListInv, NEW l \in Lexers, LexBlank(l)
  PROVE  ListInv'
<1>1. /\ Lexing(l) /\ CharAt(cur[l]) = NL /\ st[l] = "RESET"
      /\ cur' = [cur EXCEPT ![l] = cur[l] + 1]
      /\ UNCHANGED <<pp, main, ret, err, offset, listvars, chain, pc, lo, hi, st, rec, delim, field,
                     mine, begun>>
  BY DEF LexBlank, Step, callvars, linevars
<1>2. /\ main = "lexing" /\ pc[l] = "lex" /\ Active(l) /\ ~InRecord(l) /\ Live(l)
      /\ cur[l] \in Nat /\ Newline(cur[l])
  BY <1>1, LexingFacts DEF Lexing, At, InRecord, Live, Newline
<1>3. cur'[l] = cur[l] + 1 /\ \A m \in Lexers \ {l} : cur'[m] = cur[m]
  BY <1>1 DEF IInv, LexTypes
<1>4. ~InRecord(l)' /\ Live(l)'
  BY <1>1, <1>2 DEF InRecord, Live
<1>5. Move(l)
  BY <1>1, <1>2, <1>3, <1>4 DEF Move, OthersStay, Frame
<1>6. Quiet(l)
  BY <1>1, <1>2, <1>4, <1>5, LexerFacts DEF Quiet
<1>7. ReadsAt(l)' /\ SkipKnowsAt(l)'
  BY <1>1, <1>2, <1>4, LexerFacts DEF ReadsAt, NoFields, SkipKnowsAt
<1>8. MineBefore(l)'
  <2>1. ASSUME NEW i \in 1..Len(mine[l]) PROVE Before(l, mine[l][i].rec)'
    <3>1. /\ mine[l][i].rec \in Nat /\ mine[l][i].rec < offset /\ mine[l][i].rec < cur[l]
      BY <1>1, <1>2, LexerFacts, ListFacts DEF MineBefore, Before
    <3> QED BY <1>1, <1>2, <1>3, <1>4, <3>1 DEF Before
  <2> QED BY <1>1, <2>1 DEF MineBefore
<1>9. ASSUME NEW p \in Positions, RecordStart(p), Ahead(l, p) PROVE Ahead(l, p)'
  <2>1. p # cur[l]
    BY <1>2, <1>9 DEF RecordStart
  <2>2. cur[l] + 1 <= p
    BY <1>2, <1>9, <2>1, LexerFacts DEF Ahead
  <2> QED BY <1>1, <1>2, <1>3, <1>9, <2>2 DEF Ahead, Active, InChunk
<1>10. pc'[l] # "err" /\ \A p \in Positions : ~(offset <= p /\ p < offset')
  BY <1>1, <1>2, LexerFacts
<1> QED BY <1>2, <1>6, <1>7, <1>8, <1>9, <1>10, QuietStep

\* The fields are right as long as the record, the line and the fields are the same.
LEMMA FieldsSame ==
  ASSUME pp' = pp, NEW l, NEW h, rec'[l] = rec[l], field'[l] = field[l]
  PROVE  FieldsRight(l, h)' <=> FieldsRight(l, h)
<1>1. Positions' = Positions /\ \A i : CharAt(i)' = CharAt(i)
  BY TextSame
<1>2. \A kinds : Past(rec[l], h, kinds)' = Past(rec[l], h, kinds)
  BY DEF Past, LineStart, Newline, CharAt, Positions, Len0
<1> QED BY <1>1, <1>2 DEF FieldsRight

\* What a lexer in a record has to know after a step.
LEMMA ProgressNow ==
  ASSUME pp' = pp, NEW l, NEW r, r = rec'[l], RecordStart(r), begun'[r] = 1,
         lo'[l] <= r, r < hi'[l], r < cur'[l], \A q \in EmptyLines(r) : q >= cur'[l],
         NEW h \in 0..Len0, AtLine(l, h)'
  PROVE  Progress(l)'
<1>1. RecordStart(rec[l])' /\ EmptyLines(rec[l])' = EmptyLines(r) /\ Len0' = Len0
  BY DEF RecordStart, EmptyLines, Newline, CharAt, Positions, Len0
<1> QED BY <1>1 DEF Progress, InChunk

\* What lies ahead of a lexer that reads a character stays ahead, or is just begun.
LEMMA AheadChar ==
  ASSUME IInv, ListInv, NEW l \in Lexers, Lexing(l), ~Newline(cur[l]),
         NEW p \in Positions, RecordStart(p), Ahead(l, p), p # cur[l]
  PROVE  cur[l] + 1 < p
<1>1. p \in Nat /\ cur[l] \in Nat /\ cur[l] < p
  BY LexerFacts DEF Ahead
<1>2. p # cur[l] + 1
  BY <1>1 DEF RecordStart
<1> QED BY <1>1, <1>2

\* A character that is no newline: it begins a record, or a line, or goes on with it.
LEMMA LexCharList ==
  ASSUME IInv, IInv', ListInv, NEW l \in Lexers, LexChar(l)
  PROVE  ListInv'
<1>0. PICK c, ch : c = cur[l] /\ ch = CharAt(c)
  OBVIOUS
<1>1. /\ Lexing(l) /\ ch # NL /\ cur' = [cur EXCEPT ![l] = c + 1]
      /\ UNCHANGED <<pp, main, ret, err, offset, listvars, chain, pc, lo, hi, field, mine>>
  BY <1>0 DEF LexChar, Step, callvars
<1>2. /\ main = "lexing" /\ pc[l] = "lex" /\ Active(l) /\ Live(l) /\ KnowsAt(l)
      /\ c \in Positions /\ c \in Nat /\ c + 1 <= Len0 /\ c >= lo[l] /\ ~Newline(c)
      /\ lo[l] \in Nat /\ hi[l] \in Nat /\ Len0 \in Nat /\ offset \in Nat
      /\ st[l] = "RESET" => c < hi[l] /\ AfterEmptyLine(c)
  BY <1>0, <1>1, LexingFacts, LexerFacts DEF Lexing, At, Live, Newline
<1>3. PICK s \in States \ {"RESET", "NLINE"}, d \in Names \cup {"null"} :
        /\ st' = [st EXCEPT ![l] = s] /\ delim' = [delim EXCEPT ![l] = d]
        /\ st[l] \in {"RESET", "NLINE"} =>
             /\ s = "PKG" <=> ch \in Names
             /\ s = "VER" <=> ch = "V"
             /\ s = "STAT" <=> ch = "S"
             /\ ch \in Names => d = ch
        /\ st[l] \notin {"RESET", "NLINE"} => s = st[l] /\ d = delim[l]
  <2>1. CASE st[l] \in {"RESET", "NLINE"}
    <3> DEFINE t == CASE ch \in Names -> "PKG" [] ch = "V" -> "VER"
                      [] ch = "S" -> "STAT" [] OTHER -> "PDATA"
               e == IF ch \in Names THEN ch ELSE "null"
    <3>1. /\ t \in {"PKG", "VER", "STAT", "PDATA"} /\ e \in Names \cup {"null"}
          /\ t = "PKG" <=> ch \in Names
          /\ t = "VER" <=> ch = "V"
          /\ t = "STAT" <=> ch = "S"
          /\ ch \in Names => e = ch
      BY NameFacts
    <3>2. t \in States \ {"RESET", "NLINE"}
      BY <3>1 DEF States
    <3>3. st' = [st EXCEPT ![l] = t] /\ delim' = [delim EXCEPT ![l] = e]
      BY <1>0, <2>1 DEF LexChar, SetState
    <3> HIDE DEF t, e
    <3> QED BY <2>1, <3>1, <3>2, <3>3
  <2>2. CASE st[l] \notin {"RESET", "NLINE"}
    <3>1. st' = st /\ delim' = delim
      BY <2>2 DEF LexChar
    <3>2. /\ st = [st EXCEPT ![l] = st[l]] /\ delim = [delim EXCEPT ![l] = delim[l]]
          /\ st[l] \in States /\ delim[l] \in Names \cup {"null"}
      BY <1>1, LexingFacts, LexerFacts
    <3> QED BY <2>2, <3>1, <3>2
  <2> QED BY <2>1, <2>2
<1>4. /\ st'[l] = s /\ delim'[l] = d /\ cur'[l] = c + 1
      /\ \A m \in Lexers \ {l} : st'[m] = st[m] /\ delim'[m] = delim[m] /\ cur'[m] = cur[m]
  <2>1. cur'[l] = c + 1 /\ st'[l] = s /\ \A m \in Lexers \ {l} : st'[m] = st[m] /\ cur'[m] = cur[m]
    BY <1>1, <1>3 DEF IInv, LexTypes
  <2>2. delim'[l] = d /\ \A m \in Lexers \ {l} : delim'[m] = delim[m]
    BY <1>3, LexerFacts
  <2> QED BY <2>1, <2>2
<1>5. InRecord(l)' /\ Live(l)' /\ (InRecord(l) <=> st[l] # "RESET")
  BY <1>1, <1>2, <1>3, <1>4 DEF InRecord, Live
<1>6. /\ st[l] = "RESET" => /\ rec' = [rec EXCEPT ![l] = c] /\ begun[c] = 0
                            /\ begun' = [begun EXCEPT ![c] = 1]
      /\ st[l] # "RESET" => rec' = rec /\ begun' = begun
  <2>1. CASE st[l] = "RESET"
    <3>1. rec' = [rec EXCEPT ![l] = c] /\ begun' = [begun EXCEPT ![c] = begun[c] + 1]
      BY <1>0, <2>1 DEF LexChar
    <3>2. InChunk(l, c)
      BY <1>2, <2>1 DEF InChunk
    <3>3. ~(begun[c] > 0) /\ begun[c] \in Nat
      BY <1>0, <1>2, <3>2, LexerFacts DEF IInv, Behind
    <3>4. begun[c] = 0
      BY <3>3
    <3> QED BY <2>1, <3>1, <3>4
  <2>2. CASE st[l] # "RESET"
    BY <2>2 DEF LexChar
  <2> QED BY <2>1, <2>2
<1>7. /\ st[l] = "RESET" => rec'[l] = c
      /\ st[l] # "RESET" => rec'[l] = rec[l]
      /\ \A m \in Lexers \ {l} : rec'[m] = rec[m]
      /\ rec' \in [Lexers -> Nat]
  BY <1>2, <1>6, LexerFacts
<1>8. Move(l)
  <2>1. OthersStay(l)
    BY <1>1, <1>4, <1>7 DEF OthersStay, Frame
  <2>2. CASE st[l] = "RESET"
    BY <1>1, <1>2, <1>5, <1>6, <1>7, <2>1, <2>2 DEF Move, Begins
  <2>3. CASE st[l] # "RESET"
    BY <1>1, <1>2, <1>5, <1>6, <1>7, <2>1, <2>3 DEF Move
  <2> QED BY <2>2, <2>3
<1>9. Quiet(l)
  BY <1>1, <1>2, <1>3, <1>5, <1>7, <1>8, LexerFacts DEF Quiet
<1>10. Progress(l)'
  <2>1. CASE st[l] = "RESET"
    <3>1. RecordStart(c)
      BY <1>2, <2>1 DEF RecordStart, AfterEmptyLine
    <3>2. \A q \in EmptyLines(c) : q >= c + 1
      BY <1>2, LexerFacts DEF EmptyLines
    <3>3. FieldsRight(l, c)'
      <4>1. field'[l] = NoFields
        BY <1>1, <1>2, <1>5, <2>1, LexerFacts DEF ReadsAt
      <4>2. rec'[l] = c /\ c..(c - 1) = {}
        BY <1>2, <1>7, <2>1
      <4>3. \A kinds : Past(rec[l], c, kinds)' = {}
        BY <4>2 DEF Past
      <4> QED BY <4>1, <4>3 DEF FieldsRight, NoFields
    <3>4. LineStart(rec[l], c)' /\ KindRight(l, CharAt(c))'
      <4>1. LineStart(rec[l], c)'
        BY <1>1, <1>2, <1>7, <2>1, TextSame DEF LineStart
      <4>2. CharAt(c)' = ch
        BY <1>0, <1>1, TextSame
      <4> QED BY <1>3, <1>4, <2>1, <4>1, <4>2 DEF KindRight
    <3>5. \A i \in c..c : ~Newline(i)'
      BY <1>1, <1>2, TextSame
    <3>6. AtLine(l, c)'
      <4>1. (c + 1) - 1 = c /\ c < c + 1 /\ c <= c
        BY <1>2
      <4> QED BY <1>3, <1>4, <1>7, <2>1, <3>3, <3>4, <3>5, <4>1 DEF AtLine
    <3>7. begun'[c] = 1 /\ c \in 0..Len0 /\ c < c + 1 /\ lo'[l] <= c /\ c < hi'[l]
      BY <1>1, <1>2, <1>6, <2>1, LexerFacts
    <3> QED BY <1>1, <1>4, <1>7, <2>1, <3>1, <3>2, <3>6, <3>7, ProgressNow
  <2>2. CASE st[l] # "RESET"
    <3>1. Progress(l)
      BY <1>5, <2>2, LexerFacts DEF ReadsAt
    <3>2. PICK r : r = rec[l] /\ r \in Nat
      BY LexerFacts
    <3>3. /\ RecordStart(r) /\ begun'[r] = 1 /\ lo'[l] <= r /\ r < hi'[l] /\ r < c
          /\ r = rec'[l]
      BY <1>0, <1>1, <1>6, <1>7, <2>2, <3>1, <3>2 DEF Progress, InChunk
    <3>4. \A q \in EmptyLines(r) : q >= c + 1
      <4>1. \A q \in EmptyLines(r) : q >= c
        BY <1>0, <3>1, <3>2 DEF Progress
      <4>2. \A q \in EmptyLines(r) : q \in Positions /\ Newline(q)
        BY DEF EmptyLines
      <4>3. \A q \in EmptyLines(r) : q >= c /\ q # c /\ q \in Nat
        BY <1>2, <4>1, <4>2, LexerFacts
      <4> QED BY <1>2, <4>3
    <3>5. PICK h \in 0..Len0 : AtLine(l, h)
      BY <3>1 DEF Progress
    <3>6. h \in Nat /\ r < c + 1
      BY <1>2, <3>2, <3>3, <3>5
    <3>7. FieldsRight(l, h)'
      BY <1>1, <1>7, <2>2, <3>5, FieldsSame DEF AtLine
    <3>8. AtLine(l, h)'
      <4>1. CASE st[l] = "NLINE"
        <5>1. h = c /\ Newline(c - 1)
          BY <1>0, <1>2, <3>5, <4>1 DEF AtLine, KnowsAt
        <5>2. LineStart(rec[l], h)'
          BY <1>1, <1>2, <5>1, TextSame DEF LineStart
        <5>3. CharAt(h)' = ch
          BY <1>0, <1>1, <5>1, TextSame
        <5>4. KindRight(l, CharAt(h))'
          BY <1>3, <1>4, <4>1, <5>3 DEF KindRight
        <5>5. \A i \in h..((c + 1) - 1) : ~Newline(i)'
          BY <1>1, <1>2, <5>1, TextSame
        <5>6. rec'[l] <= h /\ h < c + 1
          BY <1>2, <3>2, <3>3, <5>1
        <5> QED BY <1>3, <1>4, <3>7, <5>2, <5>4, <5>5, <5>6 DEF AtLine
      <4>2. CASE st[l] # "NLINE"
        <5>1. s = st[l] /\ d = delim[l]
          BY <1>3, <2>2, <4>2
        <5>2. /\ rec[l] <= h /\ h < c /\ LineStart(rec[l], h) /\ KindRight(l, CharAt(h))
              /\ \A i \in h..(c - 1) : ~Newline(i)
          BY <1>0, <3>5, <4>2 DEF AtLine
        <5>3. LineStart(rec[l], h)'
          BY <1>1, <3>2, <3>3, <5>2, TextSame DEF LineStart
        <5>4. CharAt(h)' = CharAt(h)
          BY <1>1, TextSame
        <5>5. KindRight(l, CharAt(h))'
          BY <1>4, <5>1, <5>2, <5>4 DEF KindRight
        <5>6. \A i \in h..((c + 1) - 1) : i \in h..(c - 1) \/ i = c
          BY <1>2, <3>6
        <5>7. \A i \in h..((c + 1) - 1) : ~Newline(i)'
          BY <1>1, <1>2, <5>2, <5>6, TextSame
        <5>8. rec'[l] <= h /\ h < c + 1
          BY <1>2, <3>2, <3>3, <3>6, <5>2
        <5> QED BY <1>3, <1>4, <3>7, <5>3, <5>5, <5>7, <5>8 DEF AtLine
      <4> QED BY <4>1, <4>2
    <3> QED BY <1>1, <1>4, <3>3, <3>4, <3>6, <3>8, ProgressNow
  <2> QED BY <2>1, <2>2
<1>11. ReadsAt(l)' /\ SkipKnowsAt(l)'
  BY <1>1, <1>2, <1>5, <1>10 DEF ReadsAt, SkipKnowsAt
<1>12. MineBefore(l)'
  <2>1. ASSUME NEW i \in 1..Len(mine[l]) PROVE Before(l, mine[l][i].rec)'
    <3>1. /\ mine[l][i].rec \in Nat /\ mine[l][i].rec < offset /\ mine[l][i].rec < c
          /\ InRecord(l) => mine[l][i].rec < rec[l]
      BY <1>0, <1>2, LexerFacts, ListFacts DEF MineBefore, Before
    <3>2. mine'[l][i].rec < rec'[l]
      BY <1>1, <1>5, <1>7, <3>1
    <3> QED BY <1>1, <1>2, <1>4, <3>1, <3>2 DEF Before
  <2> QED BY <1>1, <2>1 DEF MineBefore
<1>13. ASSUME NEW p \in Positions, RecordStart(p), Ahead(l, p)
       PROVE  begun'[p] = 1 \/ Ahead(l, p)'
  <2>1. CASE p = c
    <3>1. st[l] = "RESET"
      BY <1>0, <1>2, <1>13, <2>1 DEF Ahead
    <3> QED BY <1>2, <1>6, <2>1, <3>1, LexerFacts
  <2>2. CASE p # c
    <3>1. c + 1 < p
      BY <1>0, <1>1, <1>2, <1>13, <2>2, AheadChar
    <3>2. c + 1 <= p
      BY <1>2, <3>1, LexerFacts
    <3> QED BY <1>1, <1>2, <1>4, <1>13, <3>1, <3>2 DEF Ahead, Active, InChunk
  <2> QED BY <2>1, <2>2
<1>14. \A p : InRecord(l) /\ rec[l] = p => InRecord(l)' /\ rec'[l] = p
  BY <1>5, <1>7
<1>15. pc'[l] # "err" /\ \A p \in Positions : ~(offset <= p /\ p < offset')
  BY <1>1, <1>2, LexerFacts
<1> QED BY <1>9, <1>11, <1>12, <1>13, <1>14, <1>15, QuietStep

\* The fields after the line at h, which ends at c.
LEMMA FieldsNext ==
  ASSUME pp \in Inputs, pp' = pp, NEW l, NEW h \in Nat, NEW c \in Nat, NEW r \in Nat,
         r = rec[l], rec'[l] = r, r <= h, h < c, LineStart(r, h), \A i \in h..(c - 1) : ~Newline(i),
         FieldsRight(l, h), KindRight(l, CharAt(h)), ~Repeated(l),
         field'[l] = [name |-> IF st[l] = "PKG" THEN delim[l] ELSE field[l].name,
                      ver |-> IF st[l] = "VER" THEN TRUE ELSE field[l].ver,
                      stat |-> IF st[l] = "STAT" THEN TRUE ELSE field[l].stat]
  PROVE  FieldsRight(l, c + 1)'
<1> DEFINE Now(kinds) == Past(r, h, kinds) \cup {i \in {h} : CharAt(i) \in kinds}
<1>1. h \in Positions /\ Positions' = Positions /\ \A i : CharAt(i)' = CharAt(i)
  BY TextSame DEF LineStart
<1>2. ASSUME NEW kinds PROVE Past(rec[l], c + 1, kinds)' = Now(kinds)
  <2>1. Past(r, c + 1, kinds)' = Past(r, c + 1, kinds)
    BY TextSame
  <2>2. Past(r, c + 1, kinds) = Now(kinds)
    BY LinePassed
  <2>3. Past(rec[l], c + 1, kinds)' = Past(r, c + 1, kinds)'
    BY DEF Past, LineStart, Newline, CharAt, Positions, Len0
  <2> QED BY <2>1, <2>2, <2>3
<1>3. IF field'[l].name = "null" THEN Now(Names) = {}
      ELSE \E i \in Positions : Now(Names) = {i} /\ CharAt(i) = field'[l].name
  <2>1. CASE st[l] = "PKG"
    <3>1. /\ CharAt(h) \in Names /\ field'[l].name = CharAt(h) /\ CharAt(h) # "null"
          /\ field[l].name = "null" /\ Past(r, h, Names) = {}
      BY <2>1, NameFacts DEF KindRight, Repeated, FieldsRight
    <3>2. Now(Names) = {h}
      BY <3>1
    <3> QED BY <1>1, <3>1, <3>2
  <2>2. CASE st[l] # "PKG"
    <3>1. field'[l].name = field[l].name /\ CharAt(h) \notin Names
      BY <2>2 DEF KindRight
    <3>2. Now(Names) = Past(r, h, Names)
      BY <3>1
    <3> QED BY <3>1, <3>2 DEF FieldsRight
  <2> QED BY <2>1, <2>2
<1>4. IF field'[l].ver THEN \E i \in Positions : Now({"V"}) = {i} ELSE Now({"V"}) = {}
  <2>1. CASE st[l] = "VER"
    <3>1. /\ CharAt(h) = "V" /\ field'[l].ver /\ ~field[l].ver /\ Past(r, h, {"V"}) = {}
      BY <2>1 DEF KindRight, Repeated, FieldsRight
    <3>2. Now({"V"}) = {h}
      BY <3>1
    <3> QED BY <1>1, <3>1, <3>2
  <2>2. CASE st[l] # "VER"
    <3>1. field'[l].ver = field[l].ver /\ CharAt(h) # "V"
      BY <2>2 DEF KindRight
    <3>2. Now({"V"}) = Past(r, h, {"V"})
      BY <3>1
    <3> QED BY <3>1, <3>2 DEF FieldsRight
  <2> QED BY <2>1, <2>2
<1>5. IF field'[l].stat THEN \E i \in Positions : Now({"S"}) = {i} ELSE Now({"S"}) = {}
  <2>1. CASE st[l] = "STAT"
    <3>1. /\ CharAt(h) = "S" /\ field'[l].stat /\ ~field[l].stat /\ Past(r, h, {"S"}) = {}
      BY <2>1 DEF KindRight, Repeated, FieldsRight
    <3>2. Now({"S"}) = {h}
      BY <3>1
    <3> QED BY <1>1, <3>1, <3>2
  <2>2. CASE st[l] # "STAT"
    <3>1. field'[l].stat = field[l].stat /\ CharAt(h) # "S"
      BY <2>2 DEF KindRight
    <3>2. Now({"S"}) = Past(r, h, {"S"})
      BY <3>1
    <3> QED BY <3>1, <3>2 DEF FieldsRight
  <2> QED BY <2>1, <2>2
<1> HIDE DEF Now
<1> QED BY <1>1, <1>2, <1>3, <1>4, <1>5 DEF FieldsRight

\* A field is set; the others stay.
LEMMA FieldUpdates ==
  ASSUME NEW f \in [name : Names \cup {"null"}, ver : BOOLEAN, stat : BOOLEAN], NEW d
  PROVE  /\ f = [name |-> f.name, ver |-> f.ver, stat |-> f.stat]
         /\ [f EXCEPT !.name = d] = [name |-> d, ver |-> f.ver, stat |-> f.stat]
         /\ [f EXCEPT !.ver = d] = [name |-> f.name, ver |-> d, stat |-> f.stat]
         /\ [f EXCEPT !.stat = d] = [name |-> f.name, ver |-> f.ver, stat |-> d]
  OBVIOUS

\* The end of a line: its field is new, or the record is malformed.
LEMMA LexLineList ==
  ASSUME IInv, IInv', ListInv, NEW l \in Lexers, LexLine(l)
  PROVE  ListInv'
<1>0. PICK c, r : c = cur[l] /\ r = rec[l]
  OBVIOUS
<1>1. /\ Lexing(l) /\ CharAt(c) = NL /\ st[l] \notin {"RESET", "NLINE"}
      /\ UNCHANGED <<callvars, offset, listvars, chain, lo, hi, rec, delim, mine, begun>>
  BY <1>0 DEF LexLine
<1>2. /\ main = "lexing" /\ pc[l] = "lex" /\ Active(l) /\ Live(l) /\ InRecord(l)
      /\ c \in Positions /\ c \in Nat /\ c + 1 <= Len0 /\ Newline(c) /\ Len0 \in Nat
      /\ offset \in Nat /\ r \in Nat /\ pp \in Inputs
  BY <1>0, <1>1, LexingFacts, LexerFacts DEF Lexing, At, Live, InRecord, Newline
<1>3. Progress(l)
  BY <1>2, LexerFacts DEF ReadsAt
<1>4. CASE Repeated(l)
  <2>1. /\ pc' = [pc EXCEPT ![l] = "err"] /\ UNCHANGED <<cur, st, field>>
    BY <1>4 DEF LexLine, Goto
  <2>2. ~WellFormed(rec[l]) /\ rec[l] \in RecordStarts
    BY <1>1, <1>3, <1>4, LexerFacts, RepeatedMalformed DEF Progress, RecordStarts, RecordStart
  <2> QED BY <1>1, <1>2, <2>1, <2>2, LeavingList DEF linevars
<1>5. CASE ~Repeated(l)
  <2>1. /\ cur' = [cur EXCEPT ![l] = c + 1] /\ st' = [st EXCEPT ![l] = "NLINE"] /\ pc' = pc
        /\ UNCHANGED <<pp, main, ret, err, offset, listvars, chain, lo, hi, rec, delim, mine, begun>>
    BY <1>0, <1>1, <1>5 DEF LexLine, Step, SetState, callvars
  <2>2. field' = [field EXCEPT ![l] =
                    [name |-> IF st[l] = "PKG" THEN delim[l] ELSE field[l].name,
                     ver |-> IF st[l] = "VER" THEN TRUE ELSE field[l].ver,
                     stat |-> IF st[l] = "STAT" THEN TRUE ELSE field[l].stat]]
    <3>1. field' = CASE st[l] = "PKG" -> [field EXCEPT ![l].name = delim[l]]
                     [] st[l] = "VER" -> [field EXCEPT ![l].ver = TRUE]
                     [] st[l] = "STAT" -> [field EXCEPT ![l].stat = TRUE]
                     [] OTHER -> field
      BY <1>5 DEF LexLine
    <3>2. /\ field \in [Lexers -> [name : Names \cup {"null"}, ver : BOOLEAN, stat : BOOLEAN]]
          /\ field[l] \in [name : Names \cup {"null"}, ver : BOOLEAN, stat : BOOLEAN]
      BY LexerFacts
    <3>3. CASE st[l] = "PKG"
      <4>1. [field[l] EXCEPT !.name = delim[l]]
              = [name |-> delim[l], ver |-> field[l].ver, stat |-> field[l].stat]
        BY <3>2, FieldUpdates
      <4>2. field' = [field EXCEPT ![l].name = delim[l]]
        BY <3>1, <3>3
      <4> QED BY <3>3, <4>1, <4>2
    <3>4. CASE st[l] = "VER"
      <4>1. [field[l] EXCEPT !.ver = TRUE]
              = [name |-> field[l].name, ver |-> TRUE, stat |-> field[l].stat]
        BY <3>2, FieldUpdates
      <4>2. field' = [field EXCEPT ![l].ver = TRUE]
        BY <3>1, <3>4
      <4> QED BY <3>4, <4>1, <4>2
    <3>5. CASE st[l] = "STAT"
      <4>1. [field[l] EXCEPT !.stat = TRUE]
              = [name |-> field[l].name, ver |-> field[l].ver, stat |-> TRUE]
        BY <3>2, FieldUpdates
      <4>2. field' = [field EXCEPT ![l].stat = TRUE]
        BY <3>1, <3>5
      <4> QED BY <3>5, <4>1, <4>2
    <3>6. CASE st[l] \notin {"PKG", "VER", "STAT"}
      <4>1. field' = field
        BY <3>1, <3>6
      <4>2. field[l] = [name |-> field[l].name, ver |-> field[l].ver, stat |-> field[l].stat]
        BY <3>2, FieldUpdates
      <4>3. field = [field EXCEPT ![l] = field[l]]
        BY <3>2
      <4> QED BY <3>6, <4>1, <4>2, <4>3
    <3> QED BY <3>3, <3>4, <3>5, <3>6
  <2>3. /\ field'[l] = [name |-> IF st[l] = "PKG" THEN delim[l] ELSE field[l].name,
                        ver |-> IF st[l] = "VER" THEN TRUE ELSE field[l].ver,
                        stat |-> IF st[l] = "STAT" THEN TRUE ELSE field[l].stat]
        /\ field' \in [Lexers -> [name : Names \cup {"null"}, ver : BOOLEAN, stat : BOOLEAN]]
        /\ \A m \in Lexers \ {l} : field'[m] = field[m]
    <3>1. /\ delim[l] \in Names \cup {"null"}
          /\ field \in [Lexers -> [name : Names \cup {"null"}, ver : BOOLEAN, stat : BOOLEAN]]
      BY LexerFacts
    <3> QED BY <2>2, <3>1
  <2>4. /\ cur'[l] = c + 1 /\ st'[l] = "NLINE"
        /\ \A m \in Lexers \ {l} : cur'[m] = cur[m] /\ st'[m] = st[m]
    BY <2>1 DEF IInv, LexTypes
  <2>5. InRecord(l)' /\ Live(l)'
    BY <1>2, <2>1, <2>4 DEF InRecord, Live
  <2>6. Move(l)
    BY <1>2, <2>1, <2>3, <2>4, <2>5 DEF Move, OthersStay, Frame
  <2>7. Quiet(l)
    BY <1>2, <2>1, <2>3, <2>5, <2>6, LexerFacts DEF Quiet
  <2>8. PICK h \in 0..Len0 :
          /\ r <= h /\ h < c /\ FieldsRight(l, h) /\ LineStart(r, h) /\ KindRight(l, CharAt(h))
          /\ \A i \in h..(c - 1) : ~Newline(i)
    BY <1>0, <1>1, <1>3 DEF Progress, AtLine
  <2>9. h \in Nat /\ ~Newline(c - 1)
    <3>1. h \in Nat
      BY <1>2, <2>8
    <3>2. c - 1 \in h..(c - 1)
      BY <1>2, <2>8, <3>1
    <3> QED BY <2>8, <3>1, <3>2
  <2>10. Progress(l)'
    <3>1. FieldsRight(l, c + 1)'
      BY <1>0, <1>2, <1>5, <2>1, <2>3, <2>8, <2>9, FieldsNext
    <3>2. AtLine(l, c + 1)'
      <4>1. rec'[l] <= c + 1
        BY <1>0, <1>2, <2>1, <2>8, <2>9
      <4> QED BY <2>4, <3>1, <4>1 DEF AtLine
    <3>3. \A q \in EmptyLines(r) : q >= c + 1
      <4>1. \A q \in EmptyLines(r) : q >= c /\ q \in Positions /\ Newline(q - 1)
        BY <1>0, <1>3 DEF Progress, EmptyLines
      <4>2. \A q \in EmptyLines(r) : q >= c /\ q # c /\ q \in Nat
        BY <2>9, <4>1, LexerFacts
      <4> QED BY <1>2, <4>2
    <3>4. /\ RecordStart(r) /\ begun'[r] = 1 /\ lo'[l] <= r /\ r < hi'[l] /\ r < c + 1
          /\ r = rec'[l] /\ c + 1 \in 0..Len0
      <4>1. /\ RecordStart(r) /\ begun[r] = 1 /\ lo[l] <= r /\ r < hi[l] /\ r < c
        BY <1>0, <1>3 DEF Progress, InChunk
      <4> QED BY <1>0, <1>2, <2>1, <4>1
    <3> QED BY <2>1, <2>4, <3>2, <3>3, <3>4, ProgressNow
  <2>11. ReadsAt(l)' /\ SkipKnowsAt(l)'
    BY <1>2, <2>1, <2>5, <2>10 DEF ReadsAt, SkipKnowsAt
  <2>12. MineBefore(l)'
    <3>1. ASSUME NEW i \in 1..Len(mine[l]) PROVE Before(l, mine[l][i].rec)'
      <4>1. /\ mine[l][i].rec \in Nat /\ mine[l][i].rec < offset /\ mine[l][i].rec < c
            /\ mine[l][i].rec < r
        BY <1>0, <1>2, LexerFacts, ListFacts DEF MineBefore, Before
      <4> QED BY <1>0, <1>2, <2>1, <2>4, <4>1 DEF Before
    <3> QED BY <2>1, <3>1 DEF MineBefore
  <2>13. ASSUME NEW p \in Positions, RecordStart(p), Ahead(l, p) PROVE Ahead(l, p)'
    <3>1. p \in Nat /\ c < p
      BY <1>0, <1>1, <1>2, <2>13, LexerFacts DEF Ahead
    <3>2. p # c + 1
      <4>1. SUFFICES ASSUME p = c + 1 PROVE FALSE
        OBVIOUS
      <4>2. c # 0
        BY <1>2, <2>8, <2>9
      <4>3. Newline(c - 1)
        BY <1>2, <2>13, <4>1, <4>2 DEF RecordStart
      <4> QED BY <2>9, <4>3
    <3>3. c + 1 < p
      BY <1>2, <3>1, <3>2
    <3> QED BY <1>2, <2>1, <2>4, <2>13, <3>1, <3>3 DEF Ahead, Active, InChunk
  <2>14. pc'[l] # "err" /\ \A p \in Positions : ~(offset <= p /\ p < offset')
    BY <1>2, <2>1, LexerFacts
  <2>15. \A p : InRecord(l) /\ rec[l] = p => InRecord(l)' /\ rec'[l] = p
    BY <2>1, <2>5
  <2> QED BY <2>7, <2>11, <2>12, <2>13, <2>14, <2>15, QuietStep
<1> QED BY <1>4, <1>5

-----------------------------------------------------------------------------
(* The steps that make, hand over and free objects.                         *)

\* A record in hand is in one lexer's hands.
LEMMA HandsApart ==
  ASSUME IInv, ListInv, NEW l \in Lexers, NEW m \in Lexers, InRecord(l), InRecord(m),
         rec[l] = rec[m]
  PROVE  l = m
<1>1. Active(l) /\ Active(m) /\ Progress(l) /\ Progress(m)
  BY LexerFacts DEF InRecord, Active, ReadsAt
<1>2. /\ lo[l] \in Nat /\ hi[l] \in Nat /\ lo[m] \in Nat /\ hi[m] \in Nat /\ rec[l] \in Nat
  BY LexerFacts
<1> QED BY <1>1, <1>2 DEF Progress, InChunk, IInv, Tiled

\* An object in a list is not of the record that a lexer has in hand.
LEMMA MadeNotInHand ==
  ASSUME IInv, ListInv, NEW l \in Lexers, InRecord(l), NEW o \in Object, InMade(o)
  PROVE  o.rec # rec[l]
<1>1. ObjectRight(o)
  BY DEF ListInv, ObjectsRight
<1> QED BY <1>1 DEF ObjectRight, InHands

\* What a step that ends a record changes, and the object that it makes.
LEMMA GoodRecordFacts ==
  ASSUME IInv, IInv', ListInv, NEW l \in Lexers, GoodRecord(l)
  PROVE  /\ Move(l) /\ Live(l)' /\ InRecord(l) /\ ~InRecord(l)' /\ Progress(l)
         /\ UNCHANGED <<pp, main, ret, err, offset, listvars, pc, lo, hi, rec, delim, begun>>
         /\ field' = [field EXCEPT ![l] = NoFields] /\ field'[l] = NoFields
         /\ cur'[l] = cur[l] + 1 /\ st'[l] = "RESET"
         /\ main = "lexing" /\ pc[l] = "lex" /\ st[l] = "NLINE"
         /\ WellFormed(rec[l]) /\ (Selected(field[l]) <=> Listed(rec[l]))
         /\ Pkgobj(l) = ObjectOf(rec[l]) /\ Pkgobj(l) \in Object
         /\ Pkgobj(l).rec = rec[l] /\ Pkgobj(l).name = field[l].name
<1>1. /\ Lexing(l) /\ CharAt(cur[l]) = NL /\ st[l] = "NLINE" /\ Complete(field[l])
      /\ field' = [field EXCEPT ![l] = NoFields] /\ st' = [st EXCEPT ![l] = "RESET"]
      /\ cur' = [cur EXCEPT ![l] = cur[l] + 1]
      /\ UNCHANGED <<pp, main, ret, err, offset, listvars, pc, lo, hi, rec, delim, begun>>
  BY DEF GoodRecord, EndsRecord, SetState, Step, callvars
<1>2. main = "lexing" /\ pc[l] = "lex" /\ InRecord(l)
  BY <1>1 DEF Lexing, At, InRecord
<1>3. Progress(l) /\ cur[l] \in EmptyLines(rec[l])
  BY <1>1, AtRecordEnd
<1>4. WellFormed(rec[l]) /\ (Selected(field[l]) <=> Listed(rec[l])) /\ Pkgobj(l) = ObjectOf(rec[l])
  BY <1>1, <1>3, LexerFacts, RecordEnd
<1>5. /\ Pkgobj(l) \in Object /\ Pkgobj(l).rec = rec[l] /\ Pkgobj(l).name = field[l].name
  <2>1. /\ rec[l] \in Nat /\ field[l].name \in Names /\ field[l].ver \in BOOLEAN
    <3>1. field[l] \in [name : Names \cup {"null"}, ver : BOOLEAN, stat : BOOLEAN]
          /\ field[l].name # "null" /\ rec[l] \in Nat
      BY <1>1, LexerFacts DEF Complete
    <3> QED BY <3>1
  <2> QED BY <2>1 DEF Pkgobj, Object
<1>6. /\ cur'[l] = cur[l] + 1 /\ st'[l] = "RESET"
      /\ \A m \in Lexers \ {l} : cur'[m] = cur[m] /\ st'[m] = st[m]
  BY <1>1 DEF IInv, LexTypes
<1>7. field'[l] = NoFields /\ \A m \in Lexers \ {l} : field'[m] = field[m]
  BY <1>1, LexerFacts
<1>8. Live(l) /\ Live(l)' /\ ~InRecord(l)'
  BY <1>1, <1>2, <1>6 DEF Live, InRecord
<1>9. Move(l)
  BY <1>1, <1>2, <1>6, <1>7, <1>8 DEF Move, OthersStay, Frame
<1> QED BY <1>1, <1>2, <1>3, <1>4, <1>5, <1>6, <1>7, <1>8, <1>9

\* The lists after a record that makes an object, and after one that makes none.
LEMMA GoodRecordMade ==
  ASSUME IInv, IInv', ListInv, NEW l \in Lexers, GoodRecord(l)
  PROVE  /\ Selected(field[l]) => mine' = [mine EXCEPT ![l] = Append(mine[l], Pkgobj(l))]
         /\ ~Selected(field[l]) => mine' = mine
         /\ mine' \in [Lexers -> Seq(Object)]
         /\ \A m \in Lexers \ {l} : mine'[m] = mine[m]
         /\ Selected(field[l]) => mine'[l] = Append(mine[l], Pkgobj(l))
         /\ \A o : InMade(o)' <=> (InMade(o) \/ (Selected(field[l]) /\ o = Pkgobj(l)))
<1>1. /\ Pkgobj(l) \in Object /\ pc' = pc /\ pobjs' = pobjs /\ Live(l)
  BY GoodRecordFacts DEF listvars, Live
<1>2. mine \in [Lexers -> Seq(Object)]
  BY DEF ListInv, ListTypes
<1>3. /\ Selected(field[l]) => mine' = [mine EXCEPT ![l] = Append(mine[l], Pkgobj(l))]
      /\ ~Selected(field[l]) => mine' = mine
  BY DEF GoodRecord
<1>4. /\ \A m \in Lexers \ {l} : mine'[m] = mine[m]
      /\ Selected(field[l]) => mine'[l] = Append(mine[l], Pkgobj(l))
  BY <1>2, <1>3
<1>5. mine' \in [Lexers -> Seq(Object)]
  <2>1. Append(mine[l], Pkgobj(l)) \in Seq(Object)
    BY <1>1, <1>2, AppendFacts
  <2> QED BY <1>2, <1>3, <2>1
<1>6. \A m \in Lexers : Live(m)' <=> Live(m)
  BY <1>1 DEF Live
<1>7. CASE Selected(field[l])
  <2>1. \A o : o \in Objects(mine'[l]) <=> (o \in Objects(mine[l]) \/ o = Pkgobj(l))
    BY <1>1, <1>2, <1>4, <1>7, AppendFacts
  <2>2. ASSUME NEW o PROVE InMine(o)' <=> (InMine(o) \/ o = Pkgobj(l))
    BY <1>1, <1>4, <1>6, <2>1 DEF InMine
  <2> QED BY <1>1, <1>3, <1>4, <1>5, <1>7, <2>2 DEF InMade
<1>8. CASE ~Selected(field[l])
  <2>1. \A o : InMade(o)' <=> InMade(o)
    BY <1>1, <1>3, <1>6, <1>8 DEF InMade, InMine
  <2> QED BY <1>3, <1>4, <1>5, <1>8, <2>1
<1> QED BY <1>7, <1>8

LEMMA GoodRecordLists ==
  ASSUME IInv, IInv', ListInv, NEW l \in Lexers, GoodRecord(l)
  PROVE  ObjectsRight' /\ MineSorted' /\ MineApart'
<1>0. PICK r \in Nat, o \in Object, sel \in BOOLEAN :
        r = rec[l] /\ o = Pkgobj(l) /\ (sel <=> Selected(field[l])) /\ o.rec = r
  <2>1. rec[l] \in Nat /\ Pkgobj(l) \in Object /\ Pkgobj(l).rec = rec[l]
    BY GoodRecordFacts, LexerFacts
  <2>2. \E sel \in BOOLEAN : sel <=> Selected(field[l])
    <3>1. CASE Selected(field[l])
      BY <3>1
    <3>2. CASE ~Selected(field[l])
      BY <3>2
    <3> QED BY <3>1, <3>2
  <2> QED BY <2>1, <2>2
<1>1. /\ Move(l) /\ InRecord(l) /\ ~InRecord(l)' /\ Progress(l) /\ cur'[l] = cur[l] + 1
      /\ UNCHANGED <<pp, offset, pobjs, pc, lo, hi, rec, begun>>
      /\ pc[l] = "lex" /\ o = ObjectOf(r) /\ (sel <=> Listed(r))
  BY <1>0, GoodRecordFacts DEF listvars
<1>2. /\ mine' \in [Lexers -> Seq(Object)] /\ mine \in [Lexers -> Seq(Object)]
      /\ \A m \in Lexers \ {l} : mine'[m] = mine[m]
      /\ sel => mine'[l] = Append(mine[l], o)
      /\ ~sel => mine' = mine
      /\ \A x : InMade(x)' <=> (InMade(x) \/ (sel /\ x = o))
  BY <1>0, GoodRecordMade DEF ListInv, ListTypes
<1>3. Live(l) /\ \A m \in Lexers : Live(m)' <=> Live(m)
  BY <1>1 DEF Live
<1>4. /\ r \in Nat /\ r < cur[l] /\ cur[l] \in Nat /\ offset \in Nat /\ r < offset
      /\ r \in Positions /\ RecordStart(r) /\ begun[r] = 1
  <2>1. /\ r \in Nat /\ cur[l] \in Nat /\ hi[l] \in Nat /\ offset \in Nat /\ hi[l] <= offset
    BY <1>0, <1>1, LexerFacts, AtWork DEF InRecord, Active
  <2>2. r < cur[l] /\ r < hi[l] /\ RecordStart(r) /\ begun[r] = 1
    BY <1>0, <1>1 DEF Progress, InChunk
  <2> QED BY <2>1, <2>2 DEF RecordStart
<1>5. ObjectsRight'
  <2>1. ASSUME sel PROVE ObjectRight(o)'
    <3>1. ~InHands(r)'
      <4>1. SUFFICES ASSUME NEW m \in Lexers, InRecord(m)', rec'[m] = r PROVE FALSE
        BY DEF InHands
      <4>2. m # l
        BY <1>1, <4>1
      <4>3. InRecord(m) /\ rec[m] = r
        BY <1>1, <4>1, <4>2, MoveFacts
      <4> QED BY <1>0, <1>1, <4>2, <4>3, HandsApart
    <3>2. /\ Positions' = Positions /\ RecordStart(r)' /\ Listed(r)' /\ o = ObjectOf(r)'
      BY <1>1, <1>4, <2>1, TextSame
    <3>3. begun'[r] = 1
      BY <1>1, <1>4
    <3> QED BY <1>0, <1>4, <3>1, <3>2, <3>3 DEF ObjectRight
  <2>2. \A x \in Object : InMade(x)' => InMade(x) \/ ObjectRight(x)'
    BY <1>2, <2>1
  <2> QED BY <1>1, <2>2, ObjectsMove DEF ListInv
<1>6. \A x \in Object : InMade(x) => x.rec # r
  BY <1>0, <1>1, MadeNotInHand
<1>7. /\ \A m \in Lexers : Live(m) => \A i \in 1..Len(mine[m]) : mine[m][i].rec # r
      /\ \A i \in 1..Len(pobjs) : pobjs[i].rec # r
  <2>1. ASSUME NEW m \in Lexers, NEW i \in 1..Len(mine[m]), Live(m) PROVE mine[m][i].rec # r
    <3>1. mine[m][i] \in Object /\ mine[m][i] \in Objects(mine[m])
      BY <1>2, ListFacts
    <3>2. InMade(mine[m][i])
      BY <2>1, <3>1 DEF InMade, InMine
    <3> QED BY <1>6, <3>1, <3>2
  <2>2. ASSUME NEW i \in 1..Len(pobjs) PROVE pobjs[i].rec # r
    <3>1. pobjs[i] \in Object /\ pobjs[i] \in Objects(pobjs)
      BY ListFacts DEF ListInv, ListTypes
    <3> QED BY <1>6, <3>1 DEF InMade
  <2> QED BY <2>1, <2>2
<1>8. /\ Len(mine[l]) \in Nat
      /\ \A i \in 1..Len(mine[l]) : /\ mine[l][i].rec \in Nat /\ mine[l][i].rec < r
                                    /\ mine[l][i].rec < offset /\ mine[l][i].rec < cur[l]
      /\ Sorted(mine[l])
  <2>1. ASSUME NEW i \in 1..Len(mine[l])
        PROVE  /\ mine[l][i].rec \in Nat /\ mine[l][i].rec < r
               /\ mine[l][i].rec < offset /\ mine[l][i].rec < cur[l]
    BY <1>0, <1>1, <1>2, <1>3, LexerFacts, ListFacts DEF MineBefore, Before
  <2> QED BY <1>3, <2>1, LexerFacts
<1>9. ASSUME sel
      PROVE  /\ Len(mine'[l]) = Len(mine[l]) + 1 /\ mine'[l][Len(mine[l]) + 1] = o
             /\ \A i \in 1..Len(mine[l]) : mine'[l][i] = mine[l][i]
             /\ \A i \in 1..Len(mine'[l]) : i \in 1..Len(mine[l]) \/ i = Len(mine[l]) + 1
  <2>1. /\ Len(mine'[l]) = Len(mine[l]) + 1 /\ mine'[l][Len(mine[l]) + 1] = o
        /\ \A i \in 1..Len(mine[l]) : mine'[l][i] = mine[l][i]
    BY <1>2, <1>9, AppendFacts
  <2> QED BY <1>8, <2>1
<1>10. MineSorted'
  <2>1. ASSUME NEW m \in Lexers, Live(m), m # l PROVE Sorted(mine[m])' /\ MineBefore(m)'
    <3>1. Sorted(mine[m]) /\ MineBefore(m)
      BY <2>1, LexerFacts
    <3>2. /\ pc'[m] = pc[m] /\ st'[m] = st[m] /\ cur'[m] = cur[m] /\ lo'[m] = lo[m]
          /\ rec'[m] = rec[m] /\ offset' = offset /\ mine'[m] = mine[m]
      BY <1>1, <1>2, <2>1 DEF Move, OthersStay, Frame
    <3> QED BY <3>1, <3>2 DEF MineBefore, Before, InRecord, Sorted
  <2>2. MineBefore(l)'
    <3>1. ASSUME NEW i \in 1..Len(mine'[l]) PROVE mine'[l][i].rec < offset /\ mine'[l][i].rec < cur'[l]
      <4>1. CASE sel /\ i = Len(mine[l]) + 1
        BY <1>0, <1>1, <1>4, <1>9, <4>1
      <4>2. CASE i \in 1..Len(mine[l]) /\ mine'[l][i] = mine[l][i]
        BY <1>1, <1>4, <1>8, <4>2
      <4> QED BY <1>2, <1>9, <4>1, <4>2
    <3> QED BY <1>1, <3>1 DEF MineBefore, Before
  <2>3. Sorted(mine[l])'
    <3>1. CASE ~sel
      BY <1>2, <1>8, <3>1 DEF Sorted
    <3>2. CASE sel
      <4>1. ASSUME NEW i \in 1..Len(mine'[l]), NEW j \in 1..Len(mine'[l]), i < j
            PROVE  mine'[l][i].rec < mine'[l][j].rec
        <5>1. i \in 1..Len(mine[l])
          BY <1>8, <1>9, <3>2, <4>1
        <5>2. CASE j = Len(mine[l]) + 1
          BY <1>0, <1>8, <1>9, <3>2, <5>1, <5>2
        <5>3. CASE j \in 1..Len(mine[l])
          BY <1>8, <1>9, <3>2, <4>1, <5>1, <5>3 DEF Sorted
        <5> QED BY <1>9, <3>2, <5>2, <5>3
      <4> QED BY <4>1 DEF Sorted
    <3> QED BY <3>1, <3>2
  <2> QED BY <1>3, <2>1, <2>2, <2>3 DEF MineSorted
<1>11. MineApart'
  <2>1. ASSUME NEW m \in Lexers, Live(m), m # l PROVE Disjoint(mine[l], mine[m])'
    <3>1. Disjoint(mine[l], mine[m]) /\ mine'[m] = mine[m]
      BY <1>2, <1>3, <2>1 DEF ListInv, MineApart
    <3>2. ASSUME NEW i \in 1..Len(mine'[l]), NEW j \in 1..Len(mine[m])
          PROVE  mine'[l][i].rec # mine[m][j].rec
      <4>1. CASE sel /\ i = Len(mine[l]) + 1
        BY <1>0, <1>7, <1>9, <2>1, <4>1
      <4>2. CASE i \in 1..Len(mine[l]) /\ mine'[l][i] = mine[l][i]
        BY <3>1, <4>2 DEF Disjoint
      <4> QED BY <1>2, <1>9, <4>1, <4>2
    <3> QED BY <3>1, <3>2 DEF Disjoint
  <2>2. Disjoint(mine[l], pobjs)'
    <3>1. Disjoint(mine[l], pobjs) /\ pobjs' = pobjs
      BY <1>1, <1>3 DEF ListInv, MineApart
    <3>2. ASSUME NEW i \in 1..Len(mine'[l]), NEW j \in 1..Len(pobjs)
          PROVE  mine'[l][i].rec # pobjs[j].rec
      <4>1. CASE sel /\ i = Len(mine[l]) + 1
        BY <1>0, <1>7, <1>9, <4>1
      <4>2. CASE i \in 1..Len(mine[l]) /\ mine'[l][i] = mine[l][i]
        BY <3>1, <4>2 DEF Disjoint
      <4> QED BY <1>2, <1>9, <4>1, <4>2
    <3> QED BY <3>1, <3>2 DEF Disjoint
  <2>3. ASSUME NEW m \in Lexers, NEW n \in Lexers, Live(m), Live(n), m # n
        PROVE  Disjoint(mine[m], mine[n])'
    <3>1. CASE m = l
      BY <2>1, <2>3, <3>1
    <3>2. CASE n = l
      <4>1. Disjoint(mine[l], mine[m])'
        BY <2>1, <2>3, <3>2
      <4> QED BY <3>2, <4>1 DEF Disjoint
    <3>3. CASE m # l /\ n # l
      BY <1>2, <2>3, <3>3 DEF ListInv, MineApart, Disjoint
    <3> QED BY <3>1, <3>2, <3>3
  <2>4. ASSUME NEW m \in Lexers, Live(m) PROVE Disjoint(mine[m], pobjs)'
    <3>1. CASE m # l
      BY <1>1, <1>2, <2>4, <3>1 DEF ListInv, MineApart, Disjoint
    <3> QED BY <2>2, <3>1
  <2>5. Once(pobjs)'
    BY <1>1 DEF ListInv, MineApart, Once
  <2> QED BY <1>3, <2>3, <2>4, <2>5 DEF MineApart
<1> QED BY <1>5, <1>10, <1>11

\* The new object is hung before the others of its name.
LEMMA GoodRecordChains ==
  ASSUME IInv, IInv', ListInv, NEW l \in Lexers, GoodRecord(l)
  PROVE  chain' \in [Names -> Seq(Object)] /\ ChainsRight'
<1>0. PICK o \in Object, name \in Names : o = Pkgobj(l) /\ name = field[l].name /\ o.name = name
  <2>1. Pkgobj(l) \in Object /\ Pkgobj(l).name = field[l].name
    BY GoodRecordFacts
  <2>2. Pkgobj(l).name \in Names
    BY <2>1 DEF Object
  <2> QED BY <2>1, <2>2
<1>1. /\ pp' = pp /\ pc' = pc /\ InRecord(l) /\ o.rec = rec[l]
      /\ \A x : InMade(x)' <=> (InMade(x) \/ (Selected(field[l]) /\ x = o))
      /\ chain \in [Names -> Seq(Object)]
  BY <1>0, GoodRecordFacts, GoodRecordMade DEF ListInv, ListTypes
<1>2. <<o>> \in Seq(Object) /\ Len(<<o>>) = 1 /\ <<o>>[1] = o /\ \A x : x \in Objects(<<o>>) <=> x = o
  <2>1. <<o>> \in Seq(Object) /\ Len(<<o>>) = 1 /\ <<o>>[1] = o
    OBVIOUS
  <2>2. 1..1 = {1}
    OBVIOUS
  <2> QED BY <2>1, <2>2 DEF Objects
<1>3. CASE Selected(field[l]) /\ pp.dfa = "filter"
  <2>1. chain' = [chain EXCEPT ![name] = <<o>> \o chain[name]]
    BY <1>0, <1>3 DEF GoodRecord
  <2>2. <<o>> \o chain[name] \in Seq(Object)
    BY <1>1, <1>2, ConcatFacts
  <2>3. chain' \in [Names -> Seq(Object)] /\ chain'[name] = <<o>> \o chain[name]
        /\ \A n \in Names \ {name} : chain'[n] = chain[n]
    BY <1>1, <2>1, <2>2
  <2>4. SUFFICES ASSUME ~Lost, NEW n \in Names
                 PROVE  /\ \A x \in Object : x \in Objects(chain[n])' <=> (InMade(x)' /\ x.name = n)
                        /\ Once(chain[n])'
    BY <1>1, <2>3 DEF ChainsRight, Lost
  <2>5. /\ \A x \in Object : x \in Objects(chain[n]) <=> (InMade(x) /\ x.name = n)
        /\ Once(chain[n])
    BY <1>3, <2>4 DEF ListInv, ChainsRight
  <2>6. CASE n = name
    <3>1. \A x : x \in Objects(chain[n])' <=> (x \in Objects(chain[n]) \/ x = o)
      <4>1. \A x : x \in Objects(<<o>> \o chain[name]) <=> (x \in Objects(<<o>>) \/ x \in Objects(chain[name]))
        BY <1>1, <1>2, ConcatFacts
      <4>2. Objects(chain[n])' = Objects(<<o>> \o chain[name])
        BY <2>3, <2>6 DEF Objects
      <4> QED BY <1>2, <2>6, <4>1, <4>2
    <3>2. Once(<<o>> \o chain[name])
      <4>1. Once(<<o>>)
        BY <1>2 DEF Once
      <4>2. Disjoint(<<o>>, chain[name])
        <5>1. ASSUME NEW j \in 1..Len(chain[name]) PROVE chain[name][j].rec # o.rec
          <6>1. chain[name][j] \in Object /\ chain[name][j] \in Objects(chain[name])
            BY <1>1, ListFacts
          <6>2. InMade(chain[name][j])
            BY <2>5, <2>6, <6>1
          <6> QED BY <1>1, <6>1, <6>2, MadeNotInHand
        <5> QED BY <1>2, <5>1 DEF Disjoint
      <4> QED BY <1>1, <1>2, <2>5, <2>6, <4>1, <4>2, OnceConcat
    <3>3. Once(chain[n])'
      BY <2>3, <2>6, <3>2 DEF Once
    <3> QED BY <1>0, <1>1, <1>3, <2>5, <2>6, <3>1, <3>3
  <2>7. CASE n # name
    <3>1. Objects(chain[n])' = Objects(chain[n]) /\ Once(chain[n])'
      BY <2>3, <2>5, <2>7 DEF Objects, Once
    <3> QED BY <1>0, <1>1, <2>5, <2>7, <3>1
  <2> QED BY <2>6, <2>7
<1>4. CASE ~(Selected(field[l]) /\ pp.dfa = "filter")
  <2>1. chain' = chain
    BY <1>4 DEF GoodRecord
  <2>2. SUFFICES ASSUME ~Lost, pp.dfa = "filter", NEW n \in Names
                 PROVE  /\ \A x \in Object : x \in Objects(chain[n])' <=> (InMade(x)' /\ x.name = n)
                        /\ Once(chain[n])'
    BY <1>1, <2>1 DEF ChainsRight, Lost
  <2>3. /\ \A x \in Object : x \in Objects(chain[n]) <=> (InMade(x) /\ x.name = n)
        /\ Once(chain[n])
    BY <2>2 DEF ListInv, ChainsRight
  <2>4. Objects(chain[n])' = Objects(chain[n]) /\ Once(chain[n])'
    BY <2>1, <2>3 DEF Objects, Once
  <2> QED BY <1>1, <1>4, <2>2, <2>3, <2>4
<1> QED BY <1>3, <1>4

\* The end of a record: the lexer has read it, and its object is in the list.
LEMMA GoodRecordList ==
  ASSUME IInv, IInv', ListInv, NEW l \in Lexers, GoodRecord(l)
  PROVE  ListInv'
<1>0. PICK r \in Nat : r = rec[l]
  BY LexerFacts
<1>1. /\ Move(l) /\ Live(l)' /\ InRecord(l) /\ ~InRecord(l)' /\ main = "lexing"
      /\ UNCHANGED <<pp, main, ret, err, offset, pobjs, pcount, root, pc, lo, hi, rec, delim, begun>>
      /\ field' = [field EXCEPT ![l] = NoFields] /\ field'[l] = NoFields
      /\ cur'[l] = cur[l] + 1 /\ st'[l] = "RESET" /\ pc[l] = "lex" /\ st[l] = "NLINE"
  BY GoodRecordFacts DEF listvars
<1>2. /\ mine' \in [Lexers -> Seq(Object)]
      /\ \A o : InMade(o)' <=> (InMade(o) \/ (Selected(field[l]) /\ o = Pkgobj(l)))
  BY GoodRecordMade
<1>3. ListTypes'
  <2>1. NoFields \in [name : Names \cup {"null"}, ver : BOOLEAN, stat : BOOLEAN]
    BY DEF NoFields
  <2>2. field' \in [Lexers -> [name : Names \cup {"null"}, ver : BOOLEAN, stat : BOOLEAN]]
    BY <1>1, <2>1, LexerFacts
  <2>3. chain' \in [Names -> Seq(Object)]
    BY GoodRecordChains
  <2> QED BY <1>1, <1>2, <2>2, <2>3 DEF ListInv, ListTypes
<1>4. Reads' /\ SkipKnows'
  <2>1. ReadsAt(l)'
    BY <1>1 DEF ReadsAt, NoFields
  <2>2. SkipKnowsAt(l)'
    BY <1>1 DEF SkipKnowsAt
  <2> QED BY <1>1, <2>1, <2>2, ReadsMove DEF ListInv
<1>5. NotMissed'
  <2>1. ASSUME NEW p \in Positions, Ahead(l, p) PROVE Ahead(l, p)'
    <3>1. cur[l] < p /\ p \in Nat /\ cur[l] \in Nat
      BY <1>1, <2>1, LexerFacts DEF Ahead
    <3>2. cur[l] + 1 <= p
      BY <3>1
    <3> QED BY <1>1, <2>1, <3>2 DEF Ahead, Active, InChunk
  <2>2. \A p \in Positions : ~(offset <= p /\ p < offset')
    BY <1>1, LexerFacts
  <2> QED BY <1>1, <2>1, <2>2, NotMissedMove DEF ListInv
<1>6. Kept'
  <2>1. ASSUME NEW p, rec[l] = p PROVE Read(p)'
    <3>1. /\ p = r /\ WellFormed(r) /\ Pkgobj(l) = ObjectOf(r)
          /\ Selected(field[l]) <=> Listed(r)
      BY <1>0, <2>1, GoodRecordFacts
    <3>2. /\ WellFormed(r)' <=> WellFormed(r)
          /\ Listed(r)' <=> Listed(r)
          /\ ObjectOf(r)' = ObjectOf(r)
      BY <1>1, TextSame
    <3>3. PICK o : o = ObjectOf(r)
      OBVIOUS
    <3>4. Listed(r) => InMade(o)'
      BY <1>2, <3>1, <3>3
    <3>5. InMade(o)' => InMade(ObjectOf(r))'
      BY <3>2, <3>3 DEF InMade, InMine
    <3> QED BY <3>1, <3>2, <3>4, <3>5 DEF Read
  <2> QED BY <1>1, <1>2, <2>1, KeptMove DEF ListInv
<1>7. Blame'
  <2>1. RecordStarts' = RecordStarts /\ \A p : WellFormed(p)' <=> WellFormed(p)
    BY <1>1, TextSame
  <2> QED BY <1>1, <2>1 DEF ListInv, Blame, Lost
<1>8. ObjectsRight' /\ MineSorted' /\ MineApart' /\ ChainsRight'
  BY GoodRecordLists, GoodRecordChains
<1>9. RootsRight'
  BY <1>1 DEF ListInv, RootsRight, EnteredFrom, MayFail
<1>10. EndSeen' /\ OnlyCrew' /\ Report'
  <2>1. Len0' = Len0
    BY <1>1, TextSame
  <2> QED BY <1>1, <2>1 DEF ListInv, EndSeen, OnlyCrew, Report, Lost
<1> QED BY <1>3, <1>4, <1>5, <1>6, <1>7, <1>8, <1>9, <1>10 DEF ListInv

\* A lexer that fails frees its objects: nothing that is left was wrong before.
LEMMA FreeList ==
  ASSUME IInv, IInv', ListInv, NEW l \in Lexers, Free(l)
  PROVE  ListInv'
<1>1. /\ main = "lexing" /\ pc[l] = "err" /\ pc' = [pc EXCEPT ![l] = "failed"]
      /\ mine' = [mine EXCEPT ![l] = <<>>]
      /\ UNCHANGED <<pp, main, ret, err, offset, pobjs, pcount, root, chain, lo, hi, cur, st, rec,
                     delim, field, begun>>
  BY DEF Free, At, Goto, callvars, listvars, linevars
<1>2. /\ pc'[l] = "failed" /\ \A m \in Lexers \ {l} : pc'[m] = pc[m]
      /\ mine' \in [Lexers -> Seq(Object)] /\ \A m \in Lexers \ {l} : mine'[m] = mine[m]
  <2>1. mine \in [Lexers -> Seq(Object)] /\ <<>> \in Seq(Object)
    BY DEF ListInv, ListTypes
  <2> QED BY <1>1, <2>1, LexerFacts
<1>3. Live(l) /\ ~Live(l)' /\ ~InRecord(l) /\ ~InRecord(l)' /\ ~Active(l)' /\ Lost /\ Lost'
  BY <1>1, <1>2 DEF Live, InRecord, Active, Lost
<1>4. Move(l)
  BY <1>1, <1>2, <1>3 DEF Move, OthersStay, Frame
<1>5. \A m \in Lexers : Live(m)' => Live(m) /\ m # l
  BY <1>2, <1>3 DEF Live
<1>6. \A o : InMade(o)' => InMade(o)
  BY <1>1, <1>2, <1>5 DEF InMade, InMine
<1>7. ListTypes'
  BY <1>1, <1>2 DEF ListInv, ListTypes
<1>8. Reads' /\ SkipKnows'
  <2>1. ReadsAt(l)' /\ SkipKnowsAt(l)'
    BY <1>2, <1>3 DEF ReadsAt, SkipKnowsAt
  <2> QED BY <1>4, <2>1, ReadsMove DEF ListInv
<1>9. NotMissed' /\ Kept' /\ ChainsRight'
  BY <1>3 DEF NotMissed, Kept, ChainsRight
<1>10. Blame'
  <2>1. RecordStarts' = RecordStarts /\ \A p : WellFormed(p)' <=> WellFormed(p)
    BY <1>1, TextSame
  <2> QED BY <1>1, <1>3, <2>1 DEF ListInv, Blame
<1>11. ObjectsRight'
  BY <1>4, <1>6, ObjectsMove DEF ListInv
<1>12. MineSorted'
  <2>1. ASSUME NEW m \in Lexers, Live(m)' PROVE Sorted(mine[m])' /\ MineBefore(m)'
    <3>1. Sorted(mine[m]) /\ MineBefore(m) /\ m # l
      BY <1>5, <2>1, LexerFacts
    <3>2. pc'[m] = pc[m] /\ mine'[m] = mine[m]
      BY <1>2, <3>1
    <3> QED BY <1>1, <3>1, <3>2 DEF MineBefore, Before, InRecord, Sorted
  <2> QED BY <2>1 DEF MineSorted
<1>13. MineApart'
  <2>1. ASSUME NEW m \in Lexers, NEW n \in Lexers, Live(m)', Live(n)', m # n
        PROVE  Disjoint(mine[m], mine[n])'
    <3>1. Disjoint(mine[m], mine[n]) /\ m # l /\ n # l
      BY <1>5, <2>1 DEF ListInv, MineApart
    <3>2. mine'[m] = mine[m] /\ mine'[n] = mine[n]
      BY <1>2, <3>1
    <3> QED BY <3>1, <3>2 DEF Disjoint
  <2>2. ASSUME NEW m \in Lexers, Live(m)' PROVE Disjoint(mine[m], pobjs)'
    BY <1>1, <1>2, <1>5, <2>2 DEF ListInv, MineApart, Disjoint
  <2>3. Once(pobjs)'
    BY <1>1 DEF ListInv, MineApart, Once
  <2> QED BY <2>1, <2>2, <2>3 DEF MineApart
<1>14. RootsRight'
  BY <1>1, <1>2 DEF ListInv, RootsRight, EnteredFrom, MayFail
<1>15. OnlyCrew' /\ Report'
  BY <1>1, <1>2, <1>3 DEF ListInv, OnlyCrew, Report
<1>16. EndSeen'
  <2>1. Len0' = Len0 /\ pp.crew \subseteq Lexers
    BY <1>1, TextSame, LexAssumption, LexerFacts
  <2> QED BY <1>1, <1>2, <2>1 DEF ListInv, EndSeen
<1> QED BY <1>7, <1>8, <1>9, <1>10, <1>11, <1>12, <1>13, <1>14, <1>15, <1>16 DEF ListInv

LEMMA SpliceFacts ==
  ASSUME IInv, IInv', ListInv, NEW l \in Lexers, Splice(l)
  PROVE  /\ main = "lexing" /\ pc[l] = "splice" /\ pc'[l] = "done"
         /\ \A m \in Lexers \ {l} : pc'[m] = pc[m]
         /\ pobjs' = mine[l] \o pobjs /\ pcount' = pcount + Len(mine[l])
         /\ UNCHANGED <<pp, main, ret, err, offset, chain, lo, hi, cur, st, rec, delim, field,
                        mine, begun>>
         /\ Move(l) /\ Live(l) /\ ~Live(l)' /\ ~InRecord(l) /\ ~Active(l) /\ ~Active(l)' /\ ~InRecord(l)'
         /\ l \in pp.crew /\ offset = Len0
         /\ pobjs \in Seq(Object) /\ mine[l] \in Seq(Object) /\ mine \in [Lexers -> Seq(Object)]
         /\ \A m \in Lexers : Live(m) <=> (Live(m)' \/ m = l)
         /\ \A o : InMade(o)' <=> InMade(o)
         /\ Lost' <=> Lost
<1>1. /\ main = "lexing" /\ pc[l] = "splice" /\ pc' = [pc EXCEPT ![l] = "done"]
      /\ pobjs' = mine[l] \o pobjs /\ pcount' = pcount + Len(mine[l])
      /\ UNCHANGED <<pp, main, ret, err, offset, chain, lo, hi, cur, st, rec, delim, field,
                     mine, begun>>
  BY DEF Splice, At, Goto, callvars, linevars
<1>2. pc'[l] = "done" /\ \A m \in Lexers \ {l} : pc'[m] = pc[m]
  BY <1>1, LexerFacts
<1>3. Live(l) /\ ~Live(l)' /\ ~InRecord(l) /\ ~Active(l) /\ ~Active(l)' /\ ~InRecord(l)'
  BY <1>1, <1>2 DEF Live, InRecord, Active
<1>4. Move(l)
  BY <1>1, <1>2, <1>3 DEF Move, OthersStay, Frame
<1>5. l \in pp.crew /\ offset = Len0
  BY <1>1 DEF ListInv, OnlyCrew, EndSeen
<1>6. pobjs \in Seq(Object) /\ mine[l] \in Seq(Object) /\ mine \in [Lexers -> Seq(Object)]
  BY DEF ListInv, ListTypes
<1>7. \A m \in Lexers : Live(m) <=> (Live(m)' \/ m = l)
  BY <1>2, <1>3 DEF Live
<1>8. \A o : InMade(o)' <=> InMade(o)
  <2>1. \A o : o \in Objects(pobjs') <=> (o \in Objects(mine[l]) \/ o \in Objects(pobjs))
    BY <1>1, <1>6, ConcatFacts
  <2> QED BY <1>1, <1>7, <2>1 DEF InMade, InMine
<1>9. Lost' <=> Lost
  BY <1>1, <1>2 DEF Lost
<1> QED BY <1>1, <1>2, <1>3, <1>4, <1>5, <1>6, <1>7, <1>8, <1>9

\* An empty list has no object to enter.
LEMMA NoneNamed ==
  ASSUME NEW lost, NEW n
  PROVE  FirstNamed(<<>>, lost, n) = -1
<1>1. {i \in (1..Len(<<>>)) \ lost : <<>>[i].name = n} = {}
  OBVIOUS
<1> QED BY <1>1 DEF FirstNamed

\* A trie is built by one lexer, so that the list was empty before its splice.
LEMMA SpliceRoots ==
  ASSUME IInv, IInv', ListInv, NEW l \in Lexers, Splice(l)
  PROVE  RootsRight' /\ root' = [n \in Names |-> root'[n]]
<1>1. /\ pc[l] = "splice" /\ pc'[l] = "done" /\ \A m \in Lexers \ {l} : pc'[m] = pc[m]
      /\ pobjs' = mine[l] \o pobjs /\ pp' = pp /\ l \in pp.crew
      /\ mine[l] \in Seq(Object) /\ Live(l)
  BY SpliceFacts
<1>2. CASE pp.dfa = "build"
  <2>1. pobjs = <<>>
    BY <1>1, <1>2 DEF ListInv, RootsRight
  <2>2. pobjs' = mine[l]
    BY <1>1, <2>1
  <2>3. \A n \in Names : root[n] = -1
    BY <1>2, <2>1, NoneNamed DEF ListInv, RootsRight, EnteredFrom
  <2>4. PICK lost \in SUBSET (1..Len(mine[l])) :
          /\ lost = {} \/ MayFail("augment")
          /\ root' = [n \in Names |-> FirstNamed(mine[l], lost, n)]
    BY <1>2, <2>3 DEF Splice, EnterNames
  <2>7. \A n \in Names : EnteredFrom(pobjs, n)'
    BY <1>1, <2>2, <2>4 DEF EnteredFrom, MayFail
  <2>5. Sorted(mine[l])
    BY <1>1, LexerFacts
  <2>6. \A m \in Lexers : pc'[m] = "done"
    <3>1. IsFiniteSet(pp.crew) /\ Cardinality(pp.crew) = 1
      <4>1. pp \in Inputs
        BY LexerFacts
      <4>2. IsFiniteSet(Lexers) /\ pp.crew \in SUBSET Lexers /\ Cardinality(pp.crew) = 1
        BY <1>2, <4>1, LexAssumption
      <4> QED BY <4>2, FS_Subset
    <3>2. pp.crew = {l}
      <4>1. PICK x : pp.crew = {x}
        BY <3>1, FS_Singleton
      <4> QED BY <1>1, <4>1
    <3>3. \A m \in Lexers \ {l} : pc[m] = "done"
      BY <3>2 DEF ListInv, OnlyCrew
    <3> QED BY <1>1, <3>3
  <2> QED BY <1>1, <1>2, <2>2, <2>4, <2>5, <2>6, <2>7 DEF RootsRight
<1>3. CASE pp.dfa # "build"
  <2>1. root' = root
    BY <1>3 DEF Splice
  <2> QED BY <1>1, <1>3, <2>1 DEF ListInv, RootsRight, ListTypes
<1> QED BY <1>2, <1>3

LEMMA SpliceList ==
  ASSUME IInv, IInv', ListInv, NEW l \in Lexers, Splice(l)
  PROVE  ListInv'
<1>1. /\ main = "lexing" /\ pc[l] = "splice" /\ pc'[l] = "done"
      /\ \A m \in Lexers \ {l} : pc'[m] = pc[m]
      /\ pobjs' = mine[l] \o pobjs /\ pcount' = pcount + Len(mine[l])
      /\ UNCHANGED <<pp, main, ret, err, offset, chain, lo, hi, cur, st, rec, delim, field,
                     mine, begun>>
      /\ Move(l) /\ Live(l) /\ ~Live(l)' /\ ~InRecord(l) /\ ~Active(l) /\ ~Active(l)' /\ ~InRecord(l)'
      /\ l \in pp.crew /\ offset = Len0
      /\ pobjs \in Seq(Object) /\ mine[l] \in Seq(Object) /\ mine \in [Lexers -> Seq(Object)]
      /\ \A m \in Lexers : Live(m) <=> (Live(m)' \/ m = l)
      /\ \A o : InMade(o)' <=> InMade(o)
      /\ Lost' <=> Lost
  BY SpliceFacts
<1>2. /\ pobjs' \in Seq(Object) /\ Len(pobjs') = Len(mine[l]) + Len(pobjs)
      /\ Len(mine[l]) \in Nat /\ Len(pobjs) \in Nat
  BY <1>1, ConcatFacts
<1>3. ListTypes'
  BY <1>1, <1>2, SpliceRoots DEF ListInv, ListTypes
<1>4. Reads' /\ SkipKnows'
  <2>1. ReadsAt(l)' /\ SkipKnowsAt(l)'
    BY <1>1 DEF ReadsAt, SkipKnowsAt
  <2> QED BY <1>1, <2>1, ReadsMove DEF ListInv
<1>5. NotMissed'
  <2>1. \A p \in Positions : ~Ahead(l, p) /\ ~(offset <= p /\ p < offset')
    BY <1>1, LexerFacts DEF Ahead
  <2> QED BY <1>1, <2>1, NotMissedMove DEF ListInv
<1>6. Kept'
  BY <1>1, KeptMove DEF ListInv
<1>7. Blame'
  <2>1. RecordStarts' = RecordStarts /\ \A p : WellFormed(p)' <=> WellFormed(p)
    BY <1>1, TextSame
  <2> QED BY <1>1, <2>1 DEF ListInv, Blame
<1>8. ObjectsRight'
  BY <1>1, ObjectsMove DEF ListInv
<1>9. MineSorted'
  <2>1. ASSUME NEW m \in Lexers, Live(m)' PROVE Sorted(mine[m])' /\ MineBefore(m)'
    <3>1. Sorted(mine[m]) /\ MineBefore(m) /\ m # l
      BY <1>1, <2>1, LexerFacts
    <3>2. pc'[m] = pc[m]
      BY <1>1, <3>1
    <3> QED BY <1>1, <3>1, <3>2 DEF MineBefore, Before, InRecord, Sorted
  <2> QED BY <2>1 DEF MineSorted
<1>10. MineApart'
  <2>1. ASSUME NEW m \in Lexers, NEW n \in Lexers, Live(m)', Live(n)', m # n
        PROVE  Disjoint(mine[m], mine[n])'
    BY <1>1, <2>1 DEF ListInv, MineApart, Disjoint
  <2>2. ASSUME NEW m \in Lexers, Live(m)' PROVE Disjoint(mine[m], pobjs)'
    <3>1. Disjoint(mine[m], mine[l]) /\ Disjoint(mine[m], pobjs)
      BY <1>1, <2>2 DEF ListInv, MineApart
    <3>2. ASSUME NEW i \in 1..Len(mine[m]), NEW j \in 1..Len(pobjs')
          PROVE  mine[m][i].rec # pobjs'[j].rec
      <4>1. CASE j \in 1..Len(mine[l])
        <5>1. pobjs'[j] = mine[l][j]
          BY <1>1, <4>1, ConcatFacts
        <5> QED BY <3>1, <4>1, <5>1 DEF Disjoint
      <4>2. ASSUME NEW k \in 1..Len(pobjs), j = Len(mine[l]) + k
            PROVE  mine[m][i].rec # pobjs'[j].rec
        <5>1. pobjs'[j] = pobjs[k]
          BY <1>1, <4>2, ConcatFacts
        <5> QED BY <3>1, <5>1 DEF Disjoint
      <4>3. \A k \in 1..Len(mine[l] \o pobjs) :
              k \in 1..Len(mine[l]) \/ \E n \in 1..Len(pobjs) : k = Len(mine[l]) + n
        BY <1>1, ConcatFacts
      <4> QED BY <1>1, <4>1, <4>2, <4>3
    <3> QED BY <1>1, <3>2 DEF Disjoint
  <2>3. Once(pobjs)'
    <3>1. Once(mine[l])
      BY <1>1, LexerFacts, SortedOnce
    <3>2. Disjoint(mine[l], pobjs) /\ Once(pobjs)
      BY <1>1 DEF ListInv, MineApart
    <3>3. Once(mine[l] \o pobjs)
      BY <1>1, <3>1, <3>2, OnceConcat
    <3> QED BY <1>1, <3>3 DEF Once
  <2> QED BY <2>1, <2>2, <2>3 DEF MineApart
<1>11. ChainsRight'
  <2>1. SUFFICES ASSUME ~Lost, pp.dfa = "filter", NEW n \in Names
                 PROVE  /\ \A o \in Object : o \in Objects(chain[n])' <=> (InMade(o)' /\ o.name = n)
                        /\ Once(chain[n])'
    BY <1>1 DEF ChainsRight
  <2>2. /\ \A o \in Object : o \in Objects(chain[n]) <=> (InMade(o) /\ o.name = n)
        /\ Once(chain[n])
    BY <2>1 DEF ListInv, ChainsRight
  <2>3. Objects(chain[n])' = Objects(chain[n]) /\ Once(chain[n])'
    BY <1>1, <2>2 DEF Objects, Once
  <2> QED BY <1>1, <2>2, <2>3
<1>12. RootsRight'
  BY SpliceRoots
<1>13. OnlyCrew' /\ Report'
  BY <1>1 DEF ListInv, OnlyCrew, Report
<1>14. EndSeen'
  <2>1. Len0' = Len0 /\ pp.crew \subseteq Lexers
    BY <1>1, TextSame, LexAssumption, LexerFacts
  <2> QED BY <1>1, <2>1 DEF ListInv, EndSeen
<1> QED BY <1>3, <1>4, <1>5, <1>6, <1>7, <1>8, <1>9, <1>10, <1>11, <1>12, <1>13, <1>14 DEF ListInv

-----------------------------------------------------------------------------
(* The invariant.                                                           *)

LEMMA InitList == ASSUME Init PROVE ListInv
<1>1. IInv /\ NoFields \in [name : Names \cup {"null"}, ver : BOOLEAN, stat : BOOLEAN]
  BY InitInv DEF NoFields
<1>2. /\ pp \in Inputs /\ main = "calling" /\ ret = "none" /\ err = FALSE /\ offset = 0
      /\ pobjs = <<>> /\ pcount = 0 /\ root = [n \in Names |-> -1]
      /\ \A l \in Lexers : pc[l] = IF l \in pp.crew THEN "offset" ELSE "done"
      /\ \A l \in Lexers : mine[l] = <<>>
      /\ \A n \in Names : chain[n] = <<>>
      /\ \A p \in Positions : begun[p] = 0
  BY DEF Init
<1>3. Len(<<>>) = 0 /\ <<>> \in Seq(Object) /\ Objects(<<>>) = {}
  BY DEF Objects
<1>4. /\ \A l \in Lexers : pc[l] \in {"offset", "done"} /\ ~InRecord(l) /\ ~Active(l)
      /\ ~Lost /\ \A o : ~InMade(o)
  <2>1. \A l \in Lexers : pc[l] \in {"offset", "done"} /\ ~InRecord(l) /\ ~Active(l)
    BY <1>2 DEF InRecord, Active
  <2>2. \A o : ~InMade(o)
    BY <1>2, <1>3 DEF InMade, InMine
  <2> QED BY <2>1, <2>2 DEF Lost
<1>5. ListTypes
  <2>1. mine = [l \in Lexers |-> <<>>] /\ chain = [n \in Names |-> <<>>]
        /\ field = [l \in Lexers |-> NoFields] /\ rec = [l \in Lexers |-> 0]
        /\ delim = [l \in Lexers |-> "null"]
    BY DEF Init
  <2>2. root = [n \in Names |-> root[n]]
    BY <1>2
  <2>3. /\ rec \in [Lexers -> Nat] /\ delim \in [Lexers -> Names \cup {"null"}]
        /\ field \in [Lexers -> [name : Names \cup {"null"}, ver : BOOLEAN, stat : BOOLEAN]]
    BY <1>1, <2>1
  <2>4. mine \in [Lexers -> Seq(Object)] /\ chain \in [Names -> Seq(Object)]
    BY <1>3, <2>1
  <2>5. pobjs \in Seq(Object) /\ pcount = Len(pobjs)
    BY <1>2, <1>3
  <2> QED BY <1>2, <2>2, <2>3, <2>4, <2>5 DEF ListTypes
<1>6. Reads /\ SkipKnows
  BY <1>4 DEF Reads, ReadsAt, SkipKnows, SkipKnowsAt
<1>7. NotMissed
  <2>1. Positions = 0..(Len0 - 1) /\ Len0 \in Nat
    BY <1>2, TextFacts
  <2> QED BY <1>2, <2>1 DEF NotMissed
<1>8. Kept /\ Blame /\ ObjectsRight
  BY <1>2, <1>4 DEF Kept, Blame, ObjectsRight
<1>9. MineSorted /\ MineApart
  BY <1>2, <1>3 DEF MineSorted, Sorted, MineBefore, MineApart, Disjoint, Once
<1>10. ChainsRight
  <2>1. ASSUME NEW n \in Names PROVE Objects(chain[n]) = {} /\ Once(chain[n])
    BY <1>2, <1>3 DEF Once
  <2> QED BY <1>4, <2>1 DEF ChainsRight
<1>11. RootsRight
  <2>1. ASSUME NEW n \in Names PROVE EnteredFrom(pobjs, n) /\ root[n] = -1
    <3>1. root[n] = FirstNamed(<<>>, {}, n) /\ root[n] = -1
      BY <1>2, NoneNamed
    <3> QED BY <1>2, <3>1 DEF EnteredFrom
  <2>2. Sorted(pobjs)
    BY <1>2, <1>3 DEF Sorted
  <2> QED BY <1>2, <2>1, <2>2 DEF RootsRight
<1>12. EndSeen /\ OnlyCrew /\ Report
  <2>1. pp.crew \subseteq Lexers
    BY <1>2, LexAssumption
  <2> QED BY <1>2, <2>1 DEF EndSeen, OnlyCrew, Report
<1> QED BY <1>5, <1>6, <1>7, <1>8, <1>9, <1>10, <1>11, <1>12 DEF ListInv

\* What the caller does, and stuttering, leaves the lexers and the lists alone.
LEMMA CallerList ==
  ASSUME IInv, ListInv, Call \/ Return \/ UNCHANGED vars
  PROVE  ListInv'
<1>1. UNCHANGED lexvars
  BY DEF Call, Return, vars, callvars, lexvars
<1>2. /\ UNCHANGED <<pp, offset, pobjs, pcount, root, chain, pc, lo, hi, cur, st, rec, delim,
                     field, mine, begun>>
      /\ pp \in Inputs
  BY <1>1, LexAssumption DEF lexvars, listvars, linevars, IInv, LexTypes
<1>3. /\ Len0' = Len0 /\ Positions' = Positions /\ RecordStarts' = RecordStarts
      /\ \A p : /\ RecordStart(p)' <=> RecordStart(p)
                /\ WellFormed(p)' <=> WellFormed(p)
                /\ Listed(p)' <=> Listed(p)
                /\ ObjectOf(p)' = ObjectOf(p)
  BY <1>2, TextSame
<1>4. /\ \A l \in Lexers : /\ InRecord(l)' <=> InRecord(l)
                           /\ Live(l)' <=> Live(l)
                           /\ Active(l)' <=> Active(l)
      /\ Lost' <=> Lost
      /\ \A p : InHands(p)' <=> InHands(p)
      /\ \A q : Objects(q)' = Objects(q)
      /\ \A o : InMade(o)' <=> InMade(o)
  <2>1. \A l \in Lexers : /\ InRecord(l)' <=> InRecord(l)
                          /\ Live(l)' <=> Live(l)
                          /\ Active(l)' <=> Active(l)
    BY <1>2 DEF InRecord, Live, Active
  <2>2. Lost' <=> Lost
    BY <1>2 DEF Lost
  <2>3. \A p : InHands(p)' <=> InHands(p)
    BY <1>2, <2>1 DEF InHands
  <2>4. \A o : InMade(o)' <=> InMade(o)
    BY <1>2, <2>1 DEF InMade, InMine, Objects
  <2> QED BY <2>1, <2>2, <2>3, <2>4 DEF Objects
<1>5. main' \in {"calling", "lexing", "returned"} /\ ret' \in {"none", "null", "list"} /\ err' \in BOOLEAN
  BY DEF ListInv, ListTypes, Call, Return, vars, callvars
<1>6. ListTypes'
  BY <1>2, <1>5 DEF ListInv, ListTypes
<1>7. Reads' /\ SkipKnows'
  <2>1. ASSUME NEW l \in Lexers PROVE ReadsAt(l)' /\ SkipKnowsAt(l)'
    <3>1. Stays(l) /\ ReadsAt(l) /\ SkipKnowsAt(l)
      BY <1>2 DEF Stays, ListInv, Reads, SkipKnows
    <3> QED BY <1>2, <3>1, ReadsStay
  <2> QED BY <2>1 DEF Reads, SkipKnows
<1>8. NotMissed'
  <2>1. \A l \in Lexers : \A p : Ahead(l, p)' <=> Ahead(l, p)
    BY <1>2, <1>4 DEF Ahead, InChunk
  <2>2. \A p : Noticed(p)' <=> Noticed(p)
    BY <1>2, <2>1 DEF Noticed
  <2> QED BY <1>2, <1>3, <1>4, <2>2 DEF ListInv, NotMissed
<1>9. Kept'
  <2>1. \A p : Read(p)' <=> Read(p)
    BY <1>3, <1>4 DEF Read
  <2> QED BY <1>2, <1>3, <1>4, <2>1 DEF ListInv, Kept
<1>10. Blame'
  BY <1>2, <1>3, <1>4 DEF ListInv, Blame
<1>11. ObjectsRight'
  <2>1. ASSUME NEW o \in Object, InMade(o) PROVE ObjectRight(o)'
    <3>1. PICK p : p = o.rec
      OBVIOUS
    <3>2. /\ p \in Positions /\ RecordStart(p) /\ begun[p] = 1 /\ ~InHands(p)
          /\ Listed(p) /\ o = ObjectOf(p)
      BY <2>1, <3>1 DEF ListInv, ObjectsRight, ObjectRight
    <3>3. /\ p \in Positions' /\ RecordStart(p)' /\ begun'[p] = 1 /\ ~InHands(p)'
          /\ Listed(p)' /\ o = ObjectOf(p)'
      BY <1>2, <1>3, <1>4, <3>2
    <3> QED BY <3>1, <3>3 DEF ObjectRight
  <2> QED BY <1>4, <2>1 DEF ObjectsRight
<1>12. MineSorted' /\ MineApart'
  BY <1>2, <1>4 DEF ListInv, MineSorted, Sorted, MineBefore, Before, MineApart, Disjoint, Once
<1>13. ChainsRight'
  BY <1>2, <1>4 DEF ListInv, ChainsRight, Once
<1>14. RootsRight' /\ EndSeen' /\ OnlyCrew'
  <2>1. RootsRight'
    BY <1>2 DEF ListInv, RootsRight, EnteredFrom, MayFail, Sorted
  <2> QED BY <1>2, <1>3, <2>1 DEF ListInv, EndSeen, OnlyCrew
<1>15. Report'
  <2>1. CASE Call
    <3>1. \E l \in Lexers : pc[l] # "done"
      <4>1. PICK l \in pp.crew : pc[l] = "offset"
        BY <1>2, <2>1, LexAssumption DEF Call, ListInv, Report
      <4> QED BY <1>2, <4>1, LexAssumption
    <3> QED BY <1>2, <1>4, <2>1, <3>1 DEF Call, MayFail, ListInv, Report
  <2>2. CASE Return
    <3>1. CASE \E l \in Lexers : pc[l] = "failed"
      BY <1>2, <1>4, <2>2, <3>1 DEF Return, ListInv, Report, Lost
    <3>2. CASE ~\E l \in Lexers : pc[l] = "failed"
      BY <1>2, <1>4, <2>2, <3>2 DEF Return, ListInv, Report
    <3> QED BY <3>1, <3>2
  <2>3. CASE UNCHANGED vars
    BY <1>2, <1>4, <2>3 DEF vars, callvars, ListInv, Report
  <2> QED BY <2>1, <2>2, <2>3
<1> QED BY <1>6, <1>7, <1>8, <1>9, <1>10, <1>11, <1>12, <1>13, <1>14, <1>15 DEF ListInv

LEMMA StepList == IInv /\ ListInv /\ [Next]_vars => IInv' /\ ListInv'
<1> SUFFICES ASSUME IInv, ListInv, [Next]_vars PROVE IInv' /\ ListInv'
  OBVIOUS
<1>1. IInv'
  BY StepInv
<1>2. ASSUME NEW l \in Lexers, LexerStep(l) PROVE ListInv'
  <2>1. CASE TakeChunk(l) \/ NoMoreChunks(l) \/ SkipChar(l) \/ SkipAll(l)
    BY <1>1, <2>1, TakeChunkList, NoMoreChunksList, SkipCharList, SkipAllList
  <2>2. CASE LexChar(l) \/ LexBlank(l) \/ LexLine(l) \/ BadRecord(l) \/ GoodRecord(l)
    BY <1>1, <2>2, LexCharList, LexBlankList, LexLineList, BadRecordList, GoodRecordList
  <2>3. CASE EndChunk(l) \/ Splice(l) \/ Free(l)
    BY <1>1, <2>3, EndChunkList, SpliceList, FreeList
  <2> QED BY <1>2, <2>1, <2>2, <2>3 DEF LexerStep
<1> QED BY <1>1, <1>2, CallerList DEF Next, Returned

LEMMA ListInvariant == Spec => [](IInv /\ ListInv)
<1>1. Init => IInv /\ ListInv
  BY InitInv, InitList
<1> QED BY <1>1, StepList, PTL DEF Spec

-----------------------------------------------------------------------------
(* When the call has come back: every record of the text has been read.     *)

\* The lexers are done and none has failed: the objects made are those of the list.
LEMMA AtTheEnd ==
  ASSUME IInv, ListInv, ret = "list"
  PROVE  /\ pp \in Inputs /\ ~Lost /\ pobjs \in Seq(Object) /\ Once(pobjs) /\ pcount = Len(pobjs)
         /\ \A o : InMade(o) <=> o \in Objects(pobjs)
         /\ \A p \in RecordStarts : Read(p)
         /\ \A o \in Objects(pobjs) : o \in Object /\ ObjectRight(o)
<1>1. /\ pp \in Inputs /\ pobjs \in Seq(Object) /\ Once(pobjs) /\ pcount = Len(pobjs)
      /\ \A l \in Lexers : pc[l] = "done"
  BY DEF IInv, LexTypes, ListInv, ListTypes, MineApart, Report
<1>2. ~Lost /\ \A o : InMade(o) <=> o \in Objects(pobjs)
  BY <1>1 DEF Lost, InMade, InMine, Live
<1>3. offset = Len0
  <2>1. pp.crew \subseteq Lexers /\ pp.crew # {}
    BY <1>1, LexAssumption
  <2> QED BY <1>1, <2>1 DEF ListInv, EndSeen
<1>4. ASSUME NEW p \in RecordStarts PROVE Read(p)
  <2>1. p \in Positions /\ RecordStart(p) /\ p < offset
    BY <1>1, <1>3, <1>4, TextFacts DEF RecordStarts
  <2>2. begun[p] = 1
    BY <1>1, <1>2, <2>1 DEF ListInv, NotMissed, Noticed, Ahead, Active
  <2>3. ~InHands(p)
    BY <1>1 DEF InHands, InRecord
  <2> QED BY <1>2, <2>1, <2>2, <2>3 DEF ListInv, Kept
<1>5. ASSUME NEW o \in Objects(pobjs) PROVE o \in Object /\ ObjectRight(o)
  <2>1. o \in Object
    BY <1>1, ListFacts DEF Objects
  <2> QED BY <1>2, <2>1 DEF ListInv, ObjectsRight
<1> QED BY <1>1, <1>2, <1>4, <1>5

\* A set of naturals that is not empty has a least element: what stands in for
\* induction in the proofs.  The least n is where 1..n is smallest by inclusion, and
\* among finite sets there is a smallest.
LEMMA LeastNatural ==
  ASSUME NEW T \in SUBSET Nat, T # {}
  PROVE  \E n \in T : \A k \in T : n <= k
<1> DEFINE Below == {1..n : n \in T}
<1>1. Below \subseteq FiniteSubsetsOf(Nat) /\ Below # {}
  <2>1. \A n \in T : n \in Int /\ 1..n \in SUBSET Nat
    OBVIOUS
  <2>2. \A n \in T : IsFiniteSet(1..n)
    BY <2>1, FS_Interval
  <2>3. \A n \in T : 1..n \in FiniteSubsetsOf(Nat)
    BY <2>1, <2>2 DEF FiniteSubsetsOf
  <2> QED
    BY <2>3
<1>2. PICK x \in Below : \A y \in Below : <<y, x>> \notin StrictSubsetOrdering(Nat)
  <2> HIDE DEF Below
  <2> QED
    BY <1>1, FS_StrictSubsetOrderingWellFounded, WFMin
<1>3. PICK n \in T : x = 1..n
  OBVIOUS
<1>4. ASSUME NEW k \in T, k < n PROVE FALSE
  <2>1. /\ 1..k \in SUBSET Nat /\ 1..n \in SUBSET Nat /\ 1..k \subseteq 1..n
        /\ n \in 1..n /\ n \notin 1..k
    BY <1>4
  <2>2. <<1..k, 1..n>> \in StrictSubsetOrdering(Nat)
    BY <2>1 DEF StrictSubsetOrdering
  <2> QED
    BY <1>2, <1>3, <2>2
<1> QED
  BY <1>4

\* What FirstNamed() finds in a list.
LEMMA FirstOfName ==
  ASSUME NEW q \in Seq(Object), NEW n \in Names, NEW lost
  PROVE  \/ /\ FirstNamed(q, lost, n) = -1
            /\ \A j \in (1..Len(q)) \ lost : q[j].name # n
         \/ \E i \in 1..Len(q) : /\ q[i].name = n /\ FirstNamed(q, lost, n) = q[i].rec
                                 /\ \A j \in (1..Len(q)) \ lost : q[j].name = n => i <= j
<1> DEFINE Named == {i \in (1..Len(q)) \ lost : q[i].name = n}
<1>1. CASE Named = {}
  <2>1. FirstNamed(q, lost, n) = -1
    BY <1>1 DEF FirstNamed
  <2> QED BY <1>1, <2>1
<1>2. CASE Named # {}
  <2>1. Named \in SUBSET Nat
    OBVIOUS
  <2>2. \E i \in Named : \A j \in Named : i <= j
    BY <1>2, <2>1, LeastNatural
  <2>3. PICK i : i = CHOOSE k \in Named : \A j \in Named : k <= j
    OBVIOUS
  <2>4. i \in Named /\ \A j \in Named : i <= j
    BY <2>2, <2>3
  <2>5. FirstNamed(q, lost, n) = q[i].rec
    BY <1>2, <2>3 DEF FirstNamed
  <2> QED BY <2>4, <2>5
<1> QED BY <1>1, <1>2

\* For every text and every number of lexers: the variables keep their types, and no
\* lexer's chunk or position is outside the text.
THEOREM TypeCorrect == Spec => []TypeOK
<1>1. IInv /\ ListInv => TypeOK
  <2> SUFFICES ASSUME IInv, ListInv PROVE TypeOK
    OBVIOUS
  <2>1. Len(pobjs) \in Nat
    BY DEF ListInv, ListTypes
  <2>2. ASSUME NEW n \in Names PROVE root[n] \in Positions \cup {-1}
    <3>1. CASE pp.dfa = "build"
      <4>1. /\ pobjs \in Seq(Object)
            /\ \E lost \in SUBSET (1..Len(pobjs)) : root[n] = FirstNamed(pobjs, lost, n)
        BY <3>1 DEF ListInv, RootsRight, EnteredFrom, ListTypes
      <4>2. ASSUME NEW i \in 1..Len(pobjs) PROVE pobjs[i].rec \in Positions
        <5>1. pobjs[i] \in Object /\ pobjs[i] \in Objects(pobjs)
          BY <4>1, ListFacts
        <5> QED BY <5>1 DEF InMade, ListInv, ObjectsRight, ObjectRight
      <4> QED BY <4>1, <4>2, FirstOfName
    <3>2. CASE pp.dfa # "build"
      BY <3>2 DEF ListInv, RootsRight
    <3> QED BY <3>1, <3>2
  <2>3. root \in [Names -> Positions \cup {-1}]
    <3>1. root = [n \in Names |-> root[n]]
      BY DEF ListInv, ListTypes
    <3> QED BY <2>2, <3>1
  <2> QED BY <2>1, <2>3 DEF TypeOK, IInv, LexTypes, ListInv, ListTypes
<1> QED BY <1>1, ListInvariant, PTL

\* However the text is cut and however the lexers interleave, a list that is returned
\* holds the object of each record the text lists, once, and nothing else: the chunks
\* miss nothing, and the fields of one record never reach the object of another.
THEOREM ListCorrect == Spec => []ListExact
<1>1. IInv /\ ListInv => ListExact
  <2> SUFFICES ASSUME IInv, ListInv, ret = "list"
               PROVE  /\ Objects(pobjs) = {ObjectOf(p) : p \in {q \in RecordStarts : Listed(q)}}
                      /\ Len(pobjs) = Cardinality(Objects(pobjs)) /\ pcount = Len(pobjs)
    BY DEF ListExact
  <2>1. ASSUME NEW p \in RecordStarts, Listed(p) PROVE ObjectOf(p) \in Objects(pobjs)
    BY <2>1, AtTheEnd DEF Read
  <2>2. ASSUME NEW o \in Objects(pobjs)
        PROVE  \E p \in {q \in RecordStarts : Listed(q)} : o = ObjectOf(p)
    BY <2>2, AtTheEnd DEF ObjectRight, RecordStarts
  <2>3. Len(pobjs) = Cardinality(Objects(pobjs)) /\ pcount = Len(pobjs)
    BY AtTheEnd, OnceCount
  <2> QED BY <2>1, <2>2, <2>3
<1> QED BY <1>1, ListInvariant, PTL

\* A text with a malformed record is refused wherever the chunks are cut, and a text
\* without one is refused only when the environment fails the call.
THEOREM RefusedCorrect == Spec => []RefusedWhenMalformed
<1>1. IInv /\ ListInv => RefusedWhenMalformed
  <2> SUFFICES ASSUME IInv, ListInv, main = "returned"
               PROVE  /\ (\E p \in RecordStarts : ~WellFormed(p)) => ret = "null"
                      /\ ret = "null" => \/ \E p \in RecordStarts : ~WellFormed(p)
                                         \/ pp.faults # {}
    BY DEF RefusedWhenMalformed
  <2>1. ret \in {"null", "list"}
    BY DEF ListInv, ListTypes, Report
  <2>2. ret = "list" => \A p \in RecordStarts : WellFormed(p)
    BY AtTheEnd DEF Read
  <2>3. ret = "null" => pp.faults # {} \/ \E p \in RecordStarts : ~WellFormed(p)
    BY DEF ListInv, Report, Blame
  <2> QED BY <2>1, <2>2, <2>3
<1> QED BY <1>1, ListInvariant, PTL

\* When a trie filters the list, what the lexers have hung under a name is what the
\* list holds of that name, each object once, in whatever order they came.
THEOREM ChainsCorrect == Spec => []ChainsMatchList
<1>1. IInv /\ ListInv => ChainsMatchList
  <2> SUFFICES ASSUME IInv, ListInv, ret = "list", pp.dfa = "filter", NEW n \in Names
               PROVE  /\ Objects(chain[n]) = {o \in Objects(pobjs) : o.name = n}
                      /\ Len(chain[n]) = Cardinality(Objects(chain[n]))
    BY DEF ChainsMatchList
  <2>1. chain[n] \in Seq(Object) /\ Once(chain[n])
        /\ \A o \in Object : o \in Objects(chain[n]) <=> (o \in Objects(pobjs) /\ o.name = n)
    BY AtTheEnd DEF ListInv, ListTypes, ChainsRight
  <2>2. \A o \in Objects(chain[n]) : o \in Object
    BY <2>1, ListFacts DEF Objects
  <2>3. \A o \in Objects(pobjs) : o \in Object
    BY AtTheEnd
  <2> QED BY <2>1, <2>2, <2>3, OnceCount
<1> QED BY <1>1, ListInvariant, PTL

\* A trie that a call builds has no object but those of the list, none when the call
\* fails, and while memory lasts every name of the list by the first of its records
\* in the text; what augment_dfa() cannot enter is not told to the caller.
THEOREM RootsCorrect == Spec => []RootsAreFirst
<1>1. IInv /\ ListInv => RootsAreFirst
  <2> SUFFICES ASSUME IInv, ListInv, pp.dfa = "build", NEW n \in Names,
                      NEW recs, recs = {o.rec : o \in {o \in Objects(pobjs) : o.name = n}}
               PROVE  /\ root[n] \in recs \cup {-1}
                      /\ ret = "null" => root[n] = -1
                      /\ "augment" \notin pp.faults /\ recs # {} =>
                           root[n] \in recs /\ \A r \in recs : root[n] <= r
    BY DEF RootsAreFirst
  <2>1. pobjs \in Seq(Object) /\ Sorted(pobjs) /\ EnteredFrom(pobjs, n)
    BY DEF ListInv, ListTypes, RootsRight
  <2>2. PICK lost \in SUBSET (1..Len(pobjs)) : /\ lost = {} \/ "augment" \in pp.faults
                                               /\ root[n] = FirstNamed(pobjs, lost, n)
    BY <2>1 DEF EnteredFrom, MayFail
  <2>3. ret = "null" => root[n] = -1
    <3>1. ret = "null" => pobjs = <<>>
      BY DEF ListInv, Report, RootsRight
    <3> QED BY <2>2, <3>1, NoneNamed
  <2>4. CASE root[n] = -1 /\ \A j \in (1..Len(pobjs)) \ lost : pobjs[j].name # n
    <3>1. "augment" \notin pp.faults => recs = {}
      BY <2>2, <2>4 DEF Objects
    <3> QED BY <2>3, <2>4, <3>1
  <2>5. ASSUME NEW i \in 1..Len(pobjs), pobjs[i].name = n, root[n] = pobjs[i].rec,
               \A j \in (1..Len(pobjs)) \ lost : pobjs[j].name = n => i <= j
        PROVE  root[n] \in recs /\ ("augment" \notin pp.faults => \A r \in recs : root[n] <= r)
    <3>1. pobjs[i] \in Objects(pobjs)
      BY <2>1, <2>5, ListFacts
    <3>2. ASSUME "augment" \notin pp.faults, NEW r \in recs PROVE root[n] <= r
      <4>1. PICK o \in Objects(pobjs) : o.name = n /\ r = o.rec
        OBVIOUS
      <4>2. PICK j \in 1..Len(pobjs) : o = pobjs[j]
        BY DEF Objects
      <4>3. i <= j /\ i \in Int /\ j \in Int
        BY <2>2, <2>5, <3>2, <4>1, <4>2
      <4>4. i < j => pobjs[i].rec < pobjs[j].rec
        BY <2>1 DEF Sorted
      <4>5. pobjs[i].rec \in Nat /\ pobjs[j].rec \in Nat
        BY <2>1, ListFacts
      <4>6. i = j \/ i < j
        BY <4>3
      <4> QED BY <2>5, <4>1, <4>2, <4>4, <4>5, <4>6
    <3> QED BY <2>5, <3>1, <3>2
  <2> QED BY <2>1, <2>2, <2>3, <2>4, <2>5, FirstOfName
<1> QED BY <1>1, ListInvariant, PTL
=============================================================================
