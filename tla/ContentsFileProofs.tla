-------------------------- MODULE ContentsFileProofs --------------------------
(***************************************************************************)
(* Proofs about ContentsFile, for any lines, however long, and whatever    *)
(* the automaton holds:                                                    *)
(*                                                                         *)
(*   CutLosesOneLine  where a file is cut into buffers                     *)
(*   StaleTailSilent  what an earlier call left behind inflate()'s output  *)
(*   HeaderSkipped    what comes before the line FILE LOCATION             *)
(*   LinesFound       with one pattern, what is printed of a file          *)
(*                                                                         *)
(* The lexer's loop is a recursive function, and induction over the buffer *)
(* is out of the provers' reach: that the function exists is shown by      *)
(* extending it, and that what a turn keeps the loop keeps by the first    *)
(* turn that would not (LexKeeps).  Three facts about the loop carry the   *)
(* rest: it reads two texts one after the other (LexCompose), what it      *)
(* prints does not depend on what it printed before (LexPrefixed), and a   *)
(* newline makes it as fresh as at the start (LexLine).  So the lines of a *)
(* text can be looked at one by one, and a line piece by piece: the white  *)
(* space, the name, and what stands behind it.                             *)
(*                                                                         *)
(* LinesFound needs the inductive invariants of TrieProofs as well: they   *)
(* say that the search of the name is exact when there is one pattern.     *)
(***************************************************************************)
EXTENDS ContentsFile, TrieProofs

-----------------------------------------------------------------------------
(* The loop.                                                                *)

\* What holds at 0 and of every number if of the one before holds of all: a least
\* counterexample.
LEMMA UpTo ==
  ASSUME NEW n \in Nat, NEW T, 0 \in T, \A i \in 1..n : i - 1 \in T => i \in T
  PROVE  \A i \in 0..n : i \in T
<1> DEFINE Out == {i \in 0..n : i \notin T}
<1>1. SUFFICES ASSUME Out # {} PROVE FALSE
  OBVIOUS
<1>2. Out \subseteq Nat
  OBVIOUS
<1>3. PICK i \in Out : \A k \in Out : i <= k
  <2> HIDE DEF Out
  <2> QED
    BY <1>1, <1>2, LeastNatural
<1>4. i \in 0..n /\ i \notin T /\ i # 0
  OBVIOUS
<1>5. i \in 1..n /\ i - 1 \in 0..n /\ ~(i <= i - 1)
  BY <1>4
<1>6. i - 1 \in T
  BY <1>3, <1>5
<1> QED
  BY <1>4, <1>5, <1>6

\* One turn after the other.
Runs(f, l, u, nocase) == f[0] = l /\ \A i \in 1..Len(u) : f[i] = Step(f[i - 1], u[i], nocase)

\* What the loop arrives at, if one knows what it should pass.
LEMMA RunRight ==
  ASSUME NEW l, NEW u, Len(u) \in Nat, NEW nocase, NEW f, Runs(f, l, u, nocase)
  PROVE  LexFrom(l, u, nocase) = f[Len(u)]
<1> DEFINE n == Len(u)
           Move(g, i) == IF i = 0 THEN l ELSE Step(g[i - 1], u[i], nocase)
<1>1. PICK after : after = CHOOSE g : g = [i \in 0..n |-> Move(g, i)]
  OBVIOUS
<1>2. LexFrom(l, u, nocase) = after[n]
  BY <1>1 DEF LexFrom
<1>3. \E g : g = [i \in 0..n |-> Move(g, i)]
  <2> DEFINE g == [i \in 0..n |-> f[i]]
  <2>1. ASSUME NEW i \in 0..n PROVE f[i] = Move(g, i)
    <3>1. CASE i = 0
      BY <3>1 DEF Runs
    <3>2. CASE i # 0
      <4>1. i \in 1..n /\ i - 1 \in 0..n
        BY <3>2
      <4>2. g[i - 1] = f[i - 1]
        BY <4>1
      <4>3. f[i] = Step(f[i - 1], u[i], nocase)
        BY <4>1 DEF Runs
      <4> HIDE DEF g
      <4> QED
        BY <3>2, <4>2, <4>3
    <3> QED
      BY <3>1, <3>2
  <2>2. g = [i \in 0..n |-> Move(g, i)]
    <3> HIDE DEF Move
    <3> QED
      BY <2>1
  <2> QED
    BY <2>2
<1>4. after = [i \in 0..n |-> Move(after, i)]
  <2> HIDE DEF Move
  <2> QED
    BY <1>1, <1>3
<1>5. \A i \in 0..n : after[i] = Move(after, i)
  <2> HIDE DEF Move
  <2> QED
    BY <1>4
<1> DEFINE T == {i \in 0..n : after[i] = f[i]}
<1>6. 0 \in T
  <2>1. after[0] = l
    BY <1>5
  <2> QED
    BY <2>1 DEF Runs
<1>7. \A i \in 1..n : i - 1 \in T => i \in T
  <2> SUFFICES ASSUME NEW i \in 1..n, i - 1 \in T PROVE i \in T
    OBVIOUS
  <2>1. i \in 0..n /\ i # 0
    OBVIOUS
  <2>2. after[i] = Step(after[i - 1], u[i], nocase)
    BY <1>5, <2>1
  <2>3. f[i] = Step(f[i - 1], u[i], nocase)
    BY DEF Runs
  <2> QED
    BY <2>1, <2>2, <2>3
<1>8. n \in T
  <2>1. n \in 0..n
    OBVIOUS
  <2> HIDE DEF T
  <2> QED
    BY <1>6, <1>7, <2>1, UpTo
<1> QED
  BY <1>2, <1>8

\* It always passes something.
LEMMA RunExists ==
  ASSUME NEW l, NEW u, Len(u) \in Nat, NEW nocase
  PROVE  \E f : DOMAIN f = 0..Len(u) /\ Runs(f, l, u, nocase)
<1> DEFINE n == Len(u)
           Upto(f, k) == /\ DOMAIN f = 0..k /\ f[0] = l
                         /\ \A i \in 1..k : f[i] = Step(f[i - 1], u[i], nocase)
           T == {k \in 0..n : \E f : Upto(f, k)}
<1>1. 0 \in T
  <2> DEFINE f == [i \in 0..0 |-> l]
  <2>1. Upto(f, 0)
    OBVIOUS
  <2> HIDE DEF f, Upto
  <2> QED
    BY <2>1
<1>2. \A k \in 1..n : k - 1 \in T => k \in T
  <2> SUFFICES ASSUME NEW k \in 1..n, k - 1 \in T PROVE k \in T
    OBVIOUS
  <2>1. PICK f : Upto(f, k - 1)
    OBVIOUS
  <2> DEFINE g == [i \in 0..k |-> IF i = k THEN Step(f[k - 1], u[k], nocase) ELSE f[i]]
  <2>2. g[0] = l
    BY <2>1
  <2>3. ASSUME NEW i \in 1..k PROVE g[i] = Step(g[i - 1], u[i], nocase)
    <3>1. i - 1 \in 0..k /\ i - 1 # k
      OBVIOUS
    <3>2. g[i - 1] = f[i - 1]
      BY <3>1
    <3>3. CASE i = k
      BY <3>2, <3>3
    <3>4. CASE i # k
      <4>1. i \in 1..k - 1 /\ i \in 0..k
        BY <3>4
      <4>2. f[i] = Step(f[i - 1], u[i], nocase)
        BY <2>1, <4>1
      <4>3. g[i] = f[i]
        BY <3>4, <4>1
      <4> HIDE DEF g
      <4> QED
        BY <3>2, <4>2, <4>3
    <3> QED
      BY <3>3, <3>4
  <2>4. Upto(g, k)
    <3>1. DOMAIN g = 0..k
      OBVIOUS
    <3> HIDE DEF g
    <3> QED
      BY <2>2, <2>3, <3>1
  <2>5. k \in 0..n
    OBVIOUS
  <2> HIDE DEF g, Upto
  <2> QED
    BY <2>4, <2>5
<1>3. n \in T
  <2>1. n \in 0..n
    OBVIOUS
  <2> HIDE DEF T
  <2> QED
    BY <1>1, <1>2, <2>1, UpTo
<1> QED
  BY <1>3 DEF Runs

\* What a lexer may be while it reads characters that are codes.
Entry == [name : Seq(Int), packages : Seq(Int)]
LexStates ==
  [s : {"HOL", "MATCHING", "INTER", "VAL", "SINK"}, hol : Seq(Int), val : Seq(Int),
   pastheader : BOOLEAN, printed : Seq(Entry)]

\* An element appended behind two sequences.
LEMMA AppendBehind ==
  ASSUME NEW E, NEW u \in Seq(E), NEW v \in Seq(E), NEW x \in E
  PROVE  /\ Append(u \o v, x) = u \o Append(v, x)
         /\ Append(u, x) = u \o <<x>>
  BY SMTT(30)

\* The characters that the lexer tells apart are different ones.
LEMMA SpecialCodes == Newline # Space /\ Newline # Slash /\ Newline # NUL /\ Space # Slash
  BY DEF Newline, Space, Slash, NUL

\* What a character does, case by case.
LEMMA StepIs ==
  ASSUME NEW l \in LexStates, NEW c \in Int, NEW nocase \in BOOLEAN
  PROVE  /\ c = Newline => Step(l, c, nocase) = EndOfLine(l)
         /\ c # Newline /\ c # Space /\ l.s \in {"HOL", "MATCHING"} =>
              Step(l, c, nocase) = Named(l, c, nocase)
         /\ c = Space /\ l.s = "MATCHING" => Step(l, c, nocase) = EndOfName(l)
         /\ c # Newline /\ l.s = "INTER" => Step(l, c, nocase) = Between(l, c)
         /\ c # Newline /\ l.s = "VAL" => Step(l, c, nocase) = [l EXCEPT !.val = Append(@, c)]
         /\ c # Newline /\ l.s = "SINK" => Step(l, c, nocase) = l
         /\ c = Space /\ l.s = "HOL" => Step(l, c, nocase) = l
<1>1. l.s \in {"HOL", "MATCHING", "INTER", "VAL", "SINK"}
  BY DEF LexStates
<1> DEFINE End == EndOfLine(l)
           Name == Named(l, c, nocase)
           Close == EndOfName(l)
           Gap == Between(l, c)
           More == [l EXCEPT !.val = Append(@, c)]
<1>2. Step(l, c, nocase) =
        CASE c = Newline -> End
          [] c # Newline /\ l.s \in {"HOL", "MATCHING"} /\ c # Space -> Name
          [] c = Space /\ l.s = "MATCHING" -> Close
          [] c # Newline /\ l.s = "INTER" -> Gap
          [] c # Newline /\ l.s = "VAL" -> More
          [] OTHER -> l
  BY DEF Step, IsSpace
<1> HIDE DEF End, Name, Close, Gap, More
<1>3. Newline # Space
  BY SpecialCodes
<1>4. /\ c = Newline => Step(l, c, nocase) = End
      /\ c # Newline /\ c # Space /\ l.s \in {"HOL", "MATCHING"} => Step(l, c, nocase) = Name
      /\ c = Space /\ l.s = "MATCHING" => Step(l, c, nocase) = Close
      /\ c # Newline /\ l.s = "INTER" => Step(l, c, nocase) = Gap
      /\ c # Newline /\ l.s = "VAL" => Step(l, c, nocase) = More
      /\ c # Newline /\ l.s = "SINK" => Step(l, c, nocase) = l
      /\ c = Space /\ l.s = "HOL" => Step(l, c, nocase) = l
  BY <1>1, <1>2, <1>3
<1> QED
  BY <1>4 DEF End, Name, Close, Gap, More

\* Every character is one of a newline or one of the states' cases.
LEMMA StepCases ==
  ASSUME NEW l \in LexStates, NEW c \in Int
  PROVE  \/ c = Newline
         \/ c # Newline /\ c # Space /\ l.s \in {"HOL", "MATCHING"}
         \/ c = Space /\ l.s = "MATCHING"
         \/ c # Newline /\ l.s = "INTER"
         \/ c # Newline /\ l.s = "VAL"
         \/ c # Newline /\ l.s = "SINK"
         \/ c = Space /\ l.s = "HOL"
<1>1. l.s \in {"HOL", "MATCHING", "INTER", "VAL", "SINK"}
  BY DEF LexStates
<1> QED
  BY <1>1

\* What the characters other than a newline leave alone, and what a newline does.
LEMMA StepKeeps ==
  ASSUME NEW l \in LexStates, NEW c \in Int, NEW nocase \in BOOLEAN
  PROVE  /\ Step(l, c, nocase) \in LexStates
         /\ c # Newline => /\ Step(l, c, nocase).pastheader = l.pastheader
                           /\ Step(l, c, nocase).printed = l.printed
<1>1. /\ l.hol \in Seq(Int) /\ l.val \in Seq(Int) /\ l.pastheader \in BOOLEAN
      /\ l.printed \in Seq(Entry)
      /\ DOMAIN l = {"s", "hol", "val", "pastheader", "printed"}
  BY DEF LexStates
<1>2. ToLower(c) \in Int
  BY DEF ToLower
<1>3. <<>> \in Seq(Int) /\ <<c>> \in Seq(Int)
  OBVIOUS
<1>4. CASE c = Newline
  <2>1. Append(l.printed, [name |-> l.hol, packages |-> l.val]) \in Seq(Entry)
    <3>1. [name |-> l.hol, packages |-> l.val] \in Entry
      BY <1>1 DEF Entry
    <3> QED
      BY <1>1, <3>1
  <2>2. EndOfLine(l) \in LexStates
    BY <1>1, <1>3, <2>1 DEF EndOfLine, LexStates
  <2> QED
    BY <1>4, <2>2, StepIs
<1>5. CASE c # Newline /\ c # Space /\ l.s \in {"HOL", "MATCHING"}
  <2> DEFINE d == IF nocase /\ l.pastheader THEN ToLower(c) ELSE c
  <2>1. d \in Int
    BY <1>2
  <2>2. Append(l.hol, d) \in Seq(Int)
    BY <1>1, <2>1
  <2>3. Named(l, c, nocase) = [l EXCEPT !.s = "MATCHING", !.hol = Append(@, d)]
    BY DEF Named
  <2> HIDE DEF d
  <2>4. /\ Named(l, c, nocase) \in LexStates
        /\ Named(l, c, nocase).pastheader = l.pastheader
        /\ Named(l, c, nocase).printed = l.printed
    BY <1>1, <2>2, <2>3 DEF LexStates
  <2> QED
    BY <1>5, <2>4, StepIs
<1>6. CASE c = Space /\ l.s = "MATCHING"
  <2>1. PICK t : t = IF l.pastheader => Matches(l.hol) THEN "INTER" ELSE "SINK"
    OBVIOUS
  <2>2. t \in {"INTER", "SINK"} /\ EndOfName(l) = [l EXCEPT !.s = t]
    BY <2>1 DEF EndOfName
  <2>3. /\ EndOfName(l) \in LexStates
        /\ EndOfName(l).pastheader = l.pastheader /\ EndOfName(l).printed = l.printed
    BY <1>1, <2>2 DEF LexStates
  <2> QED
    BY <1>6, <2>3, StepIs
<1>7. CASE c # Newline /\ l.s = "INTER"
  <2>1. [l EXCEPT !.s = "VAL"] \in LexStates /\ [l EXCEPT !.s = "VAL", !.val = <<c>>] \in LexStates
    BY <1>1, <1>3 DEF LexStates
  <2>2. Between(l, c) \in {[l EXCEPT !.s = "VAL"], [l EXCEPT !.s = "VAL", !.val = <<c>>], l}
    BY <1>1 DEF Between, IsSpace
  <2>3. /\ Between(l, c) \in LexStates
        /\ Between(l, c).pastheader = l.pastheader /\ Between(l, c).printed = l.printed
    BY <1>1, <2>1, <2>2
  <2> QED
    BY <1>7, <2>3, StepIs
<1>8. CASE c # Newline /\ l.s = "VAL"
  <2>1. Append(l.val, c) \in Seq(Int)
    BY <1>1
  <2>2. PICK m : m = [l EXCEPT !.val = Append(@, c)]
    OBVIOUS
  <2>3. m \in LexStates /\ m.pastheader = l.pastheader /\ m.printed = l.printed
    BY <1>1, <2>1, <2>2 DEF LexStates
  <2>4. Step(l, c, nocase) = [l EXCEPT !.val = Append(@, c)]
    BY <1>8, StepIs
  <2> QED
    BY <1>8, <2>2, <2>3, <2>4
<1>9. CASE (c # Newline /\ l.s = "SINK") \/ (c = Space /\ l.s = "HOL")
  <2>1. Step(l, c, nocase) = l
    BY <1>9, StepIs, SpecialCodes
  <2> QED
    BY <2>1
<1> QED
  BY <1>4, <1>5, <1>6, <1>7, <1>8, <1>9, StepCases

\* What every turn keeps, the loop keeps.
LEMMA LexKeeps ==
  ASSUME NEW D, NEW l \in D, NEW u, Len(u) \in Nat, NEW nocase,
         \A x \in D : \A i \in 1..Len(u) : Step(x, u[i], nocase) \in D
  PROVE  LexFrom(l, u, nocase) \in D
<1>1. PICK f : Runs(f, l, u, nocase)
  BY RunExists
<1> DEFINE n == Len(u)
           T == {i \in 0..n : f[i] \in D}
<1>2. 0 \in T
  BY <1>1 DEF Runs
<1>3. ASSUME NEW i \in 1..n, i - 1 \in T PROVE i \in T
  <2>1. f[i] = Step(f[i - 1], u[i], nocase) /\ f[i - 1] \in D /\ i \in 0..n
    BY <1>1, <1>3 DEF Runs
  <2> QED
    BY <2>1
<1>4. n \in T
  <2>1. n \in 0..n
    OBVIOUS
  <2> HIDE DEF T
  <2> QED
    BY <1>2, <1>3, <2>1, UpTo
<1> QED
  BY <1>1, <1>4, RunRight

\* Two texts one behind the other are read one after the other.
LEMMA LexCompose ==
  ASSUME NEW l, NEW u \in Seq(Int), NEW v \in Seq(Int), NEW nocase
  PROVE  LexFrom(l, u \o v, nocase) = LexFrom(LexFrom(l, u, nocase), v, nocase)
<1>1. PICK m : m = Len(u)
  OBVIOUS
<1>2. PICK n : n = Len(v)
  OBVIOUS
<1>3. m \in Nat /\ n \in Nat
  BY <1>1, <1>2
<1>4. PICK w : w = u \o v
  OBVIOUS
<1>5. /\ Len(w) = m + n
      /\ \A i \in 1..m : w[i] = u[i]
      /\ \A i \in m + 1..m + n : w[i] = v[i - m]
  BY <1>1, <1>2, <1>4, JoinFacts
<1>6. PICK f : Runs(f, l, u, nocase)
  BY <1>1, <1>3, RunExists
<1>7. PICK g : Runs(g, f[m], v, nocase)
  BY <1>2, <1>3, RunExists
<1> DEFINE h == [i \in 0..m + n |-> IF i <= m THEN f[i] ELSE g[i - m]]
<1>8. h[0] = l
  BY <1>3, <1>6 DEF Runs
<1>9. ASSUME NEW i \in 1..m + n PROVE h[i] = Step(h[i - 1], w[i], nocase)
  <2>0. i \in 0..m + n /\ i - 1 \in 0..m + n
    BY <1>3
  <2>1. CASE i <= m
    <3>1. i \in 1..m /\ i - 1 <= m
      BY <1>3, <2>1
    <3>2. h[i] = f[i] /\ h[i - 1] = f[i - 1]
      BY <2>0, <2>1, <3>1
    <3>3. f[i] = Step(f[i - 1], u[i], nocase)
      BY <1>1, <1>6, <3>1 DEF Runs
    <3> HIDE DEF h
    <3> QED
      BY <1>5, <3>1, <3>2, <3>3
  <2>2. CASE i > m
    <3>1. i - m \in 1..n /\ i \in m + 1..m + n /\ (i - m) - 1 = (i - 1) - m
      BY <1>3, <2>2
    <3>2. h[i] = g[i - m]
      BY <1>3, <2>0, <2>2
    <3>3. h[i - 1] = g[(i - m) - 1]
      <4>1. CASE i - 1 = m
        <5>1. (i - m) - 1 = 0 /\ g[0] = f[m]
          BY <1>3, <1>7, <4>1 DEF Runs
        <5>2. h[i - 1] = f[m]
          BY <1>3, <2>0, <4>1
        <5> HIDE DEF h
        <5> QED
          BY <5>1, <5>2
      <4>2. CASE i - 1 # m
        <5>1. ~(i - 1 <= m)
          BY <1>3, <2>2, <4>2
        <5>2. h[i - 1] = g[(i - 1) - m]
          BY <2>0, <5>1
        <5> HIDE DEF h
        <5> QED
          BY <3>1, <5>2
      <4> QED
        BY <4>1, <4>2
    <3>4. g[i - m] = Step(g[(i - m) - 1], v[i - m], nocase)
      BY <1>2, <1>7, <3>1 DEF Runs
    <3> HIDE DEF h
    <3> QED
      BY <1>5, <3>1, <3>2, <3>3, <3>4
  <2> QED
    BY <1>3, <2>1, <2>2
<1>10. Runs(h, l, w, nocase)
  <2> HIDE DEF h
  <2> QED
    BY <1>5, <1>8, <1>9 DEF Runs
<1>11. LexFrom(l, w, nocase) = h[m + n]
  <2> HIDE DEF h
  <2>1. Len(w) \in Nat
    BY <1>3, <1>5
  <2> QED
    BY <1>5, <1>10, <2>1, RunRight
<1>12. LexFrom(l, u, nocase) = f[m] /\ LexFrom(f[m], v, nocase) = g[n]
  BY <1>1, <1>2, <1>3, <1>6, <1>7, RunRight
<1>13. h[m + n] = g[n]
  <2>1. m + n \in 0..m + n /\ (m + n) - m = n
    BY <1>3
  <2>2. CASE n = 0
    <3>1. h[m + n] = f[m]
      BY <1>3, <2>1, <2>2
    <3> HIDE DEF h
    <3> QED
      BY <1>7, <2>2, <3>1 DEF Runs
  <2>3. CASE n # 0
    <3>1. ~(m + n <= m)
      BY <1>3, <2>3
    <3>2. h[m + n] = g[(m + n) - m]
      BY <2>1, <3>1
    <3> HIDE DEF h
    <3> QED
      BY <2>1, <3>2
  <2> QED
    BY <2>2, <2>3
<1> HIDE DEF h
<1> QED
  BY <1>4, <1>11, <1>12, <1>13

\* An empty text, and one character.
LEMMA LexNone ==
  ASSUME NEW l, NEW nocase
  PROVE  LexFrom(l, <<>>, nocase) = l
<1>1. Len(<<>>) = 0
  OBVIOUS
<1>2. PICK f : Runs(f, l, <<>>, nocase)
  BY <1>1, RunExists
<1>3. LexFrom(l, <<>>, nocase) = f[0]
  BY <1>1, <1>2, RunRight
<1> QED
  BY <1>2, <1>3 DEF Runs

LEMMA LexOne ==
  ASSUME NEW l, NEW c, NEW nocase
  PROVE  LexFrom(l, <<c>>, nocase) = Step(l, c, nocase)
<1>1. Len(<<c>>) = 1 /\ <<c>>[1] = c
  OBVIOUS
<1>2. PICK f : Runs(f, l, <<c>>, nocase)
  BY <1>1, RunExists
<1>3. LexFrom(l, <<c>>, nocase) = f[1]
  BY <1>1, <1>2, RunRight
<1>4. f[0] = l /\ f[1] = Step(f[1 - 1], <<c>>[1], nocase)
  BY <1>1, <1>2 DEF Runs
<1> QED
  BY <1>1, <1>3, <1>4

\* The lexer's variables keep their types.
LEMMA LexType ==
  ASSUME NEW l \in LexStates, NEW u \in Seq(Int), NEW nocase \in BOOLEAN
  PROVE  LexFrom(l, u, nocase) \in LexStates
<1>1. \A x \in LexStates : \A i \in 1..Len(u) : Step(x, u[i], nocase) \in LexStates
  <2>1. \A i \in 1..Len(u) : u[i] \in Int
    OBVIOUS
  <2> QED
    BY <2>1, StepKeeps
<1> QED
  BY <1>1, LexKeeps

\* A state is the record of its fields.
LEMMA StatesAre ==
  ASSUME NEW l \in LexStates
  PROVE  /\ l.s \in {"HOL", "MATCHING", "INTER", "VAL", "SINK"}
         /\ l.hol \in Seq(Int) /\ l.val \in Seq(Int) /\ l.pastheader \in BOOLEAN
         /\ l.printed \in Seq(Entry)
         /\ l = [s |-> l.s, hol |-> l.hol, val |-> l.val, pastheader |-> l.pastheader,
                 printed |-> l.printed]
  BY DEF LexStates

LEMMA FreshState == \A pastheader \in BOOLEAN : Fresh(pastheader) \in LexStates
<1>1. <<>> \in Seq(Int) /\ <<>> \in Seq(Entry)
  OBVIOUS
<1> QED
  BY <1>1 DEF Fresh, LexStates

\* The same with more printed before.
Prefixed(p, l) ==
  [s |-> l.s, hol |-> l.hol, val |-> l.val, pastheader |-> l.pastheader, printed |-> p \o l.printed]

\* A character does the same whatever has been printed before.
LEMMA StepPrefixed ==
  ASSUME NEW p \in Seq(Entry),
         NEW l \in LexStates, NEW c \in Int, NEW nocase \in BOOLEAN
  PROVE  /\ Prefixed(p, l) \in LexStates
         /\ Step(Prefixed(p, l), c, nocase) = Prefixed(p, Step(l, c, nocase))
<1>1. PICK q : q = Prefixed(p, l)
  OBVIOUS
<1>2. /\ l.s \in {"HOL", "MATCHING", "INTER", "VAL", "SINK"}
      /\ l.hol \in Seq(Int) /\ l.val \in Seq(Int) /\ l.pastheader \in BOOLEAN
      /\ l.printed \in Seq(Entry)
      /\ l = [s |-> l.s, hol |-> l.hol, val |-> l.val, pastheader |-> l.pastheader,
              printed |-> l.printed]
  BY StatesAre
<1>3. p \o l.printed \in Seq(Entry)
  BY <1>2, JoinFacts
<1>4. /\ q.s = l.s /\ q.hol = l.hol /\ q.val = l.val /\ q.pastheader = l.pastheader
      /\ q.printed = p \o l.printed
      /\ q = [s |-> l.s, hol |-> l.hol, val |-> l.val, pastheader |-> l.pastheader,
              printed |-> p \o l.printed]
  BY <1>1 DEF Prefixed
<1>5. q \in LexStates
  BY <1>2, <1>3, <1>4 DEF LexStates
<1>6. Step(q, c, nocase) = Prefixed(p, Step(l, c, nocase))
  <2>1. CASE c = Newline
    <3>1. PICK x : x = [name |-> l.hol, packages |-> l.val]
      OBVIOUS
    <3>2. x \in Entry
      BY <1>2, <3>1 DEF Entry
    <3>3. Append(p \o l.printed, x) = p \o Append(l.printed, x)
      <4>1. PICK old : old = l.printed
        OBVIOUS
      <4>2. old \in Seq(Entry) /\ p \in Seq(Entry)
        BY <1>2, <4>1
      <4>3. Append(p \o old, x) = p \o Append(old, x)
        BY ONLY <3>2, <4>2, AppendBehind
      <4> QED
        BY <4>1, <4>3
    <3>4. EndOfLine(q) = Prefixed(p, EndOfLine(l))
      <4>1. CASE l.s = "VAL" /\ l.pastheader
        BY <1>2, <1>4, <3>1, <3>3, <4>1 DEF EndOfLine, Prefixed
      <4>2. CASE ~(l.s = "VAL" /\ l.pastheader)
        BY <1>2, <1>4, <4>2 DEF EndOfLine, Prefixed
      <4> QED
        BY <4>1, <4>2
    <3> QED
      BY <1>5, <2>1, <3>4, StepIs
  <2>2. CASE c # Newline /\ c # Space /\ l.s \in {"HOL", "MATCHING"}
    <3>1. PICK d : d = IF nocase /\ l.pastheader THEN ToLower(c) ELSE c
      OBVIOUS
    <3>2. /\ Named(q, c, nocase) = [q EXCEPT !.s = "MATCHING", !.hol = Append(@, d)]
          /\ Named(l, c, nocase) = [l EXCEPT !.s = "MATCHING", !.hol = Append(@, d)]
      BY <1>4, <3>1 DEF Named
    <3>3. Named(q, c, nocase) = Prefixed(p, Named(l, c, nocase))
      BY ZenonT(30), <1>2, <1>4, <3>2 DEF Prefixed
    <3> QED
      BY <1>4, <1>5, <2>2, <3>3, StepIs
  <2>3. CASE c = Space /\ l.s = "MATCHING"
    <3>1. PICK t : t = IF l.pastheader => Matches(l.hol) THEN "INTER" ELSE "SINK"
      OBVIOUS
    <3>2. EndOfName(q) = [q EXCEPT !.s = t] /\ EndOfName(l) = [l EXCEPT !.s = t]
      BY <1>4, <3>1 DEF EndOfName
    <3>3. EndOfName(q) = Prefixed(p, EndOfName(l))
      BY <1>2, <1>4, <3>2 DEF Prefixed
    <3> QED
      BY <1>4, <1>5, <2>3, <3>3, StepIs
  <2>4. CASE c # Newline /\ l.s = "INTER"
    <3>1. CASE l.pastheader /\ c = Slash
      <4>1. Between(q, c) = [q EXCEPT !.s = "VAL"] /\ Between(l, c) = [l EXCEPT !.s = "VAL"]
        BY <1>4, <3>1 DEF Between
      <4>2. Between(q, c) = Prefixed(p, Between(l, c))
        BY <1>2, <1>4, <4>1 DEF Prefixed
      <4> QED
        BY <1>4, <1>5, <2>4, <4>2, StepIs
    <3>2. CASE ~l.pastheader /\ ~IsSpace(c)
      <4>1. /\ Between(q, c) = [q EXCEPT !.s = "VAL", !.val = <<c>>]
            /\ Between(l, c) = [l EXCEPT !.s = "VAL", !.val = <<c>>]
        BY <1>4, <3>2 DEF Between
      <4>2. Between(q, c) = Prefixed(p, Between(l, c))
        BY ZenonT(30), <1>2, <1>4, <4>1 DEF Prefixed
      <4> QED
        BY <1>4, <1>5, <2>4, <4>2, StepIs
    <3>3. CASE ~(l.pastheader /\ c = Slash) /\ ~(~l.pastheader /\ ~IsSpace(c))
      <4>1. Between(q, c) = q /\ Between(l, c) = l
        BY <1>4, <3>3 DEF Between
      <4> QED
        BY ZenonT(30), <1>1, <1>4, <1>5, <2>4, <4>1, StepIs
    <3> QED
      BY <3>1, <3>2, <3>3
  <2>5. CASE c # Newline /\ l.s = "VAL"
    <3>1. PICK v : v = Append(l.val, c)
      OBVIOUS
    <3>2. PICK m : m = [l EXCEPT !.val = Append(@, c)]
      OBVIOUS
    <3>3. PICK r : r = [q EXCEPT !.val = Append(@, c)]
      OBVIOUS
    <3>4. /\ m.s = l.s /\ m.hol = l.hol /\ m.val = v /\ m.pastheader = l.pastheader
          /\ m.printed = l.printed
      BY <1>2, <3>1, <3>2
    <3>5. r = [s |-> l.s, hol |-> l.hol, val |-> v, pastheader |-> l.pastheader,
               printed |-> p \o l.printed]
      <4>1. PICK printed : printed = p \o l.printed
        OBVIOUS
      <4>2. q.val = l.val /\ q = [s |-> l.s, hol |-> l.hol, val |-> l.val,
                                 pastheader |-> l.pastheader, printed |-> printed]
        BY <1>4, <4>1
      <4>3. r = [s |-> l.s, hol |-> l.hol, val |-> v, pastheader |-> l.pastheader,
                 printed |-> printed]
        BY <3>1, <3>3, <4>2
      <4> QED
        BY <4>1, <4>3
    <3>6. Step(q, c, nocase) = r
      <4>1. q.s = "VAL" /\ q \in LexStates
        BY <1>4, <1>5, <2>5
      <4> QED
        BY <2>5, <3>3, <4>1, StepIs
    <3>7. Step(l, c, nocase) = m
      BY <2>5, <3>2, StepIs
    <3>8. r = Prefixed(p, m)
      BY <3>4, <3>5 DEF Prefixed
    <3> QED
      BY <3>6, <3>7, <3>8
  <2>6. CASE (c # Newline /\ l.s = "SINK") \/ (c = Space /\ l.s = "HOL")
    <3>1. Step(q, c, nocase) = q /\ Step(l, c, nocase) = l
      BY <1>4, <1>5, <2>6, StepIs
    <3> QED
      BY <1>1, <3>1
  <2> QED
    BY <2>1, <2>2, <2>3, <2>4, <2>5, <2>6, StepCases
<1> QED
  BY <1>1, <1>5, <1>6

\* What is printed goes behind what has been printed.
LEMMA LexPrefixed ==
  ASSUME NEW p \in Seq(Entry),
         NEW l \in LexStates, NEW u \in Seq(Int), NEW nocase \in BOOLEAN
  PROVE  LexFrom(Prefixed(p, l), u, nocase) = Prefixed(p, LexFrom(l, u, nocase))
<1>1. PICK n : n = Len(u)
  OBVIOUS
<1>2. n \in Nat /\ \A i \in 1..n : u[i] \in Int
  BY <1>1
<1>3. PICK f : Runs(f, l, u, nocase)
  BY <1>1, <1>2, RunExists
<1>4. \A i \in 0..n : f[i] \in LexStates
  <2> DEFINE T == {i \in 0..n : f[i] \in LexStates}
  <2>1. 0 \in T
    BY <1>2, <1>3 DEF Runs
  <2>2. ASSUME NEW i \in 1..n, i - 1 \in T PROVE i \in T
    <3>1. f[i] = Step(f[i - 1], u[i], nocase) /\ f[i - 1] \in LexStates /\ u[i] \in Int
      BY <1>1, <1>2, <1>3, <2>2 DEF Runs
    <3>2. f[i] \in LexStates
      BY <3>1, StepKeeps
    <3> QED
      BY <3>2
  <2>3. \A i \in 0..n : i \in T
    <3> HIDE DEF T
    <3> QED
      BY <1>2, <2>1, <2>2, UpTo
  <2> QED
    BY <2>3
<1> DEFINE h == [i \in 0..n |-> Prefixed(p, f[i])]
<1>5. h[0] = Prefixed(p, l)
  BY <1>2, <1>3 DEF Runs
<1>6. ASSUME NEW i \in 1..n PROVE h[i] = Step(h[i - 1], u[i], nocase)
  <2>1. i \in 0..n /\ i - 1 \in 0..n /\ u[i] \in Int
    BY <1>2
  <2>2. h[i] = Prefixed(p, f[i]) /\ h[i - 1] = Prefixed(p, f[i - 1])
    BY <2>1
  <2>3. f[i] = Step(f[i - 1], u[i], nocase)
    BY <1>1, <1>3 DEF Runs
  <2>4. f[i - 1] \in LexStates
    BY <1>4, <2>1
  <2> HIDE DEF h
  <2> QED
    BY <2>1, <2>2, <2>3, <2>4, StepPrefixed
<1>7. h[n] = Prefixed(p, f[n])
  BY <1>2
<1> HIDE DEF h
<1>8. Runs(h, Prefixed(p, l), u, nocase)
  BY <1>1, <1>5, <1>6 DEF Runs
<1>9. LexFrom(Prefixed(p, l), u, nocase) = h[n] /\ LexFrom(l, u, nocase) = f[n]
  BY <1>1, <1>2, <1>3, <1>8, RunRight
<1> QED
  BY <1>7, <1>9

\* Without a newline nothing is printed.
LEMMA LexSilent ==
  ASSUME NEW l \in LexStates, NEW u \in Seq(Int), NEW nocase \in BOOLEAN,
         \A i \in 1..Len(u) : u[i] # Newline
  PROVE  /\ LexFrom(l, u, nocase).printed = l.printed
         /\ LexFrom(l, u, nocase).pastheader = l.pastheader
<1> DEFINE D == {x \in LexStates : x.printed = l.printed /\ x.pastheader = l.pastheader}
<1>1. ASSUME NEW x \in D, NEW i \in 1..Len(u) PROVE Step(x, u[i], nocase) \in D
  <2>1. u[i] \in Int /\ u[i] # Newline /\ x \in LexStates
    OBVIOUS
  <2>2. /\ Step(x, u[i], nocase) \in LexStates
        /\ Step(x, u[i], nocase).printed = x.printed
        /\ Step(x, u[i], nocase).pastheader = x.pastheader
    BY <2>1, StepKeeps
  <2> QED
    BY <2>2
<1>2. l \in D /\ Len(u) \in Nat
  OBVIOUS
<1>3. LexFrom(l, u, nocase) \in D
  <2> HIDE DEF D
  <2> QED
    BY <1>1, <1>2, LexKeeps
<1> QED
  BY <1>3

\* Behind the header it stays.
LEMMA LexPast ==
  ASSUME NEW l \in LexStates, l.pastheader, NEW u \in Seq(Int), NEW nocase \in BOOLEAN
  PROVE  LexFrom(l, u, nocase).pastheader
<1> DEFINE D == {x \in LexStates : x.pastheader}
<1>1. ASSUME NEW x \in D, NEW i \in 1..Len(u) PROVE Step(x, u[i], nocase) \in D
  <2>1. u[i] \in Int /\ x \in LexStates /\ x.pastheader
    OBVIOUS
  <2>2. Step(x, u[i], nocase) \in LexStates
    BY <2>1, StepKeeps
  <2>3. CASE u[i] = Newline
    <3>1. EndOfLine(x).pastheader
      BY <2>1 DEF EndOfLine
    <3>2. Step(x, u[i], nocase) = EndOfLine(x)
      BY <2>1, <2>3, StepIs
    <3> QED
      BY <2>2, <3>1, <3>2
  <2>4. CASE u[i] # Newline
    <3>1. Step(x, u[i], nocase).pastheader = x.pastheader
      BY ZenonT(30), <2>1, <2>4, StepKeeps
    <3> QED
      BY <2>1, <2>2, <3>1
  <2> QED
    BY <2>3, <2>4
<1>2. l \in D /\ Len(u) \in Nat
  OBVIOUS
<1>3. LexFrom(l, u, nocase) \in D
  <2> HIDE DEF D
  <2> QED
    BY <1>1, <1>2, LexKeeps
<1> QED
  BY <1>3

\* Behind a newline the lexer is as fresh as at the start, but for what it knows of the
\* header and what it has printed.
LEMMA LexLine ==
  ASSUME NEW l \in LexStates, NEW u \in Seq(Int), NEW nocase \in BOOLEAN
  PROVE  LET m == LexFrom(l, u, nocase)
             e == LexFrom(l, u \o <<Newline>>, nocase)
         IN /\ e = EndOfLine(m) /\ m \in LexStates /\ e \in LexStates
            /\ e = Prefixed(e.printed, Fresh(e.pastheader))
<1>1. PICK m : m = LexFrom(l, u, nocase)
  OBVIOUS
<1>2. PICK e : e = LexFrom(l, u \o <<Newline>>, nocase)
  OBVIOUS
<1>3. Newline \in Int /\ <<Newline>> \in Seq(Int)
  BY DEF Newline
<1>4. m \in LexStates
  BY <1>1, LexType
<1>5. e = Step(m, Newline, nocase)
  <2>1. PICK line : line = <<Newline>>
    OBVIOUS
  <2>2. line \in Seq(Int) /\ e = LexFrom(l, u \o line, nocase)
    BY <1>2, <1>3, <2>1
  <2>3. e = LexFrom(m, line, nocase)
    BY <1>1, <2>2, LexCompose
  <2>4. LexFrom(m, <<Newline>>, nocase) = Step(m, Newline, nocase)
    BY LexOne
  <2> QED
    BY <2>1, <2>3, <2>4
<1>6. e = EndOfLine(m) /\ e \in LexStates
  BY <1>3, <1>4, <1>5, StepIs, StepKeeps
<1>7. /\ e.s = "HOL" /\ e.hol = <<>> /\ e.val = <<>>
      /\ e.printed \in Seq(Entry)
      /\ e = [s |-> e.s, hol |-> e.hol, val |-> e.val, pastheader |-> e.pastheader,
              printed |-> e.printed]
  BY <1>6, StatesAre DEF EndOfLine
<1>8. e.printed \o <<>> = e.printed
  BY <1>7
<1>9. e = Prefixed(e.printed, Fresh(e.pastheader))
  <2>1. PICK q : q = e.printed
    OBVIOUS
  <2>2. q \o <<>> = q
    BY <1>8, <2>1
  <2>3. Prefixed(q, Fresh(e.pastheader)) =
          [s |-> "HOL", hol |-> <<>>, val |-> <<>>, pastheader |-> e.pastheader, printed |-> q]
    BY <2>2 DEF Prefixed, Fresh
  <2> QED
    BY <1>7, <2>1, <2>3
<1> QED
  BY <1>1, <1>2, <1>4, <1>6, <1>9

\* A text that is empty or ends with a newline.
Whole(u) == u = <<>> \/ \E w \in Seq(Int) : u = w \o <<Newline>>

\* What stands behind a newline is read as if nothing stood before it.
LEMMA WholeThenRest ==
  ASSUME NEW u \in Seq(Int), Whole(u), NEW v \in Seq(Int), NEW nocase \in BOOLEAN,
         NEW past, Fresh(past) \in LexStates
  PROVE  LET m == LexFrom(Fresh(past), u, nocase) IN
         /\ m.printed \in Seq(Entry) /\ Fresh(m.pastheader) \in LexStates
         /\ LexFrom(Fresh(past), u \o v, nocase) =
              Prefixed(m.printed, LexFrom(Fresh(m.pastheader), v, nocase))
<1>1. PICK m : m = LexFrom(Fresh(past), u, nocase)
  OBVIOUS
<1>2. m \in LexStates /\ Fresh(past) \in LexStates
  BY <1>1, LexType
<1>3. m.printed \in Seq(Entry) /\ Fresh(m.pastheader) \in LexStates
  BY <1>2, StatesAre, FreshState
<1>4. m = Prefixed(m.printed, Fresh(m.pastheader))
  <2>1. CASE u = <<>>
    <3>1. m = Fresh(past)
      BY <1>1, <2>1, LexNone
    <3>2. <<>> \o <<>> = <<>>
      OBVIOUS
    <3> QED
      BY <3>1, <3>2 DEF Fresh, Prefixed
  <2>2. CASE u # <<>>
    <3>1. PICK w \in Seq(Int) : u = w \o <<Newline>>
      BY <2>2 DEF Whole
    <3> QED
      BY <1>1, <1>2, <3>1, LexLine
  <2> QED
    BY <2>1, <2>2
<1>5. LexFrom(Fresh(past), u \o v, nocase) = LexFrom(m, v, nocase)
  <2>1. PICK l : l = Fresh(past)
    OBVIOUS
  <2>2. LexFrom(l, u \o v, nocase) = LexFrom(LexFrom(l, u, nocase), v, nocase)
    BY ONLY u \in Seq(Int), v \in Seq(Int), LexCompose
  <2> QED
    BY ONLY <1>1, <2>1, <2>2
<1>6. LexFrom(Prefixed(m.printed, Fresh(m.pastheader)), v, nocase) =
        Prefixed(m.printed, LexFrom(Fresh(m.pastheader), v, nocase))
  BY <1>3, LexPrefixed
<1> QED
  BY <1>1, <1>3, <1>4, <1>5, <1>6

\* What is printed of a whole text and what follows.
LEMMA NextShotSplits ==
  ASSUME NEW u \in Seq(Int), Whole(u), NEW v \in Seq(Int), NEW nocase \in BOOLEAN
  PROVE  NextShot(u \o v, nocase) = NextShot(u, nocase) \o NextShot(v, nocase)
<1>1. PICK m : m = LexFrom(Fresh(TRUE), u, nocase)
  OBVIOUS
<1>2. Fresh(TRUE) \in LexStates /\ Fresh(TRUE).pastheader
  BY FreshState DEF Fresh
<1>3. LexFrom(Fresh(TRUE), u \o v, nocase) =
        Prefixed(m.printed, LexFrom(Fresh(m.pastheader), v, nocase))
  BY <1>1, <1>2, WholeThenRest
<1>4. m.pastheader = TRUE
  <2>1. m.pastheader
    BY <1>1, <1>2, LexPast
  <2>2. m.pastheader \in BOOLEAN
    BY <1>1, <1>2, LexType, StatesAre
  <2> QED
    BY <2>1, <2>2
<1>5. LexFrom(Fresh(TRUE), u \o v, nocase).printed =
        m.printed \o LexFrom(Fresh(TRUE), v, nocase).printed
  <2>1. PICK x : x = LexFrom(Fresh(TRUE), v, nocase)
    OBVIOUS
  <2>2. LexFrom(Fresh(TRUE), u \o v, nocase) = Prefixed(m.printed, x)
    BY <1>3, <1>4, <2>1
  <2>3. Prefixed(m.printed, x).printed = m.printed \o x.printed
    BY DEF Prefixed
  <2> QED
    BY <2>1, <2>2, <2>3
<1> QED
  BY <1>1, <1>5 DEF NextShot, LexContent

\* What is printed are entries.
LEMMA NextShotType ==
  ASSUME NEW u \in Seq(Int), NEW nocase \in BOOLEAN
  PROVE  NextShot(u, nocase) \in Seq(Entry)
  BY FreshState, LexType, StatesAre DEF NextShot, LexContent

\* Nothing is printed of a text without a newline, and one line of a text that ends with
\* the only one it has.
LEMMA NextShotOfPart ==
  ASSUME NEW u \in Seq(Int), \A i \in 1..Len(u) : u[i] # Newline, NEW nocase \in BOOLEAN
  PROVE  /\ NextShot(u, nocase) = <<>>
         /\ Len(NextShot(u \o <<Newline>>, nocase)) <= 1
<1>1. Fresh(TRUE) \in LexStates /\ Fresh(TRUE).printed = <<>>
  BY FreshState DEF Fresh
<1>2. PICK m : m = LexFrom(Fresh(TRUE), u, nocase)
  OBVIOUS
<1>3. m.printed = <<>>
  BY <1>1, <1>2, LexSilent
<1>4. LexFrom(Fresh(TRUE), u \o <<Newline>>, nocase) = EndOfLine(m)
  BY <1>1, <1>2, LexLine
<1>5. EndOfLine(m).printed = <<>>
      \/ EndOfLine(m).printed = Append(<<>>, [name |-> m.hol, packages |-> m.val])
  BY <1>3 DEF EndOfLine
<1>6. Len(EndOfLine(m).printed) <= 1
  <2>1. PICK x : x = [name |-> m.hol, packages |-> m.val]
    OBVIOUS
  <2>2. Append(<<>>, x) = <<x>> /\ Len(<<x>>) = 1 /\ Len(<<>>) = 0
    OBVIOUS
  <2>3. EndOfLine(m).printed \in {<<>>, <<x>>}
    BY <1>5, <2>1, <2>2
  <2>4. Len(<<>>) <= 1 /\ Len(<<x>>) <= 1
    BY <2>2
  <2> QED
    BY ONLY <2>3, <2>4, Zenon
<1> QED
  BY <1>2, <1>3, <1>4, <1>6 DEF NextShot, LexContent

\* What one knows of a line's text.
LEMMA TextFacts ==
  ASSUME NEW line \in Lines
  PROVE  /\ line.head \in Seq(Int) /\ line.name \in Seq(Int) /\ line.tail \in Seq(Int)
         /\ \A i \in 1..Len(line.head) : line.head[i] = Space
         /\ \A i \in 1..Len(line.name) : line.name[i] \in 1..127 /\ line.name[i] # Newline
                                         /\ line.name[i] # Space
         /\ \A i \in 1..Len(line.tail) : line.tail[i] \in 1..127 /\ line.tail[i] # Newline
         /\ line.tail # <<>> => line.name # <<>> /\ line.tail[1] = Space
<1>1. /\ line.head \in Seq({Space}) /\ line.name \in Seq(Int) /\ line.tail \in Seq(Int)
      /\ \A i \in 1..Len(line.name) : Character(line.name[i]) /\ ~IsSpace(line.name[i])
      /\ \A i \in 1..Len(line.tail) : Character(line.tail[i])
      /\ line.tail # <<>> => line.name # <<>> /\ IsSpace(line.tail[1])
  BY LinesAssumption DEF LinesAssumption
<1>2. \A q \in Seq({Space}) : q \in Seq(Int) /\ \A i \in 1..Len(q) : q[i] = Space
  BY DEF Space
<1> QED
  BY <1>1, <1>2 DEF Character, IsSpace

\* A text is its line, without a newline or the header's words, and a newline.
LEMMA TextIs ==
  ASSUME NEW line \in Lines
  PROVE  \E w \in Seq(Int) :
           /\ TextOf(line) = w \o <<Newline>>
           /\ \A i \in 1..Len(w) : w[i] # Newline /\ w[i] \in 1..127
<1>1. PICK head : head = line.head
  OBVIOUS
<1>2. PICK name : name = line.name
  OBVIOUS
<1>3. PICK tail : tail = line.tail
  OBVIOUS
<1>4. /\ head \in Seq(Int) /\ name \in Seq(Int) /\ tail \in Seq(Int)
      /\ \A i \in 1..Len(head) : head[i] # Newline /\ head[i] \in 1..127
      /\ \A i \in 1..Len(name) : name[i] # Newline /\ name[i] \in 1..127
      /\ \A i \in 1..Len(tail) : tail[i] # Newline /\ tail[i] \in 1..127
  BY <1>1, <1>2, <1>3, TextFacts DEF Space, Newline
<1> DEFINE Fit(w) == w \in Seq(Int) /\ \A i \in 1..Len(w) : w[i] # Newline /\ w[i] \in 1..127
<1>5. ASSUME NEW u, Fit(u), NEW v, Fit(v) PROVE Fit(u \o v)
  <2>1. /\ u \o v \in Seq(Int) /\ Len(u \o v) = Len(u) + Len(v)
        /\ \A i \in 1..Len(u) : (u \o v)[i] = u[i]
        /\ \A i \in Len(u) + 1..Len(u) + Len(v) : (u \o v)[i] = v[i - Len(u)]
    BY <1>5, JoinFacts
  <2>2. PICK w : w = u \o v
    OBVIOUS
  <2>3. ASSUME NEW i \in 1..Len(w) PROVE w[i] # Newline /\ w[i] \in 1..127
    <3>1. CASE i \in 1..Len(u)
      BY <1>5, <2>1, <2>2, <3>1
    <3>2. CASE i \notin 1..Len(u)
      <4>1. i \in Len(u) + 1..Len(u) + Len(v) /\ i - Len(u) \in 1..Len(v)
        BY <1>5, <2>1, <2>2, <3>2
      <4>2. w[i] = v[i - Len(u)]
        BY <2>1, <2>2, <4>1
      <4> QED
        BY <1>5, <4>1, <4>2
    <3> QED
      BY <3>1, <3>2
  <2> QED
    BY <2>1, <2>2, <2>3
<1>6. PICK w : w = head \o name \o tail
  OBVIOUS
<1>7. Fit(head) /\ Fit(name) /\ Fit(tail)
  BY <1>4
<1>8. Fit(w)
  <2> HIDE DEF Fit
  <2> QED
    BY <1>5, <1>6, <1>7
<1>9. TextOf(line) = w \o <<Newline>>
  BY <1>1, <1>2, <1>3, <1>6 DEF TextOf
<1> QED
  BY <1>8, <1>9

\* A piece of a sequence.
LEMMA PieceFacts ==
  ASSUME NEW E, NEW q \in Seq(E), NEW a \in 1..Len(q) + 1, NEW b \in a - 1..Len(q)
  PROVE  /\ SubSeq(q, a, b) \in Seq(E) /\ Len(SubSeq(q, a, b)) = b - a + 1
         /\ \A j \in 1..b - a + 1 : SubSeq(q, a, b)[j] = q[a + j - 1]
  OBVIOUS

\* A text behind which stands a newline.
LEMMA WholeFacts ==
  ASSUME NEW w \in Seq(Int), NEW t, t = w \o <<Newline>>
  PROVE  /\ t \in Seq(Int) /\ Whole(t) /\ Len(t) = Len(w) + 1 /\ t # <<>>
         /\ \A i \in 1..Len(w) : t[i] = w[i]
         /\ t[Len(w) + 1] = Newline
<1>1. PICK m : m = Len(w)
  OBVIOUS
<1>2. m \in Nat
  BY <1>1
<1>3. Newline \in Int /\ <<Newline>> \in Seq(Int) /\ Len(<<Newline>>) = 1 /\ <<Newline>>[1] = Newline
  BY DEF Newline
<1>4. /\ t \in Seq(Int) /\ Len(t) = m + 1
      /\ \A i \in 1..m : t[i] = w[i]
      /\ \A i \in m + 1..m + 1 : t[i] = <<Newline>>[i - m]
  BY <1>1, <1>3, JoinFacts
<1>5. m + 1 \in m + 1..m + 1 /\ (m + 1) - m = 1
  BY <1>2
<1>6. t[m + 1] = Newline
  BY <1>3, <1>4, <1>5
<1>7. Whole(t)
  BY DEF Whole
<1>8. t # <<>>
  <2>1. Len(<<>>) = 0 /\ m + 1 # 0
    BY <1>2
  <2> QED
    BY <1>4, <2>1
<1> QED
  BY <1>1, <1>4, <1>6, <1>7, <1>8

\* A line without a newline but at its end.
OneLine(t) == \E w \in Seq(Int) : t = w \o <<Newline>> /\ \A i \in 1..Len(w) : w[i] # Newline

\* The parts of such a text, however it is cut.
LEMMA CutFacts ==
  ASSUME NEW t, OneLine(t), NEW k \in 0..Len(t)
  PROVE  LET b == SubSeq(t, 1, k)
             d == SubSeq(t, k + 1, Len(t))
         IN /\ b \in Seq(Int)
            /\ k = Len(t) => b = t /\ d = <<>>
            /\ k # Len(t) => OneLine(d) /\ \A i \in 1..Len(b) : b[i] # Newline
<1> PICK w \in Seq(Int) : t = w \o <<Newline>> /\ \A i \in 1..Len(w) : w[i] # Newline
  BY DEF OneLine
<1> PICK b : b = SubSeq(t, 1, k)
  OBVIOUS
<1> PICK d : d = SubSeq(t, k + 1, Len(t))
  OBVIOUS
<1>0. Newline \in Int /\ <<Newline>> \in Seq(Int) /\ Len(<<Newline>>) = 1 /\ <<Newline>>[1] = Newline
  BY DEF Newline
<1>1. PICK m : m = Len(w)
  OBVIOUS
<1>2. m \in Nat
  BY <1>1
<1>3. /\ t \in Seq(Int) /\ Len(t) = m + 1
      /\ \A i \in 1..m : t[i] = w[i]
      /\ t[m + 1] = Newline
  BY <1>1, WholeFacts
<1>5. k \in Nat /\ k <= m + 1
  BY <1>2, <1>3
<1>6. b = SubSeq(t, 1, k) /\ d = SubSeq(t, k + 1, Len(t))
  OBVIOUS
<1>7. b \in Seq(Int) /\ Len(b) = k /\ \A i \in 1..k : b[i] = t[i]
  <2>1. PICK a : a = 1
    OBVIOUS
  <2>2. /\ a \in 1..Len(t) + 1 /\ k \in a - 1..Len(t)
        /\ k - a + 1 = k /\ \A j \in 1..k : a + j - 1 = j
    BY <1>2, <1>3, <1>5, <2>1
  <2>3. b = SubSeq(t, a, k)
    BY <1>6, <2>1
  <2>4. t \in Seq(Int)
    BY <1>3
  <2>5. b \in Seq(Int) /\ Len(b) = k - a + 1 /\ \A j \in 1..k - a + 1 : b[j] = t[a + j - 1]
    BY ONLY <2>2, <2>3, <2>4, PieceFacts
  <2> QED
    BY <2>2, <2>5
<1>8. CASE k = Len(t)
  <2>1. b = t
    BY <1>3, <1>7, <1>8, SameSeq
  <2>2. d = <<>>
    BY <1>3, <1>5, <1>6, <1>8
  <2> QED
    BY <1>1, <1>3, <1>6, <1>7, <1>8, <2>1, <2>2
<1>9. CASE k # Len(t)
  <2>1. k <= m /\ m - k \in Nat /\ k + (m - k) = m /\ k + (m + 1 - k) = m + 1 /\ m + 1 - k \in Nat
    BY <1>2, <1>3, <1>5, <1>9
  <2>2. \A i \in 1..k : b[i] # Newline
    BY <1>1, <1>3, <1>7, <2>1
  <2>3. PICK u : u = SubSeq(t, k + 1, m)
    OBVIOUS
  <2>4. d = SubSeq(t, k + 1, m + 1)
    BY <1>3
  <2>5. u \in Seq(Int) /\ Len(u) = m - k /\ \A j \in 1..m - k : u[j] = t[k + j]
    <3>1. PICK a : a = k + 1
      OBVIOUS
    <3>2. PICK z : z = m
      OBVIOUS
    <3>3. a \in 1..Len(t) + 1 /\ z \in a - 1..Len(t) /\ z - a + 1 = m - k
      BY <1>2, <1>3, <1>5, <2>1, <3>1, <3>2
    <3>4. u = SubSeq(t, a, z)
      BY <2>3, <3>1, <3>2
    <3>5. u \in Seq(Int) /\ Len(u) = z - a + 1 /\ \A j \in 1..z - a + 1 : u[j] = t[a + j - 1]
      <4>1. t \in Seq(Int)
        BY <1>3
      <4> QED
        BY ONLY <3>3, <3>4, <4>1, PieceFacts
    <3>6. \A j \in 1..m - k : a + j - 1 = k + j
      BY <1>5, <3>1
    <3> QED
      BY <3>3, <3>5, <3>6
  <2>6. d \in Seq(Int) /\ Len(d) = m + 1 - k /\ \A j \in 1..m + 1 - k : d[j] = t[k + j]
    <3>1. PICK a : a = k + 1
      OBVIOUS
    <3>2. PICK z : z = m + 1
      OBVIOUS
    <3>3. a \in 1..Len(t) + 1 /\ z \in a - 1..Len(t) /\ z - a + 1 = m + 1 - k
      BY <1>2, <1>3, <1>5, <2>1, <3>1, <3>2
    <3>4. d = SubSeq(t, a, z)
      BY <2>4, <3>1, <3>2
    <3>5. d \in Seq(Int) /\ Len(d) = z - a + 1 /\ \A j \in 1..z - a + 1 : d[j] = t[a + j - 1]
      <4>1. t \in Seq(Int)
        BY <1>3
      <4> QED
        BY ONLY <3>3, <3>4, <4>1, PieceFacts
    <3>6. \A j \in 1..m + 1 - k : a + j - 1 = k + j
      BY <1>5, <3>1
    <3> QED
      BY <3>3, <3>5, <3>6
  <2>7. \A i \in 1..Len(u) : u[i] # Newline
    <3>1. ASSUME NEW i \in 1..m - k PROVE u[i] # Newline
      <4>1. k + i \in 1..m
        BY <1>2, <1>5, <2>1
      <4> QED
        BY <1>1, <1>3, <2>5, <4>1
    <3> QED
      BY <2>5, <3>1
  <2>8. d = u \o <<Newline>>
    <3>1. PICK e : e = u \o <<Newline>>
      OBVIOUS
    <3>2. /\ e \in Seq(Int) /\ Len(e) = m - k + 1
          /\ \A i \in 1..m - k : e[i] = u[i]
          /\ \A i \in m - k + 1..m - k + 1 : e[i] = <<Newline>>[i - (m - k)]
      BY <1>0, <2>5, <3>1, JoinFacts
    <3>3. ASSUME NEW i \in 1..m - k + 1 PROVE d[i] = e[i]
      <4>1. i \in 1..m + 1 - k
        BY <2>1
      <4>2. CASE i = m - k + 1
        <5>1. i - (m - k) = 1 /\ k + i = m + 1 /\ i \in m - k + 1..m - k + 1
          BY <1>2, <1>5, <2>1, <4>2
        <5>2. e[i] = <<Newline>>[i - (m - k)] /\ d[i] = t[k + i]
          BY <2>6, <3>2, <4>1, <5>1
        <5> QED
          BY <1>0, <1>3, <5>1, <5>2
      <4>3. CASE i # m - k + 1
        <5>1. i \in 1..m - k
          BY <2>1, <4>3
        <5> QED
          BY <2>5, <2>6, <3>2, <4>1, <5>1
      <4> QED
        BY <4>2, <4>3
    <3>4. Len(d) = Len(e) /\ Len(e) = m - k + 1
      BY <2>1, <2>6, <3>2
    <3>5. d = e
      BY ZenonT(30), <2>6, <3>2, <3>3, <3>4, SameSeq
    <3> QED
      BY <3>1, <3>5
  <2>9. Len(b) = k
    BY <1>7
  <2>10. OneLine(d)
    BY <2>5, <2>7, <2>8 DEF OneLine
  <2>11. \A i \in 1..Len(b) : b[i] # Newline
    BY <2>2, <2>9
  <2> QED
    BY <1>1, <1>3, <1>7, <1>9, <2>9, <2>10, <2>11
<1> QED
  BY <1>8, <1>9

\* Wherever the buffers of a contents file are cut, the lines that are whole in one of
\* them are found as in the whole file, and the line that is cut yields at most one line:
\* lex_content() starts afresh behind every newline and prints only at one.
THEOREM CutCorrect == Spec => []CutLosesOneLine
<1>1. ASSUME NEW first \in Texted(Giving), NEW last \in Texted(Giving), NEW k \in 0..Len(first)
      PROVE  LET cut == SubSeq(first, k + 1, Len(first))
             IN /\ NextShot(first \o last, FALSE) = NextShot(first, FALSE) \o NextShot(last, FALSE)
                /\ NextShot(last \o SubSeq(first, 1, k), FALSE) =
                     NextShot(last, FALSE) \o (IF cut = <<>> THEN NextShot(first, FALSE) ELSE <<>>)
                /\ NextShot(cut \o last, FALSE) = NextShot(cut, FALSE) \o NextShot(last, FALSE)
                /\ Len(NextShot(cut, FALSE)) <= 1
  <2>1. \A text \in Texted(Giving) : OneLine(text)
    BY TextIs DEF Texted, Giving, OneLine
  <2>2. \A text : OneLine(text) => text \in Seq(Int) /\ Whole(text)
    BY WholeFacts DEF OneLine
  <2>3. OneLine(first) /\ OneLine(last)
    BY <2>1
  <2>4. first \in Seq(Int) /\ Whole(first)
    BY <2>2, <2>3
  <2>5. last \in Seq(Int) /\ Whole(last)
    BY <2>2, <2>3
  <2>6. PICK cut : cut = SubSeq(first, k + 1, Len(first))
    OBVIOUS
  <2>7. PICK start : start = SubSeq(first, 1, k)
    OBVIOUS
  <2>8. /\ start \in Seq(Int)
        /\ k = Len(first) => start = first /\ cut = <<>>
        /\ k # Len(first) => OneLine(cut) /\ \A i \in 1..Len(start) : start[i] # Newline
    BY <2>3, <2>6, <2>7, CutFacts
  <2>9. NextShot(first \o last, FALSE) = NextShot(first, FALSE) \o NextShot(last, FALSE)
    BY <2>4, <2>5, NextShotSplits
  <2>10. NextShot(last \o start, FALSE) = NextShot(last, FALSE) \o NextShot(start, FALSE)
    BY <2>5, <2>8, NextShotSplits
  <2>11. CASE k = Len(first)
    <3>1. start = first /\ cut = <<>>
      BY <2>8, <2>11
    <3>2. NextShot(<<>>, FALSE) = <<>>
      <4>1. LexFrom(Fresh(TRUE), <<>>, FALSE) = Fresh(TRUE)
        BY LexNone
      <4>2. Fresh(TRUE).printed = <<>>
        BY DEF Fresh
      <4> QED
        BY <4>1, <4>2, Zenon DEF NextShot, LexContent
    <3>0. <<>> \o last = last
      BY <2>5
    <3>3. NextShot(last, FALSE) \in Seq(Entry)
      <4>1. FALSE \in BOOLEAN
        OBVIOUS
      <4> QED
        BY <2>5, <4>1, NextShotType
    <3>4. NextShot(cut \o last, FALSE) = NextShot(cut, FALSE) \o NextShot(last, FALSE)
      <4>1. PICK found : found = NextShot(last, FALSE)
        OBVIOUS
      <4>2. <<>> \o found = found
        BY <3>3, <4>1
      <4> QED
        BY <3>0, <3>1, <3>2, <4>1, <4>2
    <3>5. Len(NextShot(cut, FALSE)) <= 1
      <4>1. Len(<<>>) <= 1
        OBVIOUS
      <4> QED
        BY <3>1, <3>2, <4>1
    <3> QED
      BY <2>6, <2>7, <2>9, <2>10, <3>1, <3>4, <3>5
  <2>12. CASE k # Len(first)
    <3>1. PICK u \in Seq(Int) : cut = u \o <<Newline>> /\ \A i \in 1..Len(u) : u[i] # Newline
      BY <2>8, <2>12 DEF OneLine
    <3>2. cut \in Seq(Int) /\ Whole(cut) /\ cut # <<>>
      BY <3>1, WholeFacts
    <3>3. NextShot(start, FALSE) = <<>>
      <4>1. \A i \in 1..Len(start) : start[i] # Newline
        BY <2>8, <2>12
      <4> QED
        BY <2>8, <4>1, NextShotOfPart
    <3>4. NextShot(cut \o last, FALSE) = NextShot(cut, FALSE) \o NextShot(last, FALSE)
      BY <2>5, <3>2, NextShotSplits
    <3>5. Len(NextShot(cut, FALSE)) <= 1
      BY <3>1, NextShotOfPart
    <3> QED
      BY <2>6, <2>7, <2>9, <2>10, <3>2, <3>3, <3>4, <3>5
  <2> QED
    BY <2>11, <2>12
<1>2. CutLosesOneLine
  BY <1>1 DEF CutLosesOneLine
<1> QED
  BY <1>2, PTL

\* There is no newline in what lex_content() leaves in the buffer.
LEMMA LeftFacts ==
  ASSUME NEW x \in Seq(Int)
  PROVE  /\ LeftBehind(x) \in Seq(Int) /\ Len(LeftBehind(x)) = Len(x)
         /\ \A i \in 1..Len(x) : LeftBehind(x)[i] # Newline
<1>1. PICK n : n = Len(x)
  OBVIOUS
<1>2. n \in Nat /\ DOMAIN x = 1..n /\ \A i \in 1..n : x[i] \in Int
  BY <1>1
<1>3. PICK q : q = [i \in 1..n |-> IF x[i] = Newline THEN NUL ELSE x[i]]
  OBVIOUS
<1>4. LeftBehind(x) = q
  BY <1>2, <1>3 DEF LeftBehind
<1>5. ASSUME NEW i \in 1..n PROVE q[i] \in Int /\ q[i] # Newline
  BY <1>2, <1>3, SpecialCodes DEF NUL
<1>6. q \in Seq(Int) /\ Len(q) = n
  BY <1>2, <1>3, <1>5
<1> QED
  BY <1>1, <1>4, <1>5, <1>6

\* A text without a newline adds nothing to what is printed.
LEMMA NextShotSilent ==
  ASSUME NEW u \in Seq(Int), NEW v \in Seq(Int), \A i \in 1..Len(v) : v[i] # Newline,
         NEW nocase \in BOOLEAN
  PROVE  NextShot(u \o v, nocase) = NextShot(u, nocase)
<1>1. Fresh(TRUE) \in LexStates
  BY FreshState
<1>2. PICK m : m = LexFrom(Fresh(TRUE), u, nocase)
  OBVIOUS
<1>3. m \in LexStates
  BY <1>1, <1>2, LexType
<1>4. LexFrom(Fresh(TRUE), u \o v, nocase) = LexFrom(m, v, nocase)
  <2>1. PICK l : l = Fresh(TRUE)
    OBVIOUS
  <2>2. LexFrom(l, u \o v, nocase) = LexFrom(LexFrom(l, u, nocase), v, nocase)
    BY ONLY u \in Seq(Int), v \in Seq(Int), LexCompose
  <2> QED
    BY ONLY <1>2, <2>1, <2>2
<1>5. LexFrom(m, v, nocase).printed = m.printed
  BY <1>3, LexSilent
<1> QED
  BY <1>2, <1>4, <1>5 DEF NextShot, LexContent

\* The texts of the lines are lines, and lines are whole texts.
LEMMA TextsAreLines == \A text \in Texted(Lines) : OneLine(text)
  BY TextIs DEF Texted, OneLine

LEMMA LinesAreWhole ==
  \A text : OneLine(text) => text \in Seq(Int) /\ Whole(text) /\ Len(text) \in Nat
<1> SUFFICES ASSUME NEW text, OneLine(text)
             PROVE  text \in Seq(Int) /\ Whole(text) /\ Len(text) \in Nat
  OBVIOUS
<1>1. PICK w \in Seq(Int) : text = w \o <<Newline>>
  BY DEF OneLine
<1>2. text \in Seq(Int) /\ Whole(text)
  BY <1>1, WholeFacts
<1> QED
  BY <1>2

\* What an earlier call left in the part of the buffer that inflate() did not fill is
\* never printed: lex_content() made a NUL of every newline in it.
THEOREM StaleTailCorrect == Spec => []StaleTailSilent
<1>1. ASSUME NEW old \in Texted(Giving), NEW new \in Texted(Giving), NEW n \in 0..Len(new),
             NEW buffer, buffer = LeftBehind(new \o old)
      PROVE  NextShot(SubSeq(new, 1, n) \o SubSeq(buffer, n + 1, Len(buffer)), FALSE) =
               NextShot(SubSeq(new, 1, n), FALSE)
  <2>1. OneLine(old) /\ OneLine(new)
    BY TextsAreLines DEF Texted, Giving
  <2>2. old \in Seq(Int) /\ new \in Seq(Int) /\ Len(new) \in Nat /\ Len(old) \in Nat
    BY <2>1, LinesAreWhole
  <2>3. PICK x : x = new \o old
    OBVIOUS
  <2>4. x \in Seq(Int) /\ Len(x) = Len(new) + Len(old)
    BY <2>2, <2>3, JoinFacts
  <2>5. /\ buffer \in Seq(Int) /\ Len(buffer) = Len(new) + Len(old)
        /\ \A i \in 1..Len(buffer) : buffer[i] # Newline
    <3>1. buffer = LeftBehind(x)
      BY ONLY buffer = LeftBehind(new \o old), <2>3, Zenon
    <3>2. /\ LeftBehind(x) \in Seq(Int) /\ Len(LeftBehind(x)) = Len(x)
          /\ \A i \in 1..Len(x) : LeftBehind(x)[i] # Newline
      BY <2>4, LeftFacts
    <3> QED
      BY <2>4, <3>1, <3>2
  <2>6. PICK u : u = SubSeq(new, 1, n)
    OBVIOUS
  <2>7. u \in Seq(Int)
    BY <2>1, <2>6, CutFacts
  <2>8. PICK v : v = SubSeq(buffer, n + 1, Len(buffer))
    OBVIOUS
  <2>9. v \in Seq(Int) /\ \A i \in 1..Len(v) : v[i] # Newline
    <3>1. PICK a : a = n + 1
      OBVIOUS
    <3>2. PICK z : z = Len(buffer)
      OBVIOUS
    <3>3. a \in 1..Len(buffer) + 1 /\ z \in a - 1..Len(buffer) /\ v = SubSeq(buffer, a, z)
      BY <2>2, <2>5, <2>8, <3>1, <3>2
    <3>4. buffer \in Seq(Int)
      BY <2>5
    <3>5. v \in Seq(Int) /\ Len(v) = z - a + 1 /\ \A j \in 1..z - a + 1 : v[j] = buffer[a + j - 1]
      BY ONLY <3>3, <3>4, PieceFacts
    <3>6. ASSUME NEW j \in 1..z - a + 1 PROVE v[j] # Newline
      <4>1. a + j - 1 \in 1..Len(buffer)
        BY <2>2, <2>5, <3>1, <3>2
      <4> QED
        BY <2>5, <3>5, <4>1
    <3> QED
      BY <3>5, <3>6
  <2>10. FALSE \in BOOLEAN
    OBVIOUS
  <2>11. NextShot(u \o v, FALSE) = NextShot(u, FALSE)
    BY <2>7, <2>9, <2>10, NextShotSilent
  <2> QED
    BY <2>6, <2>8, <2>11
<1>2. StaleTailSilent
  BY <1>1 DEF StaleTailSilent
<1> QED
  BY <1>2, PTL

\* A line before the header that does not begin with its word changes nothing.
LEMMA LineBefore ==
  ASSUME NEW u, OneLine(u), \A i \in 1..Len(u) : u[i] # FileWord, NEW nocase \in BOOLEAN
  PROVE  LexFrom(Fresh(FALSE), u, nocase) = Fresh(FALSE)
<1> DEFINE Name == Seq(Int \ {FileWord})
           D == {x \in LexStates : x.pastheader = FALSE /\ x.printed = <<>> /\ x.hol \in Name}
<1>0. u \in Seq(Int) /\ Len(u) \in Nat
  BY LinesAreWhole
<1>1. Fresh(FALSE) \in D
  <2>1. Fresh(FALSE) \in LexStates
    BY FreshState
  <2>2. <<>> \in Name
    OBVIOUS
  <2> QED
    BY <2>1, <2>2 DEF Fresh
<1>2. ASSUME NEW x \in D, NEW i \in 1..Len(u) PROVE Step(x, u[i], nocase) \in D
  <2>1. PICK c : c = u[i]
    OBVIOUS
  <2>2. c \in Int /\ c # FileWord
    BY <1>0, <2>1
  <2>3. x \in LexStates /\ x.pastheader = FALSE /\ x.printed = <<>> /\ x.hol \in Name
    OBVIOUS
  <2>4. PICK y : y = Step(x, c, nocase)
    OBVIOUS
  <2>5. y \in LexStates
    BY <2>2, <2>3, <2>4, StepKeeps
  <2>6. CASE c = Newline
    <3>1. y = EndOfLine(x)
      BY <2>2, <2>3, <2>4, <2>6, StepIs
    <3>2. x.hol # <<FileWord>>
      <4>1. <<FileWord>>[1] = FileWord /\ Len(<<FileWord>>) = 1
        OBVIOUS
      <4>2. \A q \in Name : Len(q) = 1 => q[1] # FileWord
        <5>1. SUFFICES ASSUME NEW q \in Name, Len(q) = 1 PROVE q[1] # FileWord
          OBVIOUS
        <5>2. 1 \in 1..Len(q)
          BY <5>1
        <5>3. q[1] \in Int \ {FileWord}
          BY <5>2
        <5> QED
          BY <5>3
      <4> QED
        BY <2>3, <4>1, <4>2
    <3>3. y.pastheader = FALSE /\ y.printed = <<>> /\ y.hol = <<>>
      BY <2>3, <3>1, <3>2 DEF EndOfLine
    <3>4. <<>> \in Name
      OBVIOUS
    <3> QED
      BY <2>1, <2>4, <2>5, <3>3, <3>4
  <2>7. CASE c # Newline
    <3>1. y.pastheader = FALSE /\ y.printed = <<>>
      BY <2>2, <2>3, <2>4, <2>7, StepKeeps
    <3>2. y.hol \in {x.hol, Append(x.hol, c)}
      <4>1. CASE c # Space /\ x.s \in {"HOL", "MATCHING"}
        <5>1. y = Named(x, c, nocase)
          BY <2>2, <2>3, <2>4, <2>7, <4>1, StepIs
        <5>2. Named(x, c, nocase) = [x EXCEPT !.s = "MATCHING", !.hol = Append(@, c)]
          BY <2>3 DEF Named
        <5>3. [x EXCEPT !.s = "MATCHING", !.hol = Append(@, c)].hol = Append(x.hol, c)
          BY <2>3 DEF LexStates
        <5> QED
          BY <5>1, <5>2, <5>3
      <4>2. CASE c = Space /\ x.s = "MATCHING"
        <5>1. y = EndOfName(x)
          BY <2>2, <2>3, <2>4, <4>2, StepIs
        <5>2. PICK t : t = IF x.pastheader => Matches(x.hol) THEN "INTER" ELSE "SINK"
          OBVIOUS
        <5>3. EndOfName(x) = [x EXCEPT !.s = t]
          BY <5>2 DEF EndOfName
        <5>4. [x EXCEPT !.s = t].hol = x.hol
          BY <2>3 DEF LexStates
        <5> QED
          BY <5>1, <5>3, <5>4
      <4>3. CASE x.s = "INTER"
        <5>1. y = Between(x, c)
          BY <2>2, <2>3, <2>4, <2>7, <4>3, StepIs
        <5>2. Between(x, c) \in {[x EXCEPT !.s = "VAL", !.val = <<c>>], x}
          BY <2>3 DEF Between
        <5>3. [x EXCEPT !.s = "VAL", !.val = <<c>>].hol = x.hol
          BY <2>3 DEF LexStates
        <5> QED
          BY <5>1, <5>2, <5>3
      <4>4. CASE x.s = "VAL"
        <5>1. y = [x EXCEPT !.val = Append(@, c)]
          BY <2>2, <2>3, <2>4, <2>7, <4>4, StepIs
        <5>2. [x EXCEPT !.val = Append(@, c)].hol = x.hol
          BY <2>3 DEF LexStates
        <5> QED
          BY <5>1, <5>2
      <4>5. CASE x.s = "SINK" \/ (c = Space /\ x.s = "HOL")
        BY <2>2, <2>3, <2>4, <2>7, <4>5, StepIs
      <4> QED
        BY <2>2, <2>3, <2>7, <4>1, <4>2, <4>3, <4>4, <4>5, StepCases
    <3>3. Append(x.hol, c) \in Name
      <4>1. \A q \in Name : Append(q, c) \in Name
        BY <2>2
      <4> QED
        BY <2>3, <4>1
    <3> QED
      BY <2>1, <2>3, <2>4, <2>5, <3>1, <3>2, <3>3
  <2> QED
    BY <2>6, <2>7
<1>3. LexFrom(Fresh(FALSE), u, nocase) \in D
  <2> HIDE DEF D
  <2> QED
    BY <1>0, <1>1, <1>2, LexKeeps
<1>4. PICK e : e = LexFrom(Fresh(FALSE), u, nocase)
  OBVIOUS
<1>5. e.pastheader = FALSE /\ e.printed = <<>>
  BY <1>3, <1>4
<1>6. e = Prefixed(e.printed, Fresh(e.pastheader))
  <2>1. PICK w \in Seq(Int) : u = w \o <<Newline>>
    BY DEF OneLine
  <2>2. Fresh(FALSE) \in LexStates
    BY FreshState
  <2> QED
    BY <1>4, <2>1, <2>2, LexLine
<1>7. <<>> \o <<>> = <<>>
  OBVIOUS
<1> QED
  BY <1>4, <1>5, <1>6, <1>7 DEF Prefixed, Fresh

\* The header line.
LEMMA HeaderLine ==
  ASSUME NEW nocase \in BOOLEAN
  PROVE  LexFrom(Fresh(FALSE), Header, nocase) = Fresh(TRUE)
<1>1. /\ Len(Header) = 4
      /\ Header[1] = FileWord /\ Header[2] = Space /\ Header[3] = LocationWord
      /\ Header[4] = Newline
  BY DEF Header
<1>2. /\ FileWord \in Int /\ Space \in Int /\ LocationWord \in Int /\ Newline \in Int
      /\ FileWord # Newline /\ FileWord # Space /\ Space # Newline
      /\ LocationWord # Newline /\ LocationWord # Space
  BY DEF FileWord, Space, LocationWord, Newline
<1>0. PICK l : l = Fresh(FALSE)
  OBVIOUS
<1>3. PICK f : Runs(f, l, Header, nocase)
  <2>1. Len(Header) \in Nat
    BY <1>1
  <2> QED
    BY <2>1, RunExists
<1>4. /\ f[0] = Fresh(FALSE)
      /\ f[1] = Step(f[0], FileWord, nocase)
      /\ f[2] = Step(f[1], Space, nocase)
      /\ f[3] = Step(f[2], LocationWord, nocase)
      /\ f[4] = Step(f[3], Newline, nocase)
  <2>1. \A i \in 1..4 : f[i] = Step(f[i - 1], Header[i], nocase)
    BY <1>1, <1>3 DEF Runs
  <2>2. /\ f[1] = Step(f[1 - 1], Header[1], nocase) /\ f[2] = Step(f[2 - 1], Header[2], nocase)
        /\ f[3] = Step(f[3 - 1], Header[3], nocase) /\ f[4] = Step(f[4 - 1], Header[4], nocase)
    BY <2>1
  <2>3. 1 - 1 = 0 /\ 2 - 1 = 1 /\ 3 - 1 = 2 /\ 4 - 1 = 3
    OBVIOUS
  <2>4. f[0] = Fresh(FALSE)
    BY <1>0, <1>3 DEF Runs
  <2> HIDE DEF Header
  <2> QED
    BY ONLY <1>1, <2>2, <2>3, <2>4
<1>5. f[0] \in LexStates
  BY <1>4, FreshState
<1>6. /\ f[0].s = "HOL" /\ f[0].hol = <<>> /\ f[0].val = <<>>
      /\ f[0].pastheader = FALSE /\ f[0].printed = <<>>
  BY <1>4 DEF Fresh
<1>7. /\ f[1] \in LexStates
      /\ f[1].s = "MATCHING" /\ f[1].hol = <<FileWord>> /\ f[1].val = <<>>
      /\ f[1].pastheader = FALSE /\ f[1].printed = <<>>
  <2>1. f[1] = Named(f[0], FileWord, nocase)
    BY <1>2, <1>4, <1>5, <1>6, StepIs
  <2>2. Named(f[0], FileWord, nocase) = [f[0] EXCEPT !.s = "MATCHING", !.hol = Append(@, FileWord)]
    BY <1>6 DEF Named
  <2>3. f[1] \in LexStates
    BY <1>2, <1>4, <1>5, StepKeeps
  <2>4. Append(<<>>, FileWord) = <<FileWord>>
    OBVIOUS
  <2>5. f[1].s = "MATCHING" /\ f[1].hol = Append(f[0].hol, FileWord) /\ f[1].val = f[0].val
        /\ f[1].pastheader = f[0].pastheader /\ f[1].printed = f[0].printed
    BY <1>5, <2>1, <2>2 DEF LexStates
  <2> QED
    BY <1>6, <2>3, <2>4, <2>5
<1>8. /\ f[2] \in LexStates
      /\ f[2].s = "INTER" /\ f[2].hol = <<FileWord>> /\ f[2].val = <<>>
      /\ f[2].pastheader = FALSE /\ f[2].printed = <<>>
  <2>1. f[2] = EndOfName(f[1])
    BY <1>2, <1>4, <1>7, StepIs
  <2>2. EndOfName(f[1]) = [f[1] EXCEPT !.s = "INTER"]
    BY <1>7 DEF EndOfName
  <2>3. f[2] \in LexStates
    BY <1>2, <1>4, <1>7, StepKeeps
  <2> QED
    BY <1>7, <2>1, <2>2, <2>3 DEF LexStates
<1>9. /\ f[3] \in LexStates
      /\ f[3].s = "VAL" /\ f[3].hol = <<FileWord>> /\ f[3].val = <<LocationWord>>
      /\ f[3].pastheader = FALSE /\ f[3].printed = <<>>
  <2>1. f[3] = Between(f[2], LocationWord)
    BY <1>2, <1>4, <1>8, StepIs
  <2>2. Between(f[2], LocationWord) = [f[2] EXCEPT !.s = "VAL", !.val = <<LocationWord>>]
    BY <1>2, <1>8 DEF Between, IsSpace
  <2>3. f[3] \in LexStates
    BY <1>2, <1>4, <1>8, StepKeeps
  <2> QED
    BY <1>8, <2>1, <2>2, <2>3 DEF LexStates
<1>10. f[4] = EndOfLine(f[3])
  BY <1>2, <1>4, <1>9, StepIs
<1>11. f[4] = Fresh(TRUE)
  BY <1>9, <1>10 DEF EndOfLine, Fresh
<1>12. LexFrom(l, Header, nocase) = f[Len(Header)]
  <2>1. Len(Header) \in Nat
    BY <1>1
  <2> QED
    BY <1>3, <2>1, RunRight
<1>13. LexFrom(l, Header, nocase) = f[4]
  BY <1>1, <1>12
<1> QED
  BY <1>0, <1>11, <1>13, Zenon

\* In a first buffer lex_content() prints nothing before the line FILE LOCATION, whatever
\* matches there, and everything behind it as if it were the whole file.
THEOREM HeaderCorrect == Spec => []HeaderSkipped
<1>1. ASSUME NEW before \in Texted(Giving), NEW after \in Texted(Giving), NEW nocase \in BOOLEAN
      PROVE  /\ OneShot(before \o Header \o after, nocase) = NextShot(after, nocase)
             /\ OneShot(before \o after, nocase) = <<>>
  <2>1. \A text \in Texted(Giving) :
          /\ OneLine(text) /\ text \in Seq(Int) /\ \A i \in 1..Len(text) : text[i] # FileWord
    <3>1. ASSUME NEW line \in Lines PROVE \A i \in 1..Len(TextOf(line)) : TextOf(line)[i] # FileWord
      <4>1. PICK w \in Seq(Int) : /\ TextOf(line) = w \o <<Newline>>
                                  /\ \A i \in 1..Len(w) : w[i] \in 1..127
        BY TextIs
      <4>2. PICK t : t = TextOf(line)
        OBVIOUS
      <4>3. /\ Len(t) = Len(w) + 1 /\ \A i \in 1..Len(w) : t[i] = w[i]
            /\ t[Len(w) + 1] = Newline
        BY <4>1, <4>2, WholeFacts
      <4>4. Newline # FileWord /\ FileWord \notin 1..127
        BY DEF Newline, FileWord
      <4>5. ASSUME NEW i \in 1..Len(t) PROVE t[i] # FileWord
        <5>1. i \in 1..Len(w) \/ i = Len(w) + 1
          BY <4>3
        <5> QED
          BY <4>1, <4>3, <4>4, <5>1
      <4> QED
        BY <4>2, <4>5
    <3> QED
      BY <3>1, TextsAreLines, LinesAreWhole DEF Texted, Giving
  <2>2. PICK l : l = Fresh(FALSE)
    OBVIOUS
  <2>3. LexFrom(l, before, nocase) = l /\ LexFrom(l, after, nocase) = l
    BY <2>1, <2>2, LineBefore
  <2>4. before \in Seq(Int) /\ after \in Seq(Int) /\ Header \in Seq(Int)
    <3>1. Header \in Seq(Int)
      BY DEF Header, FileWord, Space, LocationWord, Newline
    <3> QED
      BY <2>1, <3>1
  <2>5. LexFrom(l, before \o after, nocase) = l
    <3>1. LexFrom(l, before \o after, nocase) = LexFrom(LexFrom(l, before, nocase), after, nocase)
      BY ONLY <2>4, LexCompose
    <3> QED
      BY ONLY <2>3, <3>1
  <2>6. PICK start : start = before \o Header
    OBVIOUS
  <2>7. start \in Seq(Int) /\ LexFrom(l, start, nocase) = Fresh(TRUE)
    <3>1. start \in Seq(Int)
      BY <2>4, <2>6, JoinFacts
    <3>2. LexFrom(l, start, nocase) = LexFrom(l, Header, nocase)
      <4>1. LexFrom(l, before \o Header, nocase) =
              LexFrom(LexFrom(l, before, nocase), Header, nocase)
        BY ONLY <2>4, LexCompose
      <4> QED
        BY ONLY <2>3, <2>6, <4>1
    <3> QED
      BY <2>2, <3>1, <3>2, HeaderLine
  <2>8. LexFrom(l, start \o after, nocase) = LexFrom(Fresh(TRUE), after, nocase)
    <3>1. LexFrom(l, start \o after, nocase) = LexFrom(LexFrom(l, start, nocase), after, nocase)
      <4>1. start \in Seq(Int) /\ after \in Seq(Int)
        BY <2>4, <2>7
      <4> QED
        BY ONLY <4>1, LexCompose
    <3> QED
      BY ONLY <2>7, <3>1, Zenon
  <2>9. l.printed = <<>>
    BY <2>2 DEF Fresh
  <2>10. OneShot(before \o after, nocase) = <<>>
    BY <2>2, <2>5, <2>9, Zenon DEF OneShot, LexContent
  <2>11. OneShot(start \o after, nocase) = NextShot(after, nocase)
    BY <2>2, <2>8, Zenon DEF OneShot, NextShot, LexContent
  <2> QED
    BY <2>6, <2>10, <2>11
<1>2. HeaderSkipped
  BY <1>1 DEF HeaderSkipped
<1> QED
  BY <1>2, PTL

-----------------------------------------------------------------------------
(* A line of the file proper, when there is one pattern.                    *)

\* The lexer in a line of the file proper, before it has printed anything.
At(s1, hol, val1) ==
  [s |-> s1, hol |-> hol, val |-> val1, pastheader |-> TRUE, printed |-> <<>>]

\* It is a state of the lexer.
LEMMA AtState ==
  ASSUME NEW s1 \in {"HOL", "MATCHING", "INTER", "VAL", "SINK"},
         NEW hol \in Seq(Int), NEW val1 \in Seq(Int)
  PROVE  At(s1, hol, val1) \in LexStates
<1>1. <<>> \in Seq(Entry)
  OBVIOUS
<1> QED
  BY <1>1 DEF At, LexStates

\* How a name is lowered, if it is.
Cased(c, nocase) == IF nocase THEN ToLower(c) ELSE c

\* Such a state is a record whose other two fields are always the same.
LEMMA AtIs ==
  \E p, none : \A s1, hol, val1 :
    At(s1, hol, val1) = [s |-> s1, hol |-> hol, val |-> val1, pastheader |-> p, printed |-> none]
<1>1. PICK p : p = TRUE
  OBVIOUS
<1>2. PICK none : none = <<>>
  OBVIOUS
<1>3. \A s1, hol, val1 :
        At(s1, hol, val1) = [s |-> s1, hol |-> hol, val |-> val1, pastheader |-> p, printed |-> none]
  BY <1>1, <1>2, Zenon DEF At
<1> QED
  BY ONLY <1>3, Zenon

\* A change of one field.
LEMMA AtGoes ==
  ASSUME NEW s1, NEW hol, NEW val1, NEW x
  PROVE  [At(s1, hol, val1) EXCEPT !.s = x] = At(x, hol, val1)
BY ONLY AtIs

LEMMA AtNames ==
  ASSUME NEW s1, NEW hol, NEW val1, NEW x
  PROVE  [At(s1, hol, val1) EXCEPT !.hol = x] = At(s1, x, val1)
BY ONLY AtIs

LEMMA AtGives ==
  ASSUME NEW s1, NEW hol, NEW val1, NEW x
  PROVE  [At(s1, hol, val1) EXCEPT !.val = x] = At(s1, hol, x)
BY ONLY AtIs

\* What the characters other than a newline do in such a state.
LEMMA AtSteps ==
  ASSUME NEW hol \in Seq(Int), NEW val1 \in Seq(Int), NEW c \in Int, c # Newline,
         NEW nocase \in BOOLEAN
  PROVE  /\ Step(At("HOL", hol, val1), Space, nocase) = At("HOL", hol, val1)
         /\ \A s1 \in {"HOL", "MATCHING"} : c # Space =>
              Step(At(s1, hol, val1), c, nocase) =
                At("MATCHING", Append(hol, Cased(c, nocase)), val1)
         /\ Step(At("MATCHING", hol, val1), Space, nocase) =
              At(IF Matches(hol) THEN "INTER" ELSE "SINK", hol, val1)
         /\ Step(At("SINK", hol, val1), c, nocase) = At("SINK", hol, val1)
         /\ c # Slash => Step(At("INTER", hol, val1), c, nocase) = At("INTER", hol, val1)
         /\ Step(At("INTER", hol, val1), Slash, nocase) = At("VAL", hol, val1)
         /\ Step(At("VAL", hol, val1), c, nocase) = At("VAL", hol, Append(val1, c))
<1>1. /\ Space \in Int /\ Slash \in Int /\ Newline \in Int
      /\ Space # Newline /\ Slash # Newline
  BY DEF Space, Slash, Newline
<1>2. /\ At("HOL", hol, val1) \in LexStates /\ At("MATCHING", hol, val1) \in LexStates
      /\ At("INTER", hol, val1) \in LexStates /\ At("VAL", hol, val1) \in LexStates
      /\ At("SINK", hol, val1) \in LexStates
  BY AtState
<1>3. \A s1 : /\ At(s1, hol, val1).s = s1 /\ At(s1, hol, val1).hol = hol
              /\ At(s1, hol, val1).val = val1
              /\ At(s1, hol, val1).pastheader = TRUE /\ At(s1, hol, val1).printed = <<>>
  BY DEF At
<1>4. Step(At("HOL", hol, val1), Space, nocase) = At("HOL", hol, val1)
  BY <1>1, <1>2, <1>3, StepIs
<1>5. ASSUME NEW s1 \in {"HOL", "MATCHING"}, c # Space
      PROVE  Step(At(s1, hol, val1), c, nocase) =
               At("MATCHING", Append(hol, Cased(c, nocase)), val1)
  <2>1. PICK l : l = At(s1, hol, val1)
    OBVIOUS
  <2>2. l \in LexStates /\ l.s \in {"HOL", "MATCHING"}
    BY <1>2, <1>3, <1>5, <2>1
  <2>3. Step(l, c, nocase) = Named(l, c, nocase)
    BY <1>5, <2>2, StepIs
  <2>4. PICK d : d = Cased(c, nocase)
    OBVIOUS
  <2>5. Named(l, c, nocase) = [l EXCEPT !.s = "MATCHING", !.hol = Append(@, d)]
    BY <1>3, <2>1, <2>4 DEF Named, Cased
  <2>6. [l EXCEPT !.s = "MATCHING", !.hol = Append(@, d)] = At("MATCHING", Append(hol, d), val1)
    <3>1. PICK n : n = [l EXCEPT !.s = "MATCHING"]
      OBVIOUS
    <3>2. PICK h : h = Append(hol, d)
      OBVIOUS
    <3>3. n = At("MATCHING", hol, val1)
      BY ONLY <2>1, <3>1, AtGoes
    <3>4. [n EXCEPT !.hol = h] = At("MATCHING", h, val1)
      BY ONLY <3>3, AtNames
    <3>5. l.hol = hol
      BY <1>3, <2>1
    <3>6. [l EXCEPT !.s = "MATCHING", !.hol = Append(@, d)] = [n EXCEPT !.hol = h]
      BY <3>1, <3>2, <3>5
    <3> QED
      BY ONLY <3>2, <3>4, <3>6
  <2> QED
    BY <2>1, <2>3, <2>4, <2>5, <2>6
<1>6. Step(At("MATCHING", hol, val1), Space, nocase) =
        At(IF Matches(hol) THEN "INTER" ELSE "SINK", hol, val1)
  <2>1. PICK l : l = At("MATCHING", hol, val1)
    OBVIOUS
  <2>2. l \in LexStates /\ l.s = "MATCHING"
    BY <1>2, <1>3, <2>1
  <2>3. Step(l, Space, nocase) = EndOfName(l)
    BY <1>1, <2>2, StepIs
  <2>4. PICK t : t = IF Matches(hol) THEN "INTER" ELSE "SINK"
    OBVIOUS
  <2>5. EndOfName(l) = [l EXCEPT !.s = t]
    BY <1>3, <2>1, <2>4 DEF EndOfName
  <2>6. [l EXCEPT !.s = t] = At(t, hol, val1)
    BY ONLY <2>1, AtGoes
  <2> QED
    BY ONLY <2>1, <2>3, <2>4, <2>5, <2>6, Zenon
<1>7. Step(At("SINK", hol, val1), c, nocase) = At("SINK", hol, val1)
  BY <1>2, <1>3, StepIs
<1>8. ASSUME c # Slash PROVE Step(At("INTER", hol, val1), c, nocase) = At("INTER", hol, val1)
  <2>1. PICK l : l = At("INTER", hol, val1)
    OBVIOUS
  <2>2. l \in LexStates /\ l.s = "INTER" /\ l.pastheader = TRUE
    BY <1>2, <1>3, <2>1
  <2>3. Step(l, c, nocase) = Between(l, c)
    BY <2>2, StepIs
  <2>4. Between(l, c) = l
    BY <1>8, <2>2 DEF Between
  <2> QED
    BY <2>1, <2>3, <2>4
<1>9. Step(At("INTER", hol, val1), Slash, nocase) = At("VAL", hol, val1)
  <2>1. PICK l : l = At("INTER", hol, val1)
    OBVIOUS
  <2>2. l \in LexStates /\ l.s = "INTER" /\ l.pastheader = TRUE
    BY <1>2, <1>3, <2>1
  <2>3. Step(l, Slash, nocase) = Between(l, Slash)
    BY <1>1, <2>2, StepIs
  <2>4. Between(l, Slash) = [l EXCEPT !.s = "VAL"]
    BY <2>2 DEF Between
  <2>5. [l EXCEPT !.s = "VAL"] = At("VAL", hol, val1)
    BY ONLY <2>1, AtGoes
  <2> QED
    BY <2>1, <2>3, <2>4, <2>5
<1>10. Step(At("VAL", hol, val1), c, nocase) = At("VAL", hol, Append(val1, c))
  <2>1. PICK l : l = At("VAL", hol, val1)
    OBVIOUS
  <2>2. l \in LexStates /\ l.s = "VAL"
    BY <1>2, <1>3, <2>1
  <2>3. Step(l, c, nocase) = [l EXCEPT !.val = Append(@, c)]
    BY <2>2, StepIs
  <2>4. [l EXCEPT !.val = Append(@, c)] = At("VAL", hol, Append(val1, c))
    <3>1. PICK v : v = Append(val1, c)
      OBVIOUS
    <3>2. [l EXCEPT !.val = v] = At("VAL", hol, v)
      BY ONLY <2>1, AtGives
    <3>3. l.val = val1
      BY <1>3, <2>1
    <3> QED
      BY ONLY <3>1, <3>2, <3>3
  <2> QED
    BY <2>1, <2>3, <2>4
<1> QED
  BY <1>4, <1>5, <1>6, <1>7, <1>8, <1>9, <1>10

\* A newline prints what has been read of a line whose value has begun.
LEMMA AtNewline ==
  ASSUME NEW s1, NEW hol, NEW val1
  PROVE  EndOfLine(At(s1, hol, val1)).printed =
           IF s1 = "VAL" THEN <<[name |-> hol, packages |-> val1]>> ELSE <<>>
<1>1. PICK x : x = [name |-> hol, packages |-> val1]
  OBVIOUS
<1>2. Append(<<>>, x) = <<x>>
  OBVIOUS
<1>3. PICK l : l = At(s1, hol, val1)
  OBVIOUS
<1>4. l.s = s1 /\ l.hol = hol /\ l.val = val1 /\ l.pastheader = TRUE /\ l.printed = <<>>
  BY <1>3 DEF At
<1>5. EndOfLine(l).printed = IF s1 = "VAL" THEN Append(<<>>, x) ELSE <<>>
  <2>1. CASE s1 = "VAL"
    BY <1>1, <1>4, <2>1 DEF EndOfLine
  <2>2. CASE s1 # "VAL"
    BY <1>1, <1>4, <2>2 DEF EndOfLine
  <2> QED
    BY <2>1, <2>2
<1> QED
  BY <1>1, <1>2, <1>3, <1>5

\* A prefix of a sequence, one longer.
LEMMA PieceGrows ==
  ASSUME NEW E, NEW q \in Seq(E), NEW a \in 1..Len(q), NEW i \in a..Len(q)
  PROVE  /\ Append(SubSeq(q, a, i - 1), q[i]) = SubSeq(q, a, i)
         /\ SubSeq(q, a, i - 1) \in Seq(E) /\ SubSeq(q, a, i) \in Seq(E)
<1>1. PICK u : u = SubSeq(q, a, i - 1)
  OBVIOUS
<1>2. PICK v : v = SubSeq(q, a, i)
  OBVIOUS
<1>3. PICK h : h = i - 1
  OBVIOUS
<1>4. /\ a \in 1..Len(q) + 1 /\ h \in a - 1..Len(q) /\ i \in a - 1..Len(q)
      /\ h - a + 1 = i - a /\ i - a \in Nat
  BY <1>3
<1>5. u \in Seq(E) /\ Len(u) = h - a + 1 /\ \A j \in 1..h - a + 1 : u[j] = q[a + j - 1]
  BY <1>1, <1>3, <1>4, PieceFacts
<1>6. v \in Seq(E) /\ Len(v) = i - a + 1 /\ \A j \in 1..i - a + 1 : v[j] = q[a + j - 1]
  BY <1>2, <1>4, PieceFacts
<1>7. PICK w : w = Append(u, q[i])
  OBVIOUS
<1>8. q[i] \in E
  OBVIOUS
<1>9. /\ w \in Seq(E) /\ Len(w) = i - a + 1
      /\ \A j \in 1..i - a : w[j] = u[j]
      /\ w[i - a + 1] = q[i]
  <2>1. PICK n : n = Len(u)
    OBVIOUS
  <2>2. w \in Seq(E) /\ Len(w) = n + 1 /\ (\A j \in 1..n : w[j] = u[j]) /\ w[n + 1] = q[i]
    BY <1>5, <1>7, <1>8, <2>1
  <2>3. n = i - a
    BY <1>4, <1>5, <2>1
  <2> QED
    BY <2>2, <2>3
<1>10. \A j \in 1..Len(w) : w[j] = v[j]
  <2> SUFFICES ASSUME NEW j \in 1..Len(w) PROVE w[j] = v[j]
    OBVIOUS
  <2>1. j \in 1..i - a + 1
    BY <1>9
  <2>2. CASE j = i - a + 1
    <3>1. a + j - 1 = i
      BY <2>2
    <3>2. v[j] = q[a + j - 1]
      BY <1>6, <2>1
    <3> QED
      BY <1>9, <2>2, <3>1, <3>2
  <2>3. CASE j # i - a + 1
    <3>1. j \in 1..i - a /\ j \in 1..h - a + 1
      BY <1>4, <2>1, <2>3
    <3> QED
      BY <1>5, <1>6, <1>9, <2>1, <3>1
  <2> QED
    BY <2>2, <2>3
<1>11. w = v
  BY <1>6, <1>9, <1>10, SameSeq
<1> QED
  BY <1>1, <1>2, <1>3, <1>5, <1>6, <1>7, <1>11

\* The name as the lexer compares and prints it.
NameOf(line, nocase) ==
  IF nocase THEN [i \in DOMAIN line.name |-> ToLower(line.name[i])] ELSE line.name

\* It is as long as the name, and each letter is the name's, lowered or not.
LEMMA NameFacts ==
  ASSUME NEW line \in Lines, NEW nocase \in BOOLEAN
  PROVE  /\ NameOf(line, nocase) \in Seq(Int) /\ Len(NameOf(line, nocase)) = Len(line.name)
         /\ \A i \in 1..Len(line.name) : NameOf(line, nocase)[i] = Cased(line.name[i], nocase)
<1>1. PICK name : name = line.name
  OBVIOUS
<1>2. PICK n : n = Len(name)
  OBVIOUS
<1>3. name \in Seq(Int) /\ n \in Nat /\ DOMAIN name = 1..n /\ \A i \in 1..n : name[i] \in Int
  <2>1. name \in Seq(Int)
    BY <1>1, TextFacts
  <2> QED
    BY <1>2, <2>1
<1>4. CASE nocase
  <2>1. PICK q : q = [i \in 1..n |-> ToLower(name[i])]
    OBVIOUS
  <2>2. NameOf(line, nocase) = q
    BY <1>1, <1>3, <1>4, <2>1 DEF NameOf
  <2>3. \A i \in 1..n : q[i] = ToLower(name[i]) /\ q[i] \in Int
    BY <1>3, <2>1 DEF ToLower
  <2>4. q \in Seq(Int) /\ Len(q) = n
    BY <1>3, <2>1, <2>3
  <2>5. \A c : Cased(c, nocase) = ToLower(c)
    BY <1>4 DEF Cased
  <2> QED
    BY <1>1, <1>2, <2>2, <2>3, <2>4, <2>5
<1>5. CASE ~nocase
  BY <1>1, <1>2, <1>3, <1>5 DEF NameOf, Cased
<1> QED
  BY <1>4, <1>5

\* White space at the start of a line is passed over.
LEMMA HeadRead ==
  ASSUME NEW u \in Seq(Int), \A i \in 1..Len(u) : u[i] = Space, NEW nocase \in BOOLEAN
  PROVE  LexFrom(At("HOL", <<>>, <<>>), u, nocase) = At("HOL", <<>>, <<>>)
<1>1. PICK l : l = At("HOL", <<>>, <<>>)
  OBVIOUS
<1>2. Step(l, Space, nocase) = l
  <2>1. <<>> \in Seq(Int) /\ 1 \in Int /\ 1 # Newline
    BY DEF Newline
  <2> QED
    BY <1>1, <2>1, AtSteps
<1>3. \A x \in {l} : \A i \in 1..Len(u) : Step(x, u[i], nocase) \in {l}
  BY <1>2
<1>4. l \in {l} /\ Len(u) \in Nat
  OBVIOUS
<1>5. LexFrom(l, u, nocase) \in {l}
  BY ONLY <1>3, <1>4, LexKeeps
<1> QED
  BY <1>1, <1>5

\* The name is gathered, letter by letter.
LEMMA NameRead ==
  ASSUME NEW line \in Lines, line.name # <<>>, NEW nocase \in BOOLEAN
  PROVE  LexFrom(At("HOL", <<>>, <<>>), line.name, nocase) =
           At("MATCHING", NameOf(line, nocase), <<>>)
<1>1. PICK name : name = line.name
  OBVIOUS
<1>2. PICK low : low = NameOf(line, nocase)
  OBVIOUS
<1>3. PICK n : n = Len(name)
  OBVIOUS
<1>4. /\ name \in Seq(Int) /\ n \in Nat /\ n # 0
      /\ \A i \in 1..n : name[i] \in Int /\ name[i] # Newline /\ name[i] # Space
  <2>1. /\ name \in Seq(Int)
        /\ \A i \in 1..Len(name) : name[i] # Newline /\ name[i] # Space
    BY <1>1, TextFacts
  <2> QED
    BY <1>1, <1>3, <2>1
<1>5. low \in Seq(Int) /\ Len(low) = n /\ \A i \in 1..n : low[i] = Cased(name[i], nocase)
  BY <1>1, <1>2, <1>3, NameFacts
<1> DEFINE State(i) == At(IF i = 0 THEN "HOL" ELSE "MATCHING", SubSeq(low, 1, i), <<>>)
           f == [i \in 0..n |-> State(i)]
<1>6. ASSUME NEW i \in 1..n PROVE State(i) = Step(State(i - 1), name[i], nocase)
  <2>1. PICK s1 : s1 = IF i - 1 = 0 THEN "HOL" ELSE "MATCHING"
    OBVIOUS
  <2>2. PICK u : u = SubSeq(low, 1, i - 1)
    OBVIOUS
  <2>3. PICK v : v = SubSeq(low, 1, i)
    OBVIOUS
  <2>4. Append(u, low[i]) = v /\ u \in Seq(Int)
    <3>1. 1 \in 1..Len(low) /\ i \in 1..Len(low)
      BY <1>4, <1>5
    <3> QED
      BY <1>5, <2>2, <2>3, <3>1, PieceGrows
  <2>5. s1 \in {"HOL", "MATCHING"} /\ <<>> \in Seq(Int)
    BY <2>1
  <2>6. Step(At(s1, u, <<>>), name[i], nocase) =
          At("MATCHING", Append(u, Cased(name[i], nocase)), <<>>)
    BY ZenonT(30), <1>4, <2>4, <2>5, AtSteps
  <2>7. State(i - 1) = At(s1, u, <<>>)
    BY <2>1, <2>2
  <2>8. State(i) = At("MATCHING", v, <<>>)
    BY <2>3
  <2>9. low[i] = Cased(name[i], nocase)
    BY <1>5
  <2> HIDE DEF State
  <2> QED
    BY ONLY <2>4, <2>6, <2>7, <2>8, <2>9, Zenon
<1>7. f[0] = State(0) /\ f[n] = State(n) /\ \A i \in 1..n : f[i] = State(i) /\ f[i - 1] = State(i - 1)
  <2>1. \A i \in 0..n : f[i] = State(i)
    OBVIOUS
  <2>2. \A i \in 1..n : i \in 0..n /\ i - 1 \in 0..n
    BY <1>4
  <2>3. 0 \in 0..n /\ n \in 0..n
    BY <1>4
  <2> HIDE DEF State, f
  <2> QED
    BY <2>1, <2>2, <2>3
<1>8. State(0) = At("HOL", <<>>, <<>>)
  <2>1. SubSeq(low, 1, 0) = <<>>
    BY <1>5
  <2> QED
    BY <2>1
<1>9. State(n) = At("MATCHING", low, <<>>)
  <2>1. SubSeq(low, 1, n) = low
    <3>1. PICK a : a = 1
      OBVIOUS
    <3>2. a \in 1..Len(low) + 1 /\ n \in a - 1..Len(low) /\ n - a + 1 = n
          /\ \A j \in 1..n : a + j - 1 = j
      BY <1>4, <1>5, <3>1
    <3>3. /\ SubSeq(low, a, n) \in Seq(Int) /\ Len(SubSeq(low, a, n)) = n - a + 1
          /\ \A j \in 1..n - a + 1 : SubSeq(low, a, n)[j] = low[a + j - 1]
      <4>1. low \in Seq(Int)
        BY <1>5
      <4> QED
        BY ONLY <3>2, <4>1, PieceFacts
    <3>4. PICK q : q = SubSeq(low, a, n)
      OBVIOUS
    <3>5. q \in Seq(Int) /\ Len(q) = n /\ \A j \in 1..n : q[j] = low[j]
      BY <3>2, <3>3, <3>4
    <3>6. q = low
      BY <1>5, <3>5, SameSeq
    <3> QED
      BY <3>1, <3>4, <3>6
  <2> QED
    BY <1>4, <2>1
<1> HIDE DEF State, f
<1>10. Runs(f, At("HOL", <<>>, <<>>), name, nocase)
  BY <1>3, <1>6, <1>7, <1>8 DEF Runs
<1>11. LexFrom(At("HOL", <<>>, <<>>), name, nocase) = f[Len(name)]
  <2>1. Len(name) \in Nat
    BY <1>3, <1>4
  <2> QED
    BY ONLY <1>10, <2>1, RunRight
<1> QED
  BY <1>1, <1>2, <1>3, <1>7, <1>9, <1>11

\* Where the packages begin, if anywhere.
LEMMA SlashAt ==
  ASSUME NEW line \in Lines
  PROVE  \E k \in 1..Len(line.tail) + 1 :
           /\ \A i \in 1..k - 1 : line.tail[i] # Slash
           /\ k <= Len(line.tail) => /\ line.tail[k] = Slash
                                     /\ line.packages = SubSeq(line.tail, k + 1, Len(line.tail))
           /\ k <= Len(line.tail) <=> line.packages # <<>>
<1>1. PICK tail : tail = line.tail
  OBVIOUS
<1>2. PICK n : n = Len(tail)
  OBVIOUS
<1>3. n \in Nat
  <2>1. tail \in Seq(Int)
    BY <1>1, TextFacts
  <2> QED
    BY <1>2, <2>1
<1>4. CASE line.packages = <<>>
  <2>1. \A i \in 1..n : tail[i] # Slash
    BY <1>1, <1>2, <1>4, LinesAssumption DEF LinesAssumption
  <2>2. n + 1 \in 1..n + 1 /\ (n + 1) - 1 = n /\ ~(n + 1 <= n)
    BY <1>3
  <2> QED
    BY <1>1, <1>2, <1>4, <2>1, <2>2
<1>5. CASE line.packages # <<>>
  <2>1. PICK k \in 1..n : GivesAt(line, k)
    BY <1>1, <1>2, <1>5, LinesAssumption DEF LinesAssumption
  <2>2. k \in 1..n + 1 /\ k <= n
    BY <1>3
  <2>3. /\ tail[k] = Slash /\ \A i \in 1..k - 1 : tail[i] # Slash
        /\ line.packages = SubSeq(tail, k + 1, n)
    BY <1>1, <1>2, <2>1 DEF GivesAt
  <2> QED
    BY <1>1, <1>2, <1>5, <2>2, <2>3
<1> QED
  BY <1>4, <1>5

\* What stands behind a name that does not match is not looked at.
LEMMA TailSunk ==
  ASSUME NEW tail \in Seq(Int), Len(tail) > 0, tail[1] = Space,
         \A i \in 1..Len(tail) : tail[i] # Newline,
         NEW hol \in Seq(Int), ~Matches(hol), NEW nocase \in BOOLEAN
  PROVE  LexFrom(At("MATCHING", hol, <<>>), tail, nocase) = At("SINK", hol, <<>>)
<1>1. PICK n : n = Len(tail)
  OBVIOUS
<1>2. n \in Nat /\ n > 0 /\ \A i \in 1..n : tail[i] \in Int /\ tail[i] # Newline
  BY <1>1
<1> DEFINE State(j) == At(IF j = 0 THEN "MATCHING" ELSE "SINK", hol, <<>>)
           f == [j \in 0..n |-> State(j)]
<1>3. <<>> \in Seq(Int)
  OBVIOUS
<1>4. ASSUME NEW i \in 1..n PROVE State(i) = Step(State(i - 1), tail[i], nocase)
  <2>1. State(i) = At("SINK", hol, <<>>)
    BY <1>2
  <2>2. tail[i] \in Int /\ tail[i] # Newline
    BY <1>2
  <2>3. CASE i = 1
    <3>1. State(i - 1) = At("MATCHING", hol, <<>>)
      BY <2>3
    <3>2. Step(At("MATCHING", hol, <<>>), Space, nocase) =
            At(IF Matches(hol) THEN "INTER" ELSE "SINK", hol, <<>>)
      BY <1>3, <2>2, AtSteps
    <3>3. (IF Matches(hol) THEN "INTER" ELSE "SINK") = "SINK"
      OBVIOUS
    <3>4. tail[i] = Space
      BY <2>3
    <3> HIDE DEF State
    <3> QED
      BY ONLY <2>1, <3>1, <3>2, <3>3, <3>4
  <2>4. CASE i # 1
    <3>1. State(i - 1) = At("SINK", hol, <<>>)
      BY <2>4
    <3>2. Step(At("SINK", hol, <<>>), tail[i], nocase) = At("SINK", hol, <<>>)
      BY <1>3, <2>2, AtSteps
    <3> HIDE DEF State
    <3> QED
      BY ONLY <2>1, <3>1, <3>2
  <2> QED
    BY <2>3, <2>4
<1>5. State(0) = At("MATCHING", hol, <<>>) /\ State(n) = At("SINK", hol, <<>>)
  BY <1>2
<1>6. f[0] = State(0) /\ f[n] = State(n) /\ \A i \in 1..n : f[i] = State(i) /\ f[i - 1] = State(i - 1)
  <2>1. \A i \in 0..n : f[i] = State(i)
    OBVIOUS
  <2>2. \A i \in 1..n : i \in 0..n /\ i - 1 \in 0..n
    BY <1>2
  <2>3. 0 \in 0..n /\ n \in 0..n
    BY <1>2
  <2> HIDE DEF State, f
  <2> QED
    BY <2>1, <2>2, <2>3
<1> HIDE DEF State, f
<1>7. Runs(f, At("MATCHING", hol, <<>>), tail, nocase)
  BY <1>1, <1>4, <1>5, <1>6 DEF Runs
<1>8. LexFrom(At("MATCHING", hol, <<>>), tail, nocase) = f[Len(tail)]
  <2>1. Len(tail) \in Nat
    BY <1>1, <1>2
  <2> QED
    BY ONLY <1>7, <2>1, RunRight
<1> QED
  BY <1>1, <1>5, <1>6, <1>8

\* Behind a name that matches, everything behind the first slash is kept.
LEMMA TailKept ==
  ASSUME NEW tail \in Seq(Int), Len(tail) > 0, tail[1] = Space,
         \A i \in 1..Len(tail) : tail[i] # Newline,
         NEW k \in 1..Len(tail) + 1, \A i \in 1..k - 1 : tail[i] # Slash,
         k <= Len(tail) => tail[k] = Slash,
         NEW hol \in Seq(Int), Matches(hol), NEW nocase \in BOOLEAN
  PROVE  LexFrom(At("MATCHING", hol, <<>>), tail, nocase) =
           IF k <= Len(tail) THEN At("VAL", hol, SubSeq(tail, k + 1, Len(tail)))
                             ELSE At("INTER", hol, <<>>)
<1>1. PICK n : n = Len(tail)
  OBVIOUS
<1>2. n \in Nat /\ n > 0 /\ \A i \in 1..n : tail[i] \in Int /\ tail[i] # Newline
  BY <1>1
<1>3. k \in Nat /\ k > 1 /\ k <= n + 1
  <2>1. k \in Nat /\ k >= 1 /\ k <= n + 1
    BY <1>1, <1>2
  <2>2. k # 1
    <3>1. Space # Slash
      BY SpecialCodes
    <3> QED
      BY <1>1, <1>2, <3>1
  <2> QED
    BY <2>1, <2>2
<1> DEFINE Got(j) == IF j <= k THEN <<>> ELSE SubSeq(tail, k + 1, j)
           Where(j) == IF j = 0 THEN "MATCHING" ELSE IF j < k THEN "INTER" ELSE "VAL"
           State(j) == At(Where(j), hol, Got(j))
           f == [j \in 0..n |-> State(j)]
<1>4. \A j \in 0..k : Got(j) = <<>>
  BY <1>3
<1>5. <<>> \in Seq(Int)
  OBVIOUS
<1>6. ASSUME NEW i \in k + 1..n PROVE Got(i) = Append(Got(i - 1), tail[i]) /\ Got(i - 1) \in Seq(Int)
  <2>1. PICK a : a = k + 1
    OBVIOUS
  <2>2. a \in 1..Len(tail) /\ i \in a..Len(tail)
    BY <1>1, <1>2, <1>3, <2>1
  <2>3. /\ Append(SubSeq(tail, a, i - 1), tail[i]) = SubSeq(tail, a, i)
        /\ SubSeq(tail, a, i - 1) \in Seq(Int)
    BY <2>2, PieceGrows
  <2>4. Got(i) = SubSeq(tail, a, i)
    BY <1>3, <2>1
  <2>5. Got(i - 1) = SubSeq(tail, a, i - 1)
    <3>1. CASE i - 1 = k
      <4>1. Got(i - 1) = <<>>
        BY <1>3, <3>1
      <4>2. SubSeq(tail, a, i - 1) = <<>>
        BY <1>3, <2>1, <2>2, <3>1
      <4> QED
        BY <4>1, <4>2
    <3>2. CASE i - 1 # k
      BY <1>3, <2>1, <3>2
    <3> QED
      BY <3>1, <3>2
  <2> HIDE DEF Got
  <2> QED
    BY ONLY <2>3, <2>4, <2>5
<1>7. ASSUME NEW i \in 1..n PROVE State(i) = Step(State(i - 1), tail[i], nocase)
  <2>1. tail[i] \in Int /\ tail[i] # Newline /\ i \in Nat
    BY <1>2
  <2>2. CASE i = 1
    <3>1. State(i - 1) = At("MATCHING", hol, <<>>)
      <4>1. Where(i - 1) = "MATCHING" /\ Got(i - 1) = <<>>
        BY <1>3, <2>2
      <4> HIDE DEF Where, Got
      <4> QED
        BY <4>1
    <3>2. State(i) = At("INTER", hol, <<>>)
      <4>1. Where(i) = "INTER" /\ Got(i) = <<>>
        BY <1>3, <2>2
      <4> HIDE DEF Where, Got
      <4> QED
        BY <4>1
    <3>3. Step(At("MATCHING", hol, <<>>), Space, nocase) =
            At(IF Matches(hol) THEN "INTER" ELSE "SINK", hol, <<>>)
      BY <1>5, <2>1, AtSteps
    <3>4. (IF Matches(hol) THEN "INTER" ELSE "SINK") = "INTER"
      OBVIOUS
    <3>5. tail[i] = Space
      BY <2>2
    <3> HIDE DEF State
    <3> QED
      BY ONLY <3>1, <3>2, <3>3, <3>4, <3>5
  <2>3. CASE i > 1 /\ i <= k
    <3>1. State(i - 1) = At("INTER", hol, <<>>)
      <4>1. Where(i - 1) = "INTER" /\ Got(i - 1) = <<>>
        BY <1>3, <2>1, <2>3
      <4> HIDE DEF Where, Got
      <4> QED
        BY <4>1
    <3>2. CASE i < k
      <4>1. State(i) = At("INTER", hol, <<>>)
        <5>1. Where(i) = "INTER" /\ Got(i) = <<>>
          BY <1>3, <2>1, <2>3, <3>2
        <5> HIDE DEF Where, Got
        <5> QED
          BY <5>1
      <4>2. tail[i] # Slash
        BY <1>3, <2>1, <3>2
      <4>3. Step(At("INTER", hol, <<>>), tail[i], nocase) = At("INTER", hol, <<>>)
        BY <1>5, <2>1, <4>2, AtSteps
      <4> HIDE DEF State
      <4> QED
        BY ONLY <3>1, <4>1, <4>3
    <3>3. CASE i = k
      <4>1. State(i) = At("VAL", hol, <<>>)
        <5>1. Where(i) = "VAL" /\ Got(i) = <<>>
          BY <1>3, <2>1, <2>3, <3>3
        <5> HIDE DEF Where, Got
        <5> QED
          BY <5>1
      <4>2. tail[i] = Slash
        BY <1>1, <1>2, <3>3
      <4>3. Step(At("INTER", hol, <<>>), Slash, nocase) = At("VAL", hol, <<>>)
        BY ZenonT(30), <1>5, <2>1, AtSteps
      <4> HIDE DEF State
      <4> QED
        BY ONLY <3>1, <4>1, <4>2, <4>3
    <3> QED
      BY <1>3, <2>1, <2>3, <3>2, <3>3
  <2>4. CASE i > k
    <3>1. i \in k + 1..n
      BY <1>2, <1>3, <2>4
    <3>2. PICK u : u = Got(i - 1)
      OBVIOUS
    <3>3. PICK v : v = Got(i)
      OBVIOUS
    <3>4. v = Append(u, tail[i]) /\ u \in Seq(Int)
      BY ONLY <1>6, <3>1, <3>2, <3>3
    <3>5. Where(i - 1) = "VAL" /\ Where(i) = "VAL"
      BY <1>3, <2>1, <2>4
    <3>6. State(i - 1) = At("VAL", hol, u) /\ State(i) = At("VAL", hol, v)
      <4> HIDE DEF Where, Got
      <4> QED
        BY <3>2, <3>3, <3>5
    <3>7. Step(At("VAL", hol, u), tail[i], nocase) = At("VAL", hol, Append(u, tail[i]))
      BY <2>1, <3>4, AtSteps
    <3> HIDE DEF State
    <3> QED
      BY ONLY <3>4, <3>6, <3>7
  <2> QED
    BY <1>3, <2>1, <2>2, <2>3, <2>4
<1>8. State(0) = At("MATCHING", hol, <<>>)
  <2>1. Where(0) = "MATCHING" /\ Got(0) = <<>>
    BY <1>3
  <2> HIDE DEF Where, Got
  <2> QED
    BY <2>1
<1>9. State(n) = IF k <= n THEN At("VAL", hol, SubSeq(tail, k + 1, n)) ELSE At("INTER", hol, <<>>)
  <2>1. CASE k <= n
    <3>1. Where(n) = "VAL"
      BY <1>2, <1>3, <2>1
    <3>2. Got(n) = SubSeq(tail, k + 1, n)
      <4>1. CASE k = n
        <5>1. Got(n) = <<>>
          BY <1>3, <4>1
        <5>2. SubSeq(tail, k + 1, n) = <<>>
          BY <1>1, <1>2, <1>3, <4>1
        <5> QED
          BY <5>1, <5>2
      <4>2. CASE k # n
        BY <1>2, <1>3, <2>1, <4>2
      <4> QED
        BY <4>1, <4>2
    <3> HIDE DEF Where, Got
    <3> QED
      BY <2>1, <3>1, <3>2
  <2>2. CASE ~(k <= n)
    <3>1. Where(n) = "INTER" /\ Got(n) = <<>>
      BY <1>2, <1>3, <2>2
    <3> HIDE DEF Where, Got
    <3> QED
      BY <2>2, <3>1
  <2> QED
    BY <2>1, <2>2
<1>10. f[0] = State(0) /\ f[n] = State(n) /\ \A i \in 1..n : f[i] = State(i) /\ f[i - 1] = State(i - 1)
  <2>1. \A i \in 0..n : f[i] = State(i)
    OBVIOUS
  <2>2. \A i \in 1..n : i \in 0..n /\ i - 1 \in 0..n
    BY <1>2
  <2>3. 0 \in 0..n /\ n \in 0..n
    BY <1>2
  <2> HIDE DEF State, f
  <2> QED
    BY <2>1, <2>2, <2>3
<1> HIDE DEF State, f
<1>11. Runs(f, At("MATCHING", hol, <<>>), tail, nocase)
  BY <1>1, <1>7, <1>8, <1>10 DEF Runs
<1>12. LexFrom(At("MATCHING", hol, <<>>), tail, nocase) = f[Len(tail)]
  <2>1. Len(tail) \in Nat
    BY <1>1, <1>2
  <2> QED
    BY ONLY <1>11, <2>1, RunRight
<1> QED
  BY ONLY <1>1, <1>9, <1>10, <1>12

\* Where a line, short of its newline, takes the lexer.
LEMMA LineLeads ==
  ASSUME NEW line \in Lines, NEW nocase \in BOOLEAN
  PROVE  LET low == NameOf(line, nocase)
             u == (line.head \o line.name) \o line.tail
             e == LexFrom(At("HOL", <<>>, <<>>), u, nocase)
         IN IF line.packages # <<>> /\ Matches(low)
              THEN e = At("VAL", low, line.packages)
              ELSE \E s1, hol, val1 : s1 # "VAL" /\ e = At(s1, hol, val1)
<1>1. PICK head : head = line.head
  OBVIOUS
<1>2. PICK name : name = line.name
  OBVIOUS
<1>3. PICK tail : tail = line.tail
  OBVIOUS
<1>4. PICK low : low = NameOf(line, nocase)
  OBVIOUS
<1>5. /\ head \in Seq(Int) /\ name \in Seq(Int) /\ tail \in Seq(Int)
      /\ \A i \in 1..Len(head) : head[i] = Space
      /\ \A i \in 1..Len(tail) : tail[i] # Newline
      /\ tail # <<>> => name # <<>> /\ tail[1] = Space
  BY <1>1, <1>2, <1>3, TextFacts
<1>6. low \in Seq(Int)
  BY <1>4, NameFacts
<1>7. PICK l : l = At("HOL", <<>>, <<>>)
  OBVIOUS
<1>8. PICK m : m = LexFrom(l, name, nocase)
  OBVIOUS
<1>9. PICK e : e = LexFrom(m, tail, nocase)
  OBVIOUS
<1>10. LexFrom(l, (head \o name) \o tail, nocase) = e
  <2>1. head \o name \in Seq(Int)
    BY <1>5, JoinFacts
  <2>2. LexFrom(l, (head \o name) \o tail, nocase) =
          LexFrom(LexFrom(l, head \o name, nocase), tail, nocase)
    <3>1. PICK q : q = head \o name
      OBVIOUS
    <3>2. q \in Seq(Int) /\ tail \in Seq(Int)
      BY <1>5, <2>1, <3>1
    <3>3. LexFrom(l, q \o tail, nocase) = LexFrom(LexFrom(l, q, nocase), tail, nocase)
      BY ONLY <3>2, LexCompose
    <3> QED
      BY ONLY <3>1, <3>3, Zenon
  <2>3. LexFrom(l, head \o name, nocase) = LexFrom(LexFrom(l, head, nocase), name, nocase)
    BY <1>5, LexCompose
  <2>4. LexFrom(l, head, nocase) = l
    BY <1>5, <1>7, HeadRead
  <2> QED
    BY ONLY <1>8, <1>9, <2>2, <2>3, <2>4
<1>11. CASE name = <<>>
  <2>1. tail = <<>>
    BY <1>5, <1>11
  <2>2. m = l
    BY ONLY <1>8, <1>11, LexNone
  <2>3. e = m
    BY ONLY <1>9, <2>1, LexNone
  <2>4. line.packages = <<>>
    <3>1. PICK k \in 1..Len(line.tail) + 1 : k <= Len(line.tail) <=> line.packages # <<>>
      BY SlashAt
    <3>2. Len(line.tail) = 0
      BY <1>3, <2>1
    <3> QED
      BY <3>1, <3>2
  <2>5. "HOL" # "VAL"
    OBVIOUS
  <2> QED
    BY <1>1, <1>2, <1>3, <1>4, <1>7, <1>10, <2>2, <2>3, <2>4, <2>5
<1>12. CASE name # <<>>
  <2>1. m = At("MATCHING", low, <<>>)
    BY <1>2, <1>4, <1>7, <1>8, <1>12, NameRead
  <2>2. PICK k \in 1..Len(tail) + 1 :
          /\ \A i \in 1..k - 1 : tail[i] # Slash
          /\ k <= Len(tail) => tail[k] = Slash /\ line.packages = SubSeq(tail, k + 1, Len(tail))
          /\ k <= Len(tail) <=> line.packages # <<>>
    BY <1>3, SlashAt
  <2>3. CASE tail = <<>>
    <3>1. e = m
      BY ONLY <1>9, <2>3, LexNone
    <3>2. line.packages = <<>>
      <4>1. Len(tail) = 0
        BY <2>3
      <4> QED
        BY <2>2, <4>1
    <3>3. "MATCHING" # "VAL"
      OBVIOUS
    <3> QED
      BY <1>1, <1>2, <1>3, <1>4, <1>7, <1>10, <2>1, <3>1, <3>2, <3>3
  <2>4. CASE tail # <<>> /\ ~Matches(low)
    <3>1. Len(tail) > 0 /\ tail[1] = Space
      BY <1>5, <2>4
    <3>2. e = At("SINK", low, <<>>)
      BY <1>5, <1>6, <1>9, <2>1, <2>4, <3>1, TailSunk
    <3>3. "SINK" # "VAL"
      OBVIOUS
    <3> QED
      BY <1>1, <1>2, <1>3, <1>4, <1>7, <1>10, <2>4, <3>2, <3>3
  <2>5. CASE tail # <<>> /\ Matches(low)
    <3>1. Len(tail) > 0 /\ tail[1] = Space
      BY <1>5, <2>5
    <3>2. e = IF k <= Len(tail) THEN At("VAL", low, SubSeq(tail, k + 1, Len(tail)))
                                ELSE At("INTER", low, <<>>)
      BY <1>5, <1>6, <1>9, <2>1, <2>2, <2>5, <3>1, TailKept
    <3>3. "INTER" # "VAL"
      OBVIOUS
    <3>4. CASE k <= Len(tail)
      <4>1. e = At("VAL", low, line.packages) /\ line.packages # <<>>
        BY <2>2, <3>2, <3>4
      <4> QED
        BY <1>1, <1>2, <1>3, <1>4, <1>7, <1>10, <2>5, <4>1
    <3>5. CASE ~(k <= Len(tail))
      <4>1. e = At("INTER", low, <<>>) /\ line.packages = <<>>
        BY <2>2, <3>2, <3>5
      <4> QED
        BY <1>1, <1>2, <1>3, <1>4, <1>7, <1>10, <3>3, <4>1
    <3> QED
      BY <3>4, <3>5
  <2> QED
    BY <2>3, <2>4, <2>5
<1> QED
  BY <1>11, <1>12

\* What is printed of a line: its name and its packages, if the name matches.
LEMMA LineRead ==
  ASSUME NEW line \in Lines, NEW nocase \in BOOLEAN
  PROVE  NextShot(TextOf(line), nocase) =
           IF line.packages # <<>> /\ Matches(NameOf(line, nocase))
             THEN <<[name |-> NameOf(line, nocase), packages |-> line.packages]>> ELSE <<>>
<1>1. PICK u : u = (line.head \o line.name) \o line.tail
  OBVIOUS
<1>2. PICK low : low = NameOf(line, nocase)
  OBVIOUS
<1>3. PICK packages : packages = line.packages
  OBVIOUS
<1>4. PICK l : l = At("HOL", <<>>, <<>>)
  OBVIOUS
<1>5. PICK e : e = LexFrom(l, u, nocase)
  OBVIOUS
<1>6. u \in Seq(Int)
  <2>1. /\ line.head \in Seq(Int) /\ line.name \in Seq(Int) /\ line.tail \in Seq(Int)
    BY TextFacts
  <2>2. line.head \o line.name \in Seq(Int)
    BY <2>1, JoinFacts
  <2> QED
    BY <1>1, <2>1, <2>2, JoinFacts
<1>7. NextShot(TextOf(line), nocase) = EndOfLine(e).printed
  <2>1. TextOf(line) = u \o <<Newline>>
    BY <1>1 DEF TextOf
  <2>2. Fresh(TRUE) = l
    BY <1>4, Zenon DEF Fresh, At
  <2>3. l \in LexStates
    <3>1. <<>> \in Seq(Int)
      OBVIOUS
    <3> QED
      BY <1>4, <3>1, AtState
  <2>4. LexFrom(l, u \o <<Newline>>, nocase) = EndOfLine(e)
    BY <1>5, <1>6, <2>3, LexLine
  <2>5. NextShot(TextOf(line), nocase) = LexFrom(Fresh(TRUE), TextOf(line), nocase).printed
    BY Zenon DEF NextShot, LexContent
  <2> QED
    BY ONLY <2>1, <2>2, <2>4, <2>5, Zenon
<1>8. CASE packages # <<>> /\ Matches(low)
  <2>1. e = At("VAL", low, packages)
    BY <1>1, <1>2, <1>3, <1>4, <1>5, <1>8, LineLeads
  <2>2. EndOfLine(At("VAL", low, packages)).printed = <<[name |-> low, packages |-> packages]>>
    BY AtNewline
  <2> QED
    BY ONLY <1>2, <1>3, <1>7, <1>8, <2>1, <2>2, Zenon
<1>9. CASE ~(packages # <<>> /\ Matches(low))
  <2>1. PICK s1, hol, val1 : s1 # "VAL" /\ e = At(s1, hol, val1)
    BY <1>1, <1>2, <1>3, <1>4, <1>5, <1>9, LineLeads
  <2>2. EndOfLine(At(s1, hol, val1)).printed = <<>>
    BY <2>1, AtNewline
  <2>3. NextShot(TextOf(line), nocase) = <<>>
    BY ONLY <1>7, <2>1, <2>2, Zenon
  <2> QED
    BY ONLY <1>2, <1>3, <1>9, <2>3, Zenon
<1> QED
  BY <1>8, <1>9

\* With one search term, lex_content() prints of a file past its header the lines whose
\* name contains the term and that give packages, in their order, each with its own
\* packages, and nothing else: of every line that, whatever stands behind it.
THEOREM LinesCorrect == Spec => []LinesFound
<1>1. ASSUME IInv, TablesInv PROVE LinesFound
  <2> SUFFICES ASSUME Ready, bmg.ptr = "set", NEW line \in Lines,
                      NEW rest \in Texted(Lines) \cup {<<>>}, NEW nocase \in BOOLEAN
               PROVE  NextShot(TextOf(line) \o rest, nocase) =
                        Wanted(line, nocase) \o NextShot(rest, nocase)
    BY DEF LinesFound
  <2>1. PICK t : t = TextOf(line)
    OBVIOUS
  <2>2. PICK low : low = NameOf(line, nocase)
    OBVIOUS
  <2>3. t \in Seq(Int) /\ Whole(t)
    <3>1. t \in Texted(Lines)
      BY <2>1 DEF Texted
    <3> QED
      BY <3>1, TextsAreLines, LinesAreWhole
  <2>4. rest \in Seq(Int)
    <3>1. CASE rest \in Texted(Lines)
      BY <3>1, TextsAreLines, LinesAreWhole
    <3>2. CASE rest = <<>>
      BY <3>2
    <3> QED
      BY <3>1, <3>2
  <2>5. NextShot(t \o rest, nocase) = NextShot(t, nocase) \o NextShot(rest, nocase)
    BY <2>3, <2>4, NextShotSplits
  <2>6. Matches(low) <=> Occurs(bmg.match, low)
    <3>1. low \in Seq(Int)
      BY <2>2, NameFacts
    <3>2. MatchAgainst(low) = IF Occurs(bmg.match, low) THEN bmg.val ELSE NoObject
      BY <1>1, <3>1, SoleFound
    <3>3. bmg.val # NoObject
      BY <1>1 DEF IInv, PathInv
    <3> QED
      BY ONLY <3>2, <3>3 DEF Matches
  <2>7. NextShot(t, nocase) = Wanted(line, nocase)
    <3>1. NextShot(t, nocase) =
            IF line.packages # <<>> /\ Matches(low)
              THEN <<[name |-> low, packages |-> line.packages]>> ELSE <<>>
      BY ONLY <2>1, <2>2, LineRead
    <3>2. Wanted(line, nocase) =
            IF line.packages # <<>> /\ Occurs(bmg.match, low)
              THEN <<[name |-> low, packages |-> line.packages]>> ELSE <<>>
      BY <2>2, Zenon DEF Wanted, NameOf
    <3> QED
      BY ONLY <2>6, <3>1, <3>2
  <2> QED
    BY ONLY <2>1, <2>5, <2>7, Zenon
<1> QED
  BY <1>1, IInvHolds, TablesHold, PTL
=============================================================================
