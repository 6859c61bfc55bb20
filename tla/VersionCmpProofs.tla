--------------------------- MODULE VersionCmpProofs ---------------------------
(***************************************************************************)
(* Proofs about debcmp() for strings of any length: where it does not run  *)
(* off the strings' ends, swapping the arguments swaps the answer's sign,  *)
(* the order it gives has no cycles, and of two legal versions without     *)
(* leading zeros and without a written epoch of zero it never puts first   *)
(* what deb-version(5) puts last.                                          *)
(*                                                                         *)
(* debcmp() looks for the first offset at which it can tell two strings    *)
(* apart, or reaches a digit, and decides there.  So the first two are shown *)
(* as of a lexicographic order: of three strings, take the smaller of the  *)
(* offsets at which the first and the third part with the second.          *)
(*                                                                         *)
(* A legal version begins with a digit behind its epoch, so that debcmp()  *)
(* compares at the first offset, and counts digits where deb-version(5)    *)
(* compares numbers: without leading zeros the longer numeral is the larger *)
(* number (LongerIsMore, by the values of its beginnings).  The number is in *)
(* the first pair of parts, and pairs behind the first that differs do not *)
(* count.  The three properties of VersionOrder follow for every string that *)
(* its next-state relation can grow.                                       *)
(***************************************************************************)
EXTENDS VersionOrder, FiniteSetTheorems, TLAPS

\* Strings of characters.  C's char may be negative.
Str == Seq(Int \ {NUL})

\* What debcmp() reads k characters behind the epoch, and the digits from there on.
Rest(s, k) == CharAt(s, AfterEpoch(s) + k)
Run(s, k) == DigitRun(s, AfterEpoch(s) + k)

\* The decision at offset k.
Verdict(s, t, k) ==
  IF IsDigit(Rest(s, k)) \/ IsDigit(Rest(t, k))
    THEN CASE Run(s, k) > Run(t, k) -> 1 [] Run(s, k) < Run(t, k) -> -1 [] OTHER -> 0
    ELSE Debccmp(Rest(s, k), Rest(t, k))

-----------------------------------------------------------------------------
(* The first offset.                                                        *)

\* A set of naturals that is not empty has a least element.
LEMMA LeastOfNaturals ==
  ASSUME NEW T \in SUBSET Nat, T # {}
  PROVE  /\ Least(T) \in T /\ Least(T) \in Nat
         /\ \A k \in T : Least(T) <= k
<1> DEFINE Below == {1..n : n \in T}
<1>1. Below \subseteq FiniteSubsetsOf(Nat) /\ Below # {}
  <2>1. \A n \in T : n \in Int /\ 1..n \in SUBSET Nat
    OBVIOUS
  <2>2. \A n \in T : IsFiniteSet(1..n)
    BY <2>1, FS_Interval
  <2>3. \A n \in T : 1..n \in FiniteSubsetsOf(Nat)
    BY <2>1, <2>2 DEF FiniteSubsetsOf
  <2> QED
    BY <2>3
<1>2. PICK low \in Below : \A other \in Below : <<other, low>> \notin StrictSubsetOrdering(Nat)
  <2> HIDE DEF Below
  <2> QED
    BY <1>1, FS_StrictSubsetOrderingWellFounded, WFMin
<1>3. PICK n \in T : low = 1..n
  OBVIOUS
<1>4. ASSUME NEW k \in T, k < n PROVE FALSE
  <2>1. /\ 1..k \in SUBSET Nat /\ 1..n \in SUBSET Nat /\ 1..k \subseteq 1..n
        /\ n \in 1..n /\ n \notin 1..k
    BY <1>4
  <2>2. <<1..k, 1..n>> \in StrictSubsetOrdering(Nat)
    BY <2>1 DEF StrictSubsetOrdering
  <2> QED
    BY <1>2, <1>3, <2>2
<1>5. \A k \in T : n <= k
  BY <1>4
<1> QED
  BY <1>5 DEF Least

LEMMA CharFacts ==
  ASSUME NEW s \in Str, NEW i \in Nat \ {0}
  PROVE  /\ Len(s) \in Nat /\ CharAt(s, i) \in Int
         /\ CharAt(s, i) = NUL <=> i > Len(s)
         /\ ~IsDigit(NUL)
  BY DEF Str, CharAt, NUL, IsDigit

\* The digits from a place on: as many as there are.
LEMMA RunFacts ==
  ASSUME NEW s \in Str, NEW i \in Nat \ {0}
  PROVE  /\ DigitRun(s, i) \in Nat
         /\ ~IsDigit(CharAt(s, i + DigitRun(s, i)))
         /\ \A n \in 0..DigitRun(s, i) - 1 : IsDigit(CharAt(s, i + n))
         /\ DigitRun(s, i) = 0 <=> ~IsDigit(CharAt(s, i))
<1> DEFINE Stop == {n \in 0..Len(s) : ~IsDigit(CharAt(s, i + n))}
<1>1. Len(s) \in Nat /\ CharAt(s, i + Len(s)) = NUL /\ ~IsDigit(NUL) /\ i + 0 = i
  <2>1. Len(s) \in Nat
    BY CharFacts
  <2>2. i + Len(s) \in Nat \ {0} /\ i + Len(s) > Len(s)
    BY <2>1
  <2> QED
    BY <2>1, <2>2, CharFacts
<1>2. Stop \in SUBSET Nat /\ Len(s) \in Stop
  BY <1>1
<1>3. DigitRun(s, i) = Least(Stop)
  BY DEF DigitRun
<1>4. /\ DigitRun(s, i) \in Stop /\ DigitRun(s, i) \in Nat
      /\ \A n \in Stop : DigitRun(s, i) <= n
  <2> HIDE DEF Stop
  <2> QED
    BY <1>2, <1>3, LeastOfNaturals
<1>5. \A n \in 0..DigitRun(s, i) - 1 : IsDigit(CharAt(s, i + n))
  BY <1>1, <1>4
<1>6. DigitRun(s, i) = 0 <=> ~IsDigit(CharAt(s, i))
  <2>1. ASSUME ~IsDigit(CharAt(s, i)) PROVE DigitRun(s, i) = 0
    <3>1. 0 \in Stop
      BY <1>1, <2>1
    <3> QED
      BY <1>4, <3>1
  <2>2. ASSUME DigitRun(s, i) = 0 PROVE ~IsDigit(CharAt(s, i))
    BY <1>1, <1>4, <2>2
  <2> QED
    BY <2>1, <2>2
<1> QED
  BY <1>4, <1>5, <1>6

LEMMA RestFacts ==
  ASSUME NEW s \in Str, NEW k \in Nat
  PROVE  /\ AfterEpoch(s) \in Nat \ {0} /\ Len(s) \in Nat
         /\ Rest(s, k) \in Int /\ Run(s, k) \in Nat
         /\ Run(s, k) = 0 <=> ~IsDigit(Rest(s, k))
         /\ Rest(s, k) = NUL <=> AfterEpoch(s) + k > Len(s)
<1>1. DigitRun(s, 1) \in Nat
  BY RunFacts
<1>2. AfterEpoch(s) \in Nat \ {0}
  BY <1>1 DEF AfterEpoch
<1>3. AfterEpoch(s) + k \in Nat \ {0}
  BY <1>2
<1> QED
  BY <1>2, <1>3, CharFacts, RunFacts DEF Rest, Run

-----------------------------------------------------------------------------
(* One character, one offset.                                               *)

\* debccmp() orders the characters, and tells any two apart.
LEMMA CharOrder ==
  ASSUME NEW c \in Int, NEW d \in Int
  PROVE  /\ Debccmp(c, d) \in Int
         /\ Debccmp(c, d) = 0 <=> c = d
         /\ Debccmp(c, d) < 0 <=> Debccmp(d, c) > 0
  BY DEF Debccmp, Tilde

LEMMA CharTransitive ==
  ASSUME NEW c \in Int, NEW d \in Int, NEW e \in Int,
         Debccmp(c, d) < 0, Debccmp(d, e) < 0
  PROVE  Debccmp(c, e) < 0
  BY DEF Debccmp, Tilde, IsAlpha

\* A decision at one offset is an order of what is found there; where nothing is
\* decided although the walk stops, there are as many digits on both sides.
LEMMA VerdictFacts ==
  ASSUME NEW s \in Str, NEW t \in Str, NEW k \in Nat
  PROVE  /\ Verdict(s, t, k) \in Int
         /\ Verdict(s, t, k) < 0 <=> Verdict(t, s, k) > 0
         /\ Ends(s, t, k) <=> Ends(t, s, k)
         /\ ~Ends(s, t, k) => Rest(s, k) = Rest(t, k) /\ ~IsDigit(Rest(s, k))
         /\ Ends(s, t, k) <=> IsDigit(Rest(s, k)) \/ Rest(s, k) # Rest(t, k)
<1>1. /\ Rest(s, k) \in Int /\ Rest(t, k) \in Int /\ Run(s, k) \in Nat /\ Run(t, k) \in Nat
  BY RestFacts
<1>2. /\ Debccmp(Rest(s, k), Rest(t, k)) \in Int /\ Debccmp(Rest(t, k), Rest(s, k)) \in Int
      /\ Debccmp(Rest(s, k), Rest(t, k)) = 0 <=> Rest(s, k) = Rest(t, k)
      /\ Debccmp(Rest(t, k), Rest(s, k)) = 0 <=> Rest(s, k) = Rest(t, k)
      /\ Debccmp(Rest(s, k), Rest(t, k)) < 0 <=> Debccmp(Rest(t, k), Rest(s, k)) > 0
  BY <1>1, CharOrder
<1>3. /\ Ends(s, t, k) <=> IsDigit(Rest(s, k)) \/ IsDigit(Rest(t, k))
                             \/ Debccmp(Rest(s, k), Rest(t, k)) # 0
      /\ Ends(t, s, k) <=> IsDigit(Rest(t, k)) \/ IsDigit(Rest(s, k))
                             \/ Debccmp(Rest(t, k), Rest(s, k)) # 0
  BY DEF Ends, Rest
<1>4. Ends(s, t, k) <=> IsDigit(Rest(s, k)) \/ Rest(s, k) # Rest(t, k)
  <2>1. CASE Rest(s, k) = Rest(t, k)
    BY <1>2, <1>3, <2>1
  <2>2. CASE Rest(s, k) # Rest(t, k)
    BY <1>2, <1>3, <2>2
  <2> QED
    BY <2>1, <2>2
<1>5. Verdict(s, t, k) \in Int /\ (Verdict(s, t, k) < 0 <=> Verdict(t, s, k) > 0)
  <2>1. CASE IsDigit(Rest(s, k)) \/ IsDigit(Rest(t, k))
    BY <1>1, <2>1 DEF Verdict
  <2>2. CASE ~(IsDigit(Rest(s, k)) \/ IsDigit(Rest(t, k)))
    BY <1>2, <2>2 DEF Verdict
  <2> QED
    BY <2>1, <2>2
<1> QED
  BY <1>2, <1>3, <1>4, <1>5

\* Three strings that part at one offset, or the outer two of them.
LEMMA VerdictTransitive ==
  ASSUME NEW s \in Str, NEW t \in Str, NEW u \in Str, NEW k \in Nat,
         Ends(s, t, k), Ends(t, u, k), Verdict(s, t, k) <= 0, Verdict(t, u, k) <= 0
  PROVE  /\ Ends(s, u, k) /\ Verdict(s, u, k) <= 0
         /\ Verdict(s, t, k) < 0 \/ Verdict(t, u, k) < 0 => Verdict(s, u, k) < 0
<1>1. /\ Rest(s, k) \in Int /\ Rest(t, k) \in Int /\ Rest(u, k) \in Int
      /\ Run(s, k) \in Nat /\ Run(t, k) \in Nat /\ Run(u, k) \in Nat
      /\ Run(s, k) = 0 <=> ~IsDigit(Rest(s, k))
      /\ Run(t, k) = 0 <=> ~IsDigit(Rest(t, k))
      /\ Run(u, k) = 0 <=> ~IsDigit(Rest(u, k))
  BY RestFacts
<1>2. /\ Ends(s, u, k) <=> IsDigit(Rest(s, k)) \/ Rest(s, k) # Rest(u, k)
      /\ Ends(s, t, k) <=> IsDigit(Rest(s, k)) \/ Rest(s, k) # Rest(t, k)
      /\ Ends(t, u, k) <=> IsDigit(Rest(t, k)) \/ Rest(t, k) # Rest(u, k)
  BY VerdictFacts
<1>3. CASE IsDigit(Rest(t, k))
  <2>1. /\ Run(s, k) <= Run(t, k) /\ Run(t, k) <= Run(u, k) /\ IsDigit(Rest(u, k))
        /\ Verdict(s, t, k) < 0 => Run(s, k) < Run(t, k)
        /\ Verdict(t, u, k) < 0 => Run(t, k) < Run(u, k)
    BY <1>1, <1>3 DEF Verdict
  <2>2. Rest(s, k) = Rest(u, k) => IsDigit(Rest(s, k))
    BY <2>1
  <2> QED
    BY <1>1, <1>2, <2>1, <2>2 DEF Verdict
<1>4. CASE ~IsDigit(Rest(t, k))
  <2>1. ~IsDigit(Rest(s, k)) /\ Verdict(s, t, k) = Debccmp(Rest(s, k), Rest(t, k))
    BY <1>1, <1>4 DEF Verdict
  <2>2. Debccmp(Rest(s, k), Rest(t, k)) < 0
    <3>1. Rest(s, k) # Rest(t, k)
      BY <1>2, <2>1
    <3>2. Debccmp(Rest(s, k), Rest(t, k)) \in Int /\ Debccmp(Rest(s, k), Rest(t, k)) # 0
      BY <1>1, <3>1, CharOrder
    <3>3. Debccmp(Rest(s, k), Rest(t, k)) <= 0
      BY <2>1
    <3> QED
      BY <3>2, <3>3
  <2>3. CASE IsDigit(Rest(u, k))
    BY <1>1, <1>2, <2>1, <2>3 DEF Verdict
  <2>4. CASE ~IsDigit(Rest(u, k))
    <3>1. Verdict(t, u, k) = Debccmp(Rest(t, k), Rest(u, k))
      BY <1>4, <2>4 DEF Verdict
    <3>2. Debccmp(Rest(t, k), Rest(u, k)) < 0
      <4>1. Rest(t, k) # Rest(u, k)
        BY <1>2, <1>4
      <4>2. Debccmp(Rest(t, k), Rest(u, k)) \in Int /\ Debccmp(Rest(t, k), Rest(u, k)) # 0
        BY <1>1, <4>1, CharOrder
      <4>3. Debccmp(Rest(t, k), Rest(u, k)) <= 0
        BY <3>1
      <4> QED
        BY <4>2, <4>3
    <3>3. Debccmp(Rest(s, k), Rest(u, k)) < 0
      BY <1>1, <2>2, <3>2, CharTransitive
    <3>4. Rest(s, k) # Rest(u, k)
      BY <1>1, <3>3, CharOrder
    <3>5. Verdict(s, u, k) = Debccmp(Rest(s, k), Rest(u, k))
      BY <2>1, <2>4 DEF Verdict
    <3>6. Debccmp(Rest(s, k), Rest(u, k)) \in Int
      BY <1>1, CharOrder
    <3>7. Verdict(s, u, k) < 0 /\ Verdict(s, u, k) <= 0
      BY <3>3, <3>5, <3>6
    <3> QED
      BY <1>2, <3>4, <3>7
  <2> QED
    BY <2>3, <2>4
<1> QED
  BY <1>3, <1>4

\* The offset at which debcmp() stops is the first one at which it could.
LEMMA FirstStop ==
  ASSUME NEW s \in Str, NEW t \in Str, NEW k \in Nat, Ends(s, t, k),
         \A j \in 0..k - 1 : ~Ends(s, t, j)
  PROVE  /\ k \in Stops(s, t) /\ Least(Stops(s, t)) = k
         /\ RestCmp(s, t) = Verdict(s, t, k)
<1>1. /\ Len(s) \in Nat /\ Len(t) \in Nat
      /\ AfterEpoch(s) \in Nat \ {0} /\ AfterEpoch(t) \in Nat \ {0}
      /\ Rest(s, k) = NUL <=> AfterEpoch(s) + k > Len(s)
      /\ Rest(t, k) = NUL <=> AfterEpoch(t) + k > Len(t)
      /\ Rest(s, Len(s)) = NUL <=> AfterEpoch(s) + Len(s) > Len(s)
      /\ Rest(t, Len(s)) = NUL <=> AfterEpoch(t) + Len(s) > Len(t)
  <2>1. Len(s) \in Nat
    BY RestFacts
  <2> QED
    BY <2>1, RestFacts
<1>2. ASSUME k > Len(s) PROVE FALSE
  <2>1. Rest(s, Len(s)) = NUL /\ Rest(s, k) = NUL /\ ~IsDigit(NUL)
    BY <1>1, <1>2 DEF NUL, IsDigit
  <2>2. ~Ends(s, t, Len(s))
    BY <1>1, <1>2
  <2>3. Rest(t, Len(s)) = NUL
    BY <1>1, <2>1, <2>2, VerdictFacts
  <2>4. Rest(t, k) = NUL
    BY <1>1, <1>2, <2>3
  <2> QED
    BY <2>1, <2>4, VerdictFacts
<1>3. k \in Stops(s, t) /\ Stops(s, t) \in SUBSET Nat /\ \A j \in Stops(s, t) : Ends(s, t, j)
  BY <1>1, <1>2 DEF Stops
<1>4. /\ Least(Stops(s, t)) \in Stops(s, t) /\ Least(Stops(s, t)) \in Nat
      /\ Least(Stops(s, t)) <= k
  BY <1>3, LeastOfNaturals
<1>5. Least(Stops(s, t)) = k
  BY <1>3, <1>4
<1>6. RestCmp(s, t) = Verdict(s, t, k)
  BY <1>5 DEF RestCmp, Verdict, Rest, Run
<1> QED
  BY <1>3, <1>5, <1>6

LEMMA StopFacts ==
  ASSUME NEW s \in Str, NEW t \in Str, Stops(s, t) # {}
  PROVE  \E k \in Nat :
           /\ k = Least(Stops(s, t)) /\ Ends(s, t, k)
           /\ \A j \in 0..k - 1 : ~Ends(s, t, j) /\ ~Ends(t, s, j)
           /\ RestCmp(s, t) = Verdict(s, t, k)
<1>1. Len(s) \in Nat /\ Stops(s, t) \in SUBSET Nat
  <2>1. Len(s) \in Nat
    BY RestFacts
  <2> QED
    BY <2>1 DEF Stops
<1>2. PICK k \in Nat : k = Least(Stops(s, t)) /\ k \in Stops(s, t) /\ \A j \in Stops(s, t) : k <= j
  BY <1>1, LeastOfNaturals
<1>3. Ends(s, t, k) /\ k \in 0..Len(s)
  BY <1>2 DEF Stops
<1>4. ASSUME NEW j \in 0..k - 1 PROVE ~Ends(s, t, j) /\ ~Ends(t, s, j)
  <2>1. j \in Nat /\ j \in 0..Len(s) /\ ~(k <= j)
    BY <1>1, <1>3
  <2>2. j \notin Stops(s, t)
    BY <1>2, <2>1
  <2> QED
    BY <2>1, <2>2, VerdictFacts DEF Stops
<1> QED
  BY <1>2, <1>3, <1>4, FirstStop

\* Behind the epochs: the sign turns with the arguments, and so does the overrun.
LEMMA RestAntisymmetric ==
  ASSUME NEW s \in Str, NEW t \in Str, Stops(s, t) # {}
  PROVE  /\ Stops(t, s) # {} /\ RestCmp(s, t) \in Int /\ RestCmp(t, s) \in Int
         /\ RestCmp(s, t) < 0 <=> RestCmp(t, s) > 0
         /\ RestCmp(s, t) > 0 <=> RestCmp(t, s) < 0
<1>1. PICK k \in Nat : /\ Ends(s, t, k) /\ RestCmp(s, t) = Verdict(s, t, k)
                       /\ \A j \in 0..k - 1 : ~Ends(t, s, j)
  BY StopFacts
<1>2. k \in Stops(t, s) /\ RestCmp(t, s) = Verdict(t, s, k)
  BY <1>1, FirstStop, VerdictFacts
<1> QED
  BY <1>1, <1>2, VerdictFacts

LEMMA RestTransitive ==
  ASSUME NEW s \in Str, NEW t \in Str, NEW u \in Str,
         Stops(s, t) # {}, Stops(t, u) # {}, RestCmp(s, t) <= 0, RestCmp(t, u) <= 0
  PROVE  /\ Stops(s, u) # {} /\ RestCmp(s, u) <= 0
         /\ RestCmp(s, t) < 0 \/ RestCmp(t, u) < 0 => RestCmp(s, u) < 0
<1>1. PICK k \in Nat : /\ Ends(s, t, k) /\ RestCmp(s, t) = Verdict(s, t, k)
                       /\ \A j \in 0..k - 1 : ~Ends(s, t, j)
  BY StopFacts
<1>2. PICK m \in Nat : /\ Ends(t, u, m) /\ RestCmp(t, u) = Verdict(t, u, m)
                       /\ \A j \in 0..m - 1 : ~Ends(t, u, j)
  BY StopFacts
<1>3. ASSUME NEW j \in Nat, j < k, j < m
      PROVE  /\ ~Ends(s, u, j)
             /\ Rest(s, j) = Rest(t, j) /\ Rest(t, j) = Rest(u, j) /\ ~IsDigit(Rest(s, j))
  <2>1. ~Ends(s, t, j) /\ ~Ends(t, u, j)
    BY <1>1, <1>2, <1>3
  <2> QED
    BY <2>1, VerdictFacts
<1>4. CASE k = m
  <2>1. Ends(s, u, k) /\ Verdict(s, u, k) <= 0
        /\ (Verdict(s, t, k) < 0 \/ Verdict(t, u, k) < 0 => Verdict(s, u, k) < 0)
    BY <1>1, <1>2, <1>4, VerdictTransitive
  <2>2. \A j \in 0..k - 1 : ~Ends(s, u, j)
    BY <1>3, <1>4
  <2>3. k \in Stops(s, u) /\ RestCmp(s, u) = Verdict(s, u, k)
    BY <2>1, <2>2, FirstStop
  <2> QED
    BY <1>1, <1>2, <1>4, <2>1, <2>3
<1>5. CASE k < m
  <2>1. ~Ends(t, u, k) /\ Rest(t, k) = Rest(u, k) /\ ~IsDigit(Rest(t, k)) /\ ~IsDigit(Rest(u, k))
    BY <1>2, <1>5, VerdictFacts
  <2>2. Run(t, k) = 0 /\ Run(u, k) = 0 /\ Run(s, k) \in Nat
    BY <2>1, RestFacts
  <2>3. Verdict(s, u, k) = Verdict(s, t, k)
    BY <2>1, <2>2 DEF Verdict
  <2>4. Ends(s, u, k)
    BY <1>1, <2>1, VerdictFacts
  <2>5. \A j \in 0..k - 1 : ~Ends(s, u, j)
    BY <1>3, <1>5
  <2>6. k \in Stops(s, u) /\ RestCmp(s, u) = Verdict(s, t, k)
    BY <2>3, <2>4, <2>5, FirstStop
  <2>7. Verdict(s, t, k) < 0
    <3>1. CASE IsDigit(Rest(s, k))
      <4>1. Run(s, k) # 0
        BY <3>1, RestFacts
      <4> QED
        BY <1>1, <2>2, <3>1, <4>1 DEF Verdict
    <3>2. CASE ~IsDigit(Rest(s, k))
      <4>1. Verdict(s, t, k) = Debccmp(Rest(s, k), Rest(t, k))
        BY <2>1, <3>2 DEF Verdict
      <4>2. Rest(s, k) # Rest(t, k) /\ Rest(s, k) \in Int /\ Rest(t, k) \in Int
        BY <1>1, <3>2, VerdictFacts, RestFacts
      <4>3. Verdict(s, t, k) \in Int /\ Verdict(s, t, k) # 0
        BY <4>1, <4>2, CharOrder
      <4> QED
        BY <1>1, <4>3
    <3> QED
      BY <3>1, <3>2
  <2>8. Verdict(s, t, k) <= 0
    BY <1>1
  <2> QED
    BY <2>6, <2>7, <2>8
<1>6. CASE m < k
  <2>1. ~Ends(s, t, m) /\ Rest(s, m) = Rest(t, m) /\ ~IsDigit(Rest(s, m)) /\ ~IsDigit(Rest(t, m))
    BY <1>1, <1>6, VerdictFacts
  <2>2. Run(t, m) = 0 /\ Run(s, m) = 0 /\ Run(u, m) \in Nat
    BY <2>1, RestFacts
  <2>3. Verdict(s, u, m) = Verdict(t, u, m)
    BY <2>1, <2>2 DEF Verdict
  <2>4. Ends(s, u, m)
    BY <1>2, <2>1, VerdictFacts
  <2>5. \A j \in 0..m - 1 : ~Ends(s, u, j)
    BY <1>3, <1>6
  <2>6. m \in Stops(s, u) /\ RestCmp(s, u) = Verdict(t, u, m)
    BY <2>3, <2>4, <2>5, FirstStop
  <2>7. Verdict(t, u, m) < 0
    <3>1. CASE IsDigit(Rest(u, m))
      <4>1. Run(u, m) # 0
        BY <3>1, RestFacts
      <4> QED
        BY <1>2, <2>2, <3>1, <4>1 DEF Verdict
    <3>2. CASE ~IsDigit(Rest(u, m))
      <4>1. Verdict(t, u, m) = Debccmp(Rest(t, m), Rest(u, m))
        BY <2>1, <3>2 DEF Verdict
      <4>2. Rest(t, m) # Rest(u, m) /\ Rest(t, m) \in Int /\ Rest(u, m) \in Int
        BY <1>2, <2>1, VerdictFacts, RestFacts
      <4>3. Verdict(t, u, m) \in Int /\ Verdict(t, u, m) # 0
        BY <4>1, <4>2, CharOrder
      <4> QED
        BY <1>2, <4>3
    <3> QED
      BY <3>1, <3>2
  <2>8. Verdict(t, u, m) <= 0
    BY <1>2
  <2> QED
    BY <2>6, <2>7, <2>8
<1> QED
  BY <1>4, <1>5, <1>6

-----------------------------------------------------------------------------
(* Epochs.                                                                  *)

Epoch(s) == DigitRun(s, 1)
SameEpoch(s, t) == Epoch(s) = Epoch(t) /\ \A i \in 1..Epoch(s) : s[i] = t[i]

\* Two epochs of one length part at place i.
Parts(s, t, i) ==
  /\ Epoch(s) = Epoch(t) /\ i \in 1..Epoch(s) /\ s[i] # t[i]
  /\ \A j \in 1..i - 1 : s[j] = t[j]

LEMMA EpochDigits ==
  ASSUME NEW s \in Str
  PROVE  Epoch(s) \in Nat /\ \A i \in 1..Epoch(s) : s[i] \in Int
<1>1. Epoch(s) \in Nat /\ Len(s) \in Nat
  BY RunFacts, CharFacts DEF Epoch
<1>2. ASSUME NEW i \in 1..Epoch(s) PROVE s[i] \in Int
  <2>1. i - 1 \in 0..DigitRun(s, 1) - 1 /\ i \in Nat \ {0} /\ 1 + (i - 1) = i
    BY <1>1 DEF Epoch
  <2>2. IsDigit(CharAt(s, 1 + (i - 1)))
    BY <2>1, RunFacts
  <2>3. IsDigit(CharAt(s, i)) /\ CharAt(s, i) \in Int
    BY <2>1, <2>2, CharFacts
  <2>4. i <= Len(s)
    BY <1>1, <2>1, <2>3, CharFacts
  <2> QED
    BY <2>3, <2>4 DEF CharAt
<1> QED
  BY <1>1, <1>2

\* What EpochCmp() decides by.
LEMMA EpochCases ==
  ASSUME NEW s \in Str, NEW t \in Str
  PROVE  /\ Epoch(s) > Epoch(t) => EpochCmp(s, t) = 1
         /\ Epoch(s) < Epoch(t) => EpochCmp(s, t) = -1
         /\ SameEpoch(s, t) => EpochCmp(s, t) = 0
         /\ \A i : Parts(s, t, i) => EpochCmp(s, t) = IF s[i] < t[i] THEN -1 ELSE 1
         /\ Epoch(s) = Epoch(t) => SameEpoch(s, t) \/ \E i \in Nat : Parts(s, t, i)
<1> DEFINE differ == {i \in 1..Epoch(s) : s[i] # t[i]}
<1>1. Epoch(s) \in Nat /\ Epoch(t) \in Nat /\ differ \in SUBSET Nat
  BY EpochDigits
<1>2. EpochCmp(s, t) = CASE Epoch(s) > Epoch(t) -> 1
                         [] Epoch(s) < Epoch(t) -> -1
                         [] Epoch(s) = Epoch(t) /\ differ = {} -> 0
                         [] Epoch(s) = Epoch(t) /\ differ # {} ->
                              IF s[Least(differ)] < t[Least(differ)] THEN -1 ELSE 1
  BY DEF EpochCmp, Epoch
<1>3. ASSUME NEW i, Parts(s, t, i)
      PROVE  EpochCmp(s, t) = IF s[i] < t[i] THEN -1 ELSE 1
  <2>1. i \in differ /\ i \in Nat /\ \A j \in differ : i <= j
    BY <1>1, <1>3 DEF Parts
  <2>2. Least(differ) \in differ /\ Least(differ) \in Nat /\ Least(differ) <= i
    <3> HIDE DEF differ
    <3> QED
      BY <1>1, <2>1, LeastOfNaturals
  <2>3. i <= Least(differ)
    BY <2>1, <2>2
  <2>4. i = Least(differ) /\ Epoch(s) = Epoch(t) /\ differ # {}
    BY <1>3, <2>1, <2>2, <2>3 DEF Parts
  <2> HIDE DEF differ
  <2> QED
    BY <1>1, <1>2, <2>4
<1>4. ASSUME Epoch(s) = Epoch(t), ~SameEpoch(s, t)
      PROVE  \E i \in Nat : Parts(s, t, i)
  <2>1. differ # {}
    BY <1>4 DEF SameEpoch
  <2>2. PICK i \in Nat : i \in differ /\ \A j \in differ : i <= j
    <3> HIDE DEF differ
    <3> QED
      BY <1>1, <2>1, LeastOfNaturals
  <2>3. \A j \in 1..i - 1 : s[j] = t[j]
    BY <1>1, <2>2
  <2> QED
    BY <1>4, <2>2, <2>3 DEF Parts
<1>5. SameEpoch(s, t) => Epoch(s) = Epoch(t) /\ differ = {}
  BY DEF SameEpoch
<1>6. /\ Epoch(s) > Epoch(t) => EpochCmp(s, t) = 1
      /\ Epoch(s) < Epoch(t) => EpochCmp(s, t) = -1
      /\ SameEpoch(s, t) => EpochCmp(s, t) = 0
  <2> HIDE DEF differ
  <2> QED
    BY <1>1, <1>2, <1>5
<1> QED
  BY <1>3, <1>4, <1>6

LEMMA EpochAntisymmetric ==
  ASSUME NEW s \in Str, NEW t \in Str
  PROVE  /\ EpochCmp(s, t) \in {-1, 0, 1} /\ EpochCmp(t, s) = -EpochCmp(s, t)
         /\ EpochCmp(s, t) = 0 <=> SameEpoch(s, t)
<1>1. Epoch(s) \in Nat /\ Epoch(t) \in Nat
  BY EpochDigits
<1>2. CASE Epoch(s) # Epoch(t)
  BY <1>1, <1>2, EpochCases DEF SameEpoch
<1>3. CASE SameEpoch(s, t)
  <2>1. SameEpoch(t, s)
    BY <1>3 DEF SameEpoch
  <2> QED
    BY <1>3, <2>1, EpochCases
<1>4. ASSUME NEW i \in Nat, Parts(s, t, i)
      PROVE  /\ EpochCmp(s, t) \in {-1, 1} /\ EpochCmp(t, s) = -EpochCmp(s, t)
             /\ ~SameEpoch(s, t)
  <2>1. Parts(t, s, i) /\ s[i] \in Int /\ t[i] \in Int /\ s[i] # t[i] /\ ~SameEpoch(s, t)
    BY <1>1, <1>4, EpochDigits DEF Parts, SameEpoch
  <2>2. /\ EpochCmp(s, t) = IF s[i] < t[i] THEN -1 ELSE 1
        /\ EpochCmp(t, s) = IF t[i] < s[i] THEN -1 ELSE 1
    BY <1>4, <2>1, EpochCases
  <2> QED
    BY <2>1, <2>2
<1> QED
  BY <1>2, <1>3, <1>4, EpochCases

LEMMA EpochTransitive ==
  ASSUME NEW s \in Str, NEW t \in Str, NEW u \in Str,
         EpochCmp(s, t) <= 0, EpochCmp(t, u) <= 0
  PROVE  /\ EpochCmp(s, u) <= 0
         /\ EpochCmp(s, u) = 0 => EpochCmp(s, t) = 0 /\ EpochCmp(t, u) = 0
         /\ EpochCmp(s, t) = 0 /\ EpochCmp(t, u) = 0 => EpochCmp(s, u) = 0
<1>1. /\ Epoch(s) \in Nat /\ Epoch(t) \in Nat /\ Epoch(u) \in Nat
      /\ \A i \in 1..Epoch(s) : s[i] \in Int
      /\ \A i \in 1..Epoch(t) : t[i] \in Int
      /\ \A i \in 1..Epoch(u) : u[i] \in Int
  BY EpochDigits
<1>2. Epoch(s) <= Epoch(t) /\ Epoch(t) <= Epoch(u)
  <2>1. ~(Epoch(s) > Epoch(t)) /\ ~(Epoch(t) > Epoch(u))
    BY EpochCases
  <2> QED
    BY <1>1, <2>1
<1>3. CASE Epoch(s) < Epoch(u)
  <2>1. EpochCmp(s, u) = -1
    BY <1>3, EpochCases
  <2>2. ~(SameEpoch(s, t) /\ SameEpoch(t, u))
    BY <1>1, <1>3 DEF SameEpoch
  <2> QED
    BY <2>1, <2>2, EpochAntisymmetric
<1>4. CASE Epoch(s) = Epoch(t) /\ Epoch(t) = Epoch(u)
  <2>1. CASE SameEpoch(s, t) /\ SameEpoch(t, u)
    <3>1. SameEpoch(s, u)
      BY <2>1 DEF SameEpoch
    <3> QED
      BY <2>1, <3>1, EpochCases
  <2>2. ASSUME NEW i \in 1..Epoch(s), \A j \in 1..i - 1 : s[j] = t[j] /\ t[j] = u[j],
               \/ s[i] < t[i] /\ t[i] <= u[i]
               \/ s[i] <= t[i] /\ t[i] < u[i]
        PROVE  EpochCmp(s, u) = -1 /\ ~(SameEpoch(s, t) /\ SameEpoch(t, u))
    <3>1. s[i] \in Int /\ t[i] \in Int /\ u[i] \in Int
      BY <1>1, <1>4
    <3>2. s[i] < u[i] /\ s[i] # u[i] /\ (s[i] # t[i] \/ t[i] # u[i])
      BY <2>2, <3>1
    <3>3. Parts(s, u, i) /\ ~(SameEpoch(s, t) /\ SameEpoch(t, u))
      BY <1>4, <2>2, <3>2 DEF Parts, SameEpoch
    <3> QED
      BY <3>2, <3>3, EpochCases
  <2>3. ASSUME NEW i \in Nat, Parts(s, t, i)
        PROVE  i \in 1..Epoch(s) /\ s[i] < t[i] /\ \A j \in 1..i - 1 : s[j] = t[j]
    <3>1. s[i] \in Int /\ t[i] \in Int
      BY <1>1, <2>3 DEF Parts
    <3>2. EpochCmp(s, t) = IF s[i] < t[i] THEN -1 ELSE 1
      BY <2>3, EpochCases
    <3> QED
      BY <2>3, <3>1, <3>2 DEF Parts
  <2>4. ASSUME NEW i \in Nat, Parts(t, u, i)
        PROVE  i \in 1..Epoch(t) /\ t[i] < u[i] /\ \A j \in 1..i - 1 : t[j] = u[j]
    <3>1. t[i] \in Int /\ u[i] \in Int
      BY <1>1, <2>4 DEF Parts
    <3>2. EpochCmp(t, u) = IF t[i] < u[i] THEN -1 ELSE 1
      BY <2>4, EpochCases
    <3> QED
      BY <2>4, <3>1, <3>2 DEF Parts
  <2>5. CASE SameEpoch(s, t) /\ ~SameEpoch(t, u)
    <3>1. PICK i \in Nat : Parts(t, u, i)
      BY <1>4, <2>5, EpochCases
    <3>2. /\ i \in 1..Epoch(s) /\ t[i] < u[i] /\ s[i] = t[i] /\ t[i] \in Int
          /\ \A j \in 1..i - 1 : s[j] = t[j] /\ t[j] = u[j]
      BY <1>1, <1>4, <2>4, <2>5, <3>1 DEF SameEpoch
    <3> QED
      BY <2>2, <3>2, EpochAntisymmetric
  <2>6. CASE ~SameEpoch(s, t) /\ SameEpoch(t, u)
    <3>1. PICK i \in Nat : Parts(s, t, i)
      BY <1>4, <2>6, EpochCases
    <3>2. /\ i \in 1..Epoch(s) /\ s[i] < t[i] /\ t[i] = u[i] /\ t[i] \in Int
          /\ \A j \in 1..i - 1 : s[j] = t[j] /\ t[j] = u[j]
      BY <1>1, <1>4, <2>3, <2>6, <3>1 DEF SameEpoch
    <3> QED
      BY <2>2, <3>2, EpochAntisymmetric
  <2>7. CASE ~SameEpoch(s, t) /\ ~SameEpoch(t, u)
    <3>1. PICK i \in Nat : Parts(s, t, i)
      BY <1>4, <2>7, EpochCases
    <3>2. PICK k \in Nat : Parts(t, u, k)
      BY <1>4, <2>7, EpochCases
    <3>3. /\ i \in 1..Epoch(s) /\ s[i] < t[i] /\ (\A j \in 1..i - 1 : s[j] = t[j])
          /\ k \in 1..Epoch(s) /\ t[k] < u[k] /\ (\A j \in 1..k - 1 : t[j] = u[j])
      BY <1>4, <2>3, <2>4, <3>1, <3>2
    <3>4. s[i] \in Int /\ t[i] \in Int /\ u[i] \in Int /\ s[k] \in Int /\ t[k] \in Int /\ u[k] \in Int
      BY <1>1, <1>4, <3>3
    <3>5. CASE i <= k
      <4>1. t[i] <= u[i] /\ \A j \in 1..i - 1 : s[j] = t[j] /\ t[j] = u[j]
        BY <3>3, <3>4, <3>5
      <4> QED
        BY <2>2, <3>3, <4>1, EpochAntisymmetric
    <3>6. CASE k < i
      <4>1. s[k] <= t[k] /\ \A j \in 1..k - 1 : s[j] = t[j] /\ t[j] = u[j]
        BY <3>3, <3>4, <3>6
      <4> QED
        BY <2>2, <3>3, <4>1, EpochAntisymmetric
    <3> QED
      BY <3>5, <3>6
  <2> QED
    BY <2>1, <2>5, <2>6, <2>7
<1> QED
  BY <1>1, <1>2, <1>3, <1>4

-----------------------------------------------------------------------------
(* debcmp().                                                                *)

\* Where debcmp() is defined on two strings it is so the other way round, and the
\* answer's sign is the other one.
THEOREM DebcmpAntisymmetric ==
  ASSUME NEW s \in Str, NEW t \in Str
  PROVE  /\ Overruns(s, t) <=> Overruns(t, s)
         /\ ~Overruns(s, t) =>
              /\ Debcmp(s, t) \in Int /\ Debcmp(t, s) \in Int
              /\ Debcmp(s, t) < 0 <=> Debcmp(t, s) > 0
              /\ Debcmp(s, t) > 0 <=> Debcmp(t, s) < 0
<1>1. /\ EpochCmp(s, t) \in {-1, 0, 1} /\ EpochCmp(t, s) = -EpochCmp(s, t)
      /\ EpochCmp(s, t) = 0 <=> EpochCmp(t, s) = 0
  BY EpochAntisymmetric
<1>2. Stops(s, t) = {} <=> Stops(t, s) = {}
  BY RestAntisymmetric
<1>3. Overruns(s, t) <=> Overruns(t, s)
  BY <1>1, <1>2 DEF Overruns
<1>4. ASSUME ~Overruns(s, t)
      PROVE  /\ Debcmp(s, t) \in Int /\ Debcmp(t, s) \in Int
             /\ Debcmp(s, t) < 0 <=> Debcmp(t, s) > 0
             /\ Debcmp(s, t) > 0 <=> Debcmp(t, s) < 0
  <2>1. CASE HasEpoch(s) /\ ~HasEpoch(t)
    BY <2>1 DEF Debcmp
  <2>2. CASE ~HasEpoch(s) /\ HasEpoch(t)
    BY <2>2 DEF Debcmp
  <2>3. CASE ~HasEpoch(s) /\ ~HasEpoch(t)
    <3>1. Stops(s, t) # {} /\ Debcmp(s, t) = RestCmp(s, t) /\ Debcmp(t, s) = RestCmp(t, s)
      BY <1>4, <2>3 DEF Overruns, Debcmp
    <3> QED
      BY <3>1, RestAntisymmetric
  <2>4. CASE HasEpoch(s) /\ HasEpoch(t) /\ EpochCmp(s, t) = 0
    <3>1. Stops(s, t) # {} /\ Debcmp(s, t) = RestCmp(s, t) /\ Debcmp(t, s) = RestCmp(t, s)
      BY <1>1, <1>4, <2>4 DEF Overruns, Debcmp
    <3> QED
      BY <3>1, RestAntisymmetric
  <2>5. CASE HasEpoch(s) /\ HasEpoch(t) /\ EpochCmp(s, t) # 0
    <3>1. Debcmp(s, t) = EpochCmp(s, t) /\ Debcmp(t, s) = EpochCmp(t, s)
      BY <1>1, <2>5 DEF Debcmp
    <3> QED
      BY <1>1, <3>1
  <2> QED
    BY <2>1, <2>2, <2>3, <2>4, <2>5
<1> QED
  BY <1>3, <1>4

\* The order has no cycles, strict ones included.  Only the pairs that are compared
\* need to be defined.
THEOREM DebcmpTransitive ==
  ASSUME NEW s \in Str, NEW t \in Str, NEW u \in Str,
         ~Overruns(s, t), ~Overruns(t, u), Debcmp(s, t) <= 0, Debcmp(t, u) <= 0
  PROVE  /\ Debcmp(s, u) <= 0
         /\ Debcmp(s, t) < 0 \/ Debcmp(t, u) < 0 => Debcmp(s, u) < 0
<1>1. ~(HasEpoch(s) /\ ~HasEpoch(t)) /\ ~(HasEpoch(t) /\ ~HasEpoch(u))
  BY DEF Debcmp
<1>2. CASE ~HasEpoch(s) /\ HasEpoch(u)
  BY <1>2 DEF Debcmp
<1>3. ASSUME /\ Stops(s, t) # {} /\ Stops(t, u) # {}
             /\ Debcmp(s, t) = RestCmp(s, t) /\ Debcmp(t, u) = RestCmp(t, u)
             /\ Debcmp(s, u) = RestCmp(s, u)
      PROVE  /\ Debcmp(s, u) <= 0
             /\ Debcmp(s, t) < 0 \/ Debcmp(t, u) < 0 => Debcmp(s, u) < 0
  BY <1>3, RestTransitive
<1>4. CASE ~HasEpoch(s) /\ ~HasEpoch(u)
  <2>1. ~HasEpoch(t)
    BY <1>1, <1>4
  <2>2. /\ Stops(s, t) # {} /\ Stops(t, u) # {}
        /\ Debcmp(s, t) = RestCmp(s, t) /\ Debcmp(t, u) = RestCmp(t, u)
        /\ Debcmp(s, u) = RestCmp(s, u)
    BY <1>4, <2>1 DEF Overruns, Debcmp
  <2> QED
    BY <1>3, <2>2
<1>5. CASE HasEpoch(s)
  <2>1. HasEpoch(s) /\ HasEpoch(t) /\ HasEpoch(u)
    BY <1>1, <1>5
  <2>2. /\ EpochCmp(s, t) \in {-1, 0, 1} /\ EpochCmp(t, u) \in {-1, 0, 1}
        /\ EpochCmp(s, u) \in {-1, 0, 1}
    BY EpochAntisymmetric
  <2>3. /\ EpochCmp(s, t) # 0 => Debcmp(s, t) = EpochCmp(s, t)
        /\ EpochCmp(t, u) # 0 => Debcmp(t, u) = EpochCmp(t, u)
        /\ EpochCmp(s, u) # 0 => Debcmp(s, u) = EpochCmp(s, u)
    BY <2>1 DEF Debcmp
  <2>4. EpochCmp(s, t) <= 0 /\ EpochCmp(t, u) <= 0
    BY <2>2, <2>3
  <2>5. /\ EpochCmp(s, u) <= 0
        /\ EpochCmp(s, u) = 0 => EpochCmp(s, t) = 0 /\ EpochCmp(t, u) = 0
    BY <2>4, EpochTransitive
  <2>6. CASE EpochCmp(s, u) # 0
    BY <2>2, <2>3, <2>5, <2>6
  <2>7. CASE EpochCmp(s, u) = 0
    <3>1. /\ Stops(s, t) # {} /\ Stops(t, u) # {}
          /\ Debcmp(s, t) = RestCmp(s, t) /\ Debcmp(t, u) = RestCmp(t, u)
          /\ Debcmp(s, u) = RestCmp(s, u)
      BY <2>1, <2>5, <2>7 DEF Overruns, Debcmp
    <3> QED
      BY <1>3, <3>1
  <2> QED
    BY <2>6, <2>7
<1> QED
  BY <1>1, <1>2, <1>4, <1>5

-----------------------------------------------------------------------------
(* Numbers, digit by digit.                                                 *)

\* What holds at 0 and of every number if of the one before holds of all.
LEMMA UpTo ==
  ASSUME NEW n \in Nat, NEW T, 0 \in T, \A i \in 1..n : i - 1 \in T => i \in T
  PROVE  \A i \in 0..n : i \in T
<1> DEFINE Out == {i \in 0..n : i \notin T}
<1>1. SUFFICES ASSUME Out # {} PROVE FALSE
  OBVIOUS
<1>2. Out \in SUBSET Nat
  OBVIOUS
<1>3. PICK i \in Out : \A k \in Out : i <= k
  <2> HIDE DEF Out
  <2> QED
    BY <1>1, <1>2, LeastOfNaturals
<1>4. i \in 0..n /\ i \notin T /\ i # 0
  OBVIOUS
<1>5. i \in 1..n /\ i - 1 \in 0..n /\ ~(i <= i - 1)
  BY <1>4
<1>6. i - 1 \in T
  BY <1>3, <1>5
<1> QED
  BY <1>4, <1>5, <1>6

\* The values that a numeral's first digits spell.
Spells(f, s) == f[0] = 0 /\ \A i \in 1..Len(s) : f[i] = 10 * f[i - 1] + (s[i] - 48)

\* There are such values, and the last one is what NumberOf yields.
LEMMA SpellsUpTo ==
  ASSUME NEW s, NEW n \in Nat
  PROVE  \E f : DOMAIN f = 0..n /\ f[0] = 0 /\ \A i \in 1..n : f[i] = 10 * f[i - 1] + (s[i] - 48)
<1> DEFINE Upto(f, k) == /\ DOMAIN f = 0..k /\ f[0] = 0
                         /\ \A i \in 1..k : f[i] = 10 * f[i - 1] + (s[i] - 48)
           T == {k \in 0..n : \E f : Upto(f, k)}
<1>1. 0 \in T
  <2> DEFINE f == [i \in 0..0 |-> 0]
  <2>1. Upto(f, 0)
    OBVIOUS
  <2> HIDE DEF f, Upto
  <2> QED
    BY <2>1
<1>2. \A k \in 1..n : k - 1 \in T => k \in T
  <2> SUFFICES ASSUME NEW k \in 1..n, k - 1 \in T PROVE k \in T
    OBVIOUS
  <2>1. PICK f : Upto(f, k - 1)
    OBVIOUS
  <2> DEFINE g == [i \in 0..k |-> IF i = k THEN 10 * f[k - 1] + (s[k] - 48) ELSE f[i]]
  <2>2. g[0] = 0
    BY <2>1
  <2>3. ASSUME NEW i \in 1..k PROVE g[i] = 10 * g[i - 1] + (s[i] - 48)
    <3>1. i - 1 \in 0..k /\ i - 1 # k
      OBVIOUS
    <3>2. g[i - 1] = f[i - 1]
      BY <3>1
    <3>3. CASE i = k
      BY <3>2, <3>3
    <3>4. CASE i # k
      <4>1. i \in 1..k - 1 /\ i \in 0..k
        BY <3>4
      <4>2. f[i] = 10 * f[i - 1] + (s[i] - 48)
        BY <2>1, <4>1
      <4>3. g[i] = f[i]
        BY <3>4, <4>1
      <4> HIDE DEF g
      <4> QED
        BY <3>2, <4>2, <4>3
    <3> QED
      BY <3>3, <3>4
  <2>4. Upto(g, k)
    <3>1. DOMAIN g = 0..k
      OBVIOUS
    <3> HIDE DEF g
    <3> QED
      BY <2>2, <2>3, <3>1
  <2>5. k \in 0..n
    OBVIOUS
  <2> HIDE DEF g, Upto
  <2> QED
    BY <2>4, <2>5
<1>3. n \in T
  <2>1. n \in 0..n
    OBVIOUS
  <2> HIDE DEF T
  <2> QED
    BY <1>1, <1>2, <2>1, UpTo
<1> QED
  BY <1>3

LEMMA NumberSpelt ==
  ASSUME NEW s, Len(s) \in Nat
  PROVE  \E f : Spells(f, s) /\ NumberOf(s) = f[Len(s)]
<1> DEFINE n == Len(s)
           Next(f, i) == IF i = 0 THEN 0 ELSE 10 * f[i - 1] + (s[i] - 48)
<1>1. PICK value : value = CHOOSE f : f = [i \in 0..n |-> Next(f, i)]
  OBVIOUS
<1>2. NumberOf(s) = value[n]
  BY <1>1 DEF NumberOf
<1>3. \E f : f = [i \in 0..n |-> Next(f, i)]
  <2>1. PICK f : DOMAIN f = 0..n /\ f[0] = 0 /\ \A i \in 1..n : f[i] = 10 * f[i - 1] + (s[i] - 48)
    BY SpellsUpTo
  <2> DEFINE g == [i \in 0..n |-> f[i]]
  <2>2. ASSUME NEW i \in 0..n PROVE f[i] = Next(g, i)
    <3>1. CASE i = 0
      BY <2>1, <3>1
    <3>2. CASE i # 0
      <4>1. i \in 1..n /\ i - 1 \in 0..n
        BY <3>2
      <4>2. g[i - 1] = f[i - 1]
        BY <4>1
      <4>3. f[i] = 10 * f[i - 1] + (s[i] - 48)
        BY <2>1, <4>1
      <4> HIDE DEF g
      <4> QED
        BY <3>2, <4>2, <4>3
    <3> QED
      BY <3>1, <3>2
  <2>3. g = [i \in 0..n |-> Next(g, i)]
    <3> HIDE DEF Next
    <3> QED
      BY <2>2
  <2> QED
    BY <2>3
<1>4. value = [i \in 0..n |-> Next(value, i)]
  <2> HIDE DEF Next
  <2> QED
    BY <1>1, <1>3
<1>5. \A i \in 0..n : value[i] = Next(value, i)
  <2> HIDE DEF Next
  <2> QED
    BY <1>4
<1>6. Spells(value, s)
  <2>1. value[0] = 0
    BY <1>5
  <2>2. \A i \in 1..n : i \in 0..n /\ i # 0
    OBVIOUS
  <2> QED
    BY <1>5, <2>1, <2>2 DEF Spells
<1> QED
  BY <1>2, <1>6

\* A numeral: digits only.
Numeral(s) == Len(s) \in Nat /\ \A i \in 1..Len(s) : s[i] \in 48..57

\* A digit behind two numerals.
LEMMA OneMoreDigit ==
  ASSUME NEW a \in Nat, NEW b \in Nat, NEW c \in 48..57, NEW d \in 48..57
  PROVE  /\ 10 * a + (c - 48) \in Nat
         /\ a > 0 => 10 * a + (c - 48) > 0
         /\ a < b \/ (a = b /\ c < d) => 10 * a + (c - 48) < 10 * b + (d - 48)
  OBVIOUS

\* What digits spell is a natural number.
LEMMA SpeltNatural ==
  ASSUME NEW s, Numeral(s), NEW f, Spells(f, s)
  PROVE  \A i \in 0..Len(s) : f[i] \in Nat
<1> DEFINE n == Len(s)
           T == {i \in 0..n : f[i] \in Nat}
<1>1. n \in Nat
  BY DEF Numeral
<1>2. 0 \in T
  BY <1>1 DEF Spells
<1>3. ASSUME NEW i \in 1..n, i - 1 \in T PROVE i \in T
  <2>1. PICK a : a = f[i - 1]
    OBVIOUS
  <2>2. a \in Nat /\ s[i] \in 48..57 /\ f[i] = 10 * a + (s[i] - 48)
    BY <1>3, <2>1 DEF Spells, Numeral
  <2>3. f[i] \in Nat
    BY ONLY <2>2, OneMoreDigit
  <2> QED
    BY <1>1, <2>3
<1>4. \A i \in 0..n : i \in T
  <2> HIDE DEF T
  <2> QED
    BY <1>1, <1>2, <1>3, UpTo
<1> QED
  BY <1>4

\* Of two numbers the one with more digits is the larger, if it does not begin with 0.
LEMMA LongerIsMore ==
  ASSUME NEW s, NEW t, Numeral(s), Numeral(t), Len(s) > Len(t), s[1] # 48
  PROVE  NumberOf(s) > NumberOf(t) /\ NumberOf(s) \in Nat /\ NumberOf(t) \in Nat
<1>1. PICK f : Spells(f, s) /\ NumberOf(s) = f[Len(s)]
  BY NumberSpelt DEF Numeral
<1>2. PICK g : Spells(g, t) /\ NumberOf(t) = g[Len(t)]
  BY NumberSpelt DEF Numeral
<1>3. PICK m : m = Len(s)
  OBVIOUS
<1>4. PICK n : n = Len(t)
  OBVIOUS
<1>5. m \in Nat /\ n \in Nat /\ m > n
  BY <1>3, <1>4 DEF Numeral
<1>6. \A i \in 0..m : f[i] \in Nat
  BY <1>1, <1>3, SpeltNatural
<1>7. \A i \in 0..n : g[i] \in Nat
  BY <1>2, <1>4, SpeltNatural
<1>8. \A i \in 1..m : f[i] = 10 * f[i - 1] + (s[i] - 48) /\ s[i] \in 48..57
  BY <1>1, <1>3 DEF Spells, Numeral
<1>9. \A i \in 1..n : g[i] = 10 * g[i - 1] + (t[i] - 48) /\ t[i] \in 48..57
  BY <1>2, <1>4 DEF Spells, Numeral
<1>10. f[0] = 0 /\ g[0] = 0
  BY <1>1, <1>2 DEF Spells
<1>11. \A i \in 1..m : f[i] > 0
  <2> DEFINE T == {i \in 0..m : i = 0 \/ f[i] > 0}
  <2>1. 0 \in T
    BY <1>5
  <2>2. ASSUME NEW i \in 1..m, i - 1 \in T PROVE i \in T
    <3>1. f[i] = 10 * f[i - 1] + (s[i] - 48) /\ s[i] \in 48..57
      BY <1>8
    <3>2. CASE i = 1
      <4>1. f[i - 1] = 0
        BY <1>10, <3>2
      <4> QED
        BY <3>1, <3>2, <4>1
    <3>3. CASE i # 1
      <4>1. PICK a : a = f[i - 1]
        OBVIOUS
      <4>2. i - 1 \in 0..m
        BY <1>5
      <4>3. a > 0 /\ a \in Nat
        BY <1>6, <2>2, <3>3, <4>1, <4>2
      <4>4. f[i] = 10 * a + (s[i] - 48) /\ s[i] \in 48..57
        BY <3>1, <4>1
      <4>5. f[i] > 0
        BY ONLY <4>3, <4>4, OneMoreDigit
      <4> QED
        BY <1>5, <4>5
    <3> QED
      BY <3>2, <3>3
  <2>3. \A i \in 0..m : i \in T
    <3> HIDE DEF T
    <3> QED
      BY <1>5, <2>1, <2>2, UpTo
  <2> QED
    BY <2>3
<1>12. PICK d : d = m - n
  OBVIOUS
<1>13. d \in 1..m /\ d \in Nat /\ n + d = m
  BY <1>5, <1>12
<1> DEFINE T == {i \in 0..n : f[i + d] > g[i]}
<1>14. 0 \in T
  BY <1>5, <1>10, <1>11, <1>13
<1>15. ASSUME NEW i \in 1..n, i - 1 \in T PROVE i \in T
  <2>1. PICK a : a = f[(i - 1) + d]
    OBVIOUS
  <2>2. PICK b : b = g[i - 1]
    OBVIOUS
  <2>3. i + d \in 1..m /\ (i + d) - 1 = (i - 1) + d /\ (i - 1) + d \in 0..m /\ i - 1 \in 0..n
    BY <1>5, <1>13
  <2>4. a \in Nat /\ b \in Nat /\ a > b
    BY <1>6, <1>7, <1>15, <2>1, <2>2, <2>3
  <2>5. f[i + d] = 10 * a + (s[i + d] - 48) /\ s[i + d] \in 48..57
    BY <1>8, <2>1, <2>3
  <2>6. g[i] = 10 * b + (t[i] - 48) /\ t[i] \in 48..57
    BY <1>9, <2>2
  <2>7. g[i] < f[i + d]
    BY ONLY <2>4, <2>5, <2>6, OneMoreDigit
  <2>8. f[i + d] \in Nat /\ g[i] \in Nat
    BY <1>6, <1>7, <2>3, <1>5
  <2>9. f[i + d] > g[i]
    BY ONLY <2>7, <2>8
  <2> QED
    BY <1>5, <2>9
<1>16. n \in T
  <2>1. n \in 0..n
    BY <1>5
  <2> HIDE DEF T
  <2> QED
    BY <1>5, <1>14, <1>15, <2>1, UpTo
<1>17. f[m] > g[n]
  BY <1>13, <1>16
<1> QED
  BY <1>1, <1>2, <1>3, <1>4, <1>5, <1>6, <1>7, <1>17

\* Of two numbers with as many digits the first digit that differs decides.
LEMMA FirstDigit ==
  ASSUME NEW s, NEW t, Numeral(s), Numeral(t), Len(s) = Len(t),
         NEW k \in 1..Len(s), \A j \in 1..k - 1 : s[j] = t[j], s[k] < t[k]
  PROVE  NumberOf(s) < NumberOf(t) /\ NumberOf(s) \in Nat /\ NumberOf(t) \in Nat
<1>1. PICK f : Spells(f, s) /\ NumberOf(s) = f[Len(s)]
  BY NumberSpelt DEF Numeral
<1>2. PICK g : Spells(g, t) /\ NumberOf(t) = g[Len(t)]
  BY NumberSpelt DEF Numeral
<1>3. PICK n : n = Len(s)
  OBVIOUS
<1>4. n \in Nat /\ k \in 1..n /\ n = Len(t)
  BY <1>3 DEF Numeral
<1>5. \A i \in 0..n : f[i] \in Nat
  BY <1>1, <1>3, SpeltNatural
<1>6. \A i \in 0..n : g[i] \in Nat
  BY <1>2, <1>4, SpeltNatural
<1>7. \A i \in 1..n : f[i] = 10 * f[i - 1] + (s[i] - 48) /\ s[i] \in 48..57
  BY <1>1, <1>3 DEF Spells, Numeral
<1>8. \A i \in 1..n : g[i] = 10 * g[i - 1] + (t[i] - 48) /\ t[i] \in 48..57
  BY <1>2, <1>4 DEF Spells, Numeral
<1>9. f[0] = 0 /\ g[0] = 0
  BY <1>1, <1>2 DEF Spells
<1> DEFINE T == {i \in 0..n : (i < k => f[i] = g[i]) /\ (i >= k => f[i] < g[i])}
<1>10. 0 \in T
  BY <1>4, <1>9
<1>11. ASSUME NEW i \in 1..n, i - 1 \in T PROVE i \in T
  <2>1. PICK a : a = f[i - 1]
    OBVIOUS
  <2>2. PICK b : b = g[i - 1]
    OBVIOUS
  <2>3. a \in Nat /\ b \in Nat
    BY <1>4, <1>5, <1>6, <2>1, <2>2
  <2>4. f[i] = 10 * a + (s[i] - 48) /\ s[i] \in 48..57
    BY <1>7, <2>1
  <2>5. g[i] = 10 * b + (t[i] - 48) /\ t[i] \in 48..57
    BY <1>8, <2>2
  <2>6. CASE i < k
    <3>1. a = b
      BY <1>11, <2>1, <2>2, <2>6
    <3>2. s[i] = t[i]
      BY <2>6
    <3> QED
      BY <2>4, <2>5, <2>6, <3>1, <3>2
  <2>7. CASE i = k
    <3>1. a = b
      BY <1>11, <2>1, <2>2, <2>7
    <3>2. s[i] < t[i]
      BY <2>7
    <3>3. f[i] < g[i]
      <4>1. 10 * a + (s[i] - 48) < 10 * b + (t[i] - 48)
        <5>1. a \in Nat /\ b \in Nat /\ s[i] \in 48..57 /\ t[i] \in 48..57
          BY ONLY <2>3, <2>4, <2>5
        <5> QED
          BY ONLY <3>1, <3>2, <5>1, OneMoreDigit
      <4> QED
        BY ONLY <2>4, <2>5, <4>1
    <3> QED
      <4>1. i \in 0..n /\ k \in Int /\ ~(i < k)
        BY <1>4, <2>7
      <4> QED
        BY ONLY <3>3, <4>1
  <2>8. CASE i > k
    <3>1. a < b
      BY <1>4, <1>11, <2>1, <2>2, <2>8
    <3>2. f[i] < g[i]
      <4>1. 10 * a + (s[i] - 48) < 10 * b + (t[i] - 48)
        <5>1. a \in Nat /\ b \in Nat /\ s[i] \in 48..57 /\ t[i] \in 48..57
          BY ONLY <2>3, <2>4, <2>5
        <5> QED
          BY ONLY <3>1, <5>1, OneMoreDigit
      <4> QED
        BY ONLY <2>4, <2>5, <4>1
    <3> QED
      <4>1. i \in 0..n /\ k \in Int /\ ~(i < k)
        BY <1>4, <2>8
      <4> QED
        BY ONLY <3>2, <4>1
  <2> QED
    BY <1>4, <2>6, <2>7, <2>8
<1>12. n \in T
  <2>1. n \in 0..n
    BY <1>4
  <2> HIDE DEF T
  <2> QED
    BY <1>4, <1>10, <1>11, <2>1, UpTo
<1>13. f[n] < g[n]
  BY <1>4, <1>12
<1> QED
  BY <1>1, <1>2, <1>3, <1>4, <1>5, <1>6, <1>13

-----------------------------------------------------------------------------
(* The numbers of a legal version.                                          *)

\* A piece of a sequence, and when sequences are equal.
LEMMA Piece ==
  ASSUME NEW E, NEW q \in Seq(E), NEW a \in 1..Len(q) + 1, NEW b \in a - 1..Len(q)
  PROVE  /\ SubSeq(q, a, b) \in Seq(E) /\ Len(SubSeq(q, a, b)) = b - a + 1
         /\ \A j \in 1..b - a + 1 : SubSeq(q, a, b)[j] = q[a + j - 1]
  OBVIOUS

LEMMA SameText ==
  ASSUME NEW E, NEW q \in Seq(E), NEW r \in Seq(E), Len(q) = Len(r),
         \A i \in 1..Len(q) : q[i] = r[i]
  PROVE  q = r
  OBVIOUS

\* The digits from a place on, as a numeral.
LEMMA NumeralAt ==
  ASSUME NEW s \in Str, NEW i \in 1..Len(s), NEW b, b = i + DigitRun(s, i) - 1
  PROVE  /\ SubSeq(s, i, b) \in Str /\ Numeral(SubSeq(s, i, b))
         /\ Len(SubSeq(s, i, b)) = DigitRun(s, i)
         /\ \A j \in 1..DigitRun(s, i) : SubSeq(s, i, b)[j] = s[i + j - 1]
<1>1. PICK n : n = DigitRun(s, i)
  OBVIOUS
<1>2. Len(s) \in Nat /\ i \in Nat \ {0} /\ i <= Len(s)
  BY CharFacts
<1>3. n \in Nat /\ \A k \in 0..n - 1 : IsDigit(CharAt(s, i + k))
  BY <1>1, <1>2, RunFacts
<1>4. ASSUME NEW j \in 1..n PROVE i + j - 1 \in 1..Len(s) /\ s[i + j - 1] \in 48..57
  <2>1. PICK k : k = j - 1
    OBVIOUS
  <2>2. k \in 0..n - 1 /\ i + k \in Nat \ {0} /\ i + j - 1 = i + k
    BY <1>2, <1>3, <2>1
  <2>3. IsDigit(CharAt(s, i + k))
    BY <1>3, <2>2
  <2>4. CharAt(s, i + k) # NUL
    BY <2>3 DEF IsDigit, NUL
  <2>5. i + k <= Len(s)
    BY <1>2, <2>2, <2>4, CharFacts
  <2>6. CharAt(s, i + k) = s[i + k]
    BY <2>5 DEF CharAt
  <2>7. i + k \in 1..Len(s)
    BY <1>2, <2>2, <2>5
  <2>8. s[i + k] \in 48..57
    BY <2>3, <2>6 DEF IsDigit
  <2> QED
    BY ONLY <2>2, <2>7, <2>8
<1>5. b \in i - 1..Len(s) /\ i \in 1..Len(s) + 1 /\ b - i + 1 = n
  <2>1. b = i + n - 1
    BY <1>1
  <2>2. n = 0 \/ n \in 1..n
    BY <1>3
  <2>3. n = 0 \/ i + n - 1 <= Len(s)
    BY <1>4, <2>2
  <2> QED
    BY <1>2, <1>3, <2>1, <2>3
<1>6. PICK u : u = SubSeq(s, i, b)
  OBVIOUS
<1>7. u \in Str /\ Len(u) = b - i + 1 /\ \A j \in 1..b - i + 1 : u[j] = s[i + j - 1]
  <2>1. s \in Seq(Int \ {NUL})
    BY DEF Str
  <2>2. /\ SubSeq(s, i, b) \in Seq(Int \ {NUL}) /\ Len(SubSeq(s, i, b)) = b - i + 1
        /\ \A j \in 1..b - i + 1 : SubSeq(s, i, b)[j] = s[i + j - 1]
    BY ONLY <1>5, <2>1, Piece
  <2> QED
    BY <1>6, <2>2 DEF Str
<1>8. Len(u) = n /\ \A j \in 1..n : u[j] = s[i + j - 1]
  BY <1>5, <1>7
<1>9. Numeral(u)
  BY <1>3, <1>4, <1>8 DEF Numeral
<1> QED
  BY <1>1, <1>6, <1>7, <1>8, <1>9

\* A number of two digits or more does not begin with 0.
LEMMA NoLeadingZero ==
  ASSUME NEW s \in Str, NoLeadingZeros(s), NEW i \in 1..Len(s), i = 1 \/ ~IsDigit(s[i - 1]),
         DigitRun(s, i) > 1
  PROVE  s[i] # 48
<1>1. Len(s) \in Nat /\ i \in Nat \ {0}
  BY CharFacts
<1>2. DigitRun(s, i) \in Nat /\ \A n \in 0..DigitRun(s, i) - 1 : IsDigit(CharAt(s, i + n))
  BY <1>1, RunFacts
<1>3. IsDigit(CharAt(s, i + 1))
  BY <1>2
<1> QED
  BY <1>3 DEF NoLeadingZeros

\* The longer of two digit runs is the larger number.
LEMMA LongerRun ==
  ASSUME NEW s \in Str, NoLeadingZeros(s), NEW i \in 1..Len(s), i = 1 \/ ~IsDigit(s[i - 1]),
         NEW t \in Str, NEW j \in 1..Len(t), DigitRun(t, j) > 0, DigitRun(s, i) > DigitRun(t, j),
         NEW a, a = i + DigitRun(s, i) - 1, NEW b, b = j + DigitRun(t, j) - 1
  PROVE  /\ NumberOf(SubSeq(s, i, a)) > NumberOf(SubSeq(t, j, b))
         /\ NumberOf(SubSeq(s, i, a)) \in Nat /\ NumberOf(SubSeq(t, j, b)) \in Nat
<1>1. PICK u : u = SubSeq(s, i, a)
  OBVIOUS
<1>2. PICK v : v = SubSeq(t, j, b)
  OBVIOUS
<1>3. /\ Numeral(u) /\ Len(u) = DigitRun(s, i)
      /\ \A k \in 1..DigitRun(s, i) : u[k] = s[i + k - 1]
  BY <1>1, NumeralAt
<1>4. Numeral(v) /\ Len(v) = DigitRun(t, j)
  BY <1>2, NumeralAt
<1>5. DigitRun(s, i) \in Nat /\ DigitRun(t, j) \in Nat /\ i \in Nat
  BY <1>3, <1>4 DEF Numeral
<1>6. DigitRun(s, i) > 1 /\ 1 \in 1..DigitRun(s, i) /\ i + 1 - 1 = i
  BY <1>5
<1>7. u[1] # 48
  <2>1. s[i] # 48
    BY <1>6, NoLeadingZero
  <2> QED
    BY <1>3, <1>6, <2>1
<1>8. NumberOf(u) > NumberOf(v) /\ NumberOf(u) \in Nat /\ NumberOf(v) \in Nat
  BY <1>3, <1>4, <1>7, LongerIsMore
<1> QED
  BY ONLY <1>1, <1>2, <1>8

\* So is what all of them spell.
LEMMA NumberNatural ==
  ASSUME NEW u, Numeral(u) PROVE NumberOf(u) \in Nat
<1>1. PICK f : Spells(f, u) /\ NumberOf(u) = f[Len(u)]
  BY NumberSpelt DEF Numeral
<1>2. Len(u) \in 0..Len(u)
  BY DEF Numeral
<1> QED
  BY <1>1, <1>2, SpeltNatural

\* Epochs compare as their numbers do.
LEMMA EpochNumbers ==
  ASSUME NEW s \in Str, NEW t \in Str, Legal(s), Legal(t), HasEpoch(s), HasEpoch(t),
         NoLeadingZeros(s), NoLeadingZeros(t)
  PROVE  /\ EpochNumber(s) \in Nat /\ EpochNumber(t) \in Nat
         /\ EpochCmp(s, t) \in {-1, 0, 1}
         /\ EpochCmp(s, t) = 1 => EpochNumber(s) > EpochNumber(t)
         /\ EpochCmp(s, t) = -1 => EpochNumber(s) < EpochNumber(t)
         /\ EpochCmp(s, t) = 0 => EpochNumber(s) = EpochNumber(t)
<1>1. PICK m : m = Epoch(s)
  OBVIOUS
<1>2. PICK n : n = Epoch(t)
  OBVIOUS
<1>3. m \in Nat /\ n \in Nat /\ m > 0 /\ n > 0
  BY <1>1, <1>2, EpochDigits DEF Legal, Epoch
<1>4. m = 1 + DigitRun(s, 1) - 1 /\ n = 1 + DigitRun(t, 1) - 1
  BY <1>1, <1>2, <1>3 DEF Epoch
<1>5. 1 \in 1..Len(s) /\ 1 \in 1..Len(t)
  <2>1. ASSUME NEW q \in Str, DigitRun(q, 1) # 0 PROVE 1 \in 1..Len(q)
    <3>1. IsDigit(CharAt(q, 1)) /\ Len(q) \in Nat
      BY <2>1, RunFacts, CharFacts
    <3>2. CharAt(q, 1) # NUL
      BY <3>1, CharFacts
    <3> QED
      BY <3>1, <3>2, CharFacts
  <2> QED
    BY <1>1, <1>2, <1>3, <2>1 DEF Epoch
<1>6. PICK u : u = SubSeq(s, 1, m)
  OBVIOUS
<1>7. PICK v : v = SubSeq(t, 1, n)
  OBVIOUS
<1>8. u \in Str /\ Numeral(u) /\ Len(u) = m /\ \A j \in 1..m : u[j] = s[j]
  <2>1. DigitRun(s, 1) = m /\ \A j \in 1..m : 1 + j - 1 = j
    BY <1>1, <1>3 DEF Epoch
  <2> QED
    BY <1>4, <1>5, <1>6, <2>1, NumeralAt
<1>9. v \in Str /\ Numeral(v) /\ Len(v) = n /\ \A j \in 1..n : v[j] = t[j]
  <2>1. DigitRun(t, 1) = n /\ \A j \in 1..n : 1 + j - 1 = j
    BY <1>2, <1>3 DEF Epoch
  <2> QED
    BY <1>4, <1>5, <1>7, <2>1, NumeralAt
<1>10. EpochNumber(s) = NumberOf(u) /\ EpochNumber(t) = NumberOf(v)
  BY <1>1, <1>2, <1>6, <1>7 DEF EpochNumber, Epoch
<1>11. NumberOf(u) \in Nat /\ NumberOf(v) \in Nat
  BY <1>8, <1>9, NumberNatural
<1>12. ~IsDigit(NUL)
  BY CharFacts
<1>13. CASE m > n
  <2>1. EpochCmp(s, t) = 1
    BY <1>1, <1>2, <1>13, EpochCases
  <2>2. DigitRun(s, 1) > DigitRun(t, 1) /\ DigitRun(t, 1) > 0
    BY <1>1, <1>2, <1>3, <1>13 DEF Epoch
  <2>3. NumberOf(u) > NumberOf(v)
    BY <1>4, <1>5, <1>6, <1>7, <2>2, LongerRun
  <2> QED
    BY <1>10, <1>11, <2>1, <2>3
<1>14. CASE m < n
  <2>1. EpochCmp(s, t) = -1
    BY <1>1, <1>2, <1>14, EpochCases
  <2>2. DigitRun(t, 1) > DigitRun(s, 1) /\ DigitRun(s, 1) > 0
    BY <1>1, <1>2, <1>3, <1>14 DEF Epoch
  <2>3. NumberOf(v) > NumberOf(u)
    BY <1>4, <1>5, <1>6, <1>7, <2>2, LongerRun
  <2> QED
    BY <1>10, <1>11, <2>1, <2>3
<1>15. CASE SameEpoch(s, t)
  <2>1. EpochCmp(s, t) = 0
    BY <1>15, EpochCases
  <2>2. m = n /\ \A j \in 1..m : s[j] = t[j]
    BY <1>1, <1>2, <1>15 DEF SameEpoch
  <2>3. \A j \in 1..Len(u) : u[j] = v[j]
    BY <1>8, <1>9, <2>2
  <2>4. u = v
    BY <1>8, <1>9, <2>2, <2>3, SameText DEF Str
  <2> QED
    BY <1>10, <1>11, <2>1, <2>4
<1>16. ASSUME NEW i \in Nat, Parts(s, t, i)
       PROVE  IF s[i] < t[i] THEN EpochCmp(s, t) = -1 /\ NumberOf(u) < NumberOf(v)
                             ELSE EpochCmp(s, t) = 1 /\ NumberOf(u) > NumberOf(v)
  <2>1. m = n /\ i \in 1..m /\ s[i] # t[i] /\ \A j \in 1..i - 1 : s[j] = t[j]
    BY <1>1, <1>2, <1>16 DEF Parts
  <2>2. EpochCmp(s, t) = IF s[i] < t[i] THEN -1 ELSE 1
    BY <1>16, EpochCases
  <2>3. Len(u) = Len(v) /\ i \in 1..Len(u) /\ u[i] = s[i] /\ v[i] = t[i] /\ i \in 1..Len(v)
    BY <1>8, <1>9, <2>1
  <2>4. \A j \in 1..i - 1 : u[j] = v[j] /\ v[j] = u[j]
    <3>1. \A j \in 1..i - 1 : j \in 1..m
      BY <1>3, <2>1
    <3> QED
      BY <1>8, <1>9, <2>1, <3>1
  <2>5. CASE s[i] < t[i]
    <3>1. u[i] < v[i]
      BY <2>3, <2>5
    <3>2. NumberOf(u) < NumberOf(v)
      BY ONLY <1>8, <1>9, <2>3, <2>4, <3>1, FirstDigit
    <3> QED
      BY <2>2, <2>5, <3>2
  <2>6. CASE ~(s[i] < t[i])
    <3>1. s[i] \in Int /\ t[i] \in Int
      BY <1>1, <1>2, <2>1, EpochDigits
    <3>2. v[i] < u[i]
      BY <2>1, <2>3, <2>6, <3>1
    <3>3. NumberOf(v) < NumberOf(u)
      BY ONLY <1>8, <1>9, <2>3, <2>4, <3>2, FirstDigit
    <3> QED
      BY <1>11, <2>2, <2>6, <3>3
  <2> QED
    BY <2>5, <2>6
<1>17. CASE m = n
  <2>1. SameEpoch(s, t) \/ \E i \in Nat : Parts(s, t, i)
    BY <1>1, <1>2, <1>17, EpochCases
  <2>2. ASSUME NEW i \in Nat, Parts(s, t, i)
        PROVE  \/ EpochCmp(s, t) = -1 /\ NumberOf(u) < NumberOf(v)
               \/ EpochCmp(s, t) = 1 /\ NumberOf(u) > NumberOf(v)
    BY <1>16, <2>2
  <2> QED
    BY <1>10, <1>11, <1>15, <2>1, <2>2
<1> QED
  BY <1>3, <1>13, <1>14, <1>17

-----------------------------------------------------------------------------
(* The first pair of parts behind the epochs.                               *)

\* A legal version goes on with a digit behind its epoch.
LEMMA LegalRest ==
  ASSUME NEW s \in Str, Legal(s)
  PROVE  /\ AfterEpoch(s) \in 1..Len(s) /\ DigitRun(s, AfterEpoch(s)) > 0
         /\ AfterEpoch(s) = 1 \/ ~IsDigit(s[AfterEpoch(s) - 1])
<1>1. PICK a : a = AfterEpoch(s)
  OBVIOUS
<1>2. PICK e : e = DigitRun(s, 1)
  OBVIOUS
<1>3. e \in Nat /\ Len(s) \in Nat /\ ~IsDigit(CharAt(s, 1 + e))
  BY <1>2, RunFacts, CharFacts
<1>4. a = IF HasEpoch(s) THEN e + 2 ELSE 1
  BY <1>1, <1>2 DEF AfterEpoch
<1>5. a \in Nat \ {0} /\ IsDigit(CharAt(s, a))
  BY <1>1, <1>3, <1>4 DEF Legal
<1>6. a <= Len(s)
  BY <1>5, CharFacts
<1>7. DigitRun(s, a) > 0
  <2>1. DigitRun(s, a) \in Nat /\ DigitRun(s, a) # 0
    BY <1>5, RunFacts
  <2> QED
    BY <2>1
<1>8. a = 1 \/ ~IsDigit(s[a - 1])
  <2>1. CASE HasEpoch(s)
    <3>1. a - 1 = 1 + e /\ 1 + e <= Len(s)
      BY <1>3, <1>4, <1>6, <2>1
    <3>2. CharAt(s, 1 + e) = s[1 + e]
      BY <3>1 DEF CharAt
    <3> QED
      BY <1>3, <3>1, <3>2
  <2>2. CASE ~HasEpoch(s)
    BY <1>4, <2>2
  <2> QED
    BY <2>1, <2>2
<1> QED
  BY <1>1, <1>3, <1>5, <1>6, <1>7, <1>8

\* Its first part without digits is empty, and the number behind that is the one
\* that debcmp() counts the digits of.
LEMMA FirstPair ==
  ASSUME NEW s \in Str, Legal(s), NEW a, a = AfterEpoch(s), NEW b, b = a + DigitRun(s, a) - 1
  PROVE  /\ Len(BehindEpoch(s)) \in Nat \ {0}
         /\ Nondigits(BehindEpoch(s)) = <<>>
         /\ Digits(BehindEpoch(s)) = SubSeq(s, a, b)
<1>1. PICK q : q = BehindEpoch(s)
  OBVIOUS
<1>2. PICK l : l = Len(s)
  OBVIOUS
<1>3. PICK n : n = DigitRun(s, a)
  OBVIOUS
<1>4. l \in Nat /\ a \in 1..l /\ n \in Nat /\ n > 0
  <2>1. DigitRun(s, a) > 0 /\ a \in 1..Len(s) /\ Len(s) \in Nat
    BY LegalRest, CharFacts
  <2>2. a \in Nat \ {0}
    BY <2>1
  <2>3. DigitRun(s, a) \in Nat
    BY <2>2, RunFacts
  <2> QED
    BY <1>2, <1>3, <2>1, <2>3
<1>5. q \in Str /\ Len(q) = l - a + 1 /\ \A j \in 1..l - a + 1 : q[j] = s[a + j - 1]
  <2>1. s \in Seq(Int \ {NUL}) /\ a \in 1..Len(s) + 1 /\ l \in a - 1..Len(s)
    BY <1>2, <1>4 DEF Str
  <2>2. /\ SubSeq(s, a, l) \in Seq(Int \ {NUL}) /\ Len(SubSeq(s, a, l)) = l - a + 1
        /\ \A j \in 1..l - a + 1 : SubSeq(s, a, l)[j] = s[a + j - 1]
    BY ONLY <2>1, Piece
  <2>3. a - 1 + 1 = a
    BY <1>4
  <2>4. q = SubSeq(s, a, l)
    BY <1>1, <1>2, <2>3 DEF BehindEpoch, Behind
  <2> QED
    BY <2>2, <2>4 DEF Str
<1>6. ASSUME NEW k \in Nat PROVE CharAt(q, 1 + k) = CharAt(s, a + k)
  <2>1. CASE 1 + k <= Len(q)
    <3>1. 1 + k \in 1..l - a + 1 /\ a + (1 + k) - 1 = a + k /\ a + k <= Len(s)
      BY <1>2, <1>4, <1>5, <2>1
    <3>2. q[1 + k] = s[a + k]
      BY <1>5, <3>1
    <3> QED
      BY <2>1, <3>1, <3>2 DEF CharAt
  <2>2. CASE ~(1 + k <= Len(q))
    <3>1. ~(a + k <= Len(s))
      BY <1>2, <1>4, <1>5, <2>2
    <3> QED
      BY <2>2, <3>1 DEF CharAt
  <2> QED
    BY <2>1, <2>2
<1>7. DigitRun(q, 1) = n
  <2>1. PICK m : m = DigitRun(q, 1)
    OBVIOUS
  <2>2. /\ m \in Nat /\ ~IsDigit(CharAt(q, 1 + m))
        /\ \A k \in 0..m - 1 : IsDigit(CharAt(q, 1 + k))
    BY <1>5, <2>1, RunFacts
  <2>3. /\ ~IsDigit(CharAt(s, a + n))
        /\ \A k \in 0..n - 1 : IsDigit(CharAt(s, a + k))
    <3>1. a \in Nat \ {0}
      BY <1>4
    <3> QED
      BY <1>3, <3>1, RunFacts
  <2>4. ~(m < n)
    <3>1. ASSUME m < n PROVE FALSE
      <4>1. m \in 0..n - 1
        BY <1>4, <2>2, <3>1
      <4>2. IsDigit(CharAt(s, a + m))
        BY <2>3, <4>1
      <4> QED
        BY <1>6, <2>2, <4>2
    <3> QED
      BY <3>1
  <2>5. ~(n < m)
    <3>1. ASSUME n < m PROVE FALSE
      <4>1. n \in 0..m - 1
        BY <1>4, <2>2, <3>1
      <4>2. IsDigit(CharAt(q, 1 + n))
        BY <2>2, <4>1
      <4> QED
        BY <1>4, <1>6, <2>3, <4>2
    <3> QED
      BY <3>1
  <2> QED
    BY <1>4, <2>1, <2>2, <2>4, <2>5
<1>8. Len(q) \in Nat \ {0}
  BY <1>4, <1>5
<1>9. NondigitRun(q) = 0
  <2> DEFINE Stop == {k \in 0..Len(q) : k = Len(q) \/ IsDigit(q[k + 1])}
  <2>1. Stop \in SUBSET Nat
    BY <1>8
  <2>2. 0 \in Stop
    <3>1. IsDigit(CharAt(q, 1))
      <4>1. 1 \in Nat \ {0} /\ DigitRun(q, 1) # 0
        BY <1>4, <1>7
      <4> QED
        BY <1>5, <4>1, RunFacts
    <3>2. CharAt(q, 1) = q[1]
      BY <1>8 DEF CharAt
    <3>3. IsDigit(q[0 + 1])
      BY <3>1, <3>2
    <3> QED
      BY <1>8, <3>3
  <2>3. NondigitRun(q) = Least(Stop)
    BY DEF NondigitRun
  <2>4. Least(Stop) \in Nat /\ Least(Stop) <= 0
    <3> HIDE DEF Stop
    <3> QED
      BY <2>1, <2>2, LeastOfNaturals
  <2> HIDE DEF Stop
  <2> QED
    BY <2>3, <2>4
<1>10. Nondigits(q) = <<>>
  <2>1. Nondigits(q) = SubSeq(q, 1, 0)
    BY <1>9 DEF Nondigits
  <2>2. SubSeq(q, 1, 0) = <<>>
    BY <1>5 DEF Str
  <2> QED
    BY <2>1, <2>2
<1>11. Digits(q) = SubSeq(q, 1, n)
  <2>1. 0 + 1 = 1 /\ 0 + n = n
    BY <1>4
  <2>2. Digits(q) = SubSeq(q, 0 + 1, 0 + DigitRun(q, 0 + 1))
    BY <1>9 DEF Digits
  <2> QED
    BY ONLY <1>7, <2>1, <2>2
<1>12. SubSeq(q, 1, n) = SubSeq(s, a, b)
  <2>1. PICK u : u = SubSeq(q, 1, n)
    OBVIOUS
  <2>2. PICK v : v = SubSeq(s, a, b)
    OBVIOUS
  <2>3. PICK one : one = 1
    OBVIOUS
  <2>4. v \in Str /\ Len(v) = n /\ \A j \in 1..n : v[j] = s[a + j - 1]
    BY <1>2, <1>3, <1>4, <2>2, NumeralAt
  <2>5. u \in Str /\ Len(u) = n /\ \A j \in 1..n : u[j] = q[j]
    <3>1. one \in 1..Len(q) /\ n = one + DigitRun(q, one) - 1 /\ DigitRun(q, one) = n
      BY <1>4, <1>7, <1>8, <2>3
    <3>2. u = SubSeq(q, one, n)
      BY <2>1, <2>3
    <3>3. /\ u \in Str /\ Len(u) = DigitRun(q, one)
          /\ \A j \in 1..DigitRun(q, one) : u[j] = q[one + j - 1]
      BY <1>5, <3>1, <3>2, NumeralAt
    <3>4. \A j \in 1..n : one + j - 1 = j
      BY <1>4, <2>3
    <3> QED
      BY <3>1, <3>3, <3>4
  <2>6. n <= l - a + 1
    <3>1. PICK k : k = n - 1
      OBVIOUS
    <3>2. k \in 0..n - 1 /\ a + k \in Nat \ {0} /\ a \in Nat \ {0}
      BY <1>4, <3>1
    <3>3. IsDigit(CharAt(s, a + k))
      BY <1>3, <3>2, RunFacts
    <3>4. a + k <= Len(s)
      BY <3>2, <3>3, CharFacts
    <3> QED
      BY <1>2, <1>4, <3>1, <3>4
  <2>7. \A j \in 1..n : u[j] = v[j]
    <3>1. \A j \in 1..n : j \in 1..l - a + 1
      BY <1>4, <2>6
    <3> QED
      BY <1>5, <2>4, <2>5, <3>1
  <2>8. u = v
    BY <2>4, <2>5, <2>7, SameText DEF Str
  <2> QED
    BY <2>1, <2>2, <2>8
<1> QED
  BY <1>1, <1>8, <1>10, <1>11, <1>12

\* The first pair decides if it can.
LEMMA PairDecides ==
  ASSUME NEW p, NEW q, Len(p) \in Nat, Len(q) \in Nat, PairCmp(p, q) # 0
  PROVE  PartsCmp(p, q) = PairCmp(p, q)
<1>1. ASSUME NEW s PROVE WithoutPairs(s, 0) = s
  <2> DEFINE Left(f, i) == IF i = 0 THEN s ELSE Later(f[i - 1])
  <2>1. PICK left : left = CHOOSE f : f = [i \in 0..0 |-> Left(f, i)]
    OBVIOUS
  <2>2. WithoutPairs(s, 0) = left[0]
    BY <2>1 DEF WithoutPairs
  <2>3. \E f : f = [i \in 0..0 |-> Left(f, i)]
    <3> DEFINE g == [i \in 0..0 |-> s]
    <3>1. \A i \in 0..0 : Left(g, i) = s
      OBVIOUS
    <3>2. g = [i \in 0..0 |-> Left(g, i)]
      <4> HIDE DEF Left
      <4> QED
        BY <3>1
    <3> QED
      BY <3>2
  <2>4. left = [i \in 0..0 |-> Left(left, i)]
    <3> HIDE DEF Left
    <3> QED
      BY <2>1, <2>3
  <2>5. 0 \in 0..0
    OBVIOUS
  <2>6. left[0] = Left(left, 0)
    <3> HIDE DEF Left
    <3> QED
      BY <2>4, <2>5
  <2> QED
    BY <2>2, <2>6
<1> DEFINE At(n) == PairCmp(WithoutPairs(p, n), WithoutPairs(q, n))
           differ == {n \in 0..Len(p) + Len(q) : At(n) # 0}
<1>2. At(0) = PairCmp(p, q)
  BY <1>1
<1>3. PartsCmp(p, q) = IF differ = {} THEN 0 ELSE At(Least(differ))
  BY DEF PartsCmp
<1> HIDE DEF At
<1>4. differ \in SUBSET Nat /\ 0 \in differ
  BY <1>2
<1>5. Least(differ) = 0
  <2>1. Least(differ) \in Nat /\ Least(differ) <= 0
    <3> HIDE DEF differ
    <3> QED
      BY <1>4, LeastOfNaturals
  <2> HIDE DEF differ
  <2> QED
    BY <2>1
<1> HIDE DEF differ
<1>6. differ # {}
  BY <1>4
<1> QED
  BY <1>2, <1>3, <1>5, <1>6

\* Behind the epochs, what debcmp() decides is decided by the first numbers.
LEMMA RestNumbers ==
  ASSUME NEW s \in Str, NEW t \in Str, Legal(s), Legal(t), RestCmp(s, t) # 0,
         NoLeadingZeros(s), NoLeadingZeros(t)
  PROVE  RestCmp(s, t) = PartsCmp(BehindEpoch(s), BehindEpoch(t))
<1>1. PICK a : a = AfterEpoch(s)
  OBVIOUS
<1>2. PICK c : c = AfterEpoch(t)
  OBVIOUS
<1>3. PICK b : b = a + DigitRun(s, a) - 1
  OBVIOUS
<1>4. PICK d : d = c + DigitRun(t, c) - 1
  OBVIOUS
<1>5. PICK m : m = NumberOf(SubSeq(s, a, b))
  OBVIOUS
<1>6. PICK n : n = NumberOf(SubSeq(t, c, d))
  OBVIOUS
<1>7. /\ a \in 1..Len(s) /\ DigitRun(s, a) > 0 /\ (a = 1 \/ ~IsDigit(s[a - 1]))
      /\ c \in 1..Len(t) /\ DigitRun(t, c) > 0 /\ (c = 1 \/ ~IsDigit(t[c - 1]))
  BY <1>1, <1>2, LegalRest
<1>8. m \in Nat /\ n \in Nat
  BY <1>3, <1>4, <1>5, <1>6, <1>7, NumeralAt, NumberNatural
<1>9. RestCmp(s, t) = IF DigitRun(s, a) > DigitRun(t, c) THEN 1
                      ELSE IF DigitRun(s, a) < DigitRun(t, c) THEN -1 ELSE 0
  <2>1. a + 0 = a /\ c + 0 = c /\ 0 \in Nat
    BY <1>7
  <2>2. Rest(s, 0) = CharAt(s, a) /\ Run(s, 0) = DigitRun(s, a)
        /\ Run(t, 0) = DigitRun(t, c)
    BY <1>1, <1>2, <2>1 DEF Rest, Run
  <2>3. IsDigit(Rest(s, 0))
    <3>1. Run(s, 0) # 0
      BY <1>7, <2>2
    <3> QED
      BY <2>1, <3>1, RestFacts
  <2>4. Ends(s, t, 0)
    BY <2>1, <2>3, VerdictFacts
  <2>5. RestCmp(s, t) = Verdict(s, t, 0)
    BY <2>1, <2>4, FirstStop
  <2>6. Run(s, 0) \in Nat /\ Run(t, 0) \in Nat
    BY <2>1, RestFacts
  <2>7. Verdict(s, t, 0) = IF Run(s, 0) > Run(t, 0) THEN 1
                           ELSE IF Run(s, 0) < Run(t, 0) THEN -1 ELSE 0
    BY <2>3, <2>6 DEF Verdict
  <2> QED
    BY <2>2, <2>5, <2>7
<1>10. RestCmp(s, t) = Sign(m - n)
  <2>1. CASE DigitRun(s, a) > DigitRun(t, c)
    <3>1. m > n
      BY <1>3, <1>4, <1>5, <1>6, <1>7, <2>1, LongerRun
    <3>2. m - n > 0 /\ ~(m - n < 0)
      BY <1>8, <3>1
    <3> QED
      BY <1>9, <2>1, <3>2 DEF Sign
  <2>2. CASE DigitRun(s, a) < DigitRun(t, c) /\ ~(DigitRun(s, a) > DigitRun(t, c))
    <3>0. DigitRun(t, c) > DigitRun(s, a)
      <4>1. DigitRun(t, c) \in Nat /\ DigitRun(s, a) \in Nat
        <5>1. a \in Nat \ {0} /\ c \in Nat \ {0}
          BY <1>7
        <5> QED
          BY ONLY <5>1, RunFacts
      <4> QED
        BY <2>2, <4>1
    <3>1. n > m
      BY <1>3, <1>4, <1>5, <1>6, <1>7, <3>0, LongerRun
    <3>2. m - n < 0
      BY <1>8, <3>1
    <3> QED
      BY <1>9, <2>2, <3>2 DEF Sign
  <2> QED
    BY <1>9, <2>1, <2>2
<1>11. PICK p : p = BehindEpoch(s)
  OBVIOUS
<1>12. PICK q : q = BehindEpoch(t)
  OBVIOUS
<1>13. Len(p) \in Nat \ {0} /\ Nondigits(p) = <<>> /\ Digits(p) = SubSeq(s, a, b)
  BY <1>1, <1>3, <1>11, FirstPair
<1>14. Len(q) \in Nat \ {0} /\ Nondigits(q) = <<>> /\ Digits(q) = SubSeq(t, c, d)
  BY <1>2, <1>4, <1>12, FirstPair
<1>15. LexicalCmp(<<>>, <<>>) = 0
  <2>1. Len(<<>>) = 0 /\ ~(Len(<<>>) > Len(<<>>)) /\ 1..0 = {}
    OBVIOUS
  <2> QED
    BY <2>1 DEF LexicalCmp
<1>16. PairCmp(p, q) = Sign(m - n)
  BY <1>5, <1>6, <1>13, <1>14, <1>15 DEF PairCmp
<1>17. PairCmp(p, q) = RestCmp(s, t)
  BY <1>10, <1>16
<1>18. PartsCmp(p, q) = PairCmp(p, q)
  BY <1>13, <1>14, <1>17, PairDecides
<1> QED
  BY <1>11, <1>12, <1>17, <1>18

-----------------------------------------------------------------------------
(* The properties of VersionOrder.                                          *)

AreStrings == x \in Str /\ y \in Str /\ z \in Str

\* The strings stay strings.
LEMMA StringsStay == Strings => []AreStrings
<1>1. InitStrings => AreStrings
  BY DEF InitStrings, AreStrings, Str
<1>2. ASSUME AreStrings, [Grow]_<<x, y, z>> PROVE AreStrings'
  <2>1. \A s \in Str : \A c \in Alphabet : Append(s, c) \in Str
    BY OrderAssumption DEF Str
  <2> QED
    BY <1>2, <2>1 DEF AreStrings, Grow
<1> QED
  BY <1>1, <1>2, PTL DEF Strings

\* However long two strings are and whatever is in them, debcmp() is defined on both
\* orders of them or on none, and swapping them swaps the answer's sign.
THEOREM AntisymmetricCorrect == Strings => []Antisymmetric
<1>1. ASSUME AreStrings PROVE Antisymmetric
  <2>1. /\ Overruns(x, y) <=> Overruns(y, x)
        /\ ~Overruns(x, y) =>
             /\ Debcmp(x, y) \in Int /\ Debcmp(y, x) \in Int
             /\ Debcmp(x, y) < 0 <=> Debcmp(y, x) > 0
             /\ Debcmp(x, y) > 0 <=> Debcmp(y, x) < 0
    BY <1>1, DebcmpAntisymmetric DEF AreStrings
  <2> QED
    BY <2>1 DEF Antisymmetric, Defined, Sign
<1> QED
  BY <1>1, StringsStay, PTL

\* debcmp()'s order has no cycles among any three strings.
THEOREM TransitiveCorrect == Strings => []Transitive
<1>1. ASSUME AreStrings PROVE Transitive
  <2> SUFFICES ASSUME Defined(x, y), Defined(y, z), Debcmp(x, y) <= 0,
                      Debcmp(y, z) <= 0 \/ Debcmp(y, z) < 0
               PROVE  /\ Debcmp(x, z) <= 0
                      /\ Debcmp(y, z) < 0 => Debcmp(x, z) < 0
    BY DEF Transitive
  <2>1. ~Overruns(x, y) /\ ~Overruns(y, z) /\ x \in Str /\ y \in Str /\ z \in Str
    BY <1>1 DEF Defined, AreStrings
  <2>2. Debcmp(y, z) \in Int
    BY <2>1, DebcmpAntisymmetric
  <2>3. Debcmp(y, z) <= 0
    BY <2>2
  <2> QED
    BY <2>1, <2>3, DebcmpTransitive
<1> QED
  BY <1>1, StringsStay, PTL

\* Of two legal versions of any length, without leading zeros and without a written
\* epoch of zero, debcmp() never decides against deb-version(5), though it may leave
\* undecided what deb-version(5) decides.
THEOREM NeverInvertsCorrect == Strings => []NeverInverts
<1>1. ASSUME NEW s \in Str, NEW t \in Str, Legal(s), Legal(t), Debcmp(s, t) # 0,
             NoLeadingZeros(s), NoLeadingZeros(t), NoZeroEpoch(s), NoZeroEpoch(t)
      PROVE  Sign(Debcmp(s, t)) = PolicyCmp(s, t)
  <2>1. ASSUME RestCmp(s, t) # 0, Debcmp(s, t) = RestCmp(s, t), EpochNumber(s) = EpochNumber(t)
        PROVE  Sign(Debcmp(s, t)) = PolicyCmp(s, t)
    <3>1. PolicyCmp(s, t) = RestCmp(s, t)
      BY <1>1, <2>1, RestNumbers DEF PolicyCmp
    <3>2. RestCmp(s, t) \in {-1, 0, 1}
      <4>1. 0 \in Nat /\ IsDigit(Rest(s, 0))
        <5>1. AfterEpoch(s) \in Nat
          BY RestFacts
        <5>2. AfterEpoch(s) + 0 = AfterEpoch(s)
          BY <5>1
        <5> QED
          BY <1>1, <5>2 DEF Rest, Legal
      <4>2. Ends(s, t, 0)
        BY <4>1, VerdictFacts
      <4>3. RestCmp(s, t) = Verdict(s, t, 0)
        BY <4>1, <4>2, FirstStop
      <4> QED
        BY <4>1, <4>3 DEF Verdict
    <3>3. Sign(RestCmp(s, t)) = RestCmp(s, t)
      BY <3>2 DEF Sign
    <3> QED
      BY <2>1, <3>1, <3>3
  <2>2. ASSUME NEW q \in Str, Legal(q), NoLeadingZeros(q), NoZeroEpoch(q)
        PROVE  IF HasEpoch(q) THEN EpochNumber(q) \in Nat \ {0} ELSE EpochNumber(q) = 0
    <3>1. CASE HasEpoch(q)
      <4>1. EpochNumber(q) \in Nat
        BY <2>2, <3>1, EpochNumbers
      <4> QED
        BY <2>2, <3>1, <4>1 DEF NoZeroEpoch
    <3>2. CASE ~HasEpoch(q)
      BY <3>2 DEF EpochNumber
    <3> QED
      BY <3>1, <3>2
  <2>3. PICK m : m = EpochNumber(s)
    OBVIOUS
  <2>4. PICK n : n = EpochNumber(t)
    OBVIOUS
  <2>5. m # n => PolicyCmp(s, t) = Sign(m - n)
    BY <2>3, <2>4 DEF PolicyCmp
  <2>6. CASE HasEpoch(s) /\ ~HasEpoch(t)
    <3>1. Debcmp(s, t) = 1
      BY <2>6 DEF Debcmp
    <3>2. m \in Nat \ {0} /\ n = 0
      BY <1>1, <2>2, <2>3, <2>4, <2>6
    <3>3. m - n > 0 /\ ~(m - n < 0) /\ m # n
      BY <3>2
    <3> QED
      BY <2>5, <3>1, <3>3 DEF Sign
  <2>7. CASE ~HasEpoch(s) /\ HasEpoch(t)
    <3>1. Debcmp(s, t) = -1
      BY <2>7 DEF Debcmp
    <3>2. m = 0 /\ n \in Nat \ {0}
      BY <1>1, <2>2, <2>3, <2>4, <2>7
    <3>3. m - n < 0 /\ m # n
      BY <3>2
    <3> QED
      BY <2>5, <3>1, <3>3 DEF Sign
  <2>8. CASE ~HasEpoch(s) /\ ~HasEpoch(t)
    <3>1. Debcmp(s, t) = RestCmp(s, t)
      BY <2>8 DEF Debcmp
    <3>2. EpochNumber(s) = EpochNumber(t)
      BY <1>1, <2>2, <2>8
    <3> QED
      BY <1>1, <2>1, <3>1, <3>2
  <2>9. CASE HasEpoch(s) /\ HasEpoch(t)
    <3>1. /\ m \in Nat /\ n \in Nat /\ EpochCmp(s, t) \in {-1, 0, 1}
          /\ EpochCmp(s, t) = 1 => m > n
          /\ EpochCmp(s, t) = -1 => m < n
          /\ EpochCmp(s, t) = 0 => m = n
      BY <1>1, <2>3, <2>4, <2>9, EpochNumbers
    <3>2. CASE EpochCmp(s, t) = 0
      <4>1. Debcmp(s, t) = RestCmp(s, t)
        BY <2>9, <3>2 DEF Debcmp
      <4> QED
        BY <1>1, <2>1, <2>3, <2>4, <3>1, <3>2, <4>1
    <3>3. CASE EpochCmp(s, t) = 1
      <4>1. Debcmp(s, t) = 1
        BY <2>9, <3>3 DEF Debcmp
      <4>2. m - n > 0 /\ ~(m - n < 0) /\ m # n
        BY <3>1, <3>3
      <4> QED
        BY <2>5, <4>1, <4>2 DEF Sign
    <3>4. CASE EpochCmp(s, t) = -1
      <4>1. Debcmp(s, t) = -1
        BY <2>9, <3>4 DEF Debcmp
      <4>2. m - n < 0 /\ m # n
        BY <3>1, <3>4
      <4> QED
        BY <2>5, <4>1, <4>2 DEF Sign
    <3> QED
      BY <3>1, <3>2, <3>3, <3>4
  <2> QED
    BY <2>6, <2>7, <2>8, <2>9
<1>2. ASSUME AreStrings PROVE NeverInverts
  BY <1>1, <1>2 DEF AreStrings, NeverInverts, Agrees, Usual, Defined
<1> QED
  BY <1>2, StringsStay, PTL
=============================================================================
