----------------------------- MODULE VersionCmp -----------------------------
(***************************************************************************)
(* debcmp() of src/lib/versioncmp.c, the comparison of two Debian version  *)
(* strings by which find_newest and find_installed choose among packages.  *)
(* A string is the sequence of its character codes; reading it at its end  *)
(* yields NUL.  The code may read on past that NUL: Overruns says when.    *)
(***************************************************************************)
EXTENDS Integers, Sequences

NUL == 0
Colon == 58
Tilde == 126

IsDigit(c) == c \in 48..57
IsAlpha(c) == c \in (65..90) \cup (97..122)

CharAt(s, i) == IF i <= Len(s) THEN s[i] ELSE NUL

Least(S) == CHOOSE m \in S : \A n \in S : m <= n

\* Mutation: a tilde is older on the left side only.
Debccmp_OneSided(c1, c2) ==
  CASE c1 = Tilde /\ c2 # Tilde -> -1
    [] IsAlpha(c1) /\ ~IsAlpha(c2) -> 1
    [] IsAlpha(c2) /\ ~IsAlpha(c1) -> -1
    [] OTHER -> c1 - c2

\* The order of two characters; only the sign of the answer is ever used.
Debccmp(c1, c2) ==
  CASE c1 = Tilde /\ c2 # Tilde -> -1
    [] c2 = Tilde /\ c1 # Tilde -> 1
    [] IsAlpha(c1) /\ ~IsAlpha(c2) -> 1
    [] IsAlpha(c2) /\ ~IsAlpha(c1) -> -1
    [] OTHER -> c1 - c2

\* Digits of s from position i on.
DigitRun(s, i) == Least({n \in 0..Len(s) : ~IsDigit(CharAt(s, i + n))})

\* Digits before a colon, if the string starts with an epoch.
HasEpoch(s) == CharAt(s, DigitRun(s, 1) + 1) = Colon
AfterEpoch(s) == IF HasEpoch(s) THEN DigitRun(s, 1) + 2 ELSE 1

\* Two epochs: the longer one is newer; of equal length, the first difference counts.
EpochCmp(d1, d2) ==
  LET n1 == DigitRun(d1, 1)
      n2 == DigitRun(d2, 1)
      differ == {i \in 1..n1 : d1[i] # d2[i]}
  IN CASE n1 > n2 -> 1
       [] n1 < n2 -> -1
       [] n1 = n2 /\ differ = {} -> 0
       [] n1 = n2 /\ differ # {} -> IF d1[Least(differ)] < d2[Least(differ)] THEN -1 ELSE 1

\* The parts after the epochs: step over equal characters until one is a digit.
\* Stop is the offset at which that walk ends, when it ends inside the strings.
Ends(d1, d2, k) ==
  LET c1 == CharAt(d1, AfterEpoch(d1) + k)
      c2 == CharAt(d2, AfterEpoch(d2) + k)
  IN IsDigit(c1) \/ IsDigit(c2) \/ Debccmp(c1, c2) # 0
Stops(d1, d2) == {k \in 0..Len(d1) : Ends(d1, d2, k)}

\* Neither a digit nor a difference up to both NULs: the walk leaves the strings.
Overruns(d1, d2) == (HasEpoch(d1) <=> HasEpoch(d2)) /\ Stops(d1, d2) = {}
                    /\ (HasEpoch(d1) => EpochCmp(d1, d2) = 0)

RestCmp(d1, d2) ==
  LET k == Least(Stops(d1, d2))
      i1 == AfterEpoch(d1) + k
      i2 == AfterEpoch(d2) + k
      n1 == DigitRun(d1, i1)
      n2 == DigitRun(d2, i2)
  IN IF IsDigit(CharAt(d1, i1)) \/ IsDigit(CharAt(d2, i2))
       THEN CASE n1 > n2 -> 1 [] n1 < n2 -> -1 [] OTHER -> 0
       ELSE Debccmp(CharAt(d1, i1), CharAt(d2, i2))

\* Mutation: an epoch on one side only is passed over.
Debcmp_EpochPassed(d1, d2) ==
  IF HasEpoch(d1) /\ HasEpoch(d2) /\ EpochCmp(d1, d2) # 0 THEN EpochCmp(d1, d2)
                                                          ELSE RestCmp(d1, d2)

\* debcmp() where it does not overrun.
Debcmp(d1, d2) ==
  CASE HasEpoch(d1) /\ ~HasEpoch(d2) -> 1
    [] ~HasEpoch(d1) /\ HasEpoch(d2) -> -1
    [] ~HasEpoch(d1) /\ ~HasEpoch(d2) -> RestCmp(d1, d2)
    [] HasEpoch(d1) /\ HasEpoch(d2) ->
         IF EpochCmp(d1, d2) # 0 THEN EpochCmp(d1, d2) ELSE RestCmp(d1, d2)

Sign(n) == IF n < 0 THEN -1 ELSE IF n > 0 THEN 1 ELSE 0
=============================================================================
