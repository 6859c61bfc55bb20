---------------------------- MODULE VersionPolicy ----------------------------
(***************************************************************************)
(* The order of Debian version strings of deb-version(5), which the        *)
(* comment of versioncmp.c refers to and quotes (lines 20-37): the         *)
(* reference debcmp() is measured against.  Epochs compare as numbers,     *)
(* what follows in alternate parts without digits and parts of digits.     *)
(***************************************************************************)
EXTENDS VersionCmp

\* Tilde before everything, even the end of a part; letters before the rest.
Weight(c) == CASE c = Tilde -> -1 [] c = NUL -> 0 [] IsAlpha(c) -> c [] OTHER -> c + 256

\* A string without its first n characters.
Behind(s, n) == SubSeq(s, n + 1, Len(s))

NondigitRun(s) == Least({n \in 0..Len(s) : n = Len(s) \/ IsDigit(s[n + 1])})

LexicalCmp(d1, d2) ==
  LET n == IF Len(d1) > Len(d2) THEN Len(d1) ELSE Len(d2)
      differ == {i \in 1..n : Weight(CharAt(d1, i)) # Weight(CharAt(d2, i))}
  IN IF differ = {} THEN 0
     ELSE LET i == Least(differ) IN Sign(Weight(CharAt(d1, i)) - Weight(CharAt(d2, i)))

\* The number that the digits of s spell; 0 for none.
NumberOf(s) ==
  LET value[i \in 0..Len(s)] == IF i = 0 THEN 0 ELSE 10 * value[i - 1] + (s[i] - 48)
  IN value[Len(s)]

\* The first pair of parts: what comes before a digit, and the number behind it.
Nondigits(s) == SubSeq(s, 1, NondigitRun(s))
Digits(s) == SubSeq(s, NondigitRun(s) + 1, NondigitRun(s) + DigitRun(s, NondigitRun(s) + 1))
PairCmp(d1, d2) ==
  LET lexical == LexicalCmp(Nondigits(d1), Nondigits(d2))
  IN IF lexical # 0 THEN lexical ELSE Sign(NumberOf(Digits(d1)) - NumberOf(Digits(d2)))

\* A string without its first n pairs.
Later(s) == Behind(s, Len(Nondigits(s)) + Len(Digits(s)))
WithoutPairs(s, n) ==
  LET left[i \in 0..n] == IF i = 0 THEN s ELSE Later(left[i - 1]) IN left[n]

\* The first pair that differs decides.
PartsCmp(d1, d2) ==
  LET At(n) == PairCmp(WithoutPairs(d1, n), WithoutPairs(d2, n))
      differ == {n \in 0..Len(d1) + Len(d2) : At(n) # 0}
  IN IF differ = {} THEN 0 ELSE At(Least(differ))

\* An epoch is a number, and zero when it is missing.
EpochNumber(s) == IF HasEpoch(s) THEN NumberOf(SubSeq(s, 1, DigitRun(s, 1))) ELSE 0
BehindEpoch(s) == Behind(s, AfterEpoch(s) - 1)

PolicyCmp(d1, d2) ==
  IF EpochNumber(d1) # EpochNumber(d2) THEN Sign(EpochNumber(d1) - EpochNumber(d2))
                                       ELSE PartsCmp(BehindEpoch(d1), BehindEpoch(d2))

\* A version as deb-version(5) wants it: an epoch or none, then a digit.
Legal(s) ==
  /\ HasEpoch(s) => DigitRun(s, 1) > 0
  /\ IsDigit(CharAt(s, AfterEpoch(s)))

\* Two spellings that a legal version may have and the usual one has not: a number
\* of several digits that begins with 0, and an epoch of 0 that is written out.
NoLeadingZeros(s) ==
  \A i \in 1..Len(s) :
    s[i] = 48 /\ (i = 1 \/ ~IsDigit(s[i - 1])) => ~IsDigit(CharAt(s, i + 1))
NoZeroEpoch(s) == HasEpoch(s) => EpochNumber(s) # 0
Usual(s) == Legal(s) /\ NoLeadingZeros(s) /\ NoZeroEpoch(s)
=============================================================================
