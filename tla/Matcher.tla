------------------------------ MODULE Matcher -------------------------------
(***************************************************************************)
(* The search for a single pattern of src/lib/aac.c: bmgprepare() and its  *)
(* two tables, and the Boyer-Moore search bmg_against_nstring().  Strings  *)
(* are sequences of character codes; offsets are the code's, so that the   *)
(* character at offset z is pat[z + 1].  The tables hold an entry for each *)
(* of the first 128 codes and suppose a pattern of at least one character. *)
(***************************************************************************)
EXTENDS Integers, Sequences, FiniteSetsExt

\* delta1: how far the last place of c before the pattern's end is from there.
Delta1(pat, c) ==
  LET at == {z \in 0..Len(pat) - 2 : pat[z + 1] = c} IN
  IF at = {} THEN Len(pat) ELSE Len(pat) - 1 - Max(at)

\* The pattern from pos on is also its start.
PrefixAt(pat, pos) == SubSeq(pat, pos + 1, Len(pat)) = SubSeq(pat, 1, Len(pat) - pos)

\* How many characters that end at pos are the pattern's last ones; not the first of all.
SuffixLength(pat, pos) ==
  Min({z \in 0..pos : z = pos \/ pat[pos - z + 1] # pat[Len(pat) - z]})

\* Where a suffix of z characters ends again in the pattern, after another character.
Recurs(pat, z) ==
  {p \in 0..Len(pat) - 2 : SuffixLength(pat, p) = z /\ pat[p - z + 1] # pat[Len(pat) - z]}

\* Mutation: the pattern's periods are forgotten.
Delta2_NoPrefix(pat, j) ==
  LET last == Len(pat) - 1
      again == Recurs(pat, last - j)
  IN IF again # {} THEN last - Max(again) + last - j
     ELSE Len(pat) + last - j

\* delta2: the shift when the characters behind j match and the one at j does not.
Delta2(pat, j) ==
  LET last == Len(pat) - 1
      again == Recurs(pat, last - j)
  IN IF again # {} THEN last - Max(again) + last - j
     ELSE Min({q \in j + 1..Len(pat) : PrefixAt(pat, q)}) + last - j

\* How many of the pattern's last characters are found where its end is put at i.
Agreed(pat, s, i) ==
  Max({k \in 0..Len(pat) : \A d \in 0..k - 1 : s[i - d + 1] = pat[Len(pat) - d]})

\* bmg_against_nstring(): from[i] is the outer loop with the pattern's end at i.
BmgAgainst(pat, s) ==
  LET from[i \in Len(pat) - 1..Len(s) + 2 * Len(pat)] ==
        /\ i < Len(s)
        /\ LET k == Agreed(pat, s, i) IN
           \/ k = Len(pat)
           \/ from[i - k + Max({Delta1(pat, s[i - k + 1]), Delta2(pat, Len(pat) - 1 - k)})]
  IN from[Len(pat) - 1]

\* What the search is for.
Occurs(pat, s) == \E i \in 0..Len(s) - Len(pat) : SubSeq(s, i + 1, i + Len(pat)) = pat
=============================================================================
