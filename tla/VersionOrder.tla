---------------------------- MODULE VersionOrder ----------------------------
(***************************************************************************)
(* What the callers of debcmp() build on, find_newest before all: that it  *)
(* orders versions, and not against the policy.  Three strings grow, one   *)
(* character at a time; at every stage they are compared.                  *)
(***************************************************************************)
EXTENDS VersionPolicy

CONSTANTS
  Alphabet,    \* the character codes tried
  MaxPair,     \* bound on the length of x and y
  MaxTriple    \* bound on the length of all three, when z is used

\* C's char may be negative; NUL ends a string.
ASSUME OrderAssumption ==
  Alphabet \subseteq Int \ {NUL} /\ MaxPair \in Nat /\ MaxTriple \in Nat

VARIABLES x, y, z

InitStrings == x = <<>> /\ y = <<>> /\ z = <<>>

\* Every triple is reached along one path only: x first, then y, then z.
Grow ==
  \E c \in Alphabet :
    \/ Len(x) < MaxPair /\ y = <<>> /\ z = <<>> /\ x' = Append(x, c) /\ UNCHANGED <<y, z>>
    \/ Len(y) < MaxPair /\ z = <<>> /\ y' = Append(y, c) /\ UNCHANGED <<x, z>>
    \/ Len(x) <= MaxTriple /\ Len(y) <= MaxTriple /\ Len(z) < MaxTriple
       /\ z' = Append(z, c) /\ UNCHANGED <<x, y>>

Strings == InitStrings /\ [][Grow]_<<x, y, z>>

Defined(d1, d2) == ~Overruns(d1, d2)

\* Swapping the arguments of debcmp() swaps the answer's sign.
Antisymmetric ==
  /\ Overruns(x, y) <=> Overruns(y, x)
  /\ Defined(x, y) => Sign(Debcmp(x, y)) = -Sign(Debcmp(y, x))

\* debcmp() orders versions without cycles: the answer of pkgcache_find_newest()
\* does not depend on the order in which it meets the packages.
Transitive ==
  Defined(x, y) /\ Defined(y, z) /\ Defined(x, z) =>
    /\ Debcmp(x, y) <= 0 /\ Debcmp(y, z) <= 0 => Debcmp(x, z) <= 0
    /\ Debcmp(x, y) <= 0 /\ Debcmp(y, z) < 0 => Debcmp(x, z) < 0

\* debcmp() does not decide against the policy, though it may fail to tell two apart.
Agrees == Defined(x, y) /\ Debcmp(x, y) # 0 => Sign(Debcmp(x, y)) = PolicyCmp(x, y)

\* On legal versions in the usual spelling, what debcmp() decides is what
\* deb-version(5) decides, epochs included.  In the other spellings it is not: see
\* FollowsPolicy of MCVersionCmp.
NeverInverts == Usual(x) /\ Usual(y) => Agrees
=============================================================================
