----------------------------- MODULE PatternMap -----------------------------
(***************************************************************************)
(* What augment_dfa() of src/lib/aac.c promises to its callers: the dfa is *)
(* a map from patterns to objects that only grows.  A call enters its      *)
(* pattern and returns 0, or returns -1 and changes nothing; it refuses a  *)
(* pattern that is there already and the null object, and otherwise only   *)
(* for want of memory.                                                     *)
(***************************************************************************)
EXTENDS Integers

CONSTANTS Words, Objects, NoObject

VARIABLES
  patterns,  \* the map
  answer     \* the last call and what it returned

vars == <<patterns, answer>>

Answer(w, o, starved, ret) == [str |-> w, val |-> o, starved |-> starved, ret |-> ret]

Init ==
  /\ patterns = <<>>
  /\ answer = Answer(<<>>, NoObject, FALSE, 0)

Enter(w, o) ==
  /\ answer' = Answer(w, o, FALSE, 0)
  /\ w \notin DOMAIN patterns /\ o # NoObject
  /\ patterns' = [x \in DOMAIN patterns \cup {w} |-> IF x = w THEN o ELSE patterns[x]]

Refuse(w, o, starved) ==
  /\ answer' = Answer(w, o, starved, -1)
  /\ o = NoObject \/ starved \/ w \in DOMAIN patterns
  /\ UNCHANGED patterns

Next == \E w \in Words, o \in Objects \cup {NoObject} :
  Enter(w, o) \/ \E starved \in BOOLEAN : Refuse(w, o, starved)

Spec == Init /\ [][Next]_vars
=============================================================================
