SPECIFICATION Strings
CONSTANTS
  Alphabet = {43, 48, 49, 58, 97, 126}
  MaxPair = 3
  MaxTriple = 2
INVARIANTS Antisymmetric Transitive NeverInverts
CHECK_DEADLOCK FALSE
