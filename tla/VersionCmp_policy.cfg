SPECIFICATION Strings
CONSTANTS
  Alphabet = {48, 49, 50, 58}
  MaxPair = 3
  MaxTriple = 0
INVARIANTS FollowsPolicy
CHECK_DEADLOCK FALSE
