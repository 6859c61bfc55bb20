SPECIFICATION Spec
CONSTANTS
  l1 = l1
  l2 = l2
  Lexers = {l1, l2}
  Names <- MCNames
  Inputs <- MCInputs
INVARIANTS TypeOK BegunOnce ListExact RefusedWhenMalformed ChainsMatchList RootsAreFirst
