SPECIFICATION Spec
CONSTANTS
  Inputs <- MCInputs
INVARIANTS ChangesWhole
