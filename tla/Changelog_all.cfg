SPECIFICATION Spec
CONSTANTS
  Inputs <- MCInputs
INVARIANTS TypeOK EntriesExact EntriesApart FieldsClean EntriesReachable
