SPECIFICATION Spec
CONSTANTS
  Letters <- MCLetters
  Words <- MCWords
  Probes <- MCProbes
  Texts <- MCTexts
  Arrays <- MCArrays
  Labels <- MCLabels
  Lines <- MCLines
  Objects = {o1, o2}
  NoObject = null
  FirstAlloc = 2
  MaxCalls = 3
  Faults = {"space", "vtxarray", "grow", "edge", "strdup", "delta2"}
SYMMETRY ObjectSymmetry
CHECK_DEADLOCK FALSE
INVARIANTS TypeOK SearchExact SolePattern WalkInOrder BmgExact ReportsOccur LinesFound HeaderSkipped CutLosesOneLine StaleTailSilent
PROPERTIES ImplementsMap
