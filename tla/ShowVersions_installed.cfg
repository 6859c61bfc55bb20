SPECIFICATION ShowSpec
CONSTANTS
  Threads = {t1, t2}
  Dir <- MCDir
  BatchSize = 4
  Lists <- MCLists
  Packages <- MCPackages
  Suspects = {}
  Faults = {}
  VersionOf <- MCVersionOf
  WalkOrder <- MCWalkOrder
  Calls <- InstalledCalls
  PrintFails = FALSE
INVARIANTS InstalledSummarised
