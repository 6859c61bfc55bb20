SPECIFICATION ShowSpec
CONSTANTS
  Threads = {t1, t2, t3}
  Dir <- MCDir
  BatchSize = 4
  Lists <- MCLists
  Packages <- MCPackages
  Suspects = {"q"}
  Faults = {"cache", "opendir", "spawn", "join", "closedir", "readdir", "mapit", "strndup"}
  VersionOf <- MCVersionOf
  WalkOrder <- MCWalkOrder
  Calls <- MCCalls
  PrintFails = TRUE
INVARIANTS TypeOK EveryListOnce ChainsComplete FileOrderKept SummariesTrue AllVersionsListed
