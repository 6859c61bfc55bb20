SPECIFICATION Spec
CONSTANTS
  Threads = {t1, t2, t3}
  Dir <- DirABCX
  BatchSize = 4
  Wanted <- MCWanted
  Shots <- MCShots
  Faults <- AllFaults
INVARIANTS TypeOK HoldupExact NoEarlyExit ExclusiveStreams LexedAtMostOnce CompleteOnSuccess
SYMMETRY ThreadSymmetry
