\* The directory does not fit into one buffer of the directory stream.
SPECIFICATION Spec
CONSTANTS
  Threads = {t1, t2}
  Dir <- DirABCX
  BatchSize = 2
  Wanted <- MCWanted
  Shots <- MCShots
  Faults <- NoFaults
INVARIANTS CompleteOnSuccess
