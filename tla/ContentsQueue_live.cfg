SPECIFICATION FairSpec
CONSTANTS
  Threads = {t1, t2}
  Dir <- DirABCX
  BatchSize = 4
  Wanted <- MCWanted
  Shots <- MCShots
  Faults <- CleanFaults
PROPERTIES EventuallyStops ImplementsScan
