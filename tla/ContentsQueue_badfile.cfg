\* A ".gz" file that is no gzip file, and no failure of the environment at all.
SPECIFICATION FairSpec
CONSTANTS
  Threads = {t1, t2}
  Dir <- DirAXZ
  BatchSize = 3
  Wanted <- MCWanted
  Shots <- MCShots
  Faults <- NoFaults
PROPERTIES EventuallyStops
