CONSTANTS
  c1 = c1 c2 = c2 Containers = {c1, c2} Pool <- TwoAndOne Threads = 2 Declared = 2
  Configured = {2} Existing = {0, 2} AutoExpand = TRUE Tries = 1 MaxFaults = 1
SPECIFICATION FairSpec
INVARIANTS TypeOK WorkersFindTheirPartitions
PROPERTIES ContainersServe
CHECK_DEADLOCK FALSE
