CONSTANTS
  w1 = w1 w2 = w2 Workers = {w1, w2} None = none Settings <- Retentions
  LogLength = 2 MaxBatch = 2 LastDay = 2 MaxFaults = 1
SYMMETRY Symmetry
SPECIFICATION Spec
INVARIANTS TypeOK RetainedAsConfigured OneLineMorePerFault ForwardedOnceAndLogged
PROPERTIES ImplementsAtLeastOnce
CHECK_DEADLOCK FALSE
