CONSTANTS
  w1 = w1
  w2 = w2
  k1 = k1
  k2 = k2
  Workers = {w1, w2}
  Keys = {k1, k2}
  Times = {1}
  LogLength = 3
  BatchSize = 2
  FinalizerFlushes = FALSE
  MaxFaults = 2
  MaxReassigns = 1
SPECIFICATION Spec
SYMMETRY Symmetry
INVARIANTS
  TypeOK
  EachLineSentOnce
  ContextIsOneFetchOld
CHECK_DEADLOCK FALSE
