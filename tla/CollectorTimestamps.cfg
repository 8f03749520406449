CONSTANTS
  w1 = w1
  w2 = w2
  k1 = k1
  k2 = k2
  Workers = {w1}
  Keys = {k1, k2}
  Times = {1, 2}
  LogLength = 2
  BatchSize = 2
  FinalizerFlushes = FALSE
  MaxFaults = 0
  MaxReassigns = 0
SPECIFICATION Spec
SYMMETRY Symmetry
INVARIANTS
  TimestampsSpanPacket
CHECK_DEADLOCK FALSE
