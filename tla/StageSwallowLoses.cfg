CONSTANTS
  w1 = w1
  w2 = w2
  p1 = p1
  p2 = p2
  t1 = t1
  t2 = t2
  t3 = t3
  Workers = {w1, w2}
  Partitions = {p1}
  ProducerIds = {t1, t2, t3}
  LogLength = 2
  BatchSize = 2
  SwallowErrors = TRUE
  MaxFaults = 2
  MaxRebalances = 3
SPECIFICATION Spec
SYMMETRY Symmetry
INVARIANTS
  AppliedExactlyOnce
CHECK_DEADLOCK FALSE
