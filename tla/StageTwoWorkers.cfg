CONSTANTS
  w1 = w1
  w2 = w2
  p1 = p1
  p2 = p2
  t1 = t1
  t2 = t2
  t3 = t3
  Workers = {w1, w2}
  Partitions = {p1}
  ProducerIds = {t1, t2, t3}
  LogLength = 2
  BatchSize = 2
  SwallowErrors = FALSE
  MaxFaults = 1
  MaxRebalances = 4
SPECIFICATION Spec
SYMMETRY Symmetry
INVARIANTS
  TypeOK
  AppliedExactlyOnce
  TransactionCarriesCurrentBatch
  OneUndecidedPerPartition
  SettledBeforeConsuming
PROPERTIES
  OffsetsNeverMoveBack
  ImplementsExactlyOnce
CHECK_DEADLOCK FALSE
