CONSTANTS
  w1 = w1
  w2 = w2
  t1 = t1
  t2 = t2
  none = none
  Workers = {w1, w2}
  Tables = {t1, t2}
  LogLength = 2
  BatchSize = 3
  TableBatch = 2
  Invalid <- OneInvalid
  FetchRaises = FALSE
  NoOne = none
  MaxFaults = 1
  MaxRevokes = 1
SPECIFICATION FairSpec
INVARIANTS
  TypeOK
  NothingLost
PROPERTIES
  ImplementsAtLeastOnce
  EverythingArrives
CHECK_DEADLOCK FALSE
