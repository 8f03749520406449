CONSTANTS
  w1 = w1
  w2 = w2
  p1 = p1
  p2 = p2
  t1 = t1
  t2 = t2
  t3 = t3
  Workers = {w1}
  Partitions = {p1, p2}
  ProducerIds = {t1, t2}
  LogLength = 2
  BatchSize = 2
  SwallowErrors = FALSE
  MaxFaults = 2
  MaxRebalances = 6
SPECIFICATION FairSpec
PROPERTIES
  LogIsWorkedOff
CHECK_DEADLOCK FALSE
