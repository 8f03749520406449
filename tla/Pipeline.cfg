CONSTANTS
  Generic = generic NoInspector = nobody
  p = p i = i d1 = d1 d2 = d2 l1 = l1 l2 = l2 l3 = l3 c1 = c1 c2 = c2 x = x
  Prefilters = {p} Inspectors = {i} Detectors = {d1, d2} Alerters = {generic}
  Lines = {l1, l2, l3} Relevant = {l1, l2}
  Client <- ClientOf Domain <- DomainOf Rank <- RankOf Collected <- Batches
  Configurations <- ChainedAndSingle
  BySource = {d1} ByDomain = {d2}
  MaxNamed = 1 MaxBatch = 2 MaxFaults = 1
SPECIFICATION FairSpec
INVARIANTS TypeOK HandedOnOrEnded NothingTwice RowsNameTheirBatch AlertsHaveCause
PROPERTIES Drained
CHECK_DEADLOCK FALSE
