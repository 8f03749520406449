CONSTANTS
  a = a b = b dom = dom Pairs = {a, b} DomainOf <- OneDomain Times = {0, 2}
  MaxLog = 2 MaxRecord = 2 MaxBatch = 2 MaxFaults = 2
  DetectAt = 3 MaxWindow = 3 Cut = 2 Expiration = 1 Interval = 1 PredictAt = 2 DropAt = 3
SPECIFICATION Spec
INVARIANTS TypeOK WindowIsRecentTraffic RequestsAreFullWindows StaleWindowsGo
CHECK_DEADLOCK FALSE
