SPECIFICATION FairSpec
CONSTANTS
  w1 = w1
  w2 = w2
  NoWorker = NoWorker
  Workers <- MCWorkers
  Rows <- TwoRows
  Children <- OneChild
  CfgBatchSize = 1
  CfgLeaseTTL = 2000
  CfgMaxAttempts = 2
  MaxLag = 1
  MaxFaults = 1
PROPERTIES Resolved
