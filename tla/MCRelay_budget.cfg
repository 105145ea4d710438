SPECIFICATION Spec
CONSTANTS
  w1 = w1
  w2 = w2
  NoWorker = NoWorker
  Workers <- MCWorkers
  Rows <- OneRow
  Children <- OneChild
  CfgBatchSize = 1
  CfgLeaseTTL = 1000
  CfgMaxAttempts = 1
  MaxLag = 0
  MaxFaults = 1
INVARIANTS RetryBudget
