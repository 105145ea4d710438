SPECIFICATION Spec
CONSTANTS
  w1 = w1
  w2 = w2
  NoWorker = NoWorker
  Workers <- MCWorkers
  Rows <- OneRow
  Children <- TwoChildren
  CfgBatchSize = 1
  CfgLeaseTTL = 2999
  CfgMaxAttempts = 2
  MaxLag = 1
  MaxFaults = 3
SYMMETRY WorkerSymmetry
INVARIANTS TypeOK SentDelivered LeaseColumns FailedExhausted AttemptFresh PublishedIsSent
PROPERTIES OwnerDecides LeaseNotStolen ImplementsPromise
