SPECIFICATION Spec
CHECK_DEADLOCK FALSE
CONSTANTS
  c1 = c1
  c2 = c2
  m1 = m1
  k1 = k1
  x = x
  NoMem = NoMem
  NoKey = NoKey
  NoRec = NoRec
  NoEntry = NoEntry
  Blank = Blank
  NoWorker = NoWorker
  Clients <- TwoClients
  Mems <- OneMem
  Keys <- OneKey
  DKeys <- Nothing
  Values <- MCValues
  Seed <- OneWorking
  Joined <- NoneJoined
  Requests <- Changes
  Appends <- Nothing
  Saves <- Nothing
  MaxOps = 3
  Workers <- TwoWorkers
  Children <- OneChild
  CfgBatchSize = 1
  CfgLeaseTTL = 1000
  CfgMaxAttempts = 2
  MaxLag = 0
  MaxFaults = 1
SYMMETRY ClientSymmetry
INVARIANTS PublishedIsCommitted ConsumerConverges CausalOrder
