SPECIFICATION FairSpec
CHECK_DEADLOCK FALSE
CONSTANTS
  c1 = c1
  c2 = c2
  c3 = c3
  m1 = m1
  m2 = m2
  m3 = m3
  k1 = k1
  k2 = k2
  d1 = d1
  d2 = d2
  h1 = h1
  h2 = h2
  x = x
  y = y
  NoMem = NoMem
  NoKey = NoKey
  NoRec = NoRec
  NoEntry = NoEntry
  Blank = Blank
  Clients <- TwoClients
  Mems <- MCMems
  Keys <- MCKeys
  DKeys <- TwoDKeys
  Values <- MCValues
  Seed <- TwoEpisodic
  Joined <- SameHash
  Requests <- Crossed
  Appends <- Nothing
  Saves <- Nothing
  MaxOps = 4
INVARIANTS OnlyAccessesDeadlock
PROPERTIES Terminates
