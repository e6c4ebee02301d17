SPECIFICATION FairSpec
CONSTANTS
  Sockets <- TwoSockets
  Keys <- Positions
  NoKey <- NoKeyValue
  Contents <- Positions
  SizeOf <- UnitSize
  MaxEvidenceEntries = 2
  MaxEvidenceBytes = 4
  MaxProjectionBytes = 2
  Slugs <- Markets
  Deployments <- All
  MaxMarkets = 2
  MaxRemoving = 1
  MaxRecoveryAttempts = 1
  NoBook = NoBook
  NoGate = NoGate
  Generations = {1, 2, 3}
  Batches <- OneOrBoth
  MaxCommands = 2
  MaxTroubles = 1
INVARIANTS
  
  WiresFollowDesired
  TrackedIsRecomputed
  SegmentMirrorsBooks
PROPERTIES
  StreamNeverReused
  OverIsConcluded
CHECK_DEADLOCK FALSE
