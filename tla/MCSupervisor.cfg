SPECIFICATION Spec
CONSTANTS
  Sockets <- TwoSockets
  Keys <- TwoPositions
  NoKey <- NoKeyValue
  Contents <- AllContents
  SizeOf <- UnitSize
  MaxEvidenceEntries = 2
  MaxEvidenceBytes = 4
  MaxProjectionBytes = 2
  Licences = {TRUE, FALSE}
  MaxRecoveryAttempts = 2
  Capacity = 1
  Generations = {1, 2, 3}
  ContentOf <- TwoDistinct
  Blank = Blank
  MaxTroubles = 1
INVARIANTS
  SlotsAreSound
  
PROPERTIES
  PoolLosesOnlyItsLast
CHECK_DEADLOCK FALSE
