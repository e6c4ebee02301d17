SPECIFICATION FairSpec
CONSTANTS
  Sockets <- TwoSockets
  Keys <- OnePosition
  NoKey <- NoKeyValue
  Contents <- AllContents
  SizeOf <- UnitSize
  MaxEvidenceEntries = 2
  MaxEvidenceBytes = 4
  MaxProjectionBytes = 2
  Licences = {FALSE}
  MaxRecoveryAttempts = 2
  Capacity = 1
  Generations = {1, 2, 3}
  ContentOf <- Only
  Blank = Blank
  MaxTroubles = 2
INVARIANTS
  SlotsAreSound
PROPERTIES
  StaleIsResolved
CHECK_DEADLOCK FALSE
