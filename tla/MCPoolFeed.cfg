CONSTANTS
  Sockets <- MCSockets
  Keys <- MCKeys
  NoKey <- MCNoKey
  Contents <- MCContents
  SizeOf <- MCSizeOf
  MaxEvidenceEntries = 2
  MaxEvidenceBytes = 3
  MaxProjectionBytes = 2
  MaxJudged = 4
  Vacant = Vacant
  Blank = Blank
SPECIFICATION Spec
INVARIANTS
  BookkeepingIsExact
  HistoryFollowsConnection
PROPERTIES
  KeyNeverRewinds
