CONSTANTS
  Markets <- MCMarkets
  Resident <- MCResident
  Identity <- MCIdentity
  m1 = m1
  m2 = m2
  DirtyCapacity = 1
  MaxRounds = 2
  StaleLoads = TRUE
  HalfWidth = 4
  MaxStoredScale = 3
  LevelCapacity = 1
  IdentityCapacity = 12
  EventCapacity = 1
  DirectoryCapacity = 2
  Outcomes = {4, 65}
SPECIFICATION CSpec
INVARIANTS
  ReadsAreExact
  NeverSilentlyBehind
  
