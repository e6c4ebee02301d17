CONSTANTS
  Markets = {m1, m2}
  DirtyCapacity = 2
  MaxRounds = 2
  StaleLoads = FALSE
SPECIFICATION Spec
INVARIANTS
  NoLostWake
CHECK_DEADLOCK FALSE
